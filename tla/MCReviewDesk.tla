---------------------------- MODULE MCReviewDesk ----------------------------
(***************************************************************************)
(* A small instance of ReviewDesk: one organization that awaits its review *)
(* and posts one project and one report on it.                             *)
(***************************************************************************)
EXTENDS ReviewDesk

CONSTANTS o1, p1

MCOf == [p \in Projects |-> o1]
MCReports == {[by |-> o1, about |-> p1]}
=============================================================================
