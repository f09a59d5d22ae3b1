--------------------------- MODULE MCDonationDialog ---------------------------
(***************************************************************************)
(* A small instance of DonationDialog: two projects and as many gifts as   *)
(* the page lists.  Each project opens with an amount of its own.          *)
(***************************************************************************)
EXTENDS DonationDialog, TLC

MCOpening == [p \in Projects |-> {"opening"}]

DialogSymmetry == Permutations(Gifts) \cup Permutations(Projects)
=============================================================================
