---------------------------- MODULE MCPublicPages ----------------------------
(***************************************************************************)
(* A small instance of PublicPages: two projects of two categories, one on *)
(* a page; a user, who is ranked, and an organization, which is not.       *)
(***************************************************************************)
EXTENDS PublicPages

CONSTANTS u1, org

MCCategory == [p \in Projects |-> IF p = 2 THEN "elderly" ELSE "medical"]
MCRole == [u \in Users |-> IF u = org THEN "org" ELSE "user"]
MCHours == [u \in Users |-> IF u = u1 THEN 1 ELSE 0]
==============================================================================
