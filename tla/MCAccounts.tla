---------------------------- MODULE MCAccounts ----------------------------
(***************************************************************************)
(* Small instances of Accounts: of two seeded organizations one is         *)
(* approved and the other waits for its review; the username of the second *)
(* looks like an email, and so may those of the users who register.        *)
(***************************************************************************)
EXTENDS Accounts, TLC

CONSTANTS careorg, neworg, n1, n2, n3, e1, e2, e3

MCUsers ==
  [u \in {careorg, neworg} |->
     IF u = careorg THEN [username |-> n1, email |-> e1, role |-> "org"]
                    ELSE [username |-> e3, email |-> e2, role |-> "org"]]
MCOrganizations ==
  [u \in {careorg, neworg} |-> IF u = careorg THEN "approved" ELSE "pending"]

RequestSymmetry == Permutations(Requests)
=============================================================================
