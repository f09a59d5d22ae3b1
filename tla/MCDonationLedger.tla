-------------------------- MODULE MCDonationLedger --------------------------
(***************************************************************************)
(* Small instances of DonationLedger for TLC: the tables when the requests *)
(* arrive, and the symmetry of the requests.  Amounts are mills, so a      *)
(* target of 30 is three cents.                                            *)
(***************************************************************************)
EXTENDS DonationLedger, TLC

CONSTANTS p1, p2, u1, u2

MCOwner == [p \in Projects |-> u1]

\* p1 is open and two cents short of its target; p2 waits for its review.
MCProjects ==
  [p \in Projects |->
     [currentAmount |-> IF p = p1 THEN 10 ELSE 0,
      targetAmount |-> 30,
      status |-> IF p = p1 THEN "approved" ELSE "pending"]]

\* u1 has given before, u2 has not.
MCUsers ==
  [u \in Users |-> [totalDonation |-> IF u = u1 THEN 50 ELSE 0, realName |-> NoName]]

RequestSymmetry == Permutations(Requests)
=============================================================================
