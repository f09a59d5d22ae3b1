--------------------------- MODULE MCBrowserSession ---------------------------
(***************************************************************************)
(* A small instance of BrowserSession: an administrator and an             *)
(* organization on the same computer, each of whom logs in once.           *)
(***************************************************************************)
EXTENDS BrowserSession, TLC

CONSTANTS admin, org, k1, k2

MCRole == [a \in Accounts |-> IF a = admin THEN "admin" ELSE "org"]
MCOwner == [k \in Tokens |-> IF k = k1 THEN admin ELSE org]

BrowserSymmetry == Permutations(Tabs) \cup Permutations(CallIds)
=============================================================================
