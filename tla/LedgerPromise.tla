---------------------------- MODULE LedgerPromise ----------------------------
(***************************************************************************)
(* What the four tables promise to whoever reads them, without requests,   *)
(* copies, locks or connections: every change is one atomic step, each     *)
(* request adds at most one row to donations and to reviews, and an amount *)
(* that is saved counts some of the donations recorded so far, each once   *)
(* and to within a cent, though it may be an old one and leave others out. *)
(***************************************************************************)
EXTENDS Money

CONSTANTS Requests, Users, Projects, InitialProjects, InitialUsers, Amounts, Names, NoName

VARIABLES projects, users, donations, reviews
vars == <<projects, users, donations, reviews>>

\* The amounts the rows of a project and of a user may hold.
GiftsTo(p) == {d \in donations : d.projectId = p}
GiftsBy(u) == {d \in donations : d.userId = u}
Raised(p) == Credits(InitialProjects[p].currentAmount, GiftsTo(p), GiftsTo(p))
Given(u) == Credits(InitialUsers[u].totalDonation, GiftsBy(u), GiftsBy(u))

\* What a donation of a makes of an amount c: the cents the donations table
\* shows are added, about half a cent to within one.
Plus(c, a) == Near(c + Dec(a), IF HalfCent(a) THEN 1 ELSE 0)

Init ==
  /\ projects = InitialProjects
  /\ users = InitialUsers
  /\ donations = {}
  /\ reviews = {}

\* A donation of a is recorded and credited to p and u, on top of amounts that
\* may be out of date; p is completed only if that reaches its target.
Donate(r, u, p, a) ==
  /\ \A d \in donations : d.request # r
  /\ donations' = donations \cup
       {[request |-> r, userId |-> u, projectId |-> p, amount |-> Dec(a)]}
  /\ UNCHANGED reviews
  /\ \E c \in Raised(p), s \in {"approved", "completed"} : \E x \in Plus(c, a) :
       /\ s = "completed" => x >= projects[p].targetAmount
       /\ projects' = [projects EXCEPT ![p] =
                         [@ EXCEPT !.currentAmount = x, !.status = s]]
  /\ \E t \in Given(u), n \in Names \cup {NoName} : \E y \in Plus(t, a) :
       users' = [users EXCEPT ![u] = [totalDonation |-> y, realName |-> n]]

\* A verdict is given; an amount read earlier may come back with it.
Review(p) ==
  /\ UNCHANGED <<users, donations, reviews>>
  /\ \E c \in Raised(p), s \in {"approved", "rejected"} :
       projects' = [projects EXCEPT ![p] = [@ EXCEPT !.currentAmount = c, !.status = s]]

\* A review is recorded.
Record(r, p) ==
  /\ \A v \in reviews : v.request # r
  /\ \E s \in {"approved", "rejected"} :
       reviews' = reviews \cup {[request |-> r, projectId |-> p, status |-> s]}
  /\ UNCHANGED <<projects, users, donations>>

\* A profile changes; a total read earlier may come back with it.
Rename(u) ==
  /\ UNCHANGED <<projects, donations, reviews>>
  /\ \E t \in Given(u), n \in Names \cup {NoName} :
       users' = [users EXCEPT ![u] = [totalDonation |-> t, realName |-> n]]

\* A step changes something; what changes nothing is a stutter.
Next ==
  /\ vars' # vars
  /\ \/ \E r \in Requests, u \in Users, p \in Projects, a \in Amounts : Donate(r, u, p, a)
     \/ \E p \in Projects : Review(p)
     \/ \E r \in Requests, p \in Projects : Record(r, p)
     \/ \E u \in Users : Rename(u)

Spec == Init /\ [][Next]_vars
==============================================================================
