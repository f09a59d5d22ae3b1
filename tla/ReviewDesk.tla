----------------------------- MODULE ReviewDesk -----------------------------
(***************************************************************************)
(* How a project comes to be listed, seen from the browsers: the forms of  *)
(* an organization's user (CreateProject, CreateUpdate) and the desk of an *)
(* administrator (Admin), who reviews organizations and projects from      *)
(* lists that are read when the desk opens and after every review.  Other  *)
(* administrators and the donors work on the same items.                   *)
(***************************************************************************)
EXTENDS Naturals, FiniteSets

CONSTANTS
  Projects, Organizations,
  Of,                    \* the organization whose user posts a project
  Reports,               \* bound: the progress reports that are posted
  MaxLoads, MaxReviews,  \* bounds: what the desk waits for at once
  None

Items == Projects \cup Organizations
Papers == Projects \cup Reports

ASSUME ItemsAssumption == Projects \cap Organizations = {} /\ Of \in [Projects -> Organizations]
ASSUME ReportsAssumption ==
  Reports \subseteq [by: Organizations, about: Projects] /\ Reports \cap Projects = {}
ASSUME BoundsAssumption == {MaxLoads, MaxReviews} \subseteq Nat

VARIABLES
  status,         \* of every project and organization
  form,           \* what the user of each organization has open
  post,           \* what became of each paper that was posted
  taken,          \* the papers the server stored
  listed,         \* the pending items on the desk
  loads, reviews, \* what the desk waits for
  fresh,          \* history: the lists answer the desk's last load
  reviewed,       \* history: the items the desk reported as reviewed
  excused         \* history: the desk did not wait, or saw something fail, or was
                  \*   refreshed under a review

forms == <<form, post, taken>>
desk == <<listed, loads, reviews, fresh, reviewed, excused>>
vars == <<status, forms, desk>>

Kinds == {"project", "organization"}
Verdicts == {"approved", "rejected"}
Drafts == [page: {"project", "report"}, busy: BOOLEAN]
FormStates == Drafts \cup {None}

ASSUME NoneAssumption == None \notin Drafts

\* A post is awaited by its form, or by nobody since its user left; it was
\* given up, while the form was there or after; or it came to an end.
PostStates == {"none", "waiting", "left", "lost", "gone", "refused", "done"}
Loads == [newest: BOOLEAN, got: [Kinds -> (SUBSET Items) \cup {None}]]
Reviews == [item: Items, verdict: Verdicts, saved: BOOLEAN, waited: BOOLEAN]

Init ==
  /\ status = [i \in Items |-> IF i \in Organizations THEN "pending" ELSE "none"]
  /\ form = [o \in Organizations |-> None]
  /\ post = [x \in Papers |-> "none"]
  /\ taken = {}
  /\ listed = {}
  /\ loads = {}
  /\ reviews = {}
  /\ fresh = FALSE
  /\ reviewed = {}
  /\ excused = FALSE

-----------------------------------------------------------------------------
(* The forms.                                                              *)

Kind(x) == IF x \in Projects THEN "project" ELSE "report"
By(x) == IF x \in Projects THEN Of[x] ELSE x.by

\* What became of o's posts when its form goes.
Unmounted(o) ==
  [x \in Papers |-> IF By(x) # o THEN post[x]
                  ELSE CASE post[x] = "waiting" -> "left"
                         [] post[x] = "lost" -> "gone"
                         [] OTHER -> post[x]]

OpenForm(o) ==
  /\ form[o] = None
  /\ \E x \in Papers : By(x) = o /\ form' = [form EXCEPT ![o] = [page |-> Kind(x), busy |-> FALSE]]
  /\ UNCHANGED <<status, post, taken, desk>>

\* The button that cancels, or any link.
LeaveForm(o) ==
  /\ form[o] # None
  /\ form' = [form EXCEPT ![o] = None]
  /\ post' = Unmounted(o)
  /\ UNCHANGED <<status, taken, desk>>

\* handleSubmit of both forms, up to the await.  A report may be about any
\* project: the address of the form can name one that its list does not.
Submit(x) ==
  /\ form[By(x)] = [page |-> Kind(x), busy |-> FALSE]
  /\ post[x] = "none"
  /\ x \in Reports => status[x.about] # "none"
  /\ form' = [form EXCEPT ![By(x)].busy = TRUE]
  /\ post' = [post EXCEPT ![x] = "waiting"]
  /\ UNCHANGED <<status, taken, desk>>

\* The types of what a form sends, and of the fields its handler binds.
Sent(x) == [title |-> "string", images |-> IF x \in Reports THEN "array" ELSE "none"]
Bound(x) == [title |-> "string", images |-> IF x \in Reports THEN "string" ELSE "none"]

Acceptable(x) ==
  /\ Sent(x) = Bound(x)
  /\ IF x \in Projects THEN status[Of[x]] = "approved" ELSE Of[x.about] = x.by

\* The server stores a paper, also when its user has given up by then.
Store(x) ==
  /\ post[x] \in {"waiting", "left", "lost", "gone"}
  /\ x \notin taken
  /\ Acceptable(x)
  /\ taken' = taken \cup {x}
  /\ status' = IF x \in Projects THEN [status EXCEPT ![x] = "pending"] ELSE status
  /\ UNCHANGED <<form, post, desk>>

Awaited(x) == post[x] \in {"waiting", "left"}

\* Success leads to another page, from wherever its user is by now.
Succeed(x) ==
  /\ Awaited(x)
  /\ x \in taken
  /\ form' = [form EXCEPT ![By(x)] = None]
  /\ post' = [Unmounted(By(x)) EXCEPT ![x] = "done"]
  /\ UNCHANGED <<status, taken, desk>>

\* A failure leaves the form as it was, to be sent again.
Freed_Any(x) ==                      \* mutant: whatever form there is by now
  IF form[By(x)] = None THEN form ELSE [form EXCEPT ![By(x)].busy = FALSE]
Freed(x) == IF post[x] = "waiting" THEN [form EXCEPT ![By(x)].busy = FALSE] ELSE form

Refuse(x) ==
  /\ Awaited(x)
  /\ x \notin taken
  /\ ~Acceptable(x)
  /\ form' = Freed(x)
  /\ post' = [post EXCEPT ![x] = "refused"]
  /\ UNCHANGED <<status, taken, desk>>

\* No answer within ten seconds, or none at all.
GiveUp(x) ==
  /\ Awaited(x)
  /\ form' = Freed(x)
  /\ post' = [post EXCEPT ![x] = IF @ = "waiting" THEN "lost" ELSE "gone"]
  /\ UNCHANGED <<status, taken, desk>>

-----------------------------------------------------------------------------
(* The desk.                                                               *)

OfKind(k) == IF k = "project" THEN Projects ELSE Organizations

\* loadPendingItems, beside the loads kept in flight.
LoadPendingItems(kept) ==
  /\ Cardinality(kept) < MaxLoads
  /\ loads' = {[c EXCEPT !.newest = FALSE] : c \in kept} \cup
       {[newest |-> TRUE, got |-> [k \in Kinds |-> None]]}
  /\ fresh' = FALSE

\* The desk is opened, or opened anew: nothing is waited for any more.
OpenDesk ==
  /\ listed' = {}
  /\ LoadPendingItems({})
  /\ reviews' = {[r EXCEPT !.waited = FALSE] : r \in {q \in reviews : ~q.saved}}
  /\ excused' = (excused \/ reviews # {})
  /\ UNCHANGED <<status, forms, reviewed>>

\* The browser reads its account anew: the desk stays, and its effect on [user]
\* asks again.
RefreshDesk ==
  /\ LoadPendingItems(loads)
  /\ excused' = (excused \/ reviews # {})
  /\ UNCHANGED <<status, forms, listed, reviews, reviewed>>

\* One of the two lists is read.
Read_All(c, k) ==                    \* mutant: the items of every status are listed
  /\ c.got[k] = None
  /\ loads' = (loads \ {c}) \cup {[c EXCEPT !.got[k] = {i \in OfKind(k) : status[i] # "none"}]}
  /\ UNCHANGED <<status, forms, listed, reviews, fresh, reviewed, excused>>
Read(c, k) ==
  /\ c.got[k] = None
  /\ loads' = (loads \ {c}) \cup {[c EXCEPT !.got[k] = {i \in OfKind(k) : status[i] = "pending"}]}
  /\ UNCHANGED <<status, forms, listed, reviews, fresh, reviewed, excused>>

Show_Both(c) ==                      \* mutant: the two answers are not taken apart
  /\ \A k \in Kinds : c.got[k] # None
  /\ listed' = {c.got[k] : k \in Kinds}
  /\ loads' = loads \ {c}
  /\ fresh' = c.newest
  /\ UNCHANGED <<status, forms, reviews, reviewed, excused>>
Show(c) ==
  /\ \A k \in Kinds : c.got[k] # None
  /\ listed' = UNION {c.got[k] : k \in Kinds}
  /\ loads' = loads \ {c}
  /\ fresh' = c.newest
  /\ UNCHANGED <<status, forms, reviews, reviewed, excused>>

\* An answer fails: the lists stay as they are.
Miss(c) ==
  /\ loads' = loads \ {c}
  /\ excused' = TRUE
  /\ UNCHANGED <<status, forms, listed, reviews, fresh, reviewed>>

\* A button beside a listed item: none of them is ever disabled.
Click(i, v) ==
  /\ i \in listed
  /\ Cardinality(reviews) < MaxReviews
  /\ reviews' = reviews \cup {[item |-> i, verdict |-> v, saved |-> FALSE, waited |-> TRUE]}
  /\ excused' = (excused \/ reviews # {} \/ loads # {})
  /\ UNCHANGED <<status, forms, listed, loads, fresh, reviewed>>

\* The server saves a verdict, whatever the status was.
Save(r) ==
  /\ ~r.saved
  /\ status' = [status EXCEPT ![r.item] = r.verdict]
  /\ reviews' = (reviews \ {r}) \cup (IF r.waited THEN {[r EXCEPT !.saved = TRUE]} ELSE {})
  /\ UNCHANGED <<forms, listed, loads, fresh, reviewed, excused>>

\* The desk tells of a success and loads its lists again.
Reviewed_NoLoad(r) ==                \* mutant: the lists are not loaded again
  /\ r.saved
  /\ reviews' = reviews \ {r}
  /\ reviewed' = reviewed \cup {r.item}
  /\ UNCHANGED <<status, forms, listed, loads, fresh, excused>>
Reviewed(r) ==
  /\ r.saved
  /\ reviews' = reviews \ {r}
  /\ reviewed' = reviewed \cup {r.item}
  /\ LoadPendingItems(loads)
  /\ UNCHANGED <<status, forms, listed, excused>>

\* An error, or no answer in time: the server may still save the verdict.
NotReviewed(r) ==
  /\ r.waited
  /\ reviews' = (reviews \ {r}) \cup (IF r.saved THEN {} ELSE {[r EXCEPT !.waited = FALSE]})
  /\ excused' = TRUE
  /\ UNCHANGED <<status, forms, listed, loads, fresh, reviewed>>

-----------------------------------------------------------------------------
(* Others.                                                                 *)

\* Another administrator gives a verdict on an item that is or was pending.
OtherVerdict(i, v) ==
  /\ status[i] # "none"
  /\ status' = [status EXCEPT ![i] = v]
  /\ UNCHANGED <<forms, desk>>

\* A donation reaches the target.
Complete(p) ==
  /\ status[p] = "approved"
  /\ status' = [status EXCEPT ![p] = "completed"]
  /\ UNCHANGED <<forms, desk>>

-----------------------------------------------------------------------------
Next ==
  \/ \E o \in Organizations : OpenForm(o) \/ LeaveForm(o)
  \/ \E x \in Papers : Submit(x) \/ Store(x) \/ Succeed(x) \/ Refuse(x) \/ GiveUp(x)
  \/ OpenDesk \/ RefreshDesk
  \/ \E c \in loads : Show(c) \/ Miss(c) \/ \E k \in Kinds : Read(c, k)
  \/ \E i \in Items, v \in Verdicts : Click(i, v) \/ OtherVerdict(i, v)
  \/ \E r \in reviews : Save(r) \/ Reviewed(r) \/ NotReviewed(r)
  \/ \E p \in Projects : Complete(p)

Spec == Init /\ [][Next]_vars

-----------------------------------------------------------------------------
(* Properties.                                                             *)

TypeOK ==
  /\ status \in [Items -> {"none", "pending", "completed"} \cup Verdicts]
  /\ form \in [Organizations -> FormStates]
  /\ post \in [Papers -> PostStates]
  /\ taken \subseteq Papers
  /\ listed \subseteq Items
  /\ loads \subseteq Loads
  /\ reviews \subseteq Reviews
  /\ reviewed \subseteq Items
  /\ fresh \in BOOLEAN /\ excused \in BOOLEAN

\* The button of a form is disabled exactly while the form's own post is on
\* its way: not freed or held by what another form of the same user posted
\* (CreateProject.tsx:33-48, CreateUpdate.tsx:41-60).
BusyWhileWaiting ==
  \A o \in Organizations :
    (form[o] # None /\ form[o].busy) <=> \E x \in Papers : By(x) = o /\ post[x] = "waiting"

\* The lists that answer the last load hold no item that the desk reported as
\* reviewed (Admin.tsx:20-53).
DeskForgetsReviewed == fresh => listed \cap reviewed = {}

\* The buttons stay as they are while a review is on its way, and the server
\* takes a verdict on any item; yet an administrator who waits for each answer
\* and sees none fail gives no item two verdicts, even if others take part,
\* unless the account is read anew under a review (Admin.tsx:35-53, 126-136,
\* service_admin.go:31-55).
OneVerdictEach == ~excused => \A r \in reviews : r.item \notin reviewed

\* A progress report on a project of its organization is not refused
\* (CreateUpdate.tsx:49-53, handler_project.go:123-131).
OwnReportsAreTaken ==
  \A x \in Reports : post[x] = "refused" => Of[x.about] # x.by
=============================================================================
