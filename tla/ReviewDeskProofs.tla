-------------------------- MODULE ReviewDeskProofs --------------------------
(***************************************************************************)
(* What the forms of the organizations and the desk of an administrator    *)
(* promise, for any number of items, papers, loads and reviews.            *)
(***************************************************************************)
EXTENDS ReviewDesk, TLAPS

\* A user waits for one post at a time, and it is the one of the open form.
FormInv ==
  /\ BusyWhileWaiting
  /\ \A x, y \in Papers :
       post[x] = "waiting" /\ post[y] = "waiting" /\ By(x) = By(y) => x = y

TypeInv == TypeOK /\ FormInv

Settled(i) == status[i] \notin {"none", "pending"}

\* What the desk has seen is known to the server.
KnownInv ==
  /\ \A x \in Projects : status[x] = "none" <=> x \notin taken
  /\ \A o \in Organizations : status[o] # "none"
  /\ \A i \in listed : status[i] # "none"
  /\ \A c \in loads, k \in Kinds : c.got[k] # None => \A i \in c.got[k] : status[i] # "none"
  /\ \A r \in reviews : status[r.item] # "none"

\* A verdict that was saved stands: the item is never pending again, and the
\* last load cannot bring it back.
VerdictInv ==
  /\ \A i \in reviewed : Settled(i)
  /\ \A r \in reviews : r.saved => Settled(r.item)
  /\ \A c \in loads, k \in Kinds :
       c.newest /\ c.got[k] # None => c.got[k] \cap reviewed = {}
  /\ DeskForgetsReviewed

\* An administrator who waits has one review in flight, or loads that were all
\* sent after the last one.
PatienceInv ==
  ~excused =>
    /\ reviews # {} => loads = {}
    /\ \A r, q \in reviews : r = q
    /\ \A r \in reviews : r.item \notin reviewed
    /\ \A c \in loads, k \in Kinds : c.got[k] # None => c.got[k] \cap reviewed = {}
    /\ loads = {} => listed \cap reviewed = {}

DeskInv == KnownInv /\ VerdictInv /\ PatienceInv

\* The actions that touch a form, those of the server and others alone, and
\* those of the desk.
FormStep ==
  \/ \E o \in Organizations : OpenForm(o) \/ LeaveForm(o)
  \/ \E x \in Papers : Submit(x) \/ Succeed(x) \/ Refuse(x) \/ GiveUp(x)
ServerStep ==
  \/ \E x \in Papers : Store(x)
  \/ \E i \in Items, v \in Verdicts : OtherVerdict(i, v)
  \/ \E p \in Projects : Complete(p)
DeskStep ==
  \/ OpenDesk \/ RefreshDesk
  \/ \E c \in loads : Show(c) \/ Miss(c) \/ \E k \in Kinds : Read(c, k)
  \/ \E i \in Items, v \in Verdicts : Click(i, v)
  \/ \E r \in reviews : Save(r) \/ Reviewed(r) \/ NotReviewed(r)

LEMMA NextSteps == Next => FormStep \/ ServerStep \/ DeskStep
  BY DEF Next, FormStep, ServerStep, DeskStep

-----------------------------------------------------------------------------
(* The forms.                                                              *)

\* A paper is posted for an organization.
LEMMA ByTypes == ASSUME NEW x \in Papers PROVE By(x) \in Organizations
  BY ItemsAssumption, ReportsAssumption DEF Papers, By

\* Only a draft can be busy.
LEMMA FormTypes ==
  ASSUME TypeOK, NEW o \in Organizations
  PROVE  /\ form[o] # None <=> form[o] \in Drafts
         /\ form[o] \in Drafts =>
              /\ form[o].busy \in BOOLEAN
              /\ \A b \in BOOLEAN : /\ [form[o] EXCEPT !.busy = b] \in Drafts
                                    /\ [form[o] EXCEPT !.busy = b].busy = b
  BY NoneAssumption DEF TypeOK, FormStates, Drafts

\* When a form goes, nothing of its user is waited for; others are as before.
LEMMA Unmounts ==
  ASSUME TypeOK, NEW o \in Organizations
  PROVE  /\ Unmounted(o) \in [Papers -> PostStates]
         /\ \A x \in Papers : Unmounted(o)[x] = "waiting" <=> post[x] = "waiting" /\ By(x) # o
<1>1. \A x \in Papers : Unmounted(o)[x] =
        IF By(x) # o THEN post[x]
        ELSE CASE post[x] = "waiting" -> "left"
               [] post[x] = "lost" -> "gone"
               [] OTHER -> post[x]
  BY DEF Unmounted
<1>2. \A x \in Papers : Unmounted(o)[x] \in PostStates
  BY <1>1 DEF TypeOK, PostStates
<1>3. Unmounted(o) \in [Papers -> PostStates]
  BY <1>2 DEF Unmounted
<1>4. \A x \in Papers : Unmounted(o)[x] = "waiting" <=> post[x] = "waiting" /\ By(x) # o
  BY <1>1
<1>5. QED
  BY <1>3, <1>4

\* The types of the forms and of what they posted.
FormTypeOK ==
  /\ form \in [Organizations -> FormStates]
  /\ post \in [Papers -> PostStates]
  /\ taken \subseteq Papers

\* A step of a form keeps the one post it waits for.
LEMMA FormSteps == TypeInv /\ FormStep => FormTypeOK' /\ FormInv' /\ UNCHANGED <<status, taken, desk>>
<1> SUFFICES ASSUME TypeInv, FormStep
             PROVE  FormTypeOK' /\ FormInv' /\ UNCHANGED <<status, taken, desk>>
  OBVIOUS
<1>a. /\ form \in [Organizations -> FormStates]
      /\ post \in [Papers -> PostStates]
      /\ taken \subseteq Papers
  BY DEF TypeInv, TypeOK
<1>b. \A o \in Organizations :
        (form[o] # None /\ form[o].busy) <=> \E x \in Papers : By(x) = o /\ post[x] = "waiting"
  BY DEF TypeInv, FormInv, BusyWhileWaiting
<1>c. \A x, y \in Papers :
        post[x] = "waiting" /\ post[y] = "waiting" /\ By(x) = By(y) => x = y
  BY DEF TypeInv, FormInv
<1>d. TypeOK
  BY DEF TypeInv
\* The form of o goes, or a new one is opened.
<1>1. ASSUME NEW o \in Organizations, NEW d \in FormStates, d # None => ~d.busy,
             form' = [form EXCEPT ![o] = d], taken' = taken,
             post' \in [Papers -> PostStates],
             \A x \in Papers : post'[x] = "waiting" <=> post[x] = "waiting" /\ By(x) # o
      PROVE  FormTypeOK' /\ FormInv'
  <2>1. form' \in [Organizations -> FormStates] /\ form'[o] = d
        /\ \A q \in Organizations : q # o => form'[q] = form[q]
    BY <1>a, <1>1
  <2>2. FormTypeOK'
    BY <1>a, <1>1, <2>1 DEF FormTypeOK
  <2>3. ASSUME NEW q \in Organizations
        PROVE  (form'[q] # None /\ form'[q].busy) <=> \E x \in Papers : By(x) = q /\ post'[x] = "waiting"
    <3>1. CASE q = o
      BY <1>1, <2>1, <3>1
    <3>2. CASE q # o
      BY <1>b, <1>1, <2>1, <3>2
    <3>3. QED
      BY <3>1, <3>2
  <2>4. BusyWhileWaiting'
    BY <2>3 DEF BusyWhileWaiting, By
  <2>5. \A x, y \in Papers :
          post'[x] = "waiting" /\ post'[y] = "waiting" /\ By(x) = By(y) => x = y
    BY <1>c, <1>1
  <2>6. QED
    BY <2>2, <2>4, <2>5 DEF FormInv, By
\* The post x of a form ends with the state s.
<1>2. ASSUME NEW x \in Papers, NEW s \in PostStates, s # "waiting", Awaited(x),
             form' = Freed(x), taken' = taken, post' = [post EXCEPT ![x] = s]
      PROVE  FormTypeOK' /\ FormInv'
  <2> DEFINE o == By(x)
  <2>1. o \in Organizations
    BY ByTypes
  <2>2. \A y \in Papers : post'[y] = "waiting" <=> post[y] = "waiting" /\ y # x
    BY <1>a, <1>2
  <2>3. post' \in [Papers -> PostStates]
    BY <1>a, <1>2
  <2>4. \A y, z \in Papers :
          post'[y] = "waiting" /\ post'[z] = "waiting" /\ By(y) = By(z) => y = z
    BY <1>c, <2>2
  <2>5. CASE post[x] = "waiting"
    <3>1. form[o] \in Drafts
      BY <1>b, <1>d, <2>1, <2>5, FormTypes
    <3>2. form' = [form EXCEPT ![o] = [form[o] EXCEPT !.busy = FALSE]]
      BY <1>2, <2>5 DEF Freed
    <3>3. [form[o] EXCEPT !.busy = FALSE] \in Drafts /\ ~[form[o] EXCEPT !.busy = FALSE].busy
      BY <1>d, <2>1, <3>1, FormTypes
    <3>4. \A y \in Papers : post'[y] = "waiting" <=> post[y] = "waiting" /\ By(y) # o
      BY <1>c, <2>2, <2>5
    <3>5. [form[o] EXCEPT !.busy = FALSE] \in FormStates
      BY <3>3 DEF FormStates
    <3> HIDE DEF o
    <3>6. QED
      BY <1>1, <1>2, <2>1, <2>3, <3>2, <3>3, <3>4, <3>5
  <2>6. CASE post[x] # "waiting"
    <3>1. form' = form
      BY <1>2, <2>6 DEF Freed
    <3>2. \A y \in Papers : post'[y] = "waiting" <=> post[y] = "waiting"
      BY <2>2, <2>6
    <3>3. BusyWhileWaiting'
      BY <1>b, <3>1, <3>2 DEF BusyWhileWaiting, By
    <3>4. FormTypeOK'
      BY <1>a, <1>2, <2>3, <3>1 DEF FormTypeOK
    <3>5. QED
      BY <2>4, <3>3, <3>4 DEF FormInv, By
  <2>7. QED
    BY <2>5, <2>6
<1>3. ASSUME NEW o \in Organizations, OpenForm(o)
      PROVE  FormTypeOK' /\ FormInv' /\ UNCHANGED <<status, taken, desk>>
  <2>1. PICK x \in Papers : form' = [form EXCEPT ![o] = [page |-> Kind(x), busy |-> FALSE]]
    BY <1>3 DEF OpenForm
  <2>2. [page |-> Kind(x), busy |-> FALSE] \in FormStates
    BY DEF Kind, FormStates, Drafts
  <2>3. /\ form[o] = None /\ post' = post /\ taken' = taken
        /\ UNCHANGED <<status, taken, desk>>
    BY <1>3 DEF OpenForm
  <2>4. \A y \in Papers : post'[y] = "waiting" <=> post[y] = "waiting" /\ By(y) # o
    BY <1>b, <2>3
  <2>5. ~[page |-> Kind(x), busy |-> FALSE].busy /\ post' \in [Papers -> PostStates]
    BY <1>a, <2>3
  <2>6. FormTypeOK' /\ FormInv'
    BY <1>1, <2>1, <2>2, <2>3, <2>4, <2>5
  <2>7. QED
    BY <2>3, <2>6
<1>4. ASSUME NEW o \in Organizations, LeaveForm(o)
      PROVE  FormTypeOK' /\ FormInv' /\ UNCHANGED <<status, taken, desk>>
  <2>1. /\ form' = [form EXCEPT ![o] = None] /\ post' = Unmounted(o) /\ taken' = taken
        /\ UNCHANGED <<status, taken, desk>>
    BY <1>4 DEF LeaveForm
  <2>2. post' \in [Papers -> PostStates]
        /\ \A x \in Papers : post'[x] = "waiting" <=> post[x] = "waiting" /\ By(x) # o
    BY <1>d, <2>1, Unmounts
  <2>3. None \in FormStates
    BY DEF FormStates
  <2>4. FormTypeOK' /\ FormInv'
    BY <1>1, <2>1, <2>2, <2>3
  <2>5. QED
    BY <2>1, <2>4
<1>5. ASSUME NEW x \in Papers, Submit(x)
      PROVE  FormTypeOK' /\ FormInv' /\ UNCHANGED <<status, taken, desk>>
  <2> DEFINE o == By(x)
             d == [form[o] EXCEPT !.busy = TRUE]
  <2>1. /\ form[o] = [page |-> Kind(x), busy |-> FALSE]
        /\ form' = [form EXCEPT ![o].busy = TRUE]
        /\ post' = [post EXCEPT ![x] = "waiting"] /\ taken' = taken
        /\ UNCHANGED <<status, taken, desk>>
    BY <1>5 DEF Submit
  <2>2. o \in Organizations
    BY ByTypes
  <2>3. form' = [form EXCEPT ![o] = d]
    BY <2>1
  <2>4. d \in Drafts /\ d.busy
    <3>1. [page |-> Kind(x), busy |-> FALSE] \in Drafts
      BY DEF Kind, Drafts
    <3>2. form[o] \in Drafts
      BY <2>1, <3>1
    <3>3. QED
      BY <1>d, <2>2, <3>2, FormTypes
  <2>5. form' \in [Organizations -> FormStates] /\ form'[o] = d /\ d # None
        /\ \A q \in Organizations : q # o => form'[q] = form[q]
    <3>1. d \in FormStates /\ d # None
      BY <2>4, NoneAssumption DEF FormStates
    <3> HIDE DEF d
    <3>2. QED
      BY <1>a, <2>2, <2>3, <3>1
  <2>6. ~form[o].busy
    BY <2>1
  <2>7. form[o] # None
    <3>1. [page |-> Kind(x), busy |-> FALSE] \in Drafts
      BY DEF Kind, Drafts
    <3>2. QED
      BY <2>1, <3>1, NoneAssumption
  <2>8. \A y \in Papers : post'[y] = "waiting" <=> post[y] = "waiting" \/ y = x
    <3>1. post' = [post EXCEPT ![x] = "waiting"]
      BY <2>1
    <3>2. QED
      BY <1>a, <3>1
  <2>9. \A y \in Papers : By(y) = o => post[y] # "waiting"
    BY <1>b, <2>2, <2>6
  <2> HIDE DEF d
  <2>10. ASSUME NEW q \in Organizations
        PROVE  (form'[q] # None /\ form'[q].busy) <=> \E y \in Papers : By(y) = q /\ post'[y] = "waiting"
    <3>1. CASE q = o
      BY <2>4, <2>5, <2>8, <3>1
    <3>2. CASE q # o
      BY <1>b, <2>5, <2>8, <3>2
    <3>3. QED
      BY <3>1, <3>2
  <2>11. BusyWhileWaiting'
    BY <2>10 DEF BusyWhileWaiting, By
  <2>12. \A y, z \in Papers :
          post'[y] = "waiting" /\ post'[z] = "waiting" /\ By(y) = By(z) => y = z
    BY <1>c, <2>8, <2>9
  <2>13. FormTypeOK'
    BY <1>a, <2>1, <2>5 DEF FormTypeOK, PostStates
  <2>14. QED
    BY <2>1, <2>11, <2>12, <2>13 DEF FormInv, By
<1>6. ASSUME NEW x \in Papers, Succeed(x)
      PROVE  FormTypeOK' /\ FormInv' /\ UNCHANGED <<status, taken, desk>>
  <2> DEFINE o == By(x)
  <2>1. /\ form' = [form EXCEPT ![o] = None]
        /\ post' = [Unmounted(o) EXCEPT ![x] = "done"] /\ taken' = taken
        /\ UNCHANGED <<status, taken, desk>>
    BY <1>6 DEF Succeed
  <2>2. o \in Organizations
    BY ByTypes
  <2>3. Unmounted(o) \in [Papers -> PostStates]
        /\ \A y \in Papers : Unmounted(o)[y] = "waiting" <=> post[y] = "waiting" /\ By(y) # o
    BY <1>d, <2>2, Unmounts
  <2>4. post' \in [Papers -> PostStates]
        /\ \A y \in Papers : post'[y] = IF y = x THEN "done" ELSE Unmounted(o)[y]
    BY <2>1, <2>3 DEF PostStates
  <2>5. \A y \in Papers : post'[y] = "waiting" <=> post[y] = "waiting" /\ By(y) # o
    BY <2>3, <2>4
  <2>6. None \in FormStates
    BY DEF FormStates
  <2> HIDE DEF o
  <2>7. FormTypeOK' /\ FormInv'
    BY <1>1, <2>1, <2>2, <2>4, <2>5, <2>6
  <2>8. QED
    BY <2>1, <2>7
<1>7. ASSUME NEW x \in Papers, Refuse(x)
      PROVE  FormTypeOK' /\ FormInv' /\ UNCHANGED <<status, taken, desk>>
  <2>1. /\ Awaited(x) /\ form' = Freed(x) /\ post' = [post EXCEPT ![x] = "refused"]
        /\ taken' = taken
        /\ UNCHANGED <<status, taken, desk>>
    BY <1>7 DEF Refuse
  <2>2. FormTypeOK' /\ FormInv'
    BY <1>2, <2>1 DEF PostStates
  <2>3. QED
    BY <2>1, <2>2
<1>8. ASSUME NEW x \in Papers, GiveUp(x)
      PROVE  FormTypeOK' /\ FormInv' /\ UNCHANGED <<status, taken, desk>>
  <2>1. PICK s \in {"lost", "gone"} : post' = [post EXCEPT ![x] = s]
    BY <1>8 DEF GiveUp
  <2>2. /\ Awaited(x) /\ form' = Freed(x) /\ taken' = taken
        /\ UNCHANGED <<status, taken, desk>>
    BY <1>8 DEF GiveUp
  <2>3. FormTypeOK' /\ FormInv'
    BY <1>2, <2>1, <2>2 DEF PostStates
  <2>4. QED
    BY <2>2, <2>3
<1>9. QED
  BY <1>3, <1>4, <1>5, <1>6, <1>7, <1>8 DEF FormStep

-----------------------------------------------------------------------------
(* The server and the desk.                                                *)

\* Only a project that was not taken is unknown, no status becomes unknown,
\* and what has a verdict keeps having one.
LEMMA StatusSteps ==
  ASSUME TypeOK, KnownInv, Next
  PROVE  /\ status' \in [Items -> {"none", "pending", "completed"} \cup Verdicts]
         /\ \A x \in Projects : status'[x] = "none" <=> x \notin taken'
         /\ \A i \in Items : status[i] # "none" => status'[i] # "none"
         /\ \A i \in Items : Settled(i) => Settled(i)'
<1> USE DEF Settled, Verdicts
<1>a. /\ status \in [Items -> {"none", "pending", "completed"} \cup Verdicts]
      /\ taken \subseteq Papers
  BY DEF TypeOK
<1>b. Projects \subseteq Items /\ Organizations \subseteq Items /\ Projects \subseteq Papers
  BY DEF Items, Papers
<1>c. \A x \in Projects : status[x] = "none" <=> x \notin taken
  BY DEF KnownInv
<1>1. CASE FormStep
  <2>1. status' = status /\ taken' = taken
    BY <1>1 DEF FormStep, OpenForm, LeaveForm, Submit, Succeed, Refuse, GiveUp
  <2>2. QED
    BY <1>a, <1>c, <2>1
\* An item that is known is given a verdict, or is completed.
<1>2. ASSUME NEW i \in Items, NEW v \in {"approved", "rejected", "completed"}, status[i] # "none",
             status' = [status EXCEPT ![i] = v], taken' = taken
      PROVE  /\ status' \in [Items -> {"none", "pending", "completed"} \cup Verdicts]
             /\ \A x \in Projects : status'[x] = "none" <=> x \notin taken'
             /\ \A j \in Items : status[j] # "none" => status'[j] # "none"
             /\ \A j \in Items : Settled(j) => Settled(j)'
  <2>1. \A j \in Items : status'[j] = IF j = i THEN v ELSE status[j]
    BY <1>a, <1>2
  <2>2. status' \in [Items -> {"none", "pending", "completed"} \cup Verdicts]
    BY <1>a, <1>2
  <2>3. \A x \in Projects : status'[x] = "none" <=> x \notin taken'
    BY <1>b, <1>c, <1>2, <2>1
  <2>4. QED
    BY <1>2, <2>1, <2>2, <2>3
<1>3. ASSUME NEW x \in Papers, Store(x)
      PROVE  /\ status' \in [Items -> {"none", "pending", "completed"} \cup Verdicts]
             /\ \A p \in Projects : status'[p] = "none" <=> p \notin taken'
             /\ \A i \in Items : status[i] # "none" => status'[i] # "none"
             /\ \A i \in Items : Settled(i) => Settled(i)'
  <2>1. /\ x \notin taken /\ taken' = taken \cup {x}
        /\ status' = IF x \in Projects THEN [status EXCEPT ![x] = "pending"] ELSE status
    BY <1>3 DEF Store
  <2>2. CASE x \in Projects
    <3>1. \A j \in Items : status'[j] = IF j = x THEN "pending" ELSE status[j]
      BY <1>a, <2>1, <2>2
    <3>2. status' \in [Items -> {"none", "pending", "completed"} \cup Verdicts]
      BY <1>a, <2>1, <2>2
    <3>3. status[x] = "none"
      BY <1>c, <2>1, <2>2
    <3>4. \A p \in Projects : status'[p] = "none" <=> p \notin taken'
      BY <1>b, <1>c, <2>1, <3>1
    <3>5. QED
      BY <3>1, <3>2, <3>3, <3>4
  <2>3. CASE x \notin Projects
    BY <1>a, <1>c, <2>1, <2>3
  <2>4. QED
    BY <2>2, <2>3
<1>4. ASSUME NEW i \in Items, NEW v \in Verdicts, OtherVerdict(i, v)
      PROVE  status[i] # "none" /\ status' = [status EXCEPT ![i] = v] /\ taken' = taken
  BY <1>4 DEF OtherVerdict, forms
<1>5. ASSUME NEW p \in Projects, Complete(p)
      PROVE  status[p] # "none" /\ status' = [status EXCEPT ![p] = "completed"] /\ taken' = taken
  BY <1>5 DEF Complete, forms
<1>6. CASE ServerStep
  BY <1>2, <1>3, <1>4, <1>5, <1>6, <1>b DEF ServerStep
<1>7. ASSUME NEW r \in reviews, Save(r)
      PROVE  /\ r.item \in Items /\ status[r.item] # "none" /\ r.verdict \in Verdicts
             /\ status' = [status EXCEPT ![r.item] = r.verdict] /\ taken' = taken
  BY <1>7 DEF Save, forms, TypeOK, Reviews, KnownInv
<1>8. CASE DeskStep
  <2>1. CASE \E r \in reviews : Save(r)
    BY <1>2, <1>7, <2>1
  <2>2. CASE ~\E r \in reviews : Save(r)
    <3>1. status' = status /\ taken' = taken
      BY <1>8, <2>2 DEF DeskStep, OpenDesk, RefreshDesk, Show, Miss, Read, Click, Reviewed, NotReviewed, forms
    <3>2. QED
      BY <1>a, <1>c, <3>1
  <2>3. QED
    BY <2>1, <2>2
<1>9. QED
  BY <1>1, <1>6, <1>8, NextSteps

\* What the desk holds, as long as it does nothing.
LEMMA DeskKept ==
  ASSUME TypeOK, DeskInv, Next, UNCHANGED desk
  PROVE  DeskInv'
<1>a. /\ listed \subseteq Items /\ loads \subseteq Loads /\ reviews \subseteq Reviews
      /\ reviewed \subseteq Items
  BY DEF TypeOK
<1>b. KnownInv /\ VerdictInv /\ PatienceInv
  BY DEF DeskInv
<1>c. UNCHANGED <<listed, loads, reviews, fresh, reviewed, excused>>
  BY DEF desk
<1>d. /\ \A x \in Projects : status'[x] = "none" <=> x \notin taken'
      /\ \A i \in Items : status[i] # "none" => status'[i] # "none"
      /\ \A i \in Items : Settled(i) => Settled(i)'
  BY <1>b, StatusSteps
<1>e. \A c \in loads, k \in Kinds : c.got[k] # None => c.got[k] \subseteq Items
  BY <1>a DEF Loads
<1>f. \A r \in reviews : r.item \in Items
  BY <1>a DEF Reviews
<1>g. Organizations \subseteq Items
  BY DEF Items
<1>1. KnownInv'
  BY <1>a, <1>b, <1>c, <1>d, <1>e, <1>f, <1>g DEF KnownInv
<1>2. VerdictInv'
  BY <1>a, <1>b, <1>c, <1>d, <1>f DEF VerdictInv, DeskForgetsReviewed
<1>3. PatienceInv'
  BY <1>b, <1>c DEF PatienceInv
<1>4. QED
  BY <1>1, <1>2, <1>3 DEF DeskInv

\* The load that is sent is the newest one, with nothing read.
LEMMA LoadFacts ==
  ASSUME NEW kept, kept \subseteq Loads, LoadPendingItems(kept)
  PROVE  /\ loads' \subseteq Loads
         /\ fresh' = FALSE
         /\ loads' # {}
         /\ \A c \in loads' : c.newest => \A k \in Kinds : c.got[k] = None
         /\ \A c \in loads' : \A k \in Kinds : c.got[k] # None => \E d \in kept : c.got = d.got
         /\ kept = {} => \A c \in loads' : c.newest
<1> DEFINE new == [newest |-> TRUE, got |-> [k \in Kinds |-> None]]
           older == {[c EXCEPT !.newest = FALSE] : c \in kept}
<1>1. loads' = older \cup {new} /\ fresh' = FALSE
  BY DEF LoadPendingItems
<1>2. new \in Loads /\ new.newest /\ \A k \in Kinds : new.got[k] = None
  BY DEF Loads
<1>3. \A c \in older : c \in Loads /\ ~c.newest /\ \E d \in kept : c.got = d.got
  <2>1. \A d \in kept : /\ [d EXCEPT !.newest = FALSE] \in Loads
                        /\ ~[d EXCEPT !.newest = FALSE].newest
                        /\ [d EXCEPT !.newest = FALSE].got = d.got
    BY DEF Loads
  <2>2. QED
    BY <2>1
<1>4. kept = {} => older = {}
  OBVIOUS
<1> HIDE DEF new, older
<1>5. QED
  BY <1>1, <1>2, <1>3, <1>4

\* The types of what the desk keeps.
DeskTypeOK ==
  /\ listed \subseteq Items
  /\ loads \subseteq Loads
  /\ reviews \subseteq Reviews
  /\ reviewed \subseteq Items
  /\ fresh \in BOOLEAN /\ excused \in BOOLEAN

LEMMA ReviewTypes ==
  ASSUME NEW r \in Reviews, NEW b \in BOOLEAN
  PROVE  /\ [r EXCEPT !.saved = b] \in Reviews /\ [r EXCEPT !.saved = b].saved = b
         /\ [r EXCEPT !.saved = b].item = r.item
         /\ [r EXCEPT !.waited = b] \in Reviews /\ [r EXCEPT !.waited = b].saved = r.saved
         /\ [r EXCEPT !.waited = b].item = r.item
  BY DEF Reviews

\* A step of the desk keeps what it has seen, and what it waits for, in order.
LEMMA DeskSteps == TypeOK /\ DeskInv /\ DeskStep => DeskTypeOK' /\ DeskInv' /\ UNCHANGED forms
<1> SUFFICES ASSUME TypeOK, DeskInv, DeskStep PROVE DeskTypeOK' /\ DeskInv' /\ UNCHANGED forms
  OBVIOUS
<1>a. /\ listed \subseteq Items /\ loads \subseteq Loads /\ reviews \subseteq Reviews
      /\ reviewed \subseteq Items /\ fresh \in BOOLEAN /\ excused \in BOOLEAN
  BY DEF TypeOK
<1>b. KnownInv /\ VerdictInv /\ PatienceInv
  BY DEF DeskInv
<1>n. Next
  BY DEF DeskStep, Next
<1>d. /\ \A x \in Projects : status'[x] = "none" <=> x \notin taken'
      /\ \A i \in Items : status[i] # "none" => status'[i] # "none"
      /\ \A i \in Items : Settled(i) => Settled(i)'
  BY <1>b, <1>n, StatusSteps
<1>o. \A o \in Organizations : status'[o] # "none"
  BY <1>b, <1>d DEF KnownInv, Items
<1>l. \A i \in listed : status'[i] # "none"
  BY <1>a, <1>b, <1>d DEF KnownInv
<1>c. \A c \in loads, k \in Kinds : c.got[k] # None =>
        c.got[k] \subseteq Items /\ \A i \in c.got[k] : status'[i] # "none"
  BY <1>a, <1>b, <1>d DEF KnownInv, Loads
<1>r. \A r \in reviews : r \in Reviews /\ r.item \in Items /\ status'[r.item] # "none"
  BY <1>a, <1>b, <1>d DEF KnownInv, Reviews
<1>s. \A i \in reviewed : i \in Items /\ Settled(i) /\ Settled(i)'
  BY <1>a, <1>b, <1>d DEF VerdictInv
<1>t. \A r \in reviews : r.saved => Settled(r.item) /\ Settled(r.item)'
  BY <1>b, <1>d, <1>r DEF VerdictInv
<1>f. \A c \in loads, k \in Kinds : c.newest /\ c.got[k] # None => c.got[k] \cap reviewed = {}
  BY <1>b DEF VerdictInv
<1>g. fresh => listed \cap reviewed = {}
  BY <1>b DEF VerdictInv, DeskForgetsReviewed
<1>p. ~excused =>
        /\ reviews # {} => loads = {}
        /\ \A r, q \in reviews : r = q
        /\ \A r \in reviews : r.item \notin reviewed
        /\ \A c \in loads, k \in Kinds : c.got[k] # None => c.got[k] \cap reviewed = {}
        /\ loads = {} => listed \cap reviewed = {}
  BY <1>b DEF PatienceInv
<1>1. ASSUME OpenDesk PROVE DeskTypeOK' /\ DeskInv' /\ UNCHANGED forms
  <2>1. /\ listed' = {} /\ reviewed' = reviewed /\ LoadPendingItems({})
        /\ reviews' = {[r EXCEPT !.waited = FALSE] : r \in {q \in reviews : ~q.saved}}
        /\ excused' = (excused \/ reviews # {})
        /\ UNCHANGED <<status, forms>>
    BY <1>1 DEF OpenDesk
  <2>2. /\ loads' \subseteq Loads /\ fresh' = FALSE /\ loads' # {}
        /\ \A c \in loads' : c.newest /\ \A k \in Kinds : c.got[k] = None
    BY <2>1, LoadFacts
  <2>3. \A r \in reviews' : \E q \in reviews : r \in Reviews /\ r.item = q.item /\ ~r.saved
    <3>1. \A r \in reviews' : \E q \in reviews : ~q.saved /\ r = [q EXCEPT !.waited = FALSE]
      BY <2>1
    <3>2. \A q \in reviews : /\ [q EXCEPT !.waited = FALSE] \in Reviews
                             /\ [q EXCEPT !.waited = FALSE].saved = q.saved
                             /\ [q EXCEPT !.waited = FALSE].item = q.item
      BY <1>a, ReviewTypes
    <3>3. QED
      BY <3>1, <3>2
  <2>4. DeskTypeOK'
    BY <1>a, <2>1, <2>2, <2>3 DEF DeskTypeOK
  <2>5. KnownInv'
    BY <1>d, <1>o, <1>r, <2>1, <2>2, <2>3 DEF KnownInv
  <2>6. VerdictInv'
    BY <1>s, <2>1, <2>2, <2>3 DEF VerdictInv, DeskForgetsReviewed
  <2>7. ~excused' => reviews' = {}
    BY <2>1
  <2>8. PatienceInv'
    BY <2>2, <2>7 DEF PatienceInv
  <2>9. QED
    BY <2>1, <2>4, <2>5, <2>6, <2>8 DEF DeskInv
<1>2. ASSUME NEW c \in loads, Show(c) PROVE DeskTypeOK' /\ DeskInv' /\ UNCHANGED forms
  <2>1. /\ \A k \in Kinds : c.got[k] # None
        /\ listed' = UNION {c.got[k] : k \in Kinds}
        /\ loads' = loads \ {c}
        /\ fresh' = c.newest
        /\ UNCHANGED <<status, forms, reviews, reviewed, excused>>
    BY <1>2 DEF Show
  <2>2. c.newest \in BOOLEAN
    BY <1>a DEF Loads
  <2>3. \A i \in listed' : i \in Items /\ status'[i] # "none"
    BY <1>c, <2>1
  <2>4. c.newest => listed' \cap reviewed = {}
    BY <1>f, <2>1
  <2>5. DeskTypeOK'
    BY <1>a, <2>1, <2>2, <2>3 DEF DeskTypeOK
  <2>6. KnownInv'
    BY <1>c, <1>d, <1>o, <1>r, <2>1, <2>3 DEF KnownInv
  <2>7. VerdictInv'
    BY <1>f, <1>s, <1>t, <2>1, <2>4 DEF VerdictInv, DeskForgetsReviewed
  <2>8. PatienceInv'
    <3>1. ~excused => listed' \cap reviewed = {}
      BY <1>p, <2>1
    <3>2. QED
      BY <1>p, <2>1, <3>1 DEF PatienceInv
  <2>9. QED
    BY <2>1, <2>5, <2>6, <2>7, <2>8 DEF DeskInv
<1>3. ASSUME NEW c \in loads, Miss(c) PROVE DeskTypeOK' /\ DeskInv' /\ UNCHANGED forms
  <2>1. /\ loads' = loads \ {c} /\ excused' = TRUE
        /\ UNCHANGED <<status, forms, listed, reviews, fresh, reviewed>>
    BY <1>3 DEF Miss
  <2>2. DeskTypeOK'
    BY <1>a, <2>1 DEF DeskTypeOK
  <2>3. KnownInv'
    BY <1>c, <1>d, <1>l, <1>o, <1>r, <2>1 DEF KnownInv
  <2>4. VerdictInv'
    BY <1>f, <1>g, <1>s, <1>t, <2>1 DEF VerdictInv, DeskForgetsReviewed
  <2>5. PatienceInv'
    BY <2>1 DEF PatienceInv
  <2>6. QED
    BY <2>1, <2>2, <2>3, <2>4, <2>5 DEF DeskInv
<1>4. ASSUME NEW c \in loads, NEW k \in Kinds, Read(c, k) PROVE DeskTypeOK' /\ DeskInv' /\ UNCHANGED forms
  <2> DEFINE answer == {i \in OfKind(k) : status[i] = "pending"}
             next == [c EXCEPT !.got[k] = answer]
  <2>1. /\ loads' = (loads \ {c}) \cup {next}
        /\ UNCHANGED <<status, forms, listed, reviews, fresh, reviewed, excused>>
    BY <1>4 DEF Read
  <2>2. answer \subseteq Items /\ \A i \in answer : status[i] = "pending"
    BY DEF OfKind, Items
  <2>3. c \in Loads
    BY <1>a
  <2> HIDE DEF answer
  <2>4. /\ next \in Loads /\ next.newest = c.newest /\ next.got[k] = answer
        /\ \A h \in Kinds : h # k => next.got[h] = c.got[h]
    BY <2>2, <2>3 DEF Loads
  <2> HIDE DEF next
  <2>5. answer \cap reviewed = {} /\ \A i \in answer : status'[i] # "none"
    BY <1>s, <2>1, <2>2 DEF Settled
  <2>6. DeskTypeOK'
    BY <1>a, <2>1, <2>4 DEF DeskTypeOK
  <2>7. \A d \in loads', h \in Kinds : d.got[h] # None => \A i \in d.got[h] : status'[i] # "none"
    BY <1>c, <2>1, <2>4, <2>5
  <2>8. \A d \in loads', h \in Kinds : d.newest /\ d.got[h] # None => d.got[h] \cap reviewed = {}
    BY <1>f, <2>1, <2>4, <2>5
  <2>9. KnownInv'
    BY <1>d, <1>l, <1>o, <1>r, <2>1, <2>7 DEF KnownInv
  <2>10. VerdictInv'
    BY <1>g, <1>s, <1>t, <2>1, <2>8 DEF VerdictInv, DeskForgetsReviewed
  <2>11. ~excused => reviews = {}
    BY <1>p
  <2>12. ~excused => \A d \in loads', h \in Kinds : d.got[h] # None => d.got[h] \cap reviewed = {}
    BY <1>p, <2>1, <2>4, <2>5
  <2>13. loads' # {}
    BY <2>1
  <2>14. PatienceInv'
    BY <2>1, <2>11, <2>12, <2>13 DEF PatienceInv
  <2>15. QED
    BY <2>1, <2>6, <2>9, <2>10, <2>14 DEF DeskInv
<1>5. ASSUME NEW i \in Items, NEW v \in Verdicts, Click(i, v) PROVE DeskTypeOK' /\ DeskInv' /\ UNCHANGED forms
  <2> DEFINE new == [item |-> i, verdict |-> v, saved |-> FALSE, waited |-> TRUE]
  <2>1. /\ i \in listed
        /\ reviews' = reviews \cup {new}
        /\ excused' = (excused \/ reviews # {} \/ loads # {})
        /\ UNCHANGED <<status, forms, listed, loads, fresh, reviewed>>
    BY <1>5 DEF Click
  <2>2. new \in Reviews /\ new.item = i /\ ~new.saved
    BY DEF Reviews
  <2> HIDE DEF new
  <2>3. status'[i] # "none"
    BY <1>l, <2>1
  <2>4. DeskTypeOK'
    BY <1>a, <2>1, <2>2 DEF DeskTypeOK
  <2>5. KnownInv'
    BY <1>c, <1>d, <1>l, <1>o, <1>r, <2>1, <2>2, <2>3 DEF KnownInv
  <2>6. VerdictInv'
    BY <1>f, <1>g, <1>s, <1>t, <2>1, <2>2 DEF VerdictInv, DeskForgetsReviewed
  <2>7. ~excused' => /\ reviews' = {new} /\ loads' = {} /\ i \notin reviewed'
                     /\ listed' \cap reviewed' = {}
    BY <1>p, <2>1
  <2>8. PatienceInv'
    BY <2>2, <2>7 DEF PatienceInv
  <2>9. QED
    BY <2>1, <2>4, <2>5, <2>6, <2>8 DEF DeskInv
<1>6. ASSUME NEW r \in reviews, Save(r) PROVE DeskTypeOK' /\ DeskInv' /\ UNCHANGED forms
  <2> DEFINE next == [r EXCEPT !.saved = TRUE]
  <2>1. /\ status' = [status EXCEPT ![r.item] = r.verdict]
        /\ reviews' = (reviews \ {r}) \cup (IF r.waited THEN {next} ELSE {})
        /\ UNCHANGED <<forms, listed, loads, fresh, reviewed, excused>>
    BY <1>6 DEF Save
  <2>2. next \in Reviews /\ next.item = r.item
    BY <1>r, ReviewTypes
  <2> HIDE DEF next
  <2>3. Settled(r.item)'
    <3>1. r.verdict \in Verdicts /\ r.item \in Items
      BY <1>r DEF Reviews
    <3>2. status'[r.item] = r.verdict
      BY <2>1, <3>1 DEF TypeOK
    <3>3. QED
      BY <3>1, <3>2 DEF Settled, Verdicts
  <2>4. \A q \in reviews' : q \in reviews \/ q = next
    BY <2>1
  <2>5. DeskTypeOK'
    BY <1>a, <2>1, <2>2, <2>4 DEF DeskTypeOK
  <2>6. KnownInv'
    BY <1>c, <1>d, <1>l, <1>o, <1>r, <2>1, <2>2, <2>4 DEF KnownInv
  <2>7. \A q \in reviews' : q.saved => Settled(q.item)'
    BY <1>t, <2>2, <2>3, <2>4
  <2>8. VerdictInv'
    BY <1>f, <1>g, <1>s, <2>1, <2>7 DEF VerdictInv, DeskForgetsReviewed
  <2>9. ~excused => \A q \in reviews' : q = next
    BY <1>p, <2>1
  <2>10. PatienceInv'
    BY <1>p, <2>1, <2>2, <2>9 DEF PatienceInv
  <2>11. QED
    BY <2>1, <2>5, <2>6, <2>8, <2>10 DEF DeskInv
<1>7. ASSUME NEW r \in reviews, Reviewed(r) PROVE DeskTypeOK' /\ DeskInv' /\ UNCHANGED forms
  <2>1. /\ r.saved /\ reviews' = reviews \ {r} /\ reviewed' = reviewed \cup {r.item}
        /\ LoadPendingItems(loads)
        /\ UNCHANGED <<status, forms, listed, excused>>
    BY <1>7 DEF Reviewed
  <2>2. /\ loads' \subseteq Loads /\ fresh' = FALSE /\ loads' # {}
        /\ \A c \in loads' : c.newest => \A k \in Kinds : c.got[k] = None
        /\ \A c \in loads' : \A k \in Kinds : c.got[k] # None => \E d \in loads : c.got = d.got
        /\ loads = {} => \A c \in loads' : c.newest
    BY <1>a, <2>1, LoadFacts
  <2>3. \A c \in loads', k \in Kinds : c.got[k] # None => \A i \in c.got[k] : status'[i] # "none"
    BY <1>c, <2>2
  <2>4. DeskTypeOK'
    BY <1>a, <1>r, <2>1, <2>2 DEF DeskTypeOK
  <2>5. KnownInv'
    BY <1>d, <1>l, <1>o, <1>r, <2>1, <2>3 DEF KnownInv
  <2>6. \A i \in reviewed' : Settled(i)'
    BY <1>s, <1>t, <2>1
  <2>7. VerdictInv'
    BY <1>t, <2>1, <2>2, <2>6 DEF VerdictInv, DeskForgetsReviewed
  <2>8. ~excused => reviews' = {} /\ loads = {}
    BY <1>p, <2>1
  <2>9. PatienceInv'
    BY <2>1, <2>2, <2>8 DEF PatienceInv
  <2>10. QED
    BY <2>1, <2>4, <2>5, <2>7, <2>9 DEF DeskInv
<1>8. ASSUME RefreshDesk PROVE DeskTypeOK' /\ DeskInv' /\ UNCHANGED forms
  <2>1. /\ LoadPendingItems(loads) /\ excused' = (excused \/ reviews # {})
        /\ UNCHANGED <<status, forms, listed, reviews, reviewed>>
    BY <1>8 DEF RefreshDesk
  <2>2. /\ loads' \subseteq Loads /\ fresh' = FALSE /\ loads' # {}
        /\ \A c \in loads' : c.newest => \A k \in Kinds : c.got[k] = None
        /\ \A c \in loads' : \A k \in Kinds : c.got[k] # None => \E d \in loads : c.got = d.got
    BY <1>a, <2>1, LoadFacts
  <2>3. \A c \in loads', k \in Kinds : c.got[k] # None => \A i \in c.got[k] : status'[i] # "none"
    BY <1>c, <2>2
  <2>4. DeskTypeOK'
    BY <1>a, <2>1, <2>2 DEF DeskTypeOK
  <2>5. KnownInv'
    BY <1>d, <1>l, <1>o, <1>r, <2>1, <2>3 DEF KnownInv
  <2>6. VerdictInv'
    BY <1>s, <1>t, <2>1, <2>2 DEF VerdictInv, DeskForgetsReviewed
  <2>7. ~excused' => reviews' = {}
    BY <2>1
  <2>8. ~excused => \A c \in loads', k \in Kinds : c.got[k] # None => c.got[k] \cap reviewed = {}
    BY <1>p, <2>2
  <2>9. PatienceInv'
    BY <2>1, <2>2, <2>7, <2>8 DEF PatienceInv
  <2>10. QED
    BY <2>1, <2>4, <2>5, <2>6, <2>9 DEF DeskInv
<1>9. ASSUME NEW r \in reviews, NotReviewed(r) PROVE DeskTypeOK' /\ DeskInv' /\ UNCHANGED forms
  <2> DEFINE next == [r EXCEPT !.waited = FALSE]
  <2>1. /\ reviews' = (reviews \ {r}) \cup (IF r.saved THEN {} ELSE {next})
        /\ excused' = TRUE
        /\ UNCHANGED <<status, forms, listed, loads, fresh, reviewed>>
    BY <1>9 DEF NotReviewed
  <2>2. next \in Reviews /\ next.item = r.item /\ next.saved = r.saved
    BY <1>r, ReviewTypes
  <2> HIDE DEF next
  <2>3. \A q \in reviews' : q \in reviews \/ q = next
    BY <2>1
  <2>4. DeskTypeOK'
    BY <1>a, <2>1, <2>2, <2>3 DEF DeskTypeOK
  <2>5. KnownInv'
    BY <1>c, <1>d, <1>l, <1>o, <1>r, <2>1, <2>2, <2>3 DEF KnownInv
  <2>6. VerdictInv'
    BY <1>f, <1>g, <1>s, <1>t, <2>1, <2>2, <2>3 DEF VerdictInv, DeskForgetsReviewed
  <2>7. PatienceInv'
    BY <2>1 DEF PatienceInv
  <2>8. QED
    BY <2>1, <2>4, <2>5, <2>6, <2>7 DEF DeskInv
<1>10. QED
  BY <1>1, <1>2, <1>3, <1>4, <1>5, <1>6, <1>7, <1>8, <1>9 DEF DeskStep

-----------------------------------------------------------------------------
(* The invariant.                                                          *)

Inv == TypeInv /\ DeskInv

LEMMA Initially == Init => Inv
<1> SUFFICES ASSUME Init PROVE Inv
  OBVIOUS
<1>1. Organizations \subseteq Items /\ Projects \subseteq Items
      /\ \A x \in Projects : x \notin Organizations
  BY ItemsAssumption DEF Items
<1>2. TypeOK
  BY DEF Init, TypeOK, FormStates, PostStates, Loads, Reviews
<1>3. FormInv
  BY ByTypes DEF Init, FormInv, BusyWhileWaiting
<1>4. KnownInv
  BY <1>1 DEF Init, KnownInv
<1>5. VerdictInv /\ PatienceInv
  BY DEF Init, VerdictInv, PatienceInv, DeskForgetsReviewed
<1>6. QED
  BY <1>2, <1>3, <1>4, <1>5 DEF Inv, TypeInv, DeskInv

LEMMA Step == Inv /\ [Next]_vars => Inv'
<1> SUFFICES ASSUME Inv, [Next]_vars PROVE Inv'
  OBVIOUS
<1>1. TypeInv /\ TypeOK /\ FormInv /\ DeskInv /\ KnownInv
  BY DEF Inv, TypeInv, DeskInv
<1>2. ASSUME FormTypeOK', DeskTypeOK', FormInv', DeskInv', Next PROVE Inv'
  <2>1. status' \in [Items -> {"none", "pending", "completed"} \cup Verdicts]
    BY <1>1, <1>2, StatusSteps
  <2>2. TypeOK'
    BY <1>2, <2>1 DEF TypeOK, FormTypeOK, DeskTypeOK
  <2>3. QED
    BY <1>2, <2>2 DEF Inv, TypeInv
<1>3. UNCHANGED desk => DeskTypeOK'
  BY <1>1 DEF desk, DeskTypeOK, TypeOK
<1>4. CASE FormStep
  <2>1. FormTypeOK' /\ FormInv' /\ UNCHANGED desk /\ Next
    BY <1>1, <1>4, FormSteps DEF FormStep, Next
  <2>2. DeskInv'
    BY <1>1, <2>1, DeskKept
  <2>3. QED
    BY <1>2, <1>3, <2>1, <2>2
<1>5. CASE ServerStep
  <2>1. UNCHANGED <<form, post, desk>> /\ Next /\ taken' \subseteq Papers
    BY <1>1, <1>5 DEF ServerStep, Next, Store, OtherVerdict, Complete, forms, TypeOK
  <2>2. FormTypeOK'
    BY <1>1, <2>1 DEF TypeOK, FormTypeOK
  <2>3. FormInv'
    BY <1>1, <2>1 DEF FormInv, BusyWhileWaiting, By
  <2>4. DeskInv'
    BY <1>1, <2>1, DeskKept
  <2>5. QED
    BY <1>2, <1>3, <2>1, <2>2, <2>3, <2>4
<1>6. CASE DeskStep
  <2>1. DeskTypeOK' /\ DeskInv' /\ UNCHANGED <<form, post, taken>> /\ Next
    BY <1>1, <1>6, DeskSteps DEF DeskStep, Next, forms
  <2>2. FormTypeOK'
    BY <1>1, <2>1 DEF TypeOK, FormTypeOK
  <2>3. FormInv'
    BY <1>1, <2>1 DEF FormInv, BusyWhileWaiting, By
  <2>4. QED
    BY <1>2, <2>1, <2>2, <2>3
<1>7. CASE UNCHANGED vars
  <2>1. UNCHANGED <<status, form, post, taken, listed, loads, reviews, fresh, reviewed, excused>>
    BY <1>7 DEF vars, forms, desk
  <2>2. TypeOK'
    BY <1>1, <2>1 DEF TypeOK
  <2>3. FormInv'
    BY <1>1, <2>1 DEF FormInv, BusyWhileWaiting, By
  <2>4. DeskInv'
    BY <1>1, <2>1 DEF DeskInv, KnownInv, VerdictInv, PatienceInv, DeskForgetsReviewed, Settled
  <2>5. QED
    BY <2>2, <2>3, <2>4 DEF Inv, TypeInv
<1>8. QED
  BY <1>4, <1>5, <1>6, <1>7, NextSteps

LEMMA Invariance == Spec => []Inv
<1>1. Init => Inv
  BY Initially
<1>2. Inv /\ [Next]_vars => Inv'
  BY Step
<1>3. QED
  BY <1>1, <1>2, PTL DEF Spec

-----------------------------------------------------------------------------
(* The results.                                                            *)

\* Every variable keeps its type: a form that is freed is there, and a list
\* that is shown was read (Admin.tsx, CreateProject.tsx, CreateUpdate.tsx).
THEOREM TypeCorrect == Spec => []TypeOK
<1>1. Inv => TypeOK
  BY DEF Inv, TypeInv
<1>2. QED
  BY <1>1, Invariance, PTL

\* The button of a form is disabled exactly while the form's own post is on
\* its way, whatever was posted from the forms its user left
\* (CreateProject.tsx:33-48, CreateUpdate.tsx:41-60).
THEOREM ButtonsAreFreed == Spec => []BusyWhileWaiting
<1>1. Inv => BusyWhileWaiting
  BY DEF Inv, TypeInv, FormInv
<1>2. QED
  BY <1>1, Invariance, PTL

\* What the desk reported as reviewed is not on the lists of its last load,
\* however the loads overtake each other (Admin.tsx:20-53).
THEOREM ReviewedIsGone == Spec => []DeskForgetsReviewed
<1>1. Inv => DeskForgetsReviewed
  BY DEF Inv, DeskInv, VerdictInv
<1>2. QED
  BY <1>1, Invariance, PTL

\* An administrator who waits, and sees nothing fail, gives no item two
\* verdicts, whatever the other administrators do, unless the account is read
\* anew under a review (Admin.tsx:14-18, 35-53).
THEOREM PatienceIsEnough == Spec => []OneVerdictEach
<1>1. Inv => OneVerdictEach
  BY DEF Inv, DeskInv, PatienceInv, OneVerdictEach
<1>2. QED
  BY <1>1, Invariance, PTL
=============================================================================
