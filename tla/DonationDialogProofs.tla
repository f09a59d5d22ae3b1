------------------------ MODULE DonationDialogProofs ------------------------
(***************************************************************************)
(* What a donor can rely on, for any number of projects and donations, any *)
(* number of answers in flight and any order in which they come.           *)
(***************************************************************************)
EXTENDS DonationDialog, TLAPS

\* The dialog stands on a page that shows a project, and a page is there as
\* long as it shows or awaits something.
PageInv ==
  /\ open => shown \in Views
  /\ shown # None => route \in Projects
  /\ reads # {} => route \in Projects

\* What was sent, and what the server makes of it, is what the dialog named;
\* a dialog that is there stands on a page.
AskInv ==
  \A g \in Gifts :
    /\ ask[g] # None =>
         /\ ask[g].project = ask[g].seen
         /\ row[g] \in {None, ask[g].project}
         /\ ask[g].here => route \in Projects
    /\ told[g] # "nothing" => ask[g] # None
    /\ told[g] = "thanks" => row[g] # None

TypeInv == TypeOK /\ PageInv /\ AskInv

\* The requests of the page, by the names of their actions.
Steps(c) == ReadProject(c) \/ ReadRows(c) \/ Show(c) \/ Miss(c)

-----------------------------------------------------------------------------
(* Types.                                                                  *)

\* A request that is sent has a type.
LEMMA LoadTypes ==
  ASSUME NEW p \in Projects, NEW kept, kept \subseteq Reads, LoadProject(p, kept)
  PROVE  /\ reads' \subseteq Reads
         /\ fresh' = FALSE
<1>1. \A c \in kept : [c EXCEPT !.newest = FALSE] \in Reads
  BY DEF Reads
<1>2. [stage |-> "sent", newest |-> TRUE,
       view |-> [project |-> p, credited |-> {}, rows |-> {}]] \in Reads
  BY DEF Reads, Views, Amounts
<1>3. QED
  BY <1>1, <1>2 DEF LoadProject

\* So does the next stage of one.
LEMMA StageTypes ==
  ASSUME TypeInv, NEW c \in reads, Steps(c)
  PROVE  /\ reads' \subseteq Reads
         /\ shown' \in Views \cup {None}
         /\ fresh' \in BOOLEAN
         /\ shown' # shown => shown' \in Views
         /\ UNCHANGED <<server, route, open, busy, ask, told, strayed>>
<1> USE DEF TypeInv, TypeOK, server, page, history
<1>0. c \in Reads
  OBVIOUS
<1>1. CASE ReadProject(c)
  <2>1. [c.view EXCEPT !.credited = credited[c.view.project]] \in Views
    BY <1>0 DEF Reads, Views
  <2>2. [c EXCEPT !.stage = "half", !.view = [c.view EXCEPT !.credited = credited[c.view.project]]] \in Reads
    BY <1>0, <2>1 DEF Reads
  <2>3. QED
    BY <1>1, <2>2 DEF ReadProject, Stepped
<1>2. CASE ReadRows(c)
  <2>1. PICK l \in SUBSET Gifts : reads' = Stepped(c, "full", [c.view EXCEPT !.rows = l])
    BY <1>2 DEF ReadRows
  <2>2. [c.view EXCEPT !.rows = l] \in Views
    BY <1>0 DEF Reads, Views
  <2>3. [c EXCEPT !.stage = "full", !.view = [c.view EXCEPT !.rows = l]] \in Reads
    BY <1>0, <2>2 DEF Reads
  <2>4. QED
    BY <1>2, <2>1, <2>3 DEF ReadRows, Stepped
<1>3. CASE Show(c)
  BY <1>0, <1>3 DEF Show, Reads
<1>4. CASE Miss(c)
  BY <1>4 DEF Miss
<1>5. QED
  BY <1>1, <1>2, <1>3, <1>4 DEF Steps

LEMMA RecordTypes ==
  ASSUME TypeInv, NEW g \in Gifts, NEW p \in Projects, Record(g, p)
  PROVE  /\ row' = [row EXCEPT ![g] = p]
         /\ row[g] = None
         /\ row' \in [Gifts -> Projects \cup {None}]
         /\ credited' \in [Projects -> Amounts]
         /\ UNCHANGED <<page, reads, ask, told, history>>
BY DEF Record, Save, Recorded, TypeInv, TypeOK, Amounts

LEMMA ReviewTypes ==
  ASSUME TypeInv, NEW p \in Projects, Review(p)
  PROVE  /\ credited' \in [Projects -> Amounts]
         /\ UNCHANGED <<row, page, reads, ask, told, history>>
BY DEF Review, Save, Recorded, TypeInv, TypeOK, Amounts

LEMMA UnmountedTypes ==
  ASSUME TypeInv
  PROVE  /\ Unmounted \in [Gifts -> Asks \cup {None}]
         /\ \A g \in Gifts :
              /\ Unmounted[g] = None <=> ask[g] = None
              /\ ask[g] # None =>
                   /\ ~ Unmounted[g].here
                   /\ Unmounted[g].project = ask[g].project
                   /\ Unmounted[g].seen = ask[g].seen
<1> SUFFICES ASSUME NEW g \in Gifts, ask[g] # None
             PROVE  /\ [ask[g] EXCEPT !.here = FALSE, !.at = ask[g].seen] \in Asks
                    /\ ~ [ask[g] EXCEPT !.here = FALSE, !.at = ask[g].seen].here
                    /\ [ask[g] EXCEPT !.here = FALSE, !.at = ask[g].seen].project = ask[g].project
                    /\ [ask[g] EXCEPT !.here = FALSE, !.at = ask[g].seen].seen = ask[g].seen
  BY NoneAssumption DEF Unmounted
<1>1. ask[g] \in Asks
  BY DEF TypeInv, TypeOK
<1>2. QED
  BY <1>1 DEF Asks

\* Pressing the button sends what the dialog names.
LEMMA SubmitTypes ==
  ASSUME TypeInv, NEW g \in Gifts, Submit(g)
  PROVE  /\ ask' = [ask EXCEPT ![g] = ask'[g]]
         /\ ask'[g] \in Asks
         /\ ask'[g] # None
         /\ ask'[g].project = ask'[g].seen
         /\ ask'[g].here
         /\ route \in Projects
         /\ ask[g] = None
         /\ row[g] = None
         /\ busy' = TRUE
         /\ UNCHANGED <<server, route, shown, open, reads, told, history>>
<1>1. shown \in Views /\ route \in Projects
  BY NoneAssumption DEF TypeInv, TypeOK, PageInv, Submit
<1>2. shown.project \in Projects
  BY <1>1 DEF Views
<1>3. ask'[g] = [project |-> shown.project, seen |-> shown.project, at |-> route, here |-> TRUE]
  BY DEF Submit, TypeInv, TypeOK
<1>4. ask'[g] \in Asks
  BY <1>1, <1>2, <1>3 DEF Asks
<1>5. QED
  BY <1>1, <1>3, <1>4, NoneAssumption DEF Submit, TypeInv, TypeOK

\* Whatever the donor is told.
LEMMA TellTypes ==
  ASSUME TypeInv, NEW g \in Gifts, Thank(g) \/ GiveUp(g)
  PROVE  /\ ask[g] \in Asks /\ ask[g] # None
         /\ told[g] = "nothing"
         /\ \E w \in {"thanks", "sorry"} :
              /\ told' = [told EXCEPT ![g] = w]
              /\ w = "thanks" => row[g] # None
         /\ told'[g] = "thanks" /\ ask[g].here => fresh' = FALSE
         /\ busy' = (busy /\ ~ask[g].here)
         /\ reads' \subseteq Reads
         /\ open' \in BOOLEAN /\ (open' => open)
         /\ fresh' \in BOOLEAN
         /\ strayed' \in BOOLEAN
         /\ UNCHANGED <<server, route, shown, ask>>
<1> USE DEF TypeInv, TypeOK, Tell, Pending, history
<1>1. ask[g] \in Asks /\ ask[g] # None
  BY DEF Thank, GiveUp
<1>2. CASE Thank(g) /\ ask[g].here
  <2>1. ask[g].at \in Projects
    BY <1>1 DEF Asks
  <2>2. LoadProject(ask[g].at, reads)
    BY <1>2 DEF Thank
  <2>3. reads' \subseteq Reads /\ fresh' = FALSE
    BY <2>1, <2>2, LoadTypes
  <2>4. QED
    BY <1>1, <1>2, <2>3 DEF Thank
<1>3. CASE Thank(g) /\ ~ask[g].here
  BY <1>1, <1>3 DEF Thank
<1>4. CASE GiveUp(g)
  BY <1>1, <1>4 DEF GiveUp
<1>5. QED
  BY <1>2, <1>3, <1>4

LEMMA StepTypes == TypeInv /\ [Next]_vars => TypeInv'
<1> SUFFICES ASSUME TypeInv, [Next]_vars PROVE TypeInv'
  OBVIOUS
<1>a. TypeOK /\ PageInv /\ AskInv
  BY DEF TypeInv
<1>1. ASSUME NEW g \in Gifts, NEW p \in Projects, Record(g, p), ask[g] = None \/ p = ask[g].project
      PROVE  TypeInv'
  BY <1>1, <1>a, RecordTypes, NoneAssumption DEF TypeInv, TypeOK, PageInv, AskInv, page, history
<1>2. ASSUME NEW g \in Gifts, Handle(g) PROVE TypeInv'
  <2>1. ask[g] # None /\ ask[g] \in Asks
    BY <1>2, <1>a DEF Handle, TypeOK
  <2>2. ask[g].project \in Projects
    BY <2>1 DEF Asks
  <2>3. QED
    BY <1>1, <1>2, <2>2 DEF Handle
<1>3. ASSUME NEW g \in Gifts, Elsewhere(g) PROVE TypeInv'
  BY <1>1, <1>3 DEF Elsewhere
<1>4. ASSUME NEW p \in Projects, Review(p) PROVE TypeInv'
  BY <1>4, <1>a, ReviewTypes DEF TypeInv, TypeOK, PageInv, AskInv, page, history
<1>5. ASSUME NEW g \in Gifts, Submit(g) PROVE TypeInv'
  <2>1. TypeOK'
    BY <1>5, <1>a, SubmitTypes, ZenonT(60) DEF TypeOK, server, history
  <2>2. PageInv'
    BY <1>5, <1>a, SubmitTypes DEF PageInv
  <2>3. AskInv'
    <3>1. told' = told /\ row' = row /\ route' = route
      BY <1>5, SubmitTypes DEF server
    <3>2. /\ ask'[g] # None
          /\ ask'[g].project = ask'[g].seen
          /\ row[g] = None
          /\ route \in Projects
      BY <1>5, SubmitTypes
    <3>3. \A h \in Gifts : h # g => ask'[h] = ask[h]
      BY <1>5, <1>a, SubmitTypes DEF TypeOK
    <3>4. told[g] = "nothing" \/ ask[g] # None
      BY <1>a DEF AskInv
    <3>5. told[g] = "nothing"
      BY <1>5, <3>4, SubmitTypes
    <3>6. QED
      BY <1>a, <3>1, <3>2, <3>3, <3>5 DEF AskInv
  <2>4. QED
    BY <2>1, <2>2, <2>3 DEF TypeInv
<1>6. ASSUME NEW g \in Gifts, Thank(g) \/ GiveUp(g) PROVE TypeInv'
  <2>1. TypeOK'
    BY <1>6, <1>a, TellTypes DEF TypeOK, server
  <2>2. PageInv'
    <3>1. open' => open
      BY <1>6, TellTypes
    <3>2. reads' # {} => route \in Projects
      <4>1. CASE ask[g].here /\ Thank(g)
        BY <4>1, <1>a DEF Thank, Tell, Pending, AskInv
      <4>2. CASE ~(ask[g].here /\ Thank(g))
        BY <4>2, <1>6, <1>a DEF Thank, GiveUp, PageInv
      <4>3. QED
        BY <4>1, <4>2
    <3>3. QED
      BY <3>1, <3>2, <1>6, <1>a, TellTypes DEF PageInv
  <2>3. AskInv'
    BY <1>6, <1>a, TellTypes DEF AskInv, TypeOK, server
  <2>4. QED
    BY <2>1, <2>2, <2>3 DEF TypeInv
<1>7. ASSUME NEW p \in Projects, Enter(p) \/ Jump(p) PROVE TypeInv'
  <2>1. PICK kept \in {{}, reads} : LoadProject(p, kept)
    BY <1>7 DEF Enter, Jump
  <2>2. reads' \subseteq Reads /\ fresh' = FALSE
    BY <1>a, <2>1, LoadTypes DEF TypeOK
  <2>3. /\ route' = p
        /\ UNCHANGED <<server, shown, open, busy, ask, told>>
        /\ strayed' \in BOOLEAN
    BY <1>7, <1>a DEF Enter, Jump, TypeOK
  <2>4. QED
    BY <1>a, <2>2, <2>3 DEF TypeInv, TypeOK, PageInv, AskInv, server
<1>8. ASSUME NEW c \in reads, Steps(c) PROVE TypeInv'
  <2>1. route \in Projects
    BY <1>a DEF PageInv
  <2>2. QED
    BY <1>8, <2>1, <1>a, StageTypes DEF TypeInv, TypeOK, PageInv, AskInv, server
<1>9. CASE Leave
  <2>1. TypeOK'
    BY <1>9, <1>a, UnmountedTypes DEF Leave, TypeOK, server
  <2>2. PageInv'
    BY <1>9 DEF Leave, PageInv
  <2>3. AskInv'
    BY <1>9, <1>a, UnmountedTypes DEF Leave, AskInv, server
  <2>4. QED
    BY <2>1, <2>2, <2>3 DEF TypeInv
<1>10. CASE Click \/ Close
  BY <1>10, <1>a DEF Click, Close, TypeInv, TypeOK, PageInv, AskInv, server, history
<1>11. CASE UNCHANGED vars
  BY <1>11, <1>a DEF vars, server, page, history, TypeInv, TypeOK, PageInv, AskInv
<1>12. QED
  BY <1>2, <1>3, <1>4, <1>5, <1>6, <1>7, <1>8, <1>9, <1>10, <1>11 DEF Next, Steps

LEMMA InitTypes == Init => TypeInv
BY NoneAssumption DEF Init, TypeInv, TypeOK, PageInv, AskInv, Amounts

\* Every variable keeps its type, for any projects, gifts and requests.
THEOREM TypeCorrect == Spec => []TypeOK
<1>1. Spec => []TypeInv
  BY InitTypes, StepTypes, PTL DEF Spec
<1>2. TypeInv => TypeOK
  BY DEF TypeInv
<1>3. QED
  BY <1>1, <1>2, PTL

\* Whoever is thanked has given to the project that the dialog named
\* (DonationModal.tsx:33, ProjectDetail.tsx:213-218).
THEOREM ThanksAreTrue == Spec => []ThanksAreForTheProjectNamed
<1>1. Spec => []TypeInv
  BY InitTypes, StepTypes, PTL DEF Spec
<1>2. TypeInv => ThanksAreForTheProjectNamed
  BY DEF TypeInv, AskInv, ThanksAreForTheProjectNamed
<1>3. QED
  BY <1>1, <1>2, PTL

-----------------------------------------------------------------------------
(* The dialog waits for one donation.                                      *)

LEMMA GiftStep == TypeInv /\ OneGiftAtATime /\ [Next]_vars => OneGiftAtATime'
<1> SUFFICES ASSUME TypeInv, OneGiftAtATime, [Next]_vars PROVE OneGiftAtATime'
  OBVIOUS
<1>1. ASSUME UNCHANGED <<busy, ask, told>> PROVE OneGiftAtATime'
  BY <1>1 DEF OneGiftAtATime, Awaited, Pending
<1>2. ASSUME NEW g \in Gifts, Submit(g) PROVE OneGiftAtATime'
  <2>1. Awaited = {}
    BY <1>2 DEF Submit, OneGiftAtATime
  <2>2. told[g] = "nothing"
    BY <1>2 DEF Submit, TypeInv, AskInv
  <2>3. Awaited' = {g}
    <3>1. ask'[g] # None /\ ask'[g].here /\ told' = told
      BY <1>2, SubmitTypes
    <3>2. \A h \in Gifts : h # g => ask'[h] = ask[h]
      BY <1>2, SubmitTypes DEF TypeInv, TypeOK
    <3>3. QED
      BY <2>1, <2>2, <3>1, <3>2 DEF Awaited, Pending
  <2>4. busy' = TRUE
    BY <1>2 DEF Submit
  <2>5. QED
    BY <2>3, <2>4 DEF OneGiftAtATime
<1>3. ASSUME NEW g \in Gifts, Thank(g) \/ GiveUp(g) PROVE OneGiftAtATime'
  <2>1. /\ ask[g] # None
        /\ told[g] = "nothing"
        /\ told'[g] # "nothing"
        /\ ask' = ask
        /\ \A h \in Gifts : h # g => told'[h] = told[h]
        /\ busy' = (busy /\ ~ask[g].here)
    BY <1>3, TellTypes DEF TypeInv, TypeOK
  <2>2. Awaited' = Awaited \ {g}
    BY <2>1 DEF Awaited, Pending
  <2>3. g \in Awaited <=> ask[g].here
    BY <2>1 DEF Awaited, Pending
  <2>4. QED
    BY <2>1, <2>2, <2>3 DEF OneGiftAtATime
<1>4. CASE Leave
  <2>1. Awaited' = {}
    BY <1>4, UnmountedTypes DEF Leave, Awaited, Pending
  <2>2. busy' = FALSE
    BY <1>4 DEF Leave
  <2>3. QED
    BY <2>1, <2>2 DEF OneGiftAtATime
<1>5. ASSUME NEW c \in reads, Steps(c) PROVE OneGiftAtATime'
  BY <1>1, <1>5, StageTypes
<1>6. ASSUME NEW g \in Gifts, Handle(g) \/ Elsewhere(g) PROVE OneGiftAtATime'
  BY <1>1, <1>6 DEF Handle, Elsewhere, Record, page
<1>7. ASSUME NEW p \in Projects, Review(p) \/ Enter(p) \/ Jump(p) PROVE OneGiftAtATime'
  BY <1>1, <1>7 DEF Review, Enter, Jump, page
<1>8. CASE Click \/ Close
  BY <1>1, <1>8 DEF Click, Close
<1>9. CASE UNCHANGED vars
  BY <1>1, <1>9 DEF vars, page
<1>10. QED
  BY <1>2, <1>3, <1>4, <1>5, <1>6, <1>7, <1>8, <1>9 DEF Next, Steps

\* A dialog has one donation on its way, and its button is disabled exactly as
\* long as it has (DonationModal.tsx:30-46, 148).
THEOREM OneDonationAtATime == Spec => []OneGiftAtATime
<1>1. Init => TypeInv /\ OneGiftAtATime
  BY InitTypes DEF Init, OneGiftAtATime, Awaited, Pending
<1>2. TypeInv /\ OneGiftAtATime /\ [Next]_vars => (TypeInv /\ OneGiftAtATime)'
  BY StepTypes, GiftStep
<1>3. QED
  BY <1>1, <1>2, PTL DEF Spec

-----------------------------------------------------------------------------
(* The raised amount and the list.                                         *)

\* An amount counts donations to its project, beside what it opened with; one
\* that was read before the list counts no others than those listed.
Sources(p) == Recorded(p) \cup Opening[p]
Counted(v) == Cardinality(v.rows) < Limit => v.credited \subseteq v.rows \cup Opening[v.project]
AmountInv ==
  /\ \A p \in Projects : credited[p] \subseteq Sources(p)
  /\ \A c \in reads :
       /\ c.stage = "half" => c.view.credited \subseteq Sources(c.view.project)
       /\ c.stage = "full" => Counted(c.view)
  /\ shown # None => Counted(shown)

\* Donations stay, and amounts count donations.
LEMMA RowsStay ==
  ASSUME TypeInv, AmountInv, [Next]_vars
  PROVE  \A p \in Projects : Recorded(p) \subseteq Recorded(p)' /\ credited'[p] \subseteq Sources(p)'
<1> USE DEF AmountInv, TypeInv, TypeOK
<1>1. ASSUME UNCHANGED <<row, credited>>
      PROVE  \A p \in Projects : Recorded(p) \subseteq Recorded(p)' /\ credited'[p] \subseteq Sources(p)'
  BY <1>1 DEF Recorded, Sources
<1>2. ASSUME NEW g \in Gifts, NEW q \in Projects, Record(g, q)
      PROVE  \A p \in Projects : Recorded(p) \subseteq Recorded(p)' /\ credited'[p] \subseteq Sources(p)'
  <2>1. row' = [row EXCEPT ![g] = q] /\ row[g] = None
    BY <1>2 DEF Record
  <2>2. \A p \in Projects : Recorded(p) \subseteq Recorded(p)'
    BY <2>1, NoneAssumption DEF Recorded
  <2>3. g \in Recorded(q)'
    BY <2>1 DEF Recorded
  <2>4. PICK old \in SUBSET Recorded(q) : credited' = [credited EXCEPT ![q] = Opening[q] \cup old \cup {g}]
    BY <1>2 DEF Record, Save
  <2>5. QED
    BY <2>2, <2>3, <2>4 DEF Sources
<1>3. ASSUME NEW g \in Gifts, Handle(g) \/ Elsewhere(g)
      PROVE  \E q \in Projects : Record(g, q)
  <2>1. CASE Handle(g)
    <3>1. ask[g] \in Asks
      BY <2>1 DEF Handle
    <3>2. ask[g].project \in Projects
      BY <3>1 DEF Asks
    <3>3. QED
      BY <2>1, <3>2 DEF Handle
  <2>2. QED
    BY <1>3, <2>1 DEF Elsewhere
<1>4. ASSUME NEW q \in Projects, Review(q)
      PROVE  \A p \in Projects : Recorded(p) \subseteq Recorded(p)' /\ credited'[p] \subseteq Sources(p)'
  <2>1. PICK old \in SUBSET Recorded(q) : credited' = [credited EXCEPT ![q] = Opening[q] \cup old \cup {}]
    BY <1>4 DEF Review, Save
  <2>2. row' = row
    BY <1>4 DEF Review
  <2>3. QED
    BY <2>1, <2>2 DEF Recorded, Sources
<1>5. ASSUME NEW c \in reads, Steps(c) PROVE UNCHANGED <<row, credited>>
  BY <1>5, StageTypes DEF server
<1>6. ASSUME NEW g \in Gifts, Submit(g) \/ Thank(g) \/ GiveUp(g) PROVE UNCHANGED <<row, credited>>
  BY <1>6 DEF Submit, Thank, GiveUp, Tell, server
<1>7. ASSUME NEW p \in Projects, Enter(p) \/ Jump(p) PROVE UNCHANGED <<row, credited>>
  BY <1>7 DEF Enter, Jump, server
<1>8. CASE Leave \/ Click \/ Close \/ UNCHANGED vars
  <2>1. UNCHANGED <<row, credited>>
    BY <1>8 DEF Leave, Click, Close, vars, server
  <2>2. QED
    BY <1>1, <2>1
<1>9. QED
  BY <1>1, <1>2, <1>3, <1>4, <1>5, <1>6, <1>7, <1>8 DEF Next, Steps

LEMMA AmountStep == TypeInv /\ AmountInv /\ [Next]_vars => AmountInv'
<1> SUFFICES ASSUME TypeInv, AmountInv, [Next]_vars PROVE AmountInv'
  OBVIOUS
<1> DEFINE Sound(c) ==
      /\ c.stage = "half" => c.view.credited \subseteq Sources(c.view.project)
      /\ c.stage = "full" => Counted(c.view)
<1>a. \A p \in Projects : Recorded(p) \subseteq Recorded(p)' /\ credited'[p] \subseteq Sources(p)'
  BY RowsStay
<1>b. \A c \in reads : c \in Reads /\ c.view \in Views /\ c.view.project \in Projects
  BY DEF TypeInv, TypeOK, Reads, Views
<1>c. \A c \in reads : Sound(c)'
  BY <1>a, <1>b DEF AmountInv, Counted, Sources
\* A request keeps its stage and view, or is one that was just sent.
<1> DEFINE Kept == \A c \in reads' :
      c.stage = "sent" \/ \E d \in reads : c.stage = d.stage /\ c.view = d.view
<1>1. ASSUME Kept, shown' = shown \/ shown' = None PROVE AmountInv'
  BY <1>1, <1>a, <1>c DEF AmountInv, Counted
<1>2. ASSUME NEW p \in Projects, NEW kept \in {{}, reads}, LoadProject(p, kept) PROVE Kept
  <2>1. \A c \in kept : [c EXCEPT !.newest = FALSE].stage = c.stage /\ [c EXCEPT !.newest = FALSE].view = c.view
    BY <1>b DEF Reads
  <2>2. [stage |-> "sent", newest |-> TRUE,
         view |-> [project |-> p, credited |-> {}, rows |-> {}]].stage = "sent"
    OBVIOUS
  <2>3. ASSUME NEW e \in reads'
        PROVE  e.stage = "sent" \/ \E d \in reads : e.stage = d.stage /\ e.view = d.view
    <3>1. CASE e \in {[c EXCEPT !.newest = FALSE] : c \in kept}
      <4>1. PICK d \in kept : e = [d EXCEPT !.newest = FALSE]
        BY <3>1
      <4>2. QED
        BY <2>1, <4>1
    <3>2. QED
      BY <1>2, <2>2, <3>1 DEF LoadProject
  <2>4. QED
    BY <2>3
<1>3. ASSUME NEW p \in Projects, Enter(p) \/ Jump(p) PROVE AmountInv'
  BY <1>1, <1>2, <1>3 DEF Enter, Jump
<1>4. ASSUME NEW g \in Gifts, Thank(g) \/ GiveUp(g) PROVE AmountInv'
  <2>1. shown' = shown
    BY <1>4 DEF Thank, GiveUp, Tell
  <2>2. CASE reads' = reads
    BY <1>1, <2>1, <2>2
  <2>3. CASE reads' # reads
    <3>1. LoadProject(ask[g].at, reads) /\ ask[g] \in Asks
      BY <1>4, <2>3, TellTypes DEF Thank, GiveUp
    <3>2. ask[g].at \in Projects
      BY <3>1 DEF Asks
    <3>3. QED
      BY <1>1, <1>2, <2>1, <3>1, <3>2
  <2>4. QED
    BY <2>2, <2>3
<1>5. ASSUME NEW c \in reads, ReadProject(c) PROVE AmountInv'
  <2>1. PICK v : v = [c.view EXCEPT !.credited = credited[c.view.project]]
    OBVIOUS
  <2>2. PICK d : d = [c EXCEPT !.stage = "half", !.view = v]
    OBVIOUS
  <2>3. v.credited = credited[c.view.project] /\ v.project = c.view.project
    BY <1>b, <2>1 DEF Views
  <2>4. d.stage = "half" /\ d.view = v
    BY <1>b, <2>2 DEF Reads
  <2>5. d.view.credited \subseteq Sources(d.view.project)'
    BY <1>a, <1>b, <2>3, <2>4 DEF AmountInv, Sources
  <2>6. reads' = (reads \ {c}) \cup {d}
    BY <1>5, <2>1, <2>2 DEF ReadProject, Stepped
  <2>7. shown' = shown
    BY <1>5 DEF ReadProject, page
  <2>8. QED
    BY <1>a, <1>c, <2>4, <2>5, <2>6, <2>7 DEF AmountInv, Counted
<1>6. ASSUME NEW c \in reads, ReadRows(c) PROVE AmountInv'
  <2>1. PICK l \in SUBSET Gifts :
          /\ Listed(c.view.project, l)
          /\ reads' = Stepped(c, "full", [c.view EXCEPT !.rows = l])
    BY <1>6 DEF ReadRows
  <2> DEFINE v == [c.view EXCEPT !.rows = l]
             d == [c EXCEPT !.stage = "full", !.view = v]
  <2>2. v.credited = c.view.credited /\ v.rows = l /\ v.project = c.view.project
    BY <1>b DEF Views
  <2>3. d.stage = "full" /\ d.view = v
    BY <1>b DEF Reads
  <2>4. c.view.credited \subseteq Sources(c.view.project)
    BY <1>6 DEF ReadRows, AmountInv
  <2>5. Counted(v)
    <3>1. CASE l = Recorded(c.view.project)
      BY <1>b, <2>2, <2>4, <3>1 DEF Counted, Sources, Views
    <3>2. CASE Cardinality(l) = Limit
      BY <2>2, <3>2, LimitAssumption DEF Counted
    <3>3. QED
      BY <2>1, <3>1, <3>2 DEF Listed
  <2>6. reads' = (reads \ {c}) \cup {d} /\ shown' = shown
    BY <1>6, <2>1 DEF ReadRows, Stepped, page
  <2>7. QED
    BY <1>a, <1>c, <2>3, <2>5, <2>6 DEF AmountInv, Counted
<1>7. ASSUME NEW c \in reads, Show(c) PROVE AmountInv'
  BY <1>7, <1>a, <1>c DEF Show, AmountInv, Counted
<1>8. ASSUME NEW c \in reads, Miss(c) PROVE AmountInv'
  BY <1>1, <1>8 DEF Miss
<1>9. ASSUME NEW g \in Gifts, Handle(g) \/ Elsewhere(g) \/ Submit(g) PROVE AmountInv'
  BY <1>1, <1>9 DEF Handle, Elsewhere, Record, Submit, page
<1>10. ASSUME NEW p \in Projects, Review(p) PROVE AmountInv'
  BY <1>1, <1>10 DEF Review, page
<1>11. CASE Leave \/ Click \/ Close \/ UNCHANGED vars
  BY <1>1, <1>11 DEF Leave, Click, Close, vars, page
<1>12. QED
  BY <1>3, <1>4, <1>5, <1>6, <1>7, <1>8, <1>9, <1>10, <1>11 DEF Next

\* Beside what the project opened with, the raised amount on the page counts
\* only donations that are listed below it, unless the list is full
\* (service_project.go:59-68).
THEOREM AmountsAreListed == Spec => []AmountIsListed
<1>1. Init => AmountInv
  BY DEF Init, AmountInv, Sources
<1>2. TypeInv /\ AmountInv /\ [Next]_vars => (TypeInv /\ AmountInv)'
  BY StepTypes, AmountStep
<1>3. AmountInv => AmountIsListed
  BY DEF AmountInv, Counted, AmountIsListed
<1>4. QED
  BY InitTypes, <1>1, <1>2, <1>3, PTL DEF Spec
-----------------------------------------------------------------------------
(* What the page answers to its last request.                              *)

\* The last request is for the address, or for one left by a donor; its answer
\* lists the donations that were thanked for before it was sent.
Thanked(p) == {g \in Gifts : ask[g] # None /\ told[g] = "thanks" /\ ask[g].here /\ row[g] = p}
Complete(v) == Cardinality(v.rows) < Limit => Thanked(v.project) \subseteq v.rows
LastInv ==
  /\ \A c \in reads : c.newest =>
       /\ ~strayed => c.view.project = route
       /\ c.stage = "full" => Complete(c.view)
  /\ fresh => shown \in Views /\ (~strayed => shown.project = route) /\ Complete(shown)

\* Without a new request, nothing is added to what was thanked for.
LEMMA NothingThanked ==
  ASSUME TypeInv, UNCHANGED <<row, told>>,
         \A g \in Gifts : ask'[g] = ask[g] \/ told[g] = "nothing"
  PROVE  \A p \in Projects : Thanked(p)' \subseteq Thanked(p)
BY DEF Thanked, TypeInv, AskInv

LEMMA LastStep == TypeInv /\ LastInv /\ [Next]_vars => LastInv'
<1> SUFFICES ASSUME TypeInv, LastInv, [Next]_vars PROVE LastInv'
  OBVIOUS
<1> USE DEF history
<1>a. \A c \in reads : c \in Reads /\ c.view \in Views /\ c.view.project \in Projects
  BY DEF TypeInv, TypeOK, Reads, Views
<1>b. \A v \in Views : v.project \in Projects
  BY DEF Views
\* A request from the page as it is now is the last one, and just sent.
<1>1. ASSUME NEW p \in Projects, NEW kept \in {{}, reads}, LoadProject(p, kept), ~strayed' => p = route'
      PROVE  LastInv'
  <2>1. \A e \in reads' : e.newest => e.stage = "sent" /\ e.view.project = p
    <3>1. \A c \in kept : ~[c EXCEPT !.newest = FALSE].newest
      BY <1>a DEF Reads
    <3>2. PICK v : v = [project |-> p, credited |-> {}, rows |-> {}]
      OBVIOUS
    <3>3. PICK d : d = [stage |-> "sent", newest |-> TRUE, view |-> v]
      OBVIOUS
    <3>4. d.stage = "sent" /\ d.view.project = p
      BY <3>2, <3>3
    <3>5. reads' = {[c EXCEPT !.newest = FALSE] : c \in kept} \cup {d}
      BY <1>1, <3>2, <3>3 DEF LoadProject
    <3>6. ASSUME NEW e \in reads', e.newest PROVE e = d
      BY <3>1, <3>5, <3>6
    <3>7. QED
      BY <3>4, <3>6
  <2>2. fresh' = FALSE
    BY <1>1 DEF LoadProject
  <2>3. QED
    BY <1>1, <2>1, <2>2 DEF LastInv
\* A step of something else.
<1>2. ASSUME reads' \subseteq reads, UNCHANGED <<route, shown, fresh, strayed>>,
             \A p \in Projects : Thanked(p)' \subseteq Thanked(p)
      PROVE  LastInv'
  BY <1>2, <1>a, <1>b DEF LastInv, Complete
<1>3. ASSUME NEW p \in Projects, Enter(p) PROVE LastInv'
  <2>1. LoadProject(p, {}) /\ route' = p
    BY <1>3 DEF Enter
  <2>2. QED
    BY <1>1, <2>1
<1>4. ASSUME NEW p \in Projects, Jump(p) PROVE LastInv'
  <2>1. LoadProject(p, reads) /\ route' = p
    BY <1>4 DEF Jump
  <2>2. QED
    BY <1>1, <2>1
<1>5. ASSUME NEW g \in Gifts, Thank(g), ask[g].here PROVE LastInv'
  <2>1. /\ LoadProject(ask[g].at, reads)
        /\ strayed' = (ask[g].at # route)
        /\ route' = route
        /\ ask[g] \in Asks
    BY <1>5, TellTypes DEF Thank, Tell
  <2>2. ask[g].at \in Projects
    BY <2>1 DEF Asks
  <2>3. QED
    BY <1>1, <2>1, <2>2
<1>6. ASSUME NEW g \in Gifts, GiveUp(g) \/ (Thank(g) /\ ~ask[g].here) PROVE LastInv'
  <2>1. UNCHANGED <<reads, route, shown, fresh, strayed, row, ask>>
    BY <1>6 DEF Thank, GiveUp, Tell, server
  <2>2. \A h \in Gifts : told'[h] = "thanks" => told[h] = "thanks" \/ ~ask[h].here
    BY <1>6 DEF Thank, GiveUp, Tell, TypeInv, TypeOK
  <2>3. \A p \in Projects : Thanked(p)' \subseteq Thanked(p)
    BY <2>1, <2>2 DEF Thanked
  <2>4. QED
    BY <1>2, <2>1, <2>3
<1>7. ASSUME NEW c \in reads, ReadProject(c) PROVE LastInv'
  <2>1. PICK v : v = [c.view EXCEPT !.credited = credited[c.view.project]]
    OBVIOUS
  <2>2. PICK d : d = [c EXCEPT !.stage = "half", !.view = v]
    OBVIOUS
  <2>3. d.stage = "half" /\ d.newest = c.newest /\ d.view.project = c.view.project
    BY <1>a, <2>1, <2>2 DEF Reads, Views
  <2>4. reads' = (reads \ {c}) \cup {d}
    BY <1>7, <2>1, <2>2 DEF ReadProject, Stepped
  <2>5. UNCHANGED <<row, route, shown, fresh, strayed, ask, told>>
    BY <1>7 DEF ReadProject, server, page
  <2>6. QED
    BY <2>3, <2>4, <2>5 DEF LastInv, Complete, Thanked
<1>8. ASSUME NEW c \in reads, ReadRows(c) PROVE LastInv'
  <2>1. PICK l \in SUBSET Gifts :
          /\ Listed(c.view.project, l)
          /\ reads' = Stepped(c, "full", [c.view EXCEPT !.rows = l])
    BY <1>8 DEF ReadRows
  <2>2. PICK v : v = [c.view EXCEPT !.rows = l]
    OBVIOUS
  <2>3. PICK d : d = [c EXCEPT !.stage = "full", !.view = v]
    OBVIOUS
  <2>4. /\ d.newest = c.newest
        /\ d.view.project = c.view.project
        /\ d.view.rows = l
    BY <1>a, <2>2, <2>3 DEF Reads, Views
  <2>5. reads' = (reads \ {c}) \cup {d}
    BY <2>1, <2>2, <2>3 DEF Stepped
  <2>6. UNCHANGED <<row, route, shown, fresh, strayed, ask, told>>
    BY <1>8 DEF ReadRows, server, page
  <2>7. Complete(d.view)
    <3>1. Thanked(c.view.project) \subseteq Recorded(c.view.project)
      BY DEF Thanked, Recorded
    <3>2. CASE Cardinality(Recorded(c.view.project)) <= Limit
      BY <2>1, <2>4, <3>1, <3>2 DEF Listed, Complete
    <3>3. CASE ~(Cardinality(Recorded(c.view.project)) <= Limit)
      BY <2>1, <2>4, <3>3, LimitAssumption DEF Listed, Complete
    <3>4. QED
      BY <3>2, <3>3
  <2>8. QED
    BY <2>4, <2>5, <2>6, <2>7 DEF LastInv, Complete, Thanked
<1>9. ASSUME NEW c \in reads, Show(c) PROVE LastInv'
  <2>1. /\ c.stage = "full"
        /\ shown' = c.view
        /\ fresh' = c.newest
        /\ reads' \subseteq reads
        /\ UNCHANGED <<row, route, strayed, ask, told>>
    BY <1>9 DEF Show, server
  <2>2. QED
    BY <1>a, <2>1 DEF LastInv, Complete, Thanked
<1>10. ASSUME NEW c \in reads, Miss(c) PROVE LastInv'
  <2>1. reads' \subseteq reads /\ UNCHANGED <<row, route, shown, fresh, strayed, ask, told>>
    BY <1>10 DEF Miss, server
  <2>2. \A p \in Projects : Thanked(p)' \subseteq Thanked(p)
    BY <2>1, NothingThanked
  <2>3. QED
    BY <1>2, <2>1, <2>2
<1>11. ASSUME NEW g \in Gifts, Submit(g) PROVE LastInv'
  <2>1. UNCHANGED <<reads, row, route, shown, fresh, strayed, told>>
    BY <1>11 DEF Submit, server
  <2>2. \A h \in Gifts : ask'[h] = ask[h] \/ told[h] = "nothing"
    BY <1>11 DEF Submit, TypeInv, TypeOK, AskInv
  <2>3. \A p \in Projects : Thanked(p)' \subseteq Thanked(p)
    BY <2>1, <2>2, NothingThanked
  <2>4. QED
    BY <1>2, <2>1, <2>3
<1>12. ASSUME NEW g \in Gifts, NEW p \in Projects, Record(g, p) PROVE LastInv'
  <2>1. UNCHANGED <<reads, route, shown, fresh, strayed, ask, told>>
    BY <1>12 DEF Record, page
  <2>2. told[g] # "thanks" /\ \A h \in Gifts : h # g => row'[h] = row[h]
    BY <1>12 DEF Record, TypeInv, TypeOK, AskInv
  <2>3. \A q \in Projects : Thanked(q)' \subseteq Thanked(q)
    BY <2>1, <2>2 DEF Thanked
  <2>4. QED
    BY <1>2, <2>1, <2>3
<1>13. ASSUME NEW g \in Gifts, Handle(g) \/ Elsewhere(g) PROVE \E p \in Projects : Record(g, p)
  <2>1. CASE Handle(g)
    <3>1. ask[g] \in Asks
      BY <2>1 DEF Handle, TypeInv, TypeOK
    <3>2. ask[g].project \in Projects
      BY <3>1 DEF Asks
    <3>3. QED
      BY <2>1, <3>2 DEF Handle
  <2>2. QED
    BY <1>13, <2>1 DEF Elsewhere
<1>14. CASE Click \/ Close \/ UNCHANGED vars \/ \E p \in Projects : Review(p)
  <2>1. UNCHANGED <<reads, route, shown, fresh, strayed, row, ask, told>>
    BY <1>14 DEF Click, Close, vars, Review, server, page
  <2>2. \A p \in Projects : Thanked(p)' \subseteq Thanked(p)
    BY <2>1, NothingThanked
  <2>3. QED
    BY <1>2, <2>1, <2>2
<1>15. CASE Leave
  BY <1>15 DEF Leave, LastInv
<1>16. QED
  BY <1>3, <1>4, <1>5, <1>6, <1>7, <1>8, <1>9, <1>10, <1>11, <1>12, <1>13, <1>14, <1>15 DEF Next

LEMMA LastIsInvariant == Spec => [](TypeInv /\ LastInv)
<1>1. Init => LastInv
  BY DEF Init, LastInv
<1>2. TypeInv /\ LastInv /\ [Next]_vars => (TypeInv /\ LastInv)'
  BY StepTypes, LastStep
<1>3. QED
  BY InitTypes, <1>1, <1>2, PTL DEF Spec

\* The answer to the last request is of the project in the address, unless it
\* was the reload of a donation from an address that has been left, and it
\* lists every donation the page has thanked for (ProjectDetail.tsx:19-34,
\* DonationModal.tsx:39-41).
THEOREM PageKeepsUp == Spec => []PageIsCurrent
<1>1. LastInv => (fresh /\ ~strayed => shown # None /\ shown.project = route)
  BY NoneAssumption DEF LastInv
<1>2. TypeInv /\ LastInv => PageIsCurrent
  BY <1>1 DEF TypeInv, AskInv, LastInv, Complete, Thanked, PageIsCurrent
<1>3. QED
  BY LastIsInvariant, <1>2, PTL
=============================================================================
