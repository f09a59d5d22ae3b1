--------------------------- MODULE DonationDialog ---------------------------
(***************************************************************************)
(* The page of a project, the dialog that donates from it, and the server  *)
(* behind both.  The page asks for the project whenever its address        *)
(* changes and after every donation, and shows whatever answer comes; the  *)
(* server reads the project and its donations one after the other.  A      *)
(* raised amount is the set of the gifts it counts: DonationLedger shows   *)
(* that it may count fewer than there are, and by how much cents may round.*)
(* The demo data opens projects with an amount that no donation stands for.*)
(***************************************************************************)
EXTENDS FiniteSets, Naturals

CONSTANTS
  Projects,
  Gifts,      \* bound: the donations that are ever made, of this donor and of others
  Opening,    \* what each raised amount counts from the start, beside donations
  MaxReads,   \* bound: how many answers the page waits for at once
  Limit,      \* how many donations the page lists
  None

ASSUME LimitAssumption == Limit \in Nat
ASSUME MaxReadsAssumption == MaxReads \in Nat
ASSUME GiftsAssumption == IsFiniteSet(Gifts)
ASSUME OpeningAssumption == \A p \in Projects : Opening[p] \cap Gifts = {}

VARIABLES
  row, credited,    \* the donations, and those that each raised amount counts
  route,            \* the project in the address, or None on another page
  shown,            \* what the page shows; without it, a notice
  open, busy,       \* the dialog, and its own loading
  reads,            \* the page's requests in flight
  ask, told,        \* what was sent for a gift, and what its donor was told
  fresh,            \* history: the page shows the answer to its last request
  strayed           \* history: that request was for an address the page has left

server == <<row, credited>>
page == <<route, shown, open, busy>>
history == <<fresh, strayed>>
vars == <<server, page, reads, ask, told, history>>

Amounts == SUBSET (Gifts \cup UNION {Opening[p] : p \in Projects})
Views == [project: Projects, credited: Amounts, rows: SUBSET Gifts]
Reads == [stage: {"sent", "half", "full"}, newest: BOOLEAN, view: Views]
\* project goes to the server, seen is the one the dialog names, at the address
\* that is loaded again; here says that the dialog is still there, without
\* which at means nothing.
Asks == [project: Projects, seen: Projects, at: Projects, here: BOOLEAN]

ASSUME NoneAssumption == None \notin Projects \cup Views \cup Asks

Init ==
  /\ row = [g \in Gifts |-> None]
  /\ credited = [p \in Projects |-> Opening[p]]
  /\ route = None
  /\ shown = None
  /\ open = FALSE
  /\ busy = FALSE
  /\ reads = {}
  /\ ask = [g \in Gifts |-> None]
  /\ told = [g \in Gifts |-> "nothing"]
  /\ fresh = FALSE
  /\ strayed = FALSE

-----------------------------------------------------------------------------
(* The server.                                                             *)

Recorded(p) == {g \in Gifts : row[g] = p}

\* A transaction on p leaves an amount that may be an old one.
Save(p, new) ==
  \E old \in SUBSET Recorded(p) :
    credited' = [credited EXCEPT ![p] = Opening[p] \cup old \cup new]

Record(g, p) ==
  /\ row[g] = None
  /\ row' = [row EXCEPT ![g] = p]
  /\ Save(p, {g})
  /\ UNCHANGED <<page, reads, ask, told, history>>

\* The server carries out a donation that was sent, whatever its donor has been
\* told by then, or never.
Handle(g) == ask[g] # None /\ Record(g, ask[g].project)

\* Another donor's gift.
Elsewhere(g) == ask[g] = None /\ \E p \in Projects : Record(g, p)

\* A review saves the amount it read.
Review(p) ==
  /\ Save(p, {})
  /\ UNCHANGED <<row, page, reads, ask, told, history>>

\* GetDetail, one SELECT after the other.
Stepped(c, stage, view) == (reads \ {c}) \cup {[c EXCEPT !.stage = stage, !.view = view]}

ReadProject(c) ==
  /\ c.stage = "sent"
  /\ reads' = Stepped(c, "half", [c.view EXCEPT !.credited = credited[c.view.project]])
  /\ UNCHANGED <<server, page, ask, told, history>>

\* The newest donations of p, Limit of them at most.
Listed(p, l) ==
  IF Cardinality(Recorded(p)) <= Limit THEN l = Recorded(p)
  ELSE l \subseteq Recorded(p) /\ Cardinality(l) = Limit

ReadRows(c) ==
  /\ c.stage = "half"
  /\ \E l \in SUBSET Gifts :
       /\ Listed(c.view.project, l)
       /\ reads' = Stepped(c, "full", [c.view EXCEPT !.rows = l])
  /\ UNCHANGED <<server, page, ask, told, history>>

-----------------------------------------------------------------------------
(* The page.                                                               *)

\* loadProject for p, beside the requests kept in flight.
LoadProject(p, kept) ==
  /\ Cardinality(kept) < MaxReads
  /\ reads' = {[c EXCEPT !.newest = FALSE] : c \in kept} \cup
       {[stage |-> "sent", newest |-> TRUE,
         view |-> [project |-> p, credited |-> {}, rows |-> {}]]}
  /\ fresh' = FALSE

Unmounted ==
  [g \in Gifts |-> IF ask[g] = None THEN None
                  ELSE [ask[g] EXCEPT !.here = FALSE, !.at = ask[g].seen]]

\* The page is opened at p.
Enter(p) ==
  /\ route = None
  /\ route' = p
  /\ LoadProject(p, {})
  /\ UNCHANGED <<server, shown, open, busy, ask, told, strayed>>

\* The history of the browser leads from one project to another: the page
\* stays, with all that it shows, and its effect on [id] loads the other.
Jump_NoLoad(p) ==                    \* mutant: the effect does not depend on [id]
  /\ route \notin {None, p}
  /\ route' = p
  /\ strayed' = FALSE
  /\ UNCHANGED <<server, shown, open, busy, reads, ask, told, fresh>>
Jump(p) ==
  /\ route \notin {None, p}
  /\ route' = p
  /\ LoadProject(p, reads)
  /\ strayed' = FALSE
  /\ UNCHANGED <<server, shown, open, busy, ask, told>>

\* Another page; a visitor who wants to donate goes to /login.
Leave ==
  /\ route # None
  /\ route' = None
  /\ shown' = None
  /\ open' = FALSE
  /\ busy' = FALSE
  /\ reads' = {}
  /\ ask' = Unmounted
  /\ fresh' = FALSE
  /\ strayed' = FALSE
  /\ UNCHANGED <<server, told>>

Show_Rereads(c) ==                   \* mutant: the amount is read after the list
  /\ c.stage = "full"
  /\ shown' = [c.view EXCEPT !.credited = credited[c.view.project]]
  /\ reads' = reads \ {c}
  /\ fresh' = c.newest
  /\ UNCHANGED <<server, route, open, busy, ask, told, strayed>>
Show_Whole(c) ==                     \* mutant: the answer is shown, not its data
  /\ c.stage = "full"
  /\ shown' = c
  /\ reads' = reads \ {c}
  /\ fresh' = c.newest
  /\ UNCHANGED <<server, route, open, busy, ask, told, strayed>>
Show(c) ==
  /\ c.stage = "full"
  /\ shown' = c.view
  /\ reads' = reads \ {c}
  /\ fresh' = c.newest
  /\ UNCHANGED <<server, route, open, busy, ask, told, strayed>>

\* An answer is lost, late or an error: what is shown stays.
Miss(c) ==
  /\ reads' = reads \ {c}
  /\ UNCHANGED <<server, route, shown, open, busy, ask, told, history>>

-----------------------------------------------------------------------------
(* The dialog.                                                             *)

\* The button of the page.  It is disabled while a completed project is shown;
\* which projects are completed is left open.
Click ==
  /\ shown # None
  /\ open' = TRUE
  /\ UNCHANGED <<server, route, shown, busy, reads, ask, told, history>>

\* The cross in its corner, also while a donation is on its way.
Close_Resets ==                      \* mutant: closing the dialog resets it
  /\ open
  /\ open' = FALSE
  /\ busy' = FALSE
  /\ UNCHANGED <<server, route, shown, reads, ask, told, history>>
Close ==
  /\ open
  /\ open' = FALSE
  /\ UNCHANGED <<server, route, shown, busy, reads, ask, told, history>>

\* handleSubmit, up to the await.
Submit_Route(g) ==                   \* mutant: the project of the address is sent
  /\ open
  /\ ~busy
  /\ ask[g] = None
  /\ row[g] = None
  /\ busy' = TRUE
  /\ ask' = [ask EXCEPT ![g] = [project |-> route, seen |-> shown.project,
                                at |-> route, here |-> TRUE]]
  /\ UNCHANGED <<server, route, shown, open, reads, told, history>>
Submit(g) ==
  /\ open
  /\ ~busy
  /\ ask[g] = None
  /\ row[g] = None
  /\ busy' = TRUE
  /\ ask' = [ask EXCEPT ![g] = [project |-> shown.project, seen |-> shown.project,
                                at |-> route, here |-> TRUE]]
  /\ UNCHANGED <<server, route, shown, open, reads, told, history>>

Pending(g) == ask[g] # None /\ told[g] = "nothing"

\* Those the dialog waits for.
Awaited == {g \in Gifts : Pending(g) /\ ask[g].here}

\* The rest of it: the alert, and the finally, which finds the dialog it was
\* called from or none.
Tell(g, what) ==
  /\ Pending(g)
  /\ told' = [told EXCEPT ![g] = what]
  /\ busy' = (busy /\ ~ask[g].here)
  /\ UNCHANGED <<server, route, shown, ask>>

\* onSuccess is the loadProject of the render that was submitted.
Thank_Quiet(g) ==                    \* mutant: the page is not loaded again
  /\ row[g] # None
  /\ Tell(g, "thanks")
  /\ open' = (open /\ ~ask[g].here)
  /\ UNCHANGED <<reads, history>>
Thank(g) ==
  /\ row[g] # None
  /\ Tell(g, "thanks")
  /\ IF ask[g].here
       THEN /\ LoadProject(ask[g].at, reads)
            /\ strayed' = (ask[g].at # route)
            /\ open' = FALSE
       ELSE UNCHANGED <<reads, open, history>>

\* The server refuses, the answer of its commit is lost, ten seconds pass or
\* the connection breaks: the dialog cannot tell a donation that was not made
\* from one that was, or will be.
GiveUp(g) ==
  /\ Tell(g, "sorry")
  /\ UNCHANGED <<reads, open, history>>

-----------------------------------------------------------------------------
Next ==
  \/ \E g \in Gifts : Handle(g) \/ Elsewhere(g) \/ Submit(g) \/ Thank(g) \/ GiveUp(g)
  \/ \E p \in Projects : Review(p) \/ Enter(p) \/ Jump(p)
  \/ \E c \in reads : ReadProject(c) \/ ReadRows(c) \/ Show(c) \/ Miss(c)
  \/ Leave \/ Click \/ Close

Spec == Init /\ [][Next]_vars

-----------------------------------------------------------------------------
(* Properties.                                                             *)

TypeOK ==
  /\ row \in [Gifts -> Projects \cup {None}]
  /\ credited \in [Projects -> Amounts]
  /\ route \in Projects \cup {None}
  /\ shown \in Views \cup {None}
  /\ open \in BOOLEAN /\ busy \in BOOLEAN
  /\ reads \subseteq Reads
  /\ ask \in [Gifts -> Asks \cup {None}]
  /\ told \in [Gifts -> {"nothing", "thanks", "sorry"}]
  /\ fresh \in BOOLEAN /\ strayed \in BOOLEAN

\* Whatever is closed, reopened or answered late, a dialog never has a second
\* donation on its way, and it is disabled exactly as long as it has one
\* (DonationModal.tsx:30-46, 148).
OneGiftAtATime ==
  /\ busy <=> Awaited # {}
  /\ \A g, h \in Awaited : g = h

\* A donor who is thanked has given, once, to the project that the dialog
\* named when the button was pressed, wherever the page has gone since
\* (DonationModal.tsx:33, 65, ProjectDetail.tsx:213-218).
ThanksAreForTheProjectNamed ==
  \A g \in Gifts : told[g] = "thanks" => row[g] = ask[g].seen

\* Beside what the project opened with, the raised amount on the page counts
\* only donations that are listed below it: the server reads the project first.
\* A list that is full may lack some (service_project.go:59-68).
AmountIsListed ==
  shown # None /\ Cardinality(shown.rows) < Limit =>
    shown.credited \subseteq shown.rows \cup Opening[shown.project]

\* The answer to the last request of the page is of the project in the
\* address, unless that request was the reload of a donation made from an
\* address that has been left, and it lists every donation this page has
\* thanked for (ProjectDetail.tsx:19-34, DonationModal.tsx:39-41).
PageIsCurrent ==
  fresh =>
    /\ ~strayed => shown # None /\ shown.project = route
    /\ Cardinality(shown.rows) < Limit =>
         \A g \in Gifts :
           told[g] = "thanks" /\ ask[g].here /\ row[g] = shown.project => g \in shown.rows
=============================================================================
