--------------------------- MODULE AccountsProofs ---------------------------
(***************************************************************************)
(* Theorems about Accounts, for any requests, names and seeded rows.       *)
(***************************************************************************)
EXTENDS Accounts, TLAPS

(* What the stage of a request says of its input, and what a request that  *)
(* is cut into several statements has left in the tables so far.           *)
StageInv ==
  \A r \in Requests :
    /\ pc[r] = "idle" <=> input[r] = NoInput
    /\ pc[r] \in {"insertUser", "insertOrganization", "duplicate"} => input[r] \in RegisterInputs
    /\ pc[r] \in {"saveOrganization", "insertReview"} =>
         /\ input[r] \in ReviewInputs
         /\ input[r].status \in Reviewed
         /\ input[r].organization \in DOMAIN organizations
    /\ pc[r] = "insertProject" => input[r] \in PublishInputs
    /\ pc[r] = "insertUpdate" => input[r] \in ReportInputs

TypeInv == TypeOK /\ StageInv

-----------------------------------------------------------------------------
\* The kind of an input tells its fields.
LEMMA InputKinds ==
  ASSUME NEW i \in Inputs
  PROVE  /\ i.kind = "register" <=> i \in RegisterInputs
         /\ i.kind = "review" <=> i \in ReviewInputs
         /\ i.kind = "publish" <=> i \in PublishInputs
         /\ i.kind = "report" <=> i \in ReportInputs
         /\ i # NoInput
BY DEF Inputs, RegisterInputs, ReviewInputs, PublishInputs, ReportInputs, NoInput

\* A value added to a function keeps its type.
LEMMA WithTyped ==
  ASSUME NEW f, NEW x, NEW v, NEW D, NEW T,
         DOMAIN f \subseteq D, f \in [DOMAIN f -> T], x \in D, v \in T
  PROVE  /\ DOMAIN With(f, x, v) \subseteq D
         /\ With(f, x, v) \in [DOMAIN With(f, x, v) -> T]
BY DEF With

LEMMA InitTypes == Init => TypeInv
<1> SUFFICES ASSUME Init PROVE TypeOK /\ StageInv
  BY DEF TypeInv
<1>1. TypeOK
  BY InitialUsersAssumption, InitialOrganizationsAssumption
  DEF Init, TypeOK, Stages, Ids, Seeded
<1>2. StageInv
  BY DEF Init, StageInv
<1> QED
  BY <1>1, <1>2

\* A request is received: an input is taken, and nothing else changes.
LEMMA BeginTypes ==
  ASSUME TypeInv, NEW r \in Requests, Begin(r) PROVE TypeInv'
<1>1. PICK i \in Inputs, s \in Before \cup {"refused"} :
        /\ Receive(r, i, s)
        /\ s = "insertUser" => i \in RegisterInputs
        /\ s = "saveOrganization" => /\ i \in ReviewInputs
                                     /\ i.status \in Reviewed
                                     /\ i.organization \in DOMAIN organizations
        /\ s = "insertProject" => i \in PublishInputs
        /\ s = "insertUpdate" => i \in ReportInputs
  <2>1. CASE Register(r)
    BY <2>1, InputKinds DEF Register, Before
  <2>2. CASE ReviewOrganization(r)
    BY <2>2, InputKinds DEF ReviewOrganization, Before
  <2>3. CASE CreateProject(r)
    BY <2>3, InputKinds DEF CreateProject, Before
  <2>4. CASE CreateUpdate(r)
    BY <2>4, InputKinds DEF CreateUpdate, Before
  <2> QED
    BY <2>1, <2>2, <2>3, <2>4 DEF Begin
<1>2. TypeOK'
  BY <1>1 DEF TypeInv, TypeOK, Receive, tables, Stages, Ended
<1>3. i # NoInput
  BY InputKinds
<1>4. StageInv'
  BY <1>1, <1>3 DEF TypeInv, TypeOK, StageInv, Receive, tables, Before
<1> QED
  BY <1>2, <1>4 DEF TypeInv

\* The stages a statement may lead to.
LEMMA WroteStages ==
  ASSUME NEW r \in Requests, NEW next, TypeOK, Wrote(r, next), next \in Stages
  PROVE  /\ pc' \in [Requests -> Stages]
         /\ pc'[r] \in {next, "inDoubt"}
         /\ \A s \in Requests \ {r} : pc'[s] = pc[s]
BY FaultsAssumption DEF Wrote, TypeOK, Stages, Ended

LEMMA StepTypes == TypeInv /\ [Next]_vars => TypeInv'
<1> SUFFICES ASSUME TypeInv, [Next]_vars PROVE TypeInv'
  OBVIOUS
<1> USE DEF TypeInv
<1>1. ASSUME NEW r \in Requests, Begin(r) PROVE TypeInv'
  BY <1>1, BeginTypes
<1>2. ASSUME NEW r \in Requests, InsertUser(r) PROVE TypeInv'
  <2>1. input[r] \in RegisterInputs
    BY <1>2 DEF InsertUser, StageInv
  <2>2. Row(input[r]) \in UserRows
    BY <2>1 DEF Row, UserRows, RegisterInputs, Names, StoredRoles
  <2>3. users' = With(users, r, Row(input[r]))
    BY <1>2 DEF InsertUser
  <2>4. DOMAIN users' \subseteq Ids /\ users' \in [DOMAIN users' -> UserRows]
    <3>1. r \in Ids
      BY DEF Ids
    <3> QED
      BY <2>2, <2>3, <3>1, WithTyped DEF TypeOK
  <2>5. PICK next \in {"insertOrganization", "answer"} : Wrote(r, next)
    BY <1>2 DEF InsertUser
  <2>6. /\ pc' \in [Requests -> Stages]
        /\ pc'[r] \in {"insertOrganization", "answer", "inDoubt"}
        /\ \A s \in Requests \ {r} : pc'[s] = pc[s]
    BY <2>5, WroteStages DEF Stages, After
  <2>7. TypeOK'
    BY <1>2, <2>4, <2>6 DEF InsertUser, TypeOK
  <2>8. input[r] # NoInput
    BY <1>2 DEF InsertUser, StageInv
  <2>9. StageInv'
    BY <1>2, <2>1, <2>6, <2>8 DEF InsertUser, StageInv
  <2> QED
    BY <2>7, <2>9
<1>3. ASSUME NEW r \in Requests, DuplicateUser(r) PROVE TypeInv'
  BY <1>3 DEF DuplicateUser, TypeOK, StageInv, Stages, Ended, tables
<1>4. ASSUME NEW r \in Requests, InsertOrganization(r) PROVE TypeInv'
  <2>1. organizations' = With(organizations, r, "pending")
    BY <1>4 DEF InsertOrganization
  <2>2. DOMAIN organizations' \subseteq Ids /\ organizations' \in [DOMAIN organizations' -> Statuses]
    <3>1. r \in Ids /\ "pending" \in Statuses
      BY DEF Ids, Statuses
    <3> QED
      BY <2>1, <3>1, WithTyped DEF TypeOK
  <2>3. DOMAIN organizations \subseteq DOMAIN organizations'
    BY <2>1 DEF With
  <2>4. Wrote(r, "answer")
    BY <1>4 DEF InsertOrganization
  <2>5. /\ pc' \in [Requests -> Stages]
        /\ pc'[r] \in {"answer", "inDoubt"}
        /\ \A s \in Requests \ {r} : pc'[s] = pc[s]
    BY <2>4, WroteStages DEF Stages, After
  <2>6. TypeOK'
    BY <1>4, <2>2, <2>5 DEF InsertOrganization, TypeOK
  <2>7. input[r] # NoInput
    BY <1>4 DEF InsertOrganization, StageInv
  <2>8. StageInv'
    BY <1>4, <2>3, <2>5, <2>7 DEF InsertOrganization, StageInv
  <2> QED
    BY <2>6, <2>8
<1>5. ASSUME NEW r \in Requests, SaveOrganization(r) PROVE TypeInv'
  <2>1. /\ input[r] \in ReviewInputs
        /\ input[r].status \in Reviewed
        /\ input[r].organization \in DOMAIN organizations
        /\ input[r] # NoInput
    BY <1>5 DEF SaveOrganization, StageInv
  <2>2. organizations' = [organizations EXCEPT ![input[r].organization] = input[r].status]
    BY <1>5 DEF SaveOrganization
  <2>3. /\ DOMAIN organizations' = DOMAIN organizations
        /\ organizations' \in [DOMAIN organizations' -> Statuses]
    BY <2>1, <2>2 DEF TypeOK, Reviewed, Statuses
  <2>4. Wrote(r, "insertReview")
    BY <1>5 DEF SaveOrganization
  <2>5. /\ pc' \in [Requests -> Stages]
        /\ pc'[r] \in {"insertReview", "inDoubt"}
        /\ \A s \in Requests \ {r} : pc'[s] = pc[s]
    BY <2>4, WroteStages DEF Stages, After
  <2>6. TypeOK'
    BY <1>5, <2>3, <2>5 DEF SaveOrganization, TypeOK
  <2>7. StageInv'
    BY <1>5, <2>1, <2>3, <2>5 DEF SaveOrganization, StageInv
  <2> QED
    BY <2>6, <2>7
<1>6. ASSUME NEW r \in Requests, InsertReview(r) PROVE TypeInv'
  <2>1. /\ input[r] \in ReviewInputs
        /\ input[r].status \in Reviewed
        /\ input[r] # NoInput
    BY <1>6 DEF InsertReview, StageInv
  <2>2. Wrote(r, "answer")
    BY <1>6 DEF InsertReview
  <2>3. /\ pc' \in [Requests -> Stages]
        /\ pc'[r] \in {"answer", "inDoubt"}
        /\ \A s \in Requests \ {r} : pc'[s] = pc[s]
    BY <2>2, WroteStages DEF Stages, After
  <2>4. TypeOK'
    BY <1>6, <2>1, <2>3 DEF InsertReview, TypeOK, ReviewRecords, ReviewInputs
  <2>5. StageInv'
    BY <1>6, <2>1, <2>3 DEF InsertReview, StageInv
  <2> QED
    BY <2>4, <2>5
<1>7. ASSUME NEW r \in Requests, InsertProject(r) PROVE TypeInv'
  <2>1. input[r] \in PublishInputs /\ input[r] # NoInput
    BY <1>7 DEF InsertProject, StageInv
  <2>2. projects' = With(projects, r, input[r].user)
    BY <1>7 DEF InsertProject
  <2>3. DOMAIN projects' \subseteq Requests /\ projects' \in [DOMAIN projects' -> Ids]
    <3>1. input[r].user \in Ids
      BY <2>1 DEF PublishInputs
    <3> QED
      BY <2>2, <3>1, WithTyped DEF TypeOK
  <2>4. Wrote(r, "answer")
    BY <1>7 DEF InsertProject
  <2>5. /\ pc' \in [Requests -> Stages]
        /\ pc'[r] \in {"answer", "inDoubt"}
        /\ \A s \in Requests \ {r} : pc'[s] = pc[s]
    BY <2>4, WroteStages DEF Stages, After
  <2>6. TypeOK'
    BY <1>7, <2>3, <2>5 DEF InsertProject, TypeOK
  <2>7. StageInv'
    BY <1>7, <2>1, <2>5 DEF InsertProject, StageInv
  <2> QED
    BY <2>6, <2>7
<1>8. ASSUME NEW r \in Requests, InsertUpdate(r) PROVE TypeInv'
  <2>1. input[r] \in ReportInputs /\ input[r] # NoInput
    BY <1>8 DEF InsertUpdate, StageInv
  <2>2. Wrote(r, "answer")
    BY <1>8 DEF InsertUpdate
  <2>3. /\ pc' \in [Requests -> Stages]
        /\ pc'[r] \in {"answer", "inDoubt"}
        /\ \A s \in Requests \ {r} : pc'[s] = pc[s]
    BY <2>2, WroteStages DEF Stages, After
  <2>4. TypeOK'
    BY <1>8, <2>1, <2>3 DEF InsertUpdate, TypeOK, UpdateRows, ReportInputs
  <2>5. StageInv'
    BY <1>8, <2>1, <2>3 DEF InsertUpdate, StageInv
  <2> QED
    BY <2>4, <2>5
<1>9. ASSUME NEW r \in Requests, Answer(r) PROVE TypeInv'
  BY <1>9 DEF Answer, TypeOK, StageInv, Stages, Ended, tables
<1>10. ASSUME NEW r \in Requests, StatementError(r) PROVE TypeInv'
  BY <1>10 DEF StatementError, TypeOK, StageInv, Stages, Before, After, Ended, tables
<1>11. ASSUME Crash PROVE TypeInv'
  <2>1. pc' \in [Requests -> Stages]
    BY <1>11 DEF Crash, TypeOK, Stages, Before, After, Ended
  <2>2. TypeOK'
    BY <1>11, <2>1 DEF Crash, TypeOK, tables
  <2>3. \A r \in Requests : pc'[r] = pc[r] \/ (pc[r] # "idle" /\ pc'[r] \in {"lost", "cutOff"})
    BY <1>11 DEF Crash, Before, After
  <2>4. StageInv'
    BY <1>11, <2>3 DEF Crash, StageInv, tables
  <2> QED
    BY <2>2, <2>4
<1>12. CASE UNCHANGED vars
  BY <1>12 DEF vars, tables, TypeOK, StageInv
<1>13. CASE Terminating
  BY <1>12, <1>13 DEF Terminating
<1> QED
  BY <1>1, <1>2, <1>3, <1>4, <1>5, <1>6, <1>7, <1>8, <1>9, <1>10, <1>11, <1>12, <1>13
  DEF Next, Continue

\* Every row and request keeps its type, and every stage has the input it
\* needs, for any number of requests and whatever roles they send.  A user's
\* role is one that was sent, or "user" for none: nothing narrows it down.
THEOREM TypeCorrect == Spec => []TypeOK
<1>1. Spec => []TypeInv
  BY InitTypes, StepTypes, PTL DEF Spec
<1>2. TypeInv => TypeOK
  BY DEF TypeInv
<1> QED
  BY <1>1, <1>2, PTL

-----------------------------------------------------------------------------
(* Registrations.                                                          *)

\* The row of a registered user is the registration's own, inserted once; a
\* registration that is past an INSERT finds its rows in the tables.
RegisteredInv ==
  \A r \in Requests :
    /\ r \in DOMAIN users => pc[r] \in Effective /\ users[r] = Row(input[r])
    /\ input[r].kind = "register" /\ pc[r] \in {"insertOrganization", "answer", "done"} =>
         r \in DOMAIN users
    /\ input[r].kind = "register" /\ pc[r] \in {"answer", "done"} /\ input[r].role = "org" =>
         r \in DOMAIN organizations

\* The unique indexes.
DistinctUsers ==
  \A u, v \in DOMAIN users : u # v =>
    users[u].username # users[v].username /\ users[u].email # users[v].email

\* What every step leaves behind: rows of users and organizations are never
\* removed, a user's row never changes.
Grows ==
  /\ DOMAIN users \subseteq DOMAIN users'
  /\ \A u \in DOMAIN users : users'[u] = users[u]
  /\ DOMAIN organizations \subseteq DOMAIN organizations'

LEMMA TablesGrow ==
  ASSUME TypeInv, RegisteredInv, [Next]_vars PROVE Grows
<1>1. ASSUME NEW r \in Requests, InsertUser(r) PROVE Grows
  <2>1. r \notin DOMAIN users
    BY <1>1 DEF InsertUser, RegisteredInv, Effective, After
  <2> QED
    BY <1>1, <2>1 DEF InsertUser, Grows, With
<1>2. ASSUME NEW r \in Requests, InsertOrganization(r) PROVE Grows
  BY <1>2 DEF InsertOrganization, Grows, With
<1>3. ASSUME NEW r \in Requests, SaveOrganization(r) PROVE Grows
  BY <1>3 DEF SaveOrganization, Grows
<1>4. CASE UNCHANGED <<users, organizations>>
  BY <1>4 DEF Grows
<1>5. ASSUME NEW r \in Requests, Begin(r) PROVE UNCHANGED <<users, organizations>>
  BY <1>5 DEF Begin, Register, ReviewOrganization, CreateProject, CreateUpdate, Receive, tables
<1> QED
  BY <1>1, <1>2, <1>3, <1>4, <1>5
  DEF Next, Continue, DuplicateUser, InsertReview, InsertProject, InsertUpdate, Answer,
      StatementError, Crash, Terminating, vars, tables

\* How the stage of a request moves.
LEMMA StageMoves ==
  ASSUME TypeInv, [Next]_vars, NEW s \in Requests
  PROVE  /\ pc[s] \in Effective => pc'[s] \in Effective
         /\ pc[s] # "idle" => input'[s] = input[s]
         /\ pc[s] \in {"refused", "duplicate", "done"} => pc'[s] = pc[s]
<1> DEFINE Moves ==
      /\ pc[s] \in Effective => pc'[s] \in Effective
      /\ pc[s] # "idle" => input'[s] = input[s]
      /\ pc[s] \in {"refused", "duplicate", "done"} => pc'[s] = pc[s]
<1> USE DEF TypeInv
<1>1. ASSUME NEW r \in Requests, Begin(r) PROVE Moves
  <2>1. PICK i, stage : Receive(r, i, stage)
    BY <1>1 DEF Begin, Register, ReviewOrganization, CreateProject, CreateUpdate
  <2> QED
    BY <2>1 DEF Receive, TypeOK, Effective, After
<1>2. ASSUME NEW r \in Requests, NEW next \in After, Wrote(r, next),
             pc[r] \in Before \cup {"insertOrganization", "insertReview"}, UNCHANGED input
      PROVE  Moves
  <2>1. /\ pc'[r] \in Effective
        /\ \A q \in Requests \ {r} : pc'[q] = pc[q]
    BY <1>2, WroteStages DEF Stages, Effective
  <2> QED
    BY <1>2, <2>1 DEF Before
<1>3. ASSUME NEW r \in Requests, InsertUser(r) PROVE Moves
  BY <1>2, <1>3 DEF InsertUser, Before, After
<1>4. ASSUME NEW r \in Requests, InsertOrganization(r) PROVE Moves
  BY <1>2, <1>4 DEF InsertOrganization, After
<1>5. ASSUME NEW r \in Requests, SaveOrganization(r) PROVE Moves
  BY <1>2, <1>5 DEF SaveOrganization, Before, After
<1>6. ASSUME NEW r \in Requests, InsertReview(r) PROVE Moves
  BY <1>2, <1>6 DEF InsertReview, After
<1>7. ASSUME NEW r \in Requests, InsertProject(r) PROVE Moves
  BY <1>2, <1>7 DEF InsertProject, Before, After
<1>8. ASSUME NEW r \in Requests, InsertUpdate(r) PROVE Moves
  BY <1>2, <1>8 DEF InsertUpdate, Before, After
<1>9. ASSUME NEW r \in Requests, DuplicateUser(r) PROVE Moves
  BY <1>9 DEF DuplicateUser, TypeOK, Effective, After
<1>10. ASSUME NEW r \in Requests, Answer(r) PROVE Moves
  BY <1>10 DEF Answer, TypeOK, Effective
<1>11. ASSUME NEW r \in Requests, StatementError(r) PROVE Moves
  BY <1>11 DEF StatementError, TypeOK, Effective, Before, After
<1>12. ASSUME Crash PROVE Moves
  BY <1>12 DEF Crash, Effective, Before, After
<1>13. CASE UNCHANGED vars
  BY <1>13 DEF vars
<1> QED
  BY <1>1, <1>3, <1>4, <1>5, <1>6, <1>7, <1>8, <1>9, <1>10, <1>11, <1>12, <1>13
  DEF Next, Continue, Terminating

AccountInv == TypeInv /\ RegisteredInv /\ DistinctUsers /\ RefusedOnlyIfTaken

LEMMA InitAccounts == Init => AccountInv
<1> SUFFICES ASSUME Init PROVE AccountInv
  OBVIOUS
<1>1. TypeInv
  BY InitTypes
<1>2. RegisteredInv
  BY SeededAssumption DEF Init, RegisteredInv, Seeded, NoInput
<1>3. DistinctUsers
  BY InitialUsersAssumption DEF Init, DistinctUsers, Seeded
<1>4. RefusedOnlyIfTaken
  BY DEF Init, RefusedOnlyIfTaken, NoInput
<1> QED
  BY <1>1, <1>2, <1>3, <1>4 DEF AccountInv

\* Only InsertUser adds a user, and only past the unique indexes.
LEMMA StepDistinct ==
  ASSUME TypeInv, RegisteredInv, DistinctUsers, [Next]_vars PROVE DistinctUsers'
<1>1. ASSUME NEW r \in Requests, InsertUser(r) PROVE DistinctUsers'
  <2>1. /\ users' = With(users, r, Row(input[r]))
        /\ \A u \in DOMAIN users : /\ users[u].username # Row(input[r]).username
                                  /\ users[u].email # Row(input[r]).email
    BY <1>1 DEF InsertUser, Duplicate
  <2>2. /\ DOMAIN users' = DOMAIN users \cup {r}
        /\ users'[r] = Row(input[r])
        /\ \A u \in DOMAIN users \ {r} : users'[u] = users[u]
    BY <2>1 DEF With
  <2> QED
    BY <2>1, <2>2 DEF DistinctUsers
<1>2. CASE UNCHANGED users
  BY <1>2 DEF DistinctUsers
<1>3. ASSUME NEW r \in Requests, Begin(r) PROVE UNCHANGED users
  BY <1>3 DEF Begin, Register, ReviewOrganization, CreateProject, CreateUpdate, Receive, tables
<1> QED
  BY <1>1, <1>2, <1>3
  DEF Next, Continue, DuplicateUser, InsertOrganization, SaveOrganization, InsertReview,
      InsertProject, InsertUpdate, Answer, StatementError, Crash, Terminating, vars, tables

\* What a request did, read off the stage it reaches.
LEMMA HowReached ==
  ASSUME TypeInv, [Next]_vars, NEW s \in Requests, pc'[s] # pc[s]
  PROVE  /\ pc'[s] = "insertOrganization" => InsertUser(s)
         /\ pc'[s] = "answer" => \/ InsertUser(s) /\ ~WantsFile(input[s])
                                 \/ InsertOrganization(s)
                                 \/ input[s].kind \in {"review", "publish", "report"}
         /\ pc'[s] = "done" => Answer(s)
         /\ pc'[s] = "duplicate" => DuplicateUser(s)
         /\ pc'[s] = "refused" => Begin(s)
<1> DEFINE Reached ==
      /\ pc'[s] = "insertOrganization" => InsertUser(s)
      /\ pc'[s] = "answer" => \/ InsertUser(s) /\ ~WantsFile(input[s])
                              \/ InsertOrganization(s)
                              \/ input[s].kind \in {"review", "publish", "report"}
      /\ pc'[s] = "done" => Answer(s)
      /\ pc'[s] = "duplicate" => DuplicateUser(s)
      /\ pc'[s] = "refused" => Begin(s)
<1> USE DEF TypeInv
<1>1. ASSUME NEW r \in Requests, Begin(r) PROVE Reached
  <2>1. PICK i \in Inputs, stage \in Before \cup {"refused"} : Receive(r, i, stage)
    <3>1. CASE Register(r)
      BY <3>1 DEF Register, Before
    <3>2. CASE ReviewOrganization(r)
      BY <3>2 DEF ReviewOrganization, Before
    <3>3. CASE CreateProject(r)
      BY <3>3 DEF CreateProject, Before
    <3>4. CASE CreateUpdate(r)
      BY <3>4 DEF CreateUpdate, Before
    <3> QED
      BY <1>1, <3>1, <3>2, <3>3, <3>4 DEF Begin
  <2>2. r = s
    BY <2>1 DEF Receive, TypeOK
  <2>3. pc'[s] = stage
    BY <2>1, <2>2 DEF Receive, TypeOK
  <2> QED
    BY <1>1, <2>2, <2>3 DEF Before
<1>2. ASSUME NEW r \in Requests, NEW next \in After, Wrote(r, next)
      PROVE  r = s /\ pc'[s] \in {next, "inDoubt"}
  <2>1. /\ pc'[r] \in {next, "inDoubt"}
        /\ \A q \in Requests \ {r} : pc'[q] = pc[q]
    BY <1>2, WroteStages DEF Stages
  <2> QED
    BY <2>1
<1>3. ASSUME NEW r \in Requests, InsertUser(r) PROVE Reached
  <2>1. r = s /\ pc'[s] \in {IF WantsFile(input[r]) THEN "insertOrganization" ELSE "answer", "inDoubt"}
    BY <1>2, <1>3 DEF InsertUser, After
  <2> QED
    BY <1>3, <2>1
<1>4. ASSUME NEW r \in Requests, InsertOrganization(r) PROVE Reached
  <2>1. r = s /\ pc'[s] \in {"answer", "inDoubt"}
    BY <1>2, <1>4 DEF InsertOrganization, After
  <2> QED
    BY <1>4, <2>1
<1>5. ASSUME NEW r \in Requests, SaveOrganization(r) PROVE Reached
  <2>1. r = s /\ pc'[s] \in {"insertReview", "inDoubt"}
    BY <1>2, <1>5 DEF SaveOrganization, After
  <2> QED
    BY <2>1
<1>6. ASSUME NEW r \in Requests, InsertReview(r) PROVE Reached
  <2>1. r = s /\ pc'[s] \in {"answer", "inDoubt"}
    BY <1>2, <1>6 DEF InsertReview, After
  <2>2. input[r].kind = "review"
    BY <1>6 DEF InsertReview, StageInv, ReviewInputs
  <2> QED
    BY <2>1, <2>2
<1>7. ASSUME NEW r \in Requests, InsertProject(r) PROVE Reached
  <2>1. r = s /\ pc'[s] \in {"answer", "inDoubt"}
    BY <1>2, <1>7 DEF InsertProject, After
  <2>2. input[r].kind = "publish"
    BY <1>7 DEF InsertProject, StageInv, PublishInputs
  <2> QED
    BY <2>1, <2>2
<1>8. ASSUME NEW r \in Requests, InsertUpdate(r) PROVE Reached
  <2>1. r = s /\ pc'[s] \in {"answer", "inDoubt"}
    BY <1>2, <1>8 DEF InsertUpdate, After
  <2>2. input[r].kind = "report"
    BY <1>8 DEF InsertUpdate, StageInv, ReportInputs
  <2> QED
    BY <2>1, <2>2
<1>9. ASSUME NEW r \in Requests, DuplicateUser(r) PROVE Reached
  <2>1. r = s /\ pc'[s] = "duplicate"
    BY <1>9 DEF DuplicateUser, TypeOK
  <2> QED
    BY <1>9, <2>1
<1>10. ASSUME NEW r \in Requests, Answer(r) PROVE Reached
  <2>1. r = s /\ pc'[s] = "done"
    BY <1>10 DEF Answer, TypeOK
  <2> QED
    BY <1>10, <2>1
<1>11. ASSUME NEW r \in Requests, StatementError(r) PROVE Reached
  <2>1. pc'[s] \in {"failed", "inDoubt"}
    BY <1>11 DEF StatementError, TypeOK
  <2> QED
    BY <2>1
<1>12. ASSUME Crash PROVE Reached
  <2>1. pc'[s] \in {"lost", "cutOff"}
    BY <1>12 DEF Crash
  <2> QED
    BY <2>1
<1>13. ~ UNCHANGED vars
  BY DEF vars
<1> QED
  BY <1>1, <1>3, <1>4, <1>5, <1>6, <1>7, <1>8, <1>9, <1>10, <1>11, <1>12, <1>13
  DEF Next, Continue, Terminating

\* Only InsertUser adds a user, its own request's.
LEMMA NewUser ==
  ASSUME [Next]_vars, NEW s \in Requests, s \in DOMAIN users', s \notin DOMAIN users
  PROVE  InsertUser(s) /\ users'[s] = Row(input[s])
<1>1. ASSUME NEW r \in Requests, InsertUser(r) PROVE r = s /\ users'[s] = Row(input[s])
  BY <1>1 DEF InsertUser, With
<1>2. users' # users
  OBVIOUS
<1>3. ASSUME NEW r \in Requests, Begin(r) PROVE FALSE
  BY <1>2, <1>3
  DEF Begin, Register, ReviewOrganization, CreateProject, CreateUpdate, Receive, tables
<1> QED
  BY <1>1, <1>2, <1>3
  DEF Next, Continue, DuplicateUser, InsertOrganization, SaveOrganization, InsertReview,
      InsertProject, InsertUpdate, Answer, StatementError, Crash, Terminating, vars, tables

LEMMA StepRegistered ==
  ASSUME TypeInv, RegisteredInv, [Next]_vars PROVE RegisteredInv'
<1>1. Grows
  BY TablesGrow
<1> SUFFICES ASSUME NEW r \in Requests
    PROVE /\ r \in DOMAIN users' => pc'[r] \in Effective /\ users'[r] = Row(input'[r])
          /\ input'[r].kind = "register" /\ pc'[r] \in {"insertOrganization", "answer", "done"} =>
               r \in DOMAIN users'
          /\ input'[r].kind = "register" /\ pc'[r] \in {"answer", "done"} /\ input'[r].role = "org" =>
               r \in DOMAIN organizations'
  BY DEF RegisteredInv, Row
<1>2. /\ pc[r] \in Effective => pc'[r] \in Effective
      /\ pc[r] # "idle" => input'[r] = input[r]
  BY StageMoves
<1>3. ASSUME r \in DOMAIN users' PROVE pc'[r] \in Effective /\ users'[r] = Row(input'[r])
  <2>1. CASE r \in DOMAIN users
    BY <1>1, <1>2, <2>1 DEF Grows, RegisteredInv, Effective, After
  <2>2. CASE r \notin DOMAIN users
    <3>1. InsertUser(r) /\ users'[r] = Row(input[r])
      BY <1>3, <2>2, NewUser
    <3>2. PICK next \in {"insertOrganization", "answer"} : Wrote(r, next)
      BY <3>1 DEF InsertUser
    <3>3. pc'[r] \in {"insertOrganization", "answer", "inDoubt"}
      BY <3>2, WroteStages DEF TypeInv, Stages, After
    <3> QED
      BY <3>1, <3>3, <1>2 DEF InsertUser, Effective, After
  <2> QED
    BY <2>1, <2>2
<1>4. ASSUME input'[r].kind = "register", pc'[r] \in {"insertOrganization", "answer", "done"}
      PROVE  r \in DOMAIN users' /\ (pc'[r] \in {"answer", "done"} /\ input'[r].role = "org" =>
                                        r \in DOMAIN organizations')
  <2>1. CASE pc'[r] = pc[r]
    BY <1>1, <1>2, <1>4, <2>1 DEF Grows, RegisteredInv
  <2>2. CASE pc'[r] # pc[r]
    <3>1. \/ InsertUser(r) /\ (pc'[r] = "answer" => ~WantsFile(input[r]))
          \/ InsertOrganization(r)
          \/ Answer(r)
          \/ pc'[r] = "answer" /\ input[r].kind \in {"review", "publish", "report"}
      BY <1>4, <2>2, HowReached DEF InsertUser
    <3>2. CASE InsertUser(r) /\ (pc'[r] = "answer" => ~WantsFile(input[r]))
      <4>1. r \in DOMAIN users'
        BY <3>2 DEF InsertUser, With
      <4>2. pc'[r] # "done"
        BY <2>2, <3>2, HowReached DEF InsertUser, Answer
      <4>3. input'[r] = input[r]
        BY <3>2 DEF InsertUser
      <4> QED
        BY <3>2, <4>1, <4>2, <4>3 DEF WantsFile, RoleOf
    <3>3. CASE InsertOrganization(r)
      BY <1>1, <1>4, <3>3 DEF InsertOrganization, With, Grows, RegisteredInv
    <3>4. CASE Answer(r)
      BY <1>1, <1>4, <3>4 DEF Answer, Grows, RegisteredInv
    <3>5. CASE pc'[r] = "answer" /\ input[r].kind \in {"review", "publish", "report"}
      <4>1. pc[r] = "idle"
        BY <1>2, <1>4, <3>5
      <4>2. InsertUser(r) \/ InsertOrganization(r) \/ input[r] = NoInput
        BY <4>1, <2>2, <3>5, HowReached DEF StageInv, TypeInv
      <4> QED
        BY <4>1, <4>2, <3>5 DEF InsertUser, InsertOrganization, NoInput
    <3> QED
      BY <3>1, <3>2, <3>3, <3>4, <3>5
  <2> QED
    BY <2>1, <2>2
<1> QED
  BY <1>3, <1>4

LEMMA StepRefused ==
  ASSUME TypeInv, RegisteredInv, RefusedOnlyIfTaken, [Next]_vars PROVE RefusedOnlyIfTaken'
<1>1. Grows
  BY TablesGrow
<1> SUFFICES ASSUME NEW r \in Requests,
                    input'[r].kind = "register",
                    pc'[r] \in {"refused", "duplicate"}
    PROVE \E u \in DOMAIN users' \ {r} : \/ users'[u].username = input'[r].username
                                        \/ users'[u].email = input'[r].email
  BY DEF RefusedOnlyIfTaken
<1>2. CASE pc'[r] = pc[r]
  <2>1. input'[r] = input[r]
    BY <1>2, StageMoves
  <2> QED
    BY <1>1, <1>2, <2>1 DEF RefusedOnlyIfTaken, Grows
<1>3. CASE pc'[r] # pc[r]
  <2>1. DuplicateUser(r) \/ (Begin(r) /\ pc'[r] = "refused")
    BY <1>3, HowReached
  <2>2. pc[r] \in {"idle", "insertUser"}
    BY <2>1 DEF DuplicateUser, Begin, Register, ReviewOrganization, CreateProject, CreateUpdate, Receive
  <2>3. r \notin DOMAIN users
    BY <2>2 DEF RegisteredInv, Effective, After
  <2>4. CASE DuplicateUser(r)
    BY <1>1, <2>3, <2>4 DEF DuplicateUser, Duplicate, Row, Grows
  <2>5. CASE Begin(r) /\ pc'[r] = "refused"
    <3>1. Register(r)
      BY <2>5 DEF TypeInv, TypeOK, Begin, Register, ReviewOrganization, CreateProject, CreateUpdate, Receive
    <3>2. PICK i \in Inputs :
            /\ input'[r] = i
            /\ Matching(i.username, i.email) # {}
      BY <2>5, <3>1 DEF TypeInv, TypeOK, Register, Receive
    <3>3. PICK u \in DOMAIN users : users[u].username = i.username \/ users[u].email = i.email
      BY <3>2 DEF Matching
    <3> QED
      BY <1>1, <2>3, <3>2, <3>3 DEF Grows
  <2> QED
    BY <2>1, <2>4, <2>5
<1> QED
  BY <1>2, <1>3

LEMMA StepAccounts == AccountInv /\ [Next]_vars => AccountInv'
BY StepTypes, StepRegistered, StepDistinct, StepRefused DEF AccountInv

\* Nobody is told that a name exists unless another account has it, in any
\* interleaving of lookups and INSERTs.
THEOREM RefusalsAreTrue == Spec => []RefusedOnlyIfTaken
<1>1. Spec => []AccountInv
  BY InitAccounts, StepAccounts, PTL DEF Spec
<1>2. AccountInv => RefusedOnlyIfTaken
  BY DEF AccountInv
<1> QED
  BY <1>1, <1>2, PTL

\* A registration that is answered with success is complete and alone under
\* its names, whatever failed in between.
THEOREM RegistrationsAreComplete == Spec => []AnsweredIsComplete
<1>1. Spec => []AccountInv
  BY InitAccounts, StepAccounts, PTL DEF Spec
<1>2. AccountInv => AnsweredIsComplete
  <2> SUFFICES ASSUME AccountInv,
                      NEW r \in Requests,
                      input[r].kind = "register",
                      pc[r] \in {"answer", "done"}
      PROVE /\ r \in DOMAIN users
            /\ users[r] = Row(input[r])
            /\ input[r].role = "org" => r \in DOMAIN organizations
            /\ \A u \in DOMAIN users \ {r} : /\ users[u].username # input[r].username
                                            /\ users[u].email # input[r].email
    BY DEF AnsweredIsComplete
  <2>1. /\ r \in DOMAIN users
        /\ users[r] = Row(input[r])
        /\ input[r].role = "org" => r \in DOMAIN organizations
    BY DEF AccountInv, RegisteredInv
  <2> QED
    BY <2>1 DEF AccountInv, DistinctUsers, Row
<1> QED
  BY <1>1, <1>2, PTL

-----------------------------------------------------------------------------
(* Publications.                                                           *)

\* o was approved: at first or by a verdict that took effect.
Approved(o) ==
  \/ \E u \in DOMAIN InitialOrganizations : u = o /\ InitialOrganizations[u] = "approved"
  \/ \E r \in Requests : HasJudged(r, o, "approved")

(* Whatever says "approved", a row or the stage of a publication that read *)
(* the row, says it of an organization that was approved; a report that    *)
(* passed its check found the project of its author.                       *)
ApprovalInv ==
  /\ \A o \in DOMAIN organizations : organizations[o] = "approved" => Approved(o)
  /\ \A p \in DOMAIN projects : pc[p] \in Effective
  /\ \A p \in DOMAIN projects, o \in Ids : projects[p] = o => Approved(o)
  /\ \A r \in Requests, o \in Ids :
       pc[r] = "insertProject" /\ input[r].user = o => Approved(o)
  /\ \A r \in Requests : pc[r] = "insertUpdate" =>
       input[r].project \in DOMAIN projects /\ projects[input[r].project] = input[r].user
  /\ \A w \in updates : w.projectId \in DOMAIN projects /\ w.author = projects[w.projectId]

LEMMA InitApproval == Init => ApprovalInv
BY DEF Init, ApprovalInv, Approved

\* A verdict that took effect is never taken back.
LEMMA ApprovedForEver ==
  ASSUME TypeInv, [Next]_vars, NEW o, Approved(o) PROVE Approved(o)'
<1>1. CASE \E u \in DOMAIN InitialOrganizations : u = o /\ InitialOrganizations[u] = "approved"
  BY <1>1 DEF Approved
<1>2. ASSUME NEW r \in Requests, HasJudged(r, o, "approved") PROVE HasJudged(r, o, "approved")'
  <2>1. pc[r] \in Effective /\ pc[r] # "idle"
    BY <1>2 DEF HasJudged, Effective, After
  <2>2. pc'[r] \in Effective /\ input'[r] = input[r]
    BY <2>1, StageMoves
  <2> QED
    BY <1>2, <2>2 DEF HasJudged
<1> QED
  BY <1>1, <1>2 DEF Approved

\* A published project is never published again nor given to somebody else.
LEMMA ProjectsStay ==
  ASSUME TypeInv, ApprovalInv, [Next]_vars
  PROVE  /\ DOMAIN projects \subseteq DOMAIN projects'
         /\ \A p \in DOMAIN projects : projects'[p] = projects[p]
<1>1. ASSUME NEW r \in Requests, InsertProject(r)
      PROVE  /\ DOMAIN projects \subseteq DOMAIN projects'
             /\ \A p \in DOMAIN projects : projects'[p] = projects[p]
  <2>1. r \notin DOMAIN projects
    BY <1>1 DEF InsertProject, ApprovalInv, Effective, After
  <2> QED
    BY <1>1, <2>1 DEF InsertProject, With
<1>2. ASSUME NEW r \in Requests, Begin(r) PROVE UNCHANGED projects
  BY <1>2 DEF Begin, Register, ReviewOrganization, CreateProject, CreateUpdate, Receive, tables
<1> QED
  BY <1>1, <1>2
  DEF Next, Continue, InsertUser, DuplicateUser, InsertOrganization, SaveOrganization,
      InsertReview, InsertUpdate, Answer, StatementError, Crash, Terminating, vars, tables

\* A request that is about to publish or to report has just passed its check.
LEMMA HowPublished ==
  ASSUME TypeInv, [Next]_vars, NEW s \in Requests, pc'[s] # pc[s]
  PROVE  /\ pc'[s] = "insertProject" => \E i \in Inputs : input'[s] = i /\ MayPublish(i.user)
         /\ pc'[s] = "insertUpdate" => \E i \in Inputs : input'[s] = i /\ Owns(i.user, i.project)
<1> DEFINE Passed ==
      /\ pc'[s] = "insertProject" => \E i \in Inputs : input'[s] = i /\ MayPublish(i.user)
      /\ pc'[s] = "insertUpdate" => \E i \in Inputs : input'[s] = i /\ Owns(i.user, i.project)
<1>1. ASSUME NEW r \in Requests, Begin(r) PROVE Passed
  <2>1. PICK i \in Inputs, stage \in Before \cup {"refused"} :
          /\ Receive(r, i, stage)
          /\ stage = "insertProject" => MayPublish(i.user)
          /\ stage = "insertUpdate" => Owns(i.user, i.project)
    <3>1. CASE Register(r)
      BY <3>1 DEF Register, Before
    <3>2. CASE ReviewOrganization(r)
      BY <3>2 DEF ReviewOrganization, Before
    <3>3. CASE CreateProject(r)
      BY <3>3 DEF CreateProject, Before
    <3>4. CASE CreateUpdate(r)
      BY <3>4 DEF CreateUpdate, Before
    <3> QED
      BY <1>1, <3>1, <3>2, <3>3, <3>4 DEF Begin
  <2>2. r = s /\ pc'[s] = stage /\ input'[s] = i
    BY <2>1 DEF Receive, TypeInv, TypeOK
  <2> QED
    BY <2>1, <2>2
<1>2. ASSUME NEW r \in Requests, NEW next \in After, Wrote(r, next) PROVE Passed
  <2>1. pc'[s] \in {next, "inDoubt"}
    BY <1>2, WroteStages DEF TypeInv, Stages
  <2> QED
    BY <2>1 DEF After
<1>3. ASSUME NEW r \in Requests, InsertUser(r) PROVE Passed
  BY <1>2, <1>3 DEF InsertUser, After
<1>4. ASSUME NEW r \in Requests,
             InsertOrganization(r) \/ SaveOrganization(r) \/ InsertReview(r)
               \/ InsertProject(r) \/ InsertUpdate(r)
      PROVE  Passed
  BY <1>2, <1>4 DEF InsertOrganization, SaveOrganization, InsertReview, InsertProject,
                    InsertUpdate, After
<1>5. ASSUME NEW r \in Requests, DuplicateUser(r) \/ Answer(r) \/ StatementError(r) PROVE Passed
  <2>1. pc'[s] \in {"duplicate", "done", "failed", "inDoubt"}
    BY <1>5 DEF DuplicateUser, Answer, StatementError, TypeInv, TypeOK
  <2> QED
    BY <2>1
<1>6. ASSUME Crash PROVE Passed
  BY <1>6 DEF Crash
<1>7. ~ UNCHANGED vars
  BY DEF vars
<1> QED
  BY <1>1, <1>3, <1>4, <1>5, <1>6, <1>7 DEF Next, Continue, Terminating

LEMMA StepApproval ==
  ASSUME TypeInv, ApprovalInv, [Next]_vars PROVE ApprovalInv'
<1>1. ASSUME NEW o, Approved(o) PROVE Approved(o)'
  BY <1>1, ApprovedForEver
<1>2. /\ DOMAIN projects \subseteq DOMAIN projects'
      /\ \A p \in DOMAIN projects : projects'[p] = projects[p]
  BY ProjectsStay
<1>3. ASSUME NEW o \in DOMAIN organizations', organizations'[o] = "approved" PROVE Approved(o)'
  <2>1. CASE o \in DOMAIN organizations /\ organizations[o] = "approved"
    BY <1>1, <2>1 DEF ApprovalInv
  <2>2. CASE ~(o \in DOMAIN organizations /\ organizations[o] = "approved")
    <3>1. PICK r \in Requests : SaveOrganization(r) /\ input[r].organization = o /\ input[r].status = "approved"
      <4>1. organizations' # organizations
        BY <1>3, <2>2
      <4>2. ASSUME NEW r \in Requests, Begin(r) PROVE FALSE
        BY <4>1, <4>2
        DEF Begin, Register, ReviewOrganization, CreateProject, CreateUpdate, Receive, tables
      <4>3. ASSUME NEW r \in Requests, InsertOrganization(r) PROVE FALSE
        BY <1>3, <2>2, <4>3 DEF InsertOrganization, With
      <4>4. ASSUME NEW r \in Requests, SaveOrganization(r)
            PROVE  input[r].organization = o /\ input[r].status = "approved"
        BY <1>3, <2>2, <4>4 DEF SaveOrganization
      <4> QED
        BY <4>1, <4>2, <4>3, <4>4
        DEF Next, Continue, InsertUser, DuplicateUser, InsertReview, InsertProject, InsertUpdate,
            Answer, StatementError, Crash, Terminating, vars, tables
    <3>2. Wrote(r, "insertReview")
      BY <3>1 DEF SaveOrganization
    <3>3. pc'[r] \in {"insertReview", "inDoubt"}
      BY <3>2, WroteStages DEF TypeInv, Stages, After
    <3>4. input[r].kind = "review" /\ input'[r] = input[r]
      BY <3>1 DEF SaveOrganization, TypeInv, StageInv, ReviewInputs
    <3>5. HasJudged(r, o, "approved")'
      BY <3>1, <3>3, <3>4 DEF HasJudged, Effective, After
    <3> QED
      BY <3>5 DEF Approved
  <2> QED
    BY <2>1, <2>2
<1>4. ASSUME NEW p \in DOMAIN projects'
      PROVE  pc'[p] \in Effective /\ \A o \in Ids : projects'[p] = o => Approved(o)'
  <2>1. CASE p \in DOMAIN projects
    <3>1. p \in Requests /\ pc[p] \in Effective
      BY <2>1 DEF TypeInv, TypeOK, ApprovalInv
    <3>2. pc'[p] \in Effective
      BY <3>1, StageMoves
    <3>3. ASSUME NEW o \in Ids, projects'[p] = o PROVE Approved(o)'
      <4>1. Approved(o)
        BY <1>2, <2>1, <3>3 DEF ApprovalInv
      <4> QED
        BY <1>1, <4>1
    <3> QED
      BY <3>2, <3>3
  <2>2. CASE p \notin DOMAIN projects
    <3>1. p \in Requests /\ InsertProject(p) /\ projects'[p] = input[p].user
      <4>1. projects' # projects
        BY <2>2
      <4>2. ASSUME NEW r \in Requests, Begin(r) PROVE FALSE
        BY <4>1, <4>2
        DEF Begin, Register, ReviewOrganization, CreateProject, CreateUpdate, Receive, tables
      <4>3. ASSUME NEW r \in Requests, InsertProject(r) PROVE r = p /\ projects'[p] = input[p].user
        BY <2>2, <4>3 DEF InsertProject, With
      <4> QED
        BY <4>1, <4>2, <4>3
        DEF Next, Continue, InsertUser, DuplicateUser, InsertOrganization, SaveOrganization,
            InsertReview, InsertUpdate, Answer, StatementError, Crash, Terminating, vars, tables
    <3>2. Wrote(p, "answer") /\ pc[p] = "insertProject"
      BY <3>1 DEF InsertProject
    <3>3. pc'[p] \in Effective
      BY <3>1, <3>2, WroteStages DEF TypeInv, Stages, Effective, After
    <3>4. ASSUME NEW o \in Ids, projects'[p] = o PROVE Approved(o)'
      <4>1. Approved(o)
        BY <3>1, <3>2, <3>4 DEF ApprovalInv
      <4> QED
        BY <1>1, <4>1
    <3> QED
      BY <3>3, <3>4
  <2> QED
    BY <2>1, <2>2
<1>5. ASSUME NEW r \in Requests, NEW o \in Ids, pc'[r] = "insertProject", input'[r].user = o
      PROVE  Approved(o)'
  <2>1. Approved(o)
    <3>1. CASE pc[r] = "insertProject"
      BY <1>5, <3>1, StageMoves DEF ApprovalInv
    <3>2. CASE pc[r] # "insertProject"
      <4>1. PICK i \in Inputs : input'[r] = i /\ MayPublish(i.user)
        BY <1>5, <3>2, HowPublished
      <4> QED
        BY <1>5, <4>1 DEF MayPublish, ApprovalInv
    <3> QED
      BY <3>1, <3>2
  <2> QED
    BY <1>1, <2>1
<1>6. ASSUME NEW r \in Requests, pc'[r] = "insertUpdate"
      PROVE  input'[r].project \in DOMAIN projects' /\ projects'[input'[r].project] = input'[r].user
  <2>1. CASE pc[r] = "insertUpdate"
    BY <1>2, <1>6, <2>1, StageMoves DEF ApprovalInv
  <2>2. CASE pc[r] # "insertUpdate"
    <3>1. PICK i \in Inputs : input'[r] = i /\ Owns(i.user, i.project)
      BY <1>6, <2>2, HowPublished
    <3> QED
      BY <1>2, <3>1 DEF Owns
  <2> QED
    BY <2>1, <2>2
<1>7. ASSUME NEW w \in updates'
      PROVE  w.projectId \in DOMAIN projects' /\ w.author = projects'[w.projectId]
  <2>1. CASE w \in updates
    BY <1>2, <2>1 DEF ApprovalInv
  <2>2. CASE w \notin updates
    <3>1. PICK r \in Requests : InsertUpdate(r)
      <4>1. updates' # updates
        BY <1>7, <2>2
      <4>2. ASSUME NEW r \in Requests, Begin(r) PROVE FALSE
        BY <4>1, <4>2
        DEF Begin, Register, ReviewOrganization, CreateProject, CreateUpdate, Receive, tables
      <4> QED
        BY <4>1, <4>2
        DEF Next, Continue, InsertUser, DuplicateUser, InsertOrganization, SaveOrganization,
            InsertReview, InsertProject, Answer, StatementError, Crash, Terminating, vars, tables
    <3>2. w.projectId = input[r].project /\ w.author = input[r].user
      BY <1>7, <2>2, <3>1 DEF InsertUpdate
    <3> QED
      BY <1>2, <3>1, <3>2 DEF InsertUpdate, ApprovalInv
  <2> QED
    BY <2>1, <2>2
<1>8. \A o \in DOMAIN organizations' : organizations'[o] = "approved" => Approved(o)'
  BY <1>3
<1>9. \A r \in Requests, o \in Ids : pc'[r] = "insertProject" /\ input'[r].user = o => Approved(o)'
  BY <1>5
<1> QED
  BY <1>4, <1>6, <1>7, <1>8, <1>9 DEF ApprovalInv

\* Only an organization that an administrator approved publishes, and only on
\* its own projects does it report, however late the INSERT comes.
THEOREM ApprovalComesFirst == Spec => []PublishedByApproved
<1>1. Spec => [](TypeInv /\ ApprovalInv)
  BY InitTypes, StepTypes, InitApproval, StepApproval, PTL DEF Spec
<1>2. TypeInv /\ ApprovalInv => PublishedByApproved
  <2> SUFFICES ASSUME TypeInv, ApprovalInv PROVE PublishedByApproved
    OBVIOUS
  <2>1. ASSUME NEW p \in DOMAIN projects
        PROVE  \/ \E u \in DOMAIN InitialOrganizations :
                    u = projects[p] /\ InitialOrganizations[u] = "approved"
               \/ \E r \in Requests : HasJudged(r, projects[p], "approved")
    <3>1. projects[p] \in Ids
      BY <2>1 DEF TypeInv, TypeOK
    <3>2. Approved(projects[p])
      BY <2>1, <3>1 DEF ApprovalInv
    <3> QED
      BY <3>2 DEF Approved
  <2> QED
    BY <2>1 DEF PublishedByApproved, ApprovalInv
<1> QED
  BY <1>1, <1>2, PTL

-----------------------------------------------------------------------------
(* Verdicts.                                                               *)

\* A verdict that is in the table of reviews, and one whose review is about
\* to record it or was not answered with success.
Recorded(o, s) == \E v \in reviews : v.organizationId = o /\ v.status = s
Unanswered == {"insertReview", "inDoubt", "cutOff"}
Outstanding(o, s) == \E r \in Requests : HasJudged(r, o, s) /\ pc[r] \in Unanswered
Noted(o, s) == Recorded(o, s) \/ Outstanding(o, s)

InitialStatus(o) == IF o \in Seeded THEN InitialOrganizations[o] ELSE "pending"
VerdictInv == \A o \in DOMAIN organizations :
  organizations[o] = InitialStatus(o) \/ Noted(o, organizations[o])

LEMMA VerdictsAreNoted == VerdictInv <=> VerdictsAreRecorded
BY DEF VerdictInv, VerdictsAreRecorded, Noted, Recorded, Outstanding, Unanswered, InitialStatus

\* A review leaves Unanswered only by the INSERT of its record.
LEMMA LeavesUnanswered ==
  ASSUME TypeInv, [Next]_vars, NEW s \in Requests, pc[s] \in Unanswered,
         input[s].kind = "review"
  PROVE  pc'[s] \in Unanswered \/ InsertReview(s)
<1> DEFINE Goal == pc'[s] \in Unanswered \/ InsertReview(s)
<1> USE DEF TypeInv, Unanswered
<1>1. ASSUME NEW r \in Requests, Begin(r) PROVE Goal
  <2>1. PICK i, stage : Receive(r, i, stage)
    BY <1>1 DEF Begin, Register, ReviewOrganization, CreateProject, CreateUpdate
  <2> QED
    BY <2>1 DEF Receive, TypeOK
<1>2. ASSUME NEW r \in Requests, NEW next, Wrote(r, next), pc[r] \notin Unanswered PROVE Goal
  <2>1. r # s
    BY <1>2
  <2> QED
    BY <1>2, <2>1 DEF Wrote, TypeOK
<1>3. ASSUME NEW r \in Requests, InsertUser(r) PROVE Goal
  BY <1>2, <1>3 DEF InsertUser
<1>4. ASSUME NEW r \in Requests, InsertOrganization(r) PROVE Goal
  BY <1>2, <1>4 DEF InsertOrganization
<1>5. ASSUME NEW r \in Requests, SaveOrganization(r) PROVE Goal
  BY <1>2, <1>5 DEF SaveOrganization
<1>6. ASSUME NEW r \in Requests, InsertReview(r) PROVE Goal
  BY <1>6 DEF InsertReview, Wrote, TypeOK
<1>7. ASSUME NEW r \in Requests, InsertProject(r) PROVE Goal
  BY <1>2, <1>7 DEF InsertProject
<1>8. ASSUME NEW r \in Requests, InsertUpdate(r) PROVE Goal
  BY <1>2, <1>8 DEF InsertUpdate
<1>9. ASSUME NEW r \in Requests, DuplicateUser(r) PROVE Goal
  BY <1>9 DEF DuplicateUser, TypeOK
<1>10. ASSUME NEW r \in Requests, Answer(r) PROVE Goal
  BY <1>10 DEF Answer, TypeOK
<1>11. ASSUME NEW r \in Requests, StatementError(r) PROVE Goal
  BY <1>11 DEF StatementError, TypeOK, Before, After
<1>12. ASSUME Crash PROVE Goal
  BY <1>12 DEF Crash, Before, After
<1>13. CASE UNCHANGED vars
  BY <1>13 DEF vars
<1> QED
  BY <1>1, <1>3, <1>4, <1>5, <1>6, <1>7, <1>8, <1>9, <1>10, <1>11, <1>12, <1>13
  DEF Next, Continue, Terminating

\* Records are never removed.
LEMMA RecordsStay ==
  ASSUME [Next]_vars PROVE reviews \subseteq reviews'
<1>1. ASSUME NEW r \in Requests, Begin(r) PROVE UNCHANGED reviews
  BY <1>1 DEF Begin, Register, ReviewOrganization, CreateProject, CreateUpdate, Receive, tables
<1> QED
  BY <1>1
  DEF Next, Continue, InsertUser, DuplicateUser, InsertOrganization, SaveOrganization,
      InsertReview, InsertProject, InsertUpdate, Answer, StatementError, Crash, Terminating,
      vars, tables

\* A verdict that is noted stays noted.
LEMMA NotedForEver ==
  ASSUME TypeInv, [Next]_vars, NEW o, NEW s, Noted(o, s) PROVE Noted(o, s)'
<1>1. CASE Recorded(o, s)
  BY <1>1, RecordsStay DEF Noted, Recorded
<1>2. CASE Outstanding(o, s)
  <2>1. PICK r \in Requests : HasJudged(r, o, s) /\ pc[r] \in Unanswered
    BY <1>2 DEF Outstanding
  <2>2. CASE pc'[r] \in Unanswered
    <3>1. HasJudged(r, o, s)'
      BY <2>1, <2>2, StageMoves DEF HasJudged, Unanswered
    <3> QED
      BY <2>2, <3>1 DEF Noted, Outstanding
  <2>3. CASE InsertReview(r)
    <3> DEFINE v == [request |-> r, organizationId |-> o, status |-> s]
    <3>1. v \in reviews'
      BY <2>1, <2>3 DEF InsertReview, HasJudged
    <3>2. v.organizationId = o /\ v.status = s
      OBVIOUS
    <3>3. Recorded(o, s)'
      BY <3>1, <3>2, Zenon DEF Recorded
    <3> QED
      BY <3>3 DEF Noted
  <2> QED
    BY <2>1, <2>2, <2>3, LeavesUnanswered DEF HasJudged
<1> QED
  BY <1>1, <1>2 DEF Noted

\* Only a registration and a review write the status of an organization.
LEMMA StepVerdicts ==
  ASSUME TypeInv, VerdictInv, [Next]_vars PROVE VerdictInv'
<1>1. ASSUME NEW o \in DOMAIN organizations, organizations'[o] = organizations[o]
      PROVE  (organizations[o] = InitialStatus(o) \/ Noted(o, organizations[o]))'
  <2>1. PICK s : s = organizations[o]
    OBVIOUS
  <2>2. s = InitialStatus(o) \/ Noted(o, s)
    BY <2>1 DEF VerdictInv
  <2>3. s = InitialStatus(o) \/ Noted(o, s)'
    BY <2>2, NotedForEver
  <2> QED
    BY <1>1, <2>1, <2>3
<1>2. ASSUME NEW r \in Requests, InsertOrganization(r) PROVE VerdictInv'
  <2>1. /\ DOMAIN organizations' = DOMAIN organizations \cup {r}
        /\ organizations'[r] = "pending"
        /\ \A o \in DOMAIN organizations \ {r} : organizations'[o] = organizations[o]
    BY <1>2 DEF InsertOrganization, With
  <2>2. InitialStatus(r) = "pending"
    BY SeededAssumption DEF InitialStatus
  <2> QED
    BY <1>1, <2>1, <2>2 DEF VerdictInv, InitialStatus
<1>3. ASSUME NEW r \in Requests, SaveOrganization(r) PROVE VerdictInv'
  <2>1. PICK p, s : p = input[r].organization /\ s = input[r].status
    OBVIOUS
  <2>2. p \in DOMAIN organizations /\ input[r].kind = "review"
    BY <1>3, <2>1 DEF SaveOrganization, TypeInv, StageInv, ReviewInputs
  <2>3. /\ DOMAIN organizations' = DOMAIN organizations
        /\ organizations'[p] = s
        /\ \A o \in DOMAIN organizations \ {p} : organizations'[o] = organizations[o]
    BY <1>3, <2>1, <2>2 DEF SaveOrganization
  <2>4. pc'[r] \in Unanswered /\ input' = input
    BY <1>3 DEF SaveOrganization, Wrote, TypeInv, TypeOK, Unanswered
  <2>5. HasJudged(r, p, s)'
    BY <2>1, <2>2, <2>4 DEF HasJudged, Unanswered, Effective, After
  <2>6. Noted(p, s)'
    BY <2>4, <2>5 DEF Noted, Outstanding
  <2>7. Noted(p, organizations[p])'
    BY <2>3, <2>6
  <2> QED
    BY <1>1, <2>3, <2>7 DEF VerdictInv
<1>4. CASE UNCHANGED organizations
  BY <1>1, <1>4 DEF VerdictInv
<1>5. ASSUME NEW r \in Requests, Begin(r) PROVE UNCHANGED organizations
  BY <1>5 DEF Begin, Register, ReviewOrganization, CreateProject, CreateUpdate, Receive, tables
<1> QED
  BY <1>2, <1>3, <1>4, <1>5
  DEF Next, Continue, InsertUser, DuplicateUser, InsertReview, InsertProject, InsertUpdate,
      Answer, StatementError, Crash, Terminating, vars, tables

\* No verdict on an organization is lost between the two statements of a
\* review, however many administrators judge at once: it is in the table of
\* reviews, or its review is still at it or was not answered with success
\* (service_admin.go:75-86).
THEOREM VerdictsLeaveRecords == Spec => []VerdictsAreRecorded
<1>1. Init => VerdictInv
  BY InitialOrganizationsAssumption DEF Init, VerdictInv, InitialStatus, Seeded
<1>2. TypeInv /\ VerdictInv /\ [Next]_vars => (TypeInv /\ VerdictInv)'
  BY StepTypes, StepVerdicts
<1>3. VerdictInv => VerdictsAreRecorded
  BY VerdictsAreNoted
<1> QED
  BY <1>1, <1>2, <1>3, InitTypes, PTL DEF Spec
=============================================================================
