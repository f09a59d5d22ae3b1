--------------------------- MODULE DonationLedger ---------------------------
(***************************************************************************)
(* The three requests that write a project's raised amount or a user's     *)
(* accumulated donation: a donation (DonationService.Create), the review   *)
(* of a project (AdminService.ReviewProject) and the change of a profile   *)
(* (AuthService.UpdateProfile).  Each reads whole rows into memory, works  *)
(* on the copies and saves every column back (gorm's Save).                *)
(*                                                                         *)
(* The database is MySQL's InnoDB at its default isolation level: a        *)
(* transaction reads the snapshot taken by its first SELECT and locks only *)
(* what it writes; an INSERT locks the rows its foreign keys name shared.  *)
(* A request is one goroutine; the pool of connections is shared.          *)
(***************************************************************************)
EXTENDS Money

CONSTANTS
  Requests,          \* the requests the server receives
  Users, Projects,   \* the primary keys of the two tables, disjoint
  Owner,             \* the user of the organization a project belongs to
  InitialProjects,   \* the rows of both tables when the requests arrive
  InitialUsers,
  Amounts,           \* the donation amounts a client sends, in mills
  Names,             \* the real names a client sends
  NoName,            \* the empty name, which keeps the stored one
  MaxDecimal,        \* the largest amount a decimal(14,2) column holds
  MaxOpenConns,      \* the size of the connection pool
  Kinds,             \* the kinds of request that arrive
  Faults             \* whether statements, commits and the server may fail

Statuses == {"pending", "approved", "rejected", "completed"}
Reviewed == {"approved", "rejected"}

ProjectRows == [currentAmount: Nat, targetAmount: Nat, status: Statuses]
UserRows == [totalDonation: Nat, realName: Names \cup {NoName}]

ASSUME KeysAssumption == Users \cap Projects = {}
ASSUME OwnerAssumption == Owner \in [Projects -> Users]
ASSUME AmountsAssumption == Amounts \subseteq Nat
ASSUME KindsAssumption == Kinds \subseteq {"donate", "review", "profile"}
ASSUME PoolAssumption == MaxOpenConns \in Nat \ {0}
ASSUME MaxDecimalAssumption == MaxDecimal \in Nat
ASSUME FaultsAssumption == Faults \in BOOLEAN

\* The stored amounts are cents, and a stored project is completed only when
\* it has what it asked for, as the demo data and the program itself leave it.
ASSUME InitialProjectsAssumption ==
  /\ InitialProjects \in [Projects -> ProjectRows]
  /\ \A p \in Projects :
       /\ IsDec(InitialProjects[p].currentAmount)
       /\ IsDec(InitialProjects[p].targetAmount)
       /\ InitialProjects[p].status = "completed" =>
            InitialProjects[p].currentAmount >= InitialProjects[p].targetAmount
ASSUME InitialUsersAssumption ==
  /\ InitialUsers \in [Users -> UserRows]
  /\ \A u \in Users : IsDec(InitialUsers[u].totalDonation)

-----------------------------------------------------------------------------
(* What a request carries, and the stages it goes through.                 *)

DonateInputs == [kind: {"donate"}, user: Users, project: Projects, amount: Amounts]
ReviewInputs == [kind: {"review"}, project: Projects, status: Statuses]
ProfileInputs == [kind: {"profile"}, user: Users, realName: Names \cup {NoName}]
NoInput == [kind |-> "none"]
Inputs == {i \in DonateInputs \cup ReviewInputs \cup ProfileInputs : i.kind \in Kinds}

\* The statements of a transaction, in the order they are sent.
InTx == {"insertDonation", "saveOwner", "saveProject", "saveUser", "commit"}
\* A request the server has begun and not yet answered.
InFlight == InTx \cup {"loaded", "audit", "answer"}
(* How a request ends: answered with success; refused, nothing written;    *)
(* failed and rolled back; rolled back to break a deadlock; answered with  *)
(* an error though a COMMIT took effect; rolled back by a crash and never  *)
(* answered; cut off by a crash after a COMMIT took effect.                *)
Ended == {"done", "refused", "failed", "victim", "inDoubt", "lost", "cutOff"}
\* The stages of a request whose transaction took effect.
Effective == {"audit", "answer", "done", "inDoubt", "cutOff"}
Stages == {"idle"} \cup InFlight \cup Ended

\* The zero values of the Go variables that hold a row.
NoProject == [currentAmount |-> 0, targetAmount |-> 0, status |-> "pending"]
NoUser == [totalDonation |-> 0, realName |-> NoName]

VARIABLES
  projects, users,   \* the committed rows
  donations,         \* the committed rows of the donations table
  reviews,           \* the committed rows of the admin_reviews table
  pc, input,         \* the stage of each request and what it carries
  project, user,     \* the copies a request holds, as it read them
  locks,             \* the row locks the open transactions hold
  overwritten        \* history: rows some commit took back to an older amount

tables == <<projects, users, donations, reviews>>
vars == <<tables, pc, input, project, user, locks, overwritten>>

Init ==
  /\ projects = InitialProjects
  /\ users = InitialUsers
  /\ donations = {}
  /\ reviews = {}
  /\ pc = [r \in Requests |-> "idle"]
  /\ input = [r \in Requests |-> NoInput]
  /\ project = [r \in Requests |-> NoProject]
  /\ user = [r \in Requests |-> NoUser]
  /\ locks = {}
  /\ overwritten = {}

\* A transaction keeps its connection from BEGIN to COMMIT or ROLLBACK; a
\* lone SELECT or INSERT needs one for itself.
OpenTx == {r \in Requests : pc[r] \in InTx}
FreeConn == Cardinality(OpenTx) < MaxOpenConns

-----------------------------------------------------------------------------
(* Row locks.                                                              *)

Rows == Users \cup Projects
Locks == [holder: Requests, row: Rows, mode: {"shared", "exclusive"}]
Shared(r, row) == [holder |-> r, row |-> row, mode |-> "shared"]
Exclusive(r, row) == [holder |-> r, row |-> row, mode |-> "exclusive"]

(* The locks the current statement of r needs.  Saving a project with its  *)
(* preloaded organization first upserts that organization and its user.    *)
Needs_NoKey(r) ==  \* mutant: Save(user) with a zero id updates every row
  CASE pc[r] = "insertDonation" ->
         {Shared(r, input[r].user), Shared(r, input[r].project)}
    [] pc[r] = "saveOwner" -> {Exclusive(r, Owner[input[r].project])}
    [] pc[r] = "saveProject" -> {Exclusive(r, input[r].project)}
    [] pc[r] = "saveUser" -> {Exclusive(r, u) : u \in Users}
    [] OTHER -> {}
Needs(r) ==
  CASE pc[r] = "insertDonation" ->
         {Shared(r, input[r].user), Shared(r, input[r].project)}
    [] pc[r] = "saveOwner" -> {Exclusive(r, Owner[input[r].project])}
    [] pc[r] = "saveProject" -> {Exclusive(r, input[r].project)}
    [] pc[r] = "saveUser" -> {Exclusive(r, input[r].user)}
    [] OTHER -> {}

Ready(r) == Needs(r) \subseteq locks

Conflict(l, m) ==
  /\ l.row = m.row
  /\ l.holder # m.holder
  /\ "exclusive" \in {l.mode, m.mode}

\* The locks r needs and the database can grant.
Grantable(r) == {l \in Needs(r) \ locks : \A m \in locks : ~Conflict(l, m)}

\* The requests that r waits for.
Blockers(r) ==
  {m.holder : m \in {m \in locks : \E l \in Needs(r) \ locks : Conflict(l, m)}}

Deadlocked(D) == D # {} /\ \A r \in D : Blockers(r) \cap D # {}

\* A cycle has no smaller one within it.
InCycle(r) ==
  \E D \in SUBSET Requests :
    /\ r \in D
    /\ Deadlocked(D)
    /\ \A C \in SUBSET D : Deadlocked(C) => C = D

-----------------------------------------------------------------------------
(* The rows a request writes, computed from the copies it read.            *)

\* The one check of a project's status, made on the copy.
AcceptsMoney_UnlessRejected(row) == row.status # "rejected"  \* mutant: pending passes
AcceptsMoney(row) == row.status = "approved"

\* The project a donation saves when its sum comes out as x: the comparison
\* sees the sum as computed, the column keeps its cents.
Credited_Early(row, x) ==        \* mutant: compares with the target less a cent
  [row EXCEPT
     !.currentAmount = Dec(x),
     !.status = IF x + 10 >= row.targetAmount THEN "completed" ELSE @]
Credited_Typo(row, x) ==         \* mutant: a status that is no constant
  [row EXCEPT
     !.currentAmount = Dec(x),
     !.status = IF x >= row.targetAmount THEN "complete" ELSE @]
Credited(row, x) ==
  [row EXCEPT
     !.currentAmount = Dec(x),
     !.status = IF x >= row.targetAmount THEN "completed" ELSE @]

\* The user a donation saves when its sum comes out as y.
WithGift_Adds(row, y) == [row EXCEPT !.totalDonation = Dec(@ + y)]  \* mutant: sums the sum
WithGift(row, y) == [row EXCEPT !.totalDonation = Dec(y)]

Judged_FreshRow(row, s) == [row EXCEPT !.status = s, !.currentAmount = 0]  \* mutant: not read first
Judged(row, s) == [row EXCEPT !.status = s]

Renamed(row, n) == IF n = NoName THEN row ELSE [row EXCEPT !.realName = n]

\* The sums the donation r may compute, for its project and for its user.
Raises(r) == FloatSum(project[r].currentAmount, input[r].amount)
Totals(r) == FloatSum(user[r].totalDonation, input[r].amount)

\* What the statement of r that stores an amount may store.
Stored(r) ==
  CASE pc[r] = "insertDonation" -> {Dec(input[r].amount)}
    [] pc[r] = "saveProject" /\ input[r].kind = "donate" -> {Dec(x) : x \in Raises(r)}
    [] pc[r] = "saveUser" /\ input[r].kind = "donate" -> {Dec(y) : y \in Totals(r)}
    [] OTHER -> {0}

\* A value too large for its column is an error in MySQL's strict mode.
MayFit(r) == \E n \in Stored(r) : n <= MaxDecimal
MayOverflow(r) == \E n \in Stored(r) : n > MaxDecimal

-----------------------------------------------------------------------------
(* The beginning of a request: its reads.                                  *)

\* The request r ends as s: its copies are dropped and its locks released.
End_KeepsLocks(r, s) ==   \* mutant: an early return that never rolls back
  /\ pc' = [pc EXCEPT ![r] = s]
  /\ project' = [project EXCEPT ![r] = NoProject]
  /\ user' = [user EXCEPT ![r] = NoUser]
  /\ UNCHANGED locks
End(r, s) ==
  /\ pc' = [pc EXCEPT ![r] = s]
  /\ project' = [project EXCEPT ![r] = NoProject]
  /\ user' = [user EXCEPT ![r] = NoUser]
  /\ locks' = {l \in locks : l.holder # r}

\* Both services check their arguments before they touch the database.
Refuse(r) ==
  /\ pc[r] = "idle"
  /\ \E i \in Inputs :
       /\ \/ i.kind = "donate" /\ i.amount = 0
          \/ i.kind = "review" /\ i.status \notin Reviewed
       /\ input' = [input EXCEPT ![r] = i]
  /\ End(r, "refused")
  /\ UNCHANGED <<tables, overwritten>>

\* The transaction of a donation begins; its first SELECT takes the snapshot
\* both rows are read from.
CreateDonation(r) ==
  /\ pc[r] = "idle"
  /\ FreeConn
  /\ \E i \in Inputs :
       /\ i.kind = "donate"
       /\ i.amount > 0
       /\ AcceptsMoney(projects[i.project])
       /\ input' = [input EXCEPT ![r] = i]
       /\ project' = [project EXCEPT ![r] = projects[i.project]]
       /\ user' = [user EXCEPT ![r] = users[i.user]]
  /\ pc' = [pc EXCEPT ![r] = "insertDonation"]
  /\ UNCHANGED <<tables, locks, overwritten>>

\* The transaction reads a project that is not approved and is rolled back.
RefuseDonation(r) ==
  /\ pc[r] = "idle"
  /\ FreeConn
  /\ \E i \in Inputs :
       /\ i.kind = "donate"
       /\ i.amount > 0
       /\ ~AcceptsMoney(projects[i.project])
       /\ input' = [input EXCEPT ![r] = i]
  /\ End(r, "refused")
  /\ UNCHANGED <<tables, overwritten>>

\* A review reads the project outside any transaction, whatever its status.
ReviewProject(r) ==
  /\ pc[r] = "idle"
  /\ FreeConn
  /\ \E i \in Inputs :
       /\ i.kind = "review"
       /\ i.status \in Reviewed
       /\ input' = [input EXCEPT ![r] = i]
       /\ project' = [project EXCEPT ![r] = projects[i.project]]
  /\ pc' = [pc EXCEPT ![r] = "loaded"]
  /\ UNCHANGED <<tables, user, locks, overwritten>>

\* So does a change of profile read the user.
UpdateProfile(r) ==
  /\ pc[r] = "idle"
  /\ FreeConn
  /\ \E i \in Inputs :
       /\ i.kind = "profile"
       /\ input' = [input EXCEPT ![r] = i]
       /\ user' = [user EXCEPT ![r] = users[i.user]]
  /\ pc' = [pc EXCEPT ![r] = "loaded"]
  /\ UNCHANGED <<tables, project, locks, overwritten>>

-----------------------------------------------------------------------------
(* The statements of the transaction.                                      *)

\* gorm wraps the Save of a review or a profile in a transaction of its own.
BeginSave(r) ==
  /\ pc[r] = "loaded"
  /\ FreeConn
  /\ pc' = [pc EXCEPT ![r] =
              IF input[r].kind = "review" THEN "saveOwner" ELSE "saveUser"]
  /\ UNCHANGED <<tables, input, project, user, locks, overwritten>>

\* The database grants the current statement of r one more lock.
Lock(r) ==
  /\ \E l \in Grantable(r) : locks' = locks \cup {l}
  /\ UNCHANGED <<tables, pc, input, project, user, overwritten>>

\* The statement that follows the current one.
NextStatement(r) ==
  CASE pc[r] = "insertDonation" -> "saveOwner"
    [] pc[r] = "saveOwner" -> "saveProject"
    [] pc[r] = "saveProject" /\ input[r].kind = "donate" -> "saveUser"
    [] OTHER -> "commit"

\* The current statement of r is executed and the next one is sent.
Statement_InsertOutside(r) ==  \* mutant: inserts with the service's repository, not the transaction's
  /\ pc[r] \in InTx \ {"commit"}
  /\ Ready(r)
  /\ MayFit(r)
  /\ pc' = [pc EXCEPT ![r] = NextStatement(r)]
  /\ donations' = IF pc[r] = "insertDonation"
                    THEN donations \cup
                      {[request |-> r, userId |-> input[r].user,
                        projectId |-> input[r].project, amount |-> Dec(input[r].amount)]}
                    ELSE donations
  /\ UNCHANGED <<projects, users, reviews, input, project, user, locks, overwritten>>
Statement_SaveOutside(r) ==    \* mutant: saves the user with the service's repository
  /\ pc[r] \in InTx \ {"commit"}
  /\ Ready(r)
  /\ MayFit(r)
  /\ pc' = [pc EXCEPT ![r] = NextStatement(r)]
  /\ users' = IF pc[r] = "saveUser" /\ input[r].kind = "donate"
                THEN [users EXCEPT ![input[r].user] =
                        WithGift(user[r], user[r].totalDonation + input[r].amount)]
                ELSE users
  /\ UNCHANGED <<projects, donations, reviews, input, project, user, locks, overwritten>>
Statement_ReadOutside(r) ==    \* mutant: reads the user over a second connection
  /\ pc[r] \in InTx \ {"commit"}
  /\ Ready(r)
  /\ MayFit(r)
  /\ pc' = [pc EXCEPT ![r] = NextStatement(r)]
  /\ pc[r] = "saveProject" => FreeConn
  /\ UNCHANGED <<tables, input, project, user, locks, overwritten>>
Statement(r) ==
  /\ pc[r] \in InTx \ {"commit"}
  /\ Ready(r)
  /\ MayFit(r)
  /\ pc' = [pc EXCEPT ![r] = NextStatement(r)]
  /\ UNCHANGED <<tables, input, project, user, locks, overwritten>>

\* What follows a COMMIT that took effect: the next stage of the request, or
\* its end if the connection broke before the answer came back.
Committed(r, next) ==
  \E s \in {next} \cup (IF Faults THEN {"inDoubt"} ELSE {}) : End(r, s)

\* The donation, the project and the user are written by one COMMIT.  The
\* sums are those the statements before it stored, which the columns took.
CommitDonation(r) ==
  LET i == input[r]
      p == i.project
      u == i.user
  IN /\ pc[r] = "commit"
     /\ i.kind = "donate"
     /\ \E x \in Raises(r) :
          /\ Dec(x) <= MaxDecimal
          /\ projects' = [projects EXCEPT ![p] = Credited(project[r], x)]
     /\ \E y \in Totals(r) :
          /\ Dec(y) <= MaxDecimal
          /\ users' = [users EXCEPT ![u] = WithGift(user[r], y)]
     /\ donations' = donations \cup
          {[request |-> r, userId |-> u, projectId |-> p, amount |-> Dec(i.amount)]}
     /\ overwritten' = overwritten
          \cup {q \in {p} : projects[p].currentAmount # project[r].currentAmount}
          \cup {v \in {u} : users[u].totalDonation # user[r].totalDonation}
     /\ Committed(r, "answer")
     /\ UNCHANGED <<reviews, input>>

\* The verdict is saved together with every other column the review read.
CommitReview(r) ==
  LET p == input[r].project IN
  /\ pc[r] = "commit"
  /\ input[r].kind = "review"
  /\ projects' = [projects EXCEPT ![p] = Judged(project[r], input[r].status)]
  /\ overwritten' = overwritten
       \cup {q \in {p} : projects[p].currentAmount # project[r].currentAmount}
  /\ Committed(r, "audit")
  /\ UNCHANGED <<users, donations, reviews, input>>

CommitProfile(r) ==
  LET u == input[r].user IN
  /\ pc[r] = "commit"
  /\ input[r].kind = "profile"
  /\ users' = [users EXCEPT ![u] = Renamed(user[r], input[r].realName)]
  /\ overwritten' = overwritten
       \cup {v \in {u} : users[u].totalDonation # user[r].totalDonation}
  /\ Committed(r, "answer")
  /\ UNCHANGED <<projects, donations, reviews, input>>

\* The record of a review is inserted after the verdict was committed.
InsertReview_Ignored(r) ==  \* mutant: the record fails and nobody looks at the error
  /\ pc[r] = "audit"
  /\ FreeConn
  /\ pc' = [pc EXCEPT ![r] = "answer"]
  /\ UNCHANGED <<tables, input, project, user, locks, overwritten>>
InsertReview(r) ==
  /\ pc[r] = "audit"
  /\ FreeConn
  /\ reviews' = reviews \cup
       {[request |-> r, projectId |-> input[r].project, status |-> input[r].status]}
  /\ pc' = [pc EXCEPT ![r] = "answer"]
  /\ UNCHANGED <<projects, users, donations, input, project, user, locks, overwritten>>

Answer(r) ==
  /\ pc[r] = "answer"
  /\ End(r, "done")
  /\ UNCHANGED <<tables, input, overwritten>>

-----------------------------------------------------------------------------
(* What goes wrong.  Every error rolls the open transaction back.          *)

\* A value does not fit its column: an INSERT fails before it locks, an
\* UPDATE once it holds the row.
OutOfRange(r) ==
  /\ MayOverflow(r)
  /\ pc[r] = "insertDonation" \/ Ready(r)
  /\ End(r, "failed")
  /\ UNCHANGED <<tables, input, overwritten>>

\* InnoDB breaks a cycle of waiting transactions by rolling one of them back;
\* the program answers with the error and does not try again.
DeadlockVictim_Retries(r) ==   \* mutant: the victim begins again
  /\ InCycle(r)
  /\ End(r, "idle")
  /\ UNCHANGED <<tables, input, overwritten>>
DeadlockVictim(r) ==
  /\ InCycle(r)
  /\ End(r, "victim")
  /\ UNCHANGED <<tables, input, overwritten>>

\* A statement fails: a lock wait times out or the connection breaks.  After
\* a review's verdict was committed, only its record is lost.
StatementError(r) ==
  /\ Faults
  /\ pc[r] \in InTx \cup {"loaded", "audit"}
  /\ End(r, IF pc[r] = "audit" THEN "inDoubt" ELSE "failed")
  /\ UNCHANGED <<tables, input, overwritten>>

\* Where a request that was at stage s is after the server stopped.
AfterCrash(s) ==
  CASE s \in InTx \cup {"loaded"} -> "lost"
    [] s \in {"audit", "answer"} -> "cutOff"
    [] OTHER -> s

\* The server stops with requests in flight: it crashed, or they outlived the
\* ten seconds of its shutdown.  Their transactions are rolled back.
Crash ==
  /\ Faults
  /\ \E r \in Requests : pc[r] \in InFlight
  /\ pc' = [r \in Requests |-> AfterCrash(pc[r])]
  /\ project' = [r \in Requests |-> NoProject]
  /\ user' = [r \in Requests |-> NoUser]
  /\ locks' = {}
  /\ UNCHANGED <<tables, input, overwritten>>

\* Every request has ended.
Terminating == (\A r \in Requests : pc[r] \in Ended) /\ UNCHANGED vars

-----------------------------------------------------------------------------
Begin(r) ==
  \/ Refuse(r)
  \/ CreateDonation(r)
  \/ RefuseDonation(r)
  \/ ReviewProject(r)
  \/ UpdateProfile(r)

Continue(r) ==
  \/ BeginSave(r)
  \/ Lock(r)
  \/ Statement(r)
  \/ CommitDonation(r)
  \/ CommitReview(r)
  \/ CommitProfile(r)
  \/ InsertReview(r)
  \/ Answer(r)
  \/ OutOfRange(r)

BreakDeadlock == \E r \in Requests : DeadlockVictim(r)

Next ==
  \/ \E r \in Requests : Begin(r) \/ Continue(r) \/ DeadlockVictim(r) \/ StatementError(r)
  \/ Crash
  \/ Terminating

Spec == Init /\ [][Next]_vars

(* The goroutine of a request keeps running, the pool serves its waiters in *)
(* order and InnoDB's detector runs whenever a transaction has to wait.     *)
FairSpec ==
  /\ Spec
  /\ \A r \in Requests : WF_vars(Continue(r))
  /\ WF_vars(BreakDeadlock)

-----------------------------------------------------------------------------
(* Properties.                                                             *)

DonationRows ==
  [request: Requests, userId: Users, projectId: Projects, amount: Nat]
ReviewRows == [request: Requests, projectId: Projects, status: Reviewed]

TypeOK ==
  /\ projects \in [Projects -> ProjectRows]
  /\ users \in [Users -> UserRows]
  /\ donations \subseteq DonationRows
  /\ reviews \subseteq ReviewRows
  /\ pc \in [Requests -> Stages]
  /\ input \in [Requests -> Inputs \cup {NoInput}]
  /\ project \in [Requests -> ProjectRows]
  /\ user \in [Requests -> UserRows]
  /\ locks \subseteq Locks
  /\ overwritten \subseteq Rows

\* The donations to a project and those of a user, as their table has them.
GiftsTo(p) == {d \in donations : d.projectId = p}
GiftsBy(u) == {d \in donations : d.userId = u}

\* The opening amounts and all of the donations since.
Received(p) == InitialProjects[p].currentAmount + Sum(GiftsTo(p))
Donated(u) == InitialUsers[u].totalDonation + Sum(GiftsBy(u))

\* The donations whose amount was sent within a mill of half a cent.
Rough == {d \in donations : HalfCent(input[d.request].amount)}

\* A stored amount may lag behind the donations but is made of nothing else:
\* no interleaving of donations, reviews and profile changes, each of which
\* saves an amount it read earlier, credits a donation twice, in part or to
\* somebody else, except that the float64 sum may turn a donation of about
\* half a cent into a cent more or less than its row shows
\* (service_donation.go:102-117, service_admin.go:42-45, service_auth.go:164).
CreditsAreDonations ==
  /\ \A p \in Projects : projects[p].currentAmount \in
       Credits(InitialProjects[p].currentAmount, GiftsTo(p), Rough)
  /\ \A u \in Users : users[u].totalDonation \in
       Credits(InitialUsers[u].totalDonation, GiftsBy(u), Rough)

\* The books go out of balance in two ways only: by a commit that saves an
\* older amount over a newer one, and by at most a cent for each donation of
\* about half a cent, which the float64 sum may round the other way than its
\* row.  Rollbacks, deadlocks and crashes lose nothing
\* (service_donation.go:102-117, service_admin.go:45, service_auth.go:164).
BalancedUnlessOverwritten ==
  /\ \A p \in Projects \ overwritten :
       projects[p].currentAmount \in Near(Received(p), Cardinality(GiftsTo(p) \cap Rough))
  /\ \A u \in Users \ overwritten :
       users[u].totalDonation \in Near(Donated(u), Cardinality(GiftsBy(u) \cap Rough))

\* A project is shown as completed only if its stored amount reaches its
\* target, and then the donations it really received do too, up to the cent
\* each donation of about half a cent may have been rounded by: no overwritten
\* amount completes a project early (service_donation.go:102-105).
CompletedIsEarned ==
  \A p \in Projects : projects[p].status = "completed" =>
    /\ projects[p].currentAmount >= projects[p].targetAmount
    /\ Received(p) + 10 * Cardinality(GiftsTo(p) \cap Rough) >= projects[p].targetAmount

\* A request whose approval of p took effect.
HasApproved(r, p) ==
  /\ input[r].kind = "review"
  /\ input[r].project = p
  /\ input[r].status = "approved"
  /\ pc[r] \in Effective

\* No project takes money before an administrator approved it, although a
\* donation checks the status once, on its snapshot (service_donation.go:79),
\* and writes it back later.
OnlyApprovedRaiseMoney ==
  \A d \in donations :
    \/ InitialProjects[d.projectId].status = "approved"
    \/ \E r \in Requests : HasApproved(r, d.projectId)

\* The donations table tells the truth about every donation that ended: one
\* row of the stored amount if it succeeded, none if it was refused, failed or
\* was rolled back (service_donation.go:69-122).
RecordedOnce ==
  \A r \in Requests : input[r].kind = "donate" =>
    LET rows == {d \in donations : d.request = r} IN
    /\ pc[r] \in Effective =>
         rows = {[request |-> r, userId |-> input[r].user,
                  projectId |-> input[r].project, amount |-> Dec(input[r].amount)]}
    /\ pc[r] \notin Effective => rows = {}

\* While an open transaction holds a lock on a row, no commit but its own
\* changes the row: neither the project a donation is being recorded for nor
\* the rows a Save is about to replace (service_donation.go:83-117).
LockedRowsStand ==
  [][\A l \in locks :
       \/ l.row \in Projects /\ projects'[l.row] # projects[l.row]
       \/ l.row \in Users /\ users'[l.row] # users[l.row]
       => pc[l.holder] = "commit" /\ pc'[l.holder] # "commit"]_vars

\* The rows a request of input i may lock.
Touched(i) ==
  CASE i.kind = "donate" -> {i.user, i.project, Owner[i.project]}
    [] i.kind = "review" -> {i.project, Owner[i.project]}
    [] i.kind = "profile" -> {i.user}
    [] OTHER -> {}

\* Who is rolled back to break a deadlock had a rival on a common project or
\* user: requests that share no row never fail each other.  And a deadlock
\* costs somebody the request, not everybody (service_donation.go:98-117).
DeadlockAmongRivals ==
  \A r \in Requests : pc[r] = "victim" =>
    /\ \E s \in Requests : pc[s] \in InFlight \cup (Ended \ {"victim", "refused"})
    /\ \E s \in Requests \ {r} :
         pc[s] # "refused" /\ Touched(input[r]) \cap Touched(input[s]) # {}

\* What a project has raised is its opening amount plus the rows of the
\* donations table, which is what the comment of Create promises
\* (service_donation.go:51).
BooksBalance == \A p \in Projects : projects[p].currentAmount = Received(p)

\* A verdict seen on a project is in the table of reviews, or its review is
\* still about to be recorded, or was not answered with success: whatever
\* fails, no administrator who was told a review succeeded leaves a verdict
\* without a trace (service_admin.go:43-53).
ReviewsAreRecorded ==
  \A p \in Projects :
    LET s == projects[p].status IN
    s \in Reviewed /\ s # InitialProjects[p].status =>
      \/ \E v \in reviews : v.projectId = p /\ v.status = s
      \/ \E r \in Requests : /\ pc[r] \in {"audit", "inDoubt", "cutOff"}
                            /\ input[r].kind = "review"
                            /\ input[r].project = p
                            /\ input[r].status = s

\* Only an approving review puts a rejected project back among the projects
\* that may raise money (service_admin.go:42-43).
RejectionStands ==
  [][\A p \in Projects :
       projects[p].status = "rejected" /\ projects'[p].status # "rejected" =>
         \E r \in Requests : /\ pc[r] = "commit"
                             /\ pc'[r] # "commit"
                             /\ input[r].kind = "review"
                             /\ input[r].status = "approved"]_projects

\* Where a request can go on by itself: a connection is free for it, a lock
\* can be granted, its statement has its locks, or nothing holds it up.
CanGoOn(r) ==
  \/ pc[r] \in {"loaded", "audit"} /\ FreeConn
  \/ Grantable(r) # {}
  \/ pc[r] \in InTx /\ Ready(r)
  \/ pc[r] = "answer"

\* The requests in flight never all wait for each other: one can go on, or a
\* cycle of locks is there for InnoDB to break.  Nobody waits for a request
\* that is over, nor for the pool while holding what others need
\* (service_donation.go:69-119, database.go:36).
NeverStuck ==
  (\E r \in Requests : pc[r] \in InFlight) => \E r \in Requests : CanGoOn(r) \/ InCycle(r)

\* What is left to do for a request: the stages before its end, and in each
\* the locks it does not hold yet, which are at most two.
StagesLeft(s) ==
  CASE s = "idle" -> 8
    [] s \in {"insertDonation", "loaded"} -> 7
    [] s = "saveOwner" -> 6
    [] s = "saveProject" -> 5
    [] s = "saveUser" -> 4
    [] s = "commit" -> 3
    [] s = "audit" -> 2
    [] s = "answer" -> 1
    [] OTHER -> 0
Left(r) == 3 * StagesLeft(pc[r]) + Cardinality(Needs(r) \ locks)

\* Every step brings some request nearer to its end and none farther from it:
\* nothing is retried, no lock is lost and waited for again, and no request
\* sets another one back (service_donation.go:98-119).
EveryStepAdvances ==
  [][/\ \A r \in Requests : Left(r)' <= Left(r)
     /\ \E r \in Requests : Left(r)' < Left(r)]_vars

\* Every request the server begins comes to an end: waiting for locks and for
\* the pool never lasts for ever, whatever the order of the statements.
EveryRequestEnds ==
  \A r \in Requests : (pc[r] \in InFlight) ~> (pc[r] \in Ended)

\* The refinement: the tables are the tables; requests, copies, locks and
\* connections are hidden.
Promise == INSTANCE LedgerPromise WITH
  projects <- projects, users <- users, donations <- donations, reviews <- reviews

\* Whatever the requests do to each other, the tables change as LedgerPromise
\* says: in atomic steps, of one request at a time, that never save what was
\* not recorded (service_donation.go:70-119).
KeepsPromise == Promise!Spec
=============================================================================
