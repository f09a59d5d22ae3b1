------------------------------ MODULE Accounts ------------------------------
(***************************************************************************)
(* Accounts and what they may do: registration (AuthService.Register), the *)
(* lookup of a login, the review of an organization                        *)
(* (AdminService.ReviewOrganization), the publication of a project         *)
(* (ProjectService.Create) and the report on its progress (CreateUpdate).  *)
(* Each is a few statements with no transaction around them: a check on    *)
(* what it read, then one or two INSERTs or Saves, each committed at once. *)
(***************************************************************************)
EXTENDS FiniteSets

CONSTANTS
  Requests,              \* the requests the server receives
  Usernames, Emails,     \* what clients register under; a username may look like an email
  Roles,                 \* the roles they send, "" for none: nothing checks them
  InitialUsers,          \* the rows of users and the statuses of the organizations
  InitialOrganizations,  \*   when the requests arrive
  Kinds,                 \* the kinds of request that arrive
  Faults                 \* whether statements, commits and the server may fail

Names == Usernames \cup Emails
Statuses == {"pending", "approved", "rejected"}
Reviewed_Any == Statuses \cup {"open"}   \* mutant: the argument is not checked
Reviewed == {"approved", "rejected"}

\* The role that is stored for one that is sent, and those of all the rows:
\* the demo data has users, organizations and an administrator.
RoleOf(role) == IF role = "" THEN "user" ELSE role
StoredRoles == {RoleOf(role) : role \in Roles} \cup {"user", "org", "admin"}

UserRows == [username: Names, email: Names, role: StoredRoles]

\* The keys of the seeded users; a registered user's key is its request's.
Seeded == DOMAIN InitialUsers
Ids == Seeded \cup Requests

\* The rows obey the unique indexes, and organizations belong to users.
ASSUME SeededAssumption == Seeded \cap Requests = {}
ASSUME InitialUsersAssumption ==
  /\ InitialUsers \in [Seeded -> UserRows]
  /\ \A u, v \in Seeded : u # v =>
       /\ InitialUsers[u].username # InitialUsers[v].username
       /\ InitialUsers[u].email # InitialUsers[v].email
ASSUME InitialOrganizationsAssumption ==
  /\ DOMAIN InitialOrganizations = {u \in Seeded : InitialUsers[u].role = "org"}
  /\ InitialOrganizations \in [DOMAIN InitialOrganizations -> Statuses]
ASSUME KindsAssumption == Kinds \subseteq {"register", "review", "publish", "report"}
ASSUME FaultsAssumption == Faults \in BOOLEAN

-----------------------------------------------------------------------------
(* What a request carries, and the stages it goes through.                 *)

RegisterInputs == [kind: {"register"}, username: Usernames, email: Emails, role: Roles]
ReviewInputs == [kind: {"review"}, organization: Ids, status: Statuses \cup {"open"}]
PublishInputs == [kind: {"publish"}, user: Ids]
ReportInputs == [kind: {"report"}, user: Ids, project: Requests]
NoInput == [kind |-> "none"]
Inputs == {i \in RegisterInputs \cup ReviewInputs \cup PublishInputs \cup ReportInputs :
             i.kind \in Kinds}

\* Stages in which nothing was written yet, and those in which something was.
Before == {"insertUser", "saveOrganization", "insertProject", "insertUpdate"}
After == {"insertOrganization", "insertReview", "answer"}
(* How a request ends: answered with success; refused, nothing written; a  *)
(* duplicate for the unique indexes; failed, nothing written; answered     *)
(* with an error though something was written; cut off by a stop of the    *)
(* server before or after it wrote.                                        *)
Ended == {"done", "refused", "duplicate", "failed", "inDoubt", "lost", "cutOff"}
Stages == {"idle"} \cup Before \cup After \cup Ended
\* The stages of a request whose first statement took effect.
Effective == After \cup {"done", "inDoubt", "cutOff"}

VARIABLES
  users,          \* the rows of users, by key
  organizations,  \* the statuses of the organizations, by the key of their user
  projects,       \* published projects, by request: the organization's key
  updates,        \* the progress reports
  reviews,        \* the rows of admin_reviews
  pc, input       \* the stage of each request and what it carries

tables == <<users, organizations, projects, updates, reviews>>
vars == <<tables, pc, input>>

Init ==
  /\ users = InitialUsers
  /\ organizations = InitialOrganizations
  /\ projects = [r \in {} |-> r]
  /\ updates = {}
  /\ reviews = {}
  /\ pc = [r \in Requests |-> "idle"]
  /\ input = [r \in Requests |-> NoInput]

\* The function f with value v at x, old or new.
With(f, x, v) == [y \in DOMAIN f \cup {x} |-> IF y = x THEN v ELSE f[y]]

-----------------------------------------------------------------------------
(* The checks, made on what a request reads first.                         *)

\* The users that FindByUsernameOrEmail may return.
Matching_Swapped(username, email) ==   \* mutant: the arguments are swapped
  {u \in DOMAIN users : users[u].username = email \/ users[u].email = username}
Matching(username, email) ==
  {u \in DOMAIN users : users[u].username = username \/ users[u].email = email}

\* The unique indexes of users refuse a row.
Duplicate_NoEmail(row) ==              \* mutant: the index on email is not unique
  \E u \in DOMAIN users : users[u].username = row.username
Duplicate(row) ==
  \E u \in DOMAIN users : users[u].username = row.username \/ users[u].email = row.email

\* Whether the user of a request may publish.
MayPublish_UnlessRejected(u) ==        \* mutant: a pending organization passes
  u \in DOMAIN organizations /\ organizations[u] # "rejected"
MayPublish(u) == u \in DOMAIN organizations /\ organizations[u] = "approved"

\* Who sends a request that needs the role of an organization.
IsOrganization(u) == u \in DOMAIN users /\ users[u].role = "org"

Owns(u, p) == p \in DOMAIN projects /\ u \in DOMAIN organizations /\ projects[p] = u

-----------------------------------------------------------------------------
(* The beginning of a request.                                             *)

Receive(r, i, stage) ==
  /\ pc[r] = "idle"
  /\ input' = [input EXCEPT ![r] = i]
  /\ pc' = [pc EXCEPT ![r] = stage]
  /\ UNCHANGED tables

\* A registration looks the two names up before it hashes the password.
Register(r) ==
  \E i \in Inputs :
    /\ i.kind = "register"
    /\ Receive(r, i, IF Matching(i.username, i.email) = {} THEN "insertUser" ELSE "refused")

\* A review reads an organization, whatever its status.
ReviewOrganization(r) ==
  \E i \in Inputs :
    /\ i.kind = "review"
    /\ i.organization \in DOMAIN organizations
    /\ Receive(r, i, IF i.status \in Reviewed THEN "saveOrganization" ELSE "refused")

\* A publication looks the organization of its user up.
CreateProject(r) ==
  \E i \in Inputs :
    /\ i.kind = "publish"
    /\ IsOrganization(i.user)
    /\ Receive(r, i, IF MayPublish(i.user) THEN "insertProject" ELSE "refused")

\* A report looks the project and the organization of its user up.
CreateUpdate(r) ==
  \E i \in Inputs :
    /\ i.kind = "report"
    /\ IsOrganization(i.user)
    /\ Receive(r, i, IF Owns(i.user, i.project) THEN "insertUpdate" ELSE "refused")

-----------------------------------------------------------------------------
(* The statements, each a transaction of its own.                          *)

\* A statement took effect: the next stage of the request, or its end if the
\* connection broke before the answer of the COMMIT came back.
Wrote(r, next) ==
  \E s \in {next} \cup (IF Faults THEN {"inDoubt"} ELSE {}) : pc' = [pc EXCEPT ![r] = s]

Row(i) == [username |-> i.username, email |-> i.email, role |-> RoleOf(i.role)]

WantsFile(i) == RoleOf(i.role) = "org"

\* The INSERT of a user; an organization's user still needs its file.
InsertUser(r) ==
  /\ pc[r] = "insertUser"
  /\ ~Duplicate(Row(input[r]))
  /\ users' = With(users, r, Row(input[r]))
  /\ Wrote(r, IF WantsFile(input[r]) THEN "insertOrganization" ELSE "answer")
  /\ UNCHANGED <<organizations, projects, updates, reviews, input>>

\* Somebody else took a name since the lookup: the unique index says so.
DuplicateUser(r) ==
  /\ pc[r] = "insertUser"
  /\ Duplicate(Row(input[r]))
  /\ pc' = [pc EXCEPT ![r] = "duplicate"]
  /\ UNCHANGED <<tables, input>>

InsertOrganization(r) ==
  /\ pc[r] = "insertOrganization"
  /\ organizations' = With(organizations, r, "pending")
  /\ Wrote(r, "answer")
  /\ UNCHANGED <<users, projects, updates, reviews, input>>

\* Of the columns that are saved only the status changes.
SaveOrganization(r) ==
  /\ pc[r] = "saveOrganization"
  /\ organizations' = [organizations EXCEPT ![input[r].organization] = input[r].status]
  /\ Wrote(r, "insertReview")
  /\ UNCHANGED <<users, projects, updates, reviews, input>>

InsertReview_Ignored(r) ==             \* mutant: the record fails and nobody looks at the error
  /\ pc[r] = "insertReview"
  /\ pc' = [pc EXCEPT ![r] = "answer"]
  /\ UNCHANGED <<tables, input>>
InsertReview(r) ==
  /\ pc[r] = "insertReview"
  /\ reviews' = reviews \cup
       {[request |-> r, organizationId |-> input[r].organization, status |-> input[r].status]}
  /\ Wrote(r, "answer")
  /\ UNCHANGED <<users, organizations, projects, updates, input>>

InsertProject(r) ==
  /\ pc[r] = "insertProject"
  /\ projects' = With(projects, r, input[r].user)
  /\ Wrote(r, "answer")
  /\ UNCHANGED <<users, organizations, updates, reviews, input>>

InsertUpdate(r) ==
  /\ pc[r] = "insertUpdate"
  /\ updates' = updates \cup
       {[request |-> r, projectId |-> input[r].project, author |-> input[r].user]}
  /\ Wrote(r, "answer")
  /\ UNCHANGED <<users, organizations, projects, reviews, input>>

Answer(r) ==
  /\ pc[r] = "answer"
  /\ pc' = [pc EXCEPT ![r] = "done"]
  /\ UNCHANGED <<tables, input>>

-----------------------------------------------------------------------------
(* What goes wrong.  What an earlier statement wrote stays.                *)

StatementError(r) ==
  /\ Faults
  /\ pc[r] \in Before \cup (After \ {"answer"})
  /\ pc' = [pc EXCEPT ![r] = IF @ \in Before THEN "failed" ELSE "inDoubt"]
  /\ UNCHANGED <<tables, input>>

Crash ==
  /\ Faults
  /\ \E r \in Requests : pc[r] \in Before \cup After
  /\ pc' = [r \in Requests |-> CASE pc[r] \in Before -> "lost"
                                 [] pc[r] \in After -> "cutOff"
                                 [] OTHER -> pc[r]]
  /\ UNCHANGED <<tables, input>>

\* Every request has ended.
Terminating == (\A r \in Requests : pc[r] \in Ended) /\ UNCHANGED vars

-----------------------------------------------------------------------------
Begin(r) == Register(r) \/ ReviewOrganization(r) \/ CreateProject(r) \/ CreateUpdate(r)

Continue(r) ==
  \/ InsertUser(r)
  \/ DuplicateUser(r)
  \/ InsertOrganization(r)
  \/ SaveOrganization(r)
  \/ InsertReview(r)
  \/ InsertProject(r)
  \/ InsertUpdate(r)
  \/ Answer(r)

Next ==
  \/ \E r \in Requests : Begin(r) \/ Continue(r) \/ StatementError(r)
  \/ Crash
  \/ Terminating

Spec == Init /\ [][Next]_vars

-----------------------------------------------------------------------------
(* Properties.                                                             *)

ReviewRecords == [request: Requests, organizationId: Ids, status: Reviewed]
UpdateRows == [request: Requests, projectId: Requests, author: Ids]

TypeOK ==
  /\ DOMAIN users \subseteq Ids
  /\ users \in [DOMAIN users -> UserRows]
  /\ DOMAIN organizations \subseteq Ids
  /\ organizations \in [DOMAIN organizations -> Statuses]
  /\ DOMAIN projects \subseteq Requests
  /\ projects \in [DOMAIN projects -> Ids]
  /\ updates \subseteq UpdateRows
  /\ reviews \subseteq ReviewRecords
  /\ pc \in [Requests -> Stages]
  /\ input \in [Requests -> Inputs \cup {NoInput}]

\* A registration that is answered with success stands in the tables as it was
\* sent, under whatever role, with a file if it is an organization's, and is
\* the only one under its username and under its email, although the lookup
\* that guards them is made long before the INSERT (service_auth.go:53-88).
AnsweredIsComplete ==
  \A r \in Requests : input[r].kind = "register" /\ pc[r] \in {"answer", "done"} =>
    /\ r \in DOMAIN users
    /\ users[r] = Row(input[r])
    /\ input[r].role = "org" => r \in DOMAIN organizations
    /\ \A u \in DOMAIN users \ {r} : /\ users[u].username # input[r].username
                                    /\ users[u].email # input[r].email

\* Nobody is told that a username or email exists unless another account has
\* it: neither by the lookup nor by the race for the unique indexes
\* (service_auth.go:57-58, 76-78).
RefusedOnlyIfTaken ==
  \A r \in Requests :
    input[r].kind = "register" /\ pc[r] \in {"refused", "duplicate"} =>
      \E u \in DOMAIN users \ {r} : \/ users[u].username = input[r].username
                                   \/ users[u].email = input[r].email

\* A request whose verdict s on the organization of o took effect.
HasJudged(r, o, s) ==
  /\ input[r].kind = "review"
  /\ input[r].organization = o
  /\ input[r].status = s
  /\ pc[r] \in Effective

\* What is published was published by an organization that an administrator
\* had approved, and reported on by the organization that published it,
\* although the status is read once and the INSERT comes later
\* (service_project.go:84-106, 140-144).
PublishedByApproved ==
  /\ \A p \in DOMAIN projects :
       \/ \E u \in DOMAIN InitialOrganizations :
            u = projects[p] /\ InitialOrganizations[u] = "approved"
       \/ \E r \in Requests : HasJudged(r, projects[p], "approved")
  /\ \A w \in updates : w.projectId \in DOMAIN projects /\ w.author = projects[w.projectId]

\* Every organization's user has the file the registration creates, or the
\* registration is still at it (service_auth.go:76-88).
OrganizationUsersHaveFiles ==
  \A u \in DOMAIN users : users[u].role = "org" =>
    \/ u \in DOMAIN organizations
    \/ \E r \in Requests : r = u /\ pc[r] = "insertOrganization"

\* A verdict on an organization is in the table of reviews, or its review is
\* still about to be recorded, or was not answered with success, even when
\* several administrators judge it at once (service_admin.go:75-86).
VerdictsAreRecorded ==
  \A o \in DOMAIN organizations :
    LET s == organizations[o] IN
    \/ s = IF o \in Seeded THEN InitialOrganizations[o] ELSE "pending"
    \/ \E v \in reviews : v.organizationId = o /\ v.status = s
    \/ \E r \in Requests : HasJudged(r, o, s) /\ pc[r] \in {"insertReview", "inDoubt", "cutOff"}
=============================================================================
