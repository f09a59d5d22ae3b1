# A TLA+ verification of GiveTrack

GiveTrack is a donation tracking platform: a Go backend (Gin, GORM, MySQL) and a
React frontend. Organizations publish projects, administrators review them, users
donate, everybody sees what a project has raised. These modules model the parts of
the program in which several requests, several transactions or several components
can get in each other's way, check them with TLC on small instances and prove the
most important facts with TLAPS for instances of any size.

All line numbers are those of the files under `src/`.

## 1. Inventory

| Component | State it keeps | Operations | Where |
| --- | --- | --- | --- |
| donation service | rows of `donations`; `projects.current_amount`, `projects.status`, `users.total_donation` | `Create` (one transaction of an INSERT and two Saves), `MyDonations`, `Certificate` | `service_donation.go`, `handler_donation.go`, `repository_donation.go` |
| admin service | `projects.status`, `organizations.status`, rows of `admin_reviews` | `ReviewProject`, `ReviewOrganization` (a Save, then an INSERT), two lists | `service_admin.go`, `handler_admin.go` |
| auth service | rows of `users` and `organizations`, no server-side sessions | `Register` (look up, hash, INSERT, INSERT), `Login`, `UpdateProfile`, tokens | `service_auth.go`, `handler_auth.go`, `repository_user.go` |
| project service | rows of `projects` and `project_updates` | `Create`, `CreateUpdate`, `List`, `GetDetail`, `MyProjects` | `service_project.go`, `handler_project.go`, `repository_project.go` |
| ranking service | none, reads `users` | two rankings, statistics | `service_ranking.go`, `handler_ranking.go` |
| rate limiter | a map of buckets behind a mutex, one per limited route | one step per request | `middleware_rate_limit.go` |
| middleware and router | none | authentication, role check, request id, log, recovery, CORS; which handler runs behind which check | `middleware.go`, `middleware_cors.go`, `router.go` |
| startup and shutdown | the process; the schema and the demo rows | `config.Load`, `Connect` with retries, `AutoMigrate`, `Seed`, ten seconds of `Shutdown` | `main.go`, `config.go`, `database.go`, `seed.go` |
| utilities, models, constants | none | response envelope, error codes, paging | `response.go`, `model/`, `app_constants.go` |
| browser session | React state and `localStorage`: token and user | restore, refresh by `getMe`, login, logout, the 401 interceptor | `AuthContext.tsx`, `api/index.ts` |
| donation dialog and project page | form, pending request, shown project | submit, answer, time-out after 10 s, reload | `DonationModal.tsx`, `ProjectDetail.tsx` |
| project list | category, page, totals, shown projects | change category or page, apply an answer | `Projects.tsx` |
| administrator's desk | the two pending lists | load, review, reload | `Admin.tsx` |
| other pages | form state | see each file | `Home`, `Ranking`, `Profile`, `Login`, `Register`, `CreateProject`, `CreateUpdate`, `Layout`, `ProjectCard` |
| deployment | none of the program's own | nginx proxy, Docker, SQL schema | `nginx.conf`, `docker-compose.yml`, `database/init.sql` |

How they interact: the pages call the REST API through one axios instance; a request
passes the middleware, is bound by a handler, runs in one goroutine through one service
method and reaches the database through a repository. Services share nothing in memory:
they meet in the rows of the database, through the pool of connections and the row
locks of InnoDB. The rate limiter is the one piece of state shared in memory. In the
browser the callbacks of pending requests share `AuthContext` and `localStorage`.

What is hard here, and what makes each part correct:

* **Read, change, save.** `Create`, `ReviewProject` and `UpdateProfile` read whole rows,
  change the copy and write every column back with `Save`. Nothing is locked on reading,
  and at REPEATABLE READ the reads of a transaction come from its first snapshot. The
  books should balance, a verdict should stand, nobody should be credited twice.
* **Locks nobody wrote.** An INSERT into `donations` locks the rows its foreign keys name
  shared, `Save` of a project with its preloaded organization first upserts the owner and the
  organization. Two donations to one project upgrade shared locks to exclusive ones:
  deadlock is the normal case under load. Every request should end all the same.
* **Several transactions for one operation.** A review commits the verdict before its
  record, a registration the user before the organization.
* **Rounding.** Amounts are float64 in the program and `decimal(14,2)` in the tables; a sum
  carries the error of its binary fractions into the rounding, and the comparison with the
  target sees the number before it is rounded.
* **Stops and lost answers.** The process may stop between two steps, a COMMIT may take
  effect and its answer be lost, the browser gives up after ten seconds and says "try again".
* **Late answers.** In the browser an answer may arrive after a logout, another login,
  another category, another page.

## 2. Modules

| Module | What it models | Proofs in |
| --- | --- | --- |
| `DonationLedger`, over `Money` | donations, project reviews and profile changes on shared rows, with snapshots, row locks, deadlocks, the pool, errors and crashes | `DonationLedgerProofs` |
| `LedgerPromise` | what the ledger's tables promise: the abstract specification `DonationLedger` implements | |
| `Accounts` | registration, organizations and their review, publication and progress reports, each a few statements with no transaction around them | `AccountsProofs` |
| `RateLimiter` | the buckets, with the time stamp taken before the mutex and the purge of the map | `RateLimiterProofs` |
| `BrowserSession` | `AuthContext`, the interceptors, `localStorage` shared by several tabs, tokens that expire | `BrowserSessionProofs` |
| `DonationDialog` | the project page and its dialog in front of a server that records what was sent, early, late or never | `DonationDialogProofs` |
| `PublicPages` | front page, project list and rankings, and the queries behind them | `PublicPagesProofs` |
| `ReviewDesk` | the forms of an organization and the desk of an administrator, over the statuses of what they share | `ReviewDeskProofs` |
| `Sums` | sums over finite sets, used by `Money` and `PublicPages` | `SumTheorems` |

The four backend modules follow the statements of the code and its transactions. The four
browser modules follow the components, with the server cut down to what the page can
tell: `DonationDialog` sees of the ledger which rows an amount counts,
and lets a save forget any of them. That an amount is always a sum of some rows, each
counted once, is what section 3 proves of the ledger (`CreditsAreDonations`). `ReviewDesk` sees the statuses that
`Accounts` and `DonationLedger` write. `MC*` modules hold the instances.

`SumTheorems` holds what the library lacks: a sum over a finite set is what one element adds
to the sum of the others, whichever is taken first, and so natural, monotone and
determined by what is added up. `MapThenSumSet` is a recursive function, so its equation is
proved before it is used; where an induction is needed, the proof takes a smallest
subset of which the claim fails, since the theorems of induction take an operator.

## 3. The donation ledger

### What the state is

`projects` and `users` hold the committed rows, cut down to the columns the three
requests write: the raised amount, target and status of a project, the accumulated
donation and the name of a user. `donations` and `reviews` hold the rows the requests
inserted. Every request is a goroutine with a stage `pc`, the `input` it carries and the
copies `project` and `user` it read. `locks` are the row locks of the open
transactions. `overwritten` is a history variable, the rows some commit took back to an
older amount; no action reads it. What was really given to a project or by a user,
`Received` and `Donated`, is added up from the table of donations.

An amount is a number of mills, a tenth of a cent, so that rounding to the column's two
decimals (`Dec` in `Money`) can be seen. The program adds float64 (`service_donation.go:102`,
`:114`), and only then does the column round: 0.70 and 0.105 add up to
0.8049999999999999, which is stored as 0.80 beside a row of 0.11. A float64 keeps about
sixteen digits and the column fourteen, so the error of a sum is far below a mill, but it
can push a sum across the boundary between two. Hence `FloatSum`: a sum, cut to mills, is
the exact one or one mill off to either side, and which of them is left open. It decides
between two cents only for an amount within a mill of half a cent (`HalfCent`), one whose
third decimal is a 4 or a 5. The donations sent with such an amount are the rough ones
(`Rough`), and each can be credited with a cent more or less than its row shows (`Near`).
`Raises` and `Totals` are the sums a request may compute, for the project and for the user;
`Credited` and `WithGift` make rows of them.

### What the actions are

| Action | Code |
| --- | --- |
| `Refuse` | the argument checks: `service_donation.go:53-58`, `service_admin.go:32-34` |
| `CreateDonation` | `service_donation.go:52-97`: the transaction begins, its first SELECT takes the snapshot, status check on the copy. The user is read at line 110, from the same snapshot, so both rows are copied here |
| `RefuseDonation` | `service_donation.go:79-81` |
| `ReviewProject`, `UpdateProfile` | the reads outside any transaction, `service_admin.go:35-42`, `service_auth.go:151-163` |
| `BeginSave` | gorm opens a transaction around a lone `Save` |
| `Lock` | InnoDB grants one lock the current statement needs (`Needs`) |
| `Statement` | the statement is executed: `donationRepo.Create` (98), `projectRepo.Update` (106, two statements: the upsert of the owner and the UPDATE), `userRepo.Update` (115) |
| `CommitDonation`, `CommitReview`, `CommitProfile` | COMMIT: what was computed from the copies becomes visible |
| `InsertReview` | `service_admin.go:46-53`, a second transaction |
| `Answer` | the handler writes the response |
| `OutOfRange` | strict mode refuses a value larger than `decimal(14,2)` holds. A sum that may come out either way may be taken or refused (`Stored`, `MayFit`, `MayOverflow`) |
| `DeadlockVictim` | InnoDB rolls one transaction of a cycle back; the program does not retry |
| `StatementError`, the second outcome of `Committed`, `Crash` | with `Faults`: a statement fails, the answer of a COMMIT is lost, the process stops (`main.go:71-84` waits ten seconds and then closes the pool) |

Whether the owner of a project donates to it matters (the upsert locks the owner's row),
so the instances have an owner among the donors. The order in which the two foreign keys of an INSERT
are checked is left open, and so is the order in which waiting transactions are served.
The shared and exclusive locks of the organization's row are left out: its owner's row,
locked just before, is one to one with it (`user_id` is unique) and guards it.

Modelled as external, from how the code uses them: row locks, their compatibility, the
deadlock detector, strict mode, COMMIT and ROLLBACK.

Left out: ids that do not exist (an error before anything is written), the payment
method, the message, anonymity and the certificate numbers (`newReferenceNo`, random and
not unique by any constraint), phone and avatar (they behave as the name does). A request
is served once; who sends it again is a question for `DonationDialog`. The amounts clients
send are not negative: the binding `gt=0` and line 56 refuse the others, 0 stands for them.

### What the runs show

All of them instantiate `MCDonationLedger`: `p1` is approved and two cents short of its
target of three, `p2` is pending, `u1` owns both, where there are two. Requests are symmetric where no
liveness is checked.

| Run | Bounds | Shows |
| --- | --- | --- |
| `core` | 3 requests of any kind, 2 projects, 2 users, donations of 15 mills, a pool of 2, a column that holds at most 60, failing statements, lost answers, crashes | `TypeOK`, `CreditsAreDonations`, `BalancedUnlessOverwritten`, `CompletedIsEarned`, `OnlyApprovedRaiseMoney`, `RecordedOnce`, `DeadlockAmongRivals`, `ReviewsAreRecorded`, `NeverStuck`, `LockedRowsStand`, `EveryStepAdvances`, and that the ledger implements `LedgerPromise` (`KeepsPromise`) |
| `live` | 3 donations and profile changes, pool of 2, failures possible but never relied upon | `EveryRequestEnds` |
| `books` | 2 donations | the first disagreement below |
| `rejection` | a donation and a review | the second one |

Three requests are enough for the interesting interleavings: a deadlock takes two, its
survivor and somebody who waits for the pool makes three, and an overwritten amount takes a
reader, a writer and a later writer. `CreditsAreDonations` says what an overwritten amount still is: the opening amount
and some subset of the donations in the table, once each and in full, but for a cent on each
rough one. `BalancedUnlessOverwritten` says that beside these cents only an overwrite takes
the books apart. `NeverStuck` and
`EveryStepAdvances` are the safe half of `EveryRequestEnds`: while a request is in flight one
can go on (`CanGoOn`: a connection, a lock or its statement is there for it) or there is a
cycle for InnoDB to break; and every step brings one request nearer to its end (`Left`,
the stages before it and the locks missing) and none farther away. Fifteen mills are a cent and a half, the roughest amount there is: the
row shows two cents and the sum comes out at one cent or two, so that one donation leaves `p1` a cent
short of its target or stored at it, and open either way, since the sum is compared before it is
rounded; the second completes it. The user who has given five cents before stays within
the column's six or overflows it. In `live`, which has no such limit, 0 is among the amounts
and is refused. An amount that is not rough makes fewer sums; that it is credited exactly is
what the theorems below say, which hold without these bounds.

Fairness (`FairSpec`): a goroutine that can go on does (`Continue`, weak, per request),
because the Go scheduler is fair, `database/sql` serves waiters in order and InnoDB
grants a free lock; the deadlock detector runs (`BreakDeadlock`, weak), InnoDB's default.
Clients, failures and crashes are not fair: nothing obliges them to happen.
No run switches deadlock checking off; `Terminating` is the end of a run in which every
request has ended.

### Where the code and its words disagree

* `books`: the comment of `Create` (`service_donation.go:51`) promises that the donation
  records, the raised amount and the accumulated donation stay consistent. Of two
  donations that overlap the later one may save an amount it read before the earlier one
  was committed. Row locks do not help, the SELECT takes none.
* `rejection`: a donation in flight undoes a rejection (line 12 of the platform's
  description: only what passed its review is shown).

More effects the model has without a run of their own. A user's total is lost against a profile
change as the raised amount is against another donation, and a confirmed profile change
against a donation. An amount below half a cent
passes the check of line 56, which looks at the float64, and is recorded as 0.00
(`Dec`). A sum of 2.8 cents is below a target of 3, is stored as 3, and leaves the
project uncompleted, and so may a sum of float64 that is a hair below a target it should
meet. A rough donation is credited a cent more or less than its row: the comment of `Create` is
wrong of that too, and `BalancedUnlessOverwritten` bounds it. And a review that fails between its two transactions, or is cut off there,
leaves a verdict without its record; `ReviewsAreRecorded` says that this is the only way:
the administrator was not told it succeeded.

### What is proved

The assumptions are the named ASSUMEs of `DonationLedger`: keys of the two tables are
disjoint, amounts and initial rows are of their types and in whole cents, an initially
completed project has its target, the pool is not empty.

* `TypeCorrect` (`TypeOK`). Inductive as `TypeInv`: `TypeOK`, and what each stage implies of
  the input (`StageOK`).
* `DonationsAreRecordedOnce` (`RecordedOnce`): a row in `donations` for each request past
  its commit and for none before. `RecordInv` adds that every row belongs to such a
  request and that the rows are finitely many, without which they have no sum. No finiteness of
  the requests is assumed: each step adds one row at most.
* `OnlyDonationsAreCredited` (`CreditsAreDonations`), `CompletionIsEarned`. By `MoneyInv`:
  a row (`EarnedProject`, `EarnedUser`), and the copy every open request holds of it, is in whole cents, counts
  some of the donations recorded so far to within a cent for each rough one, and is completed only at
  its target. A commit adds its own row to what its copy counts, which cannot have counted it already
  (`RecordInv`), and one cent more of play if it is rough; more donations leave an old amount earned. Without the copies the
  invariant is not inductive: a commit stores what a copy says.
* `OnlyOverwritesUnbalance` (`BalancedUnlessOverwritten`): a row no commit took back has
  the sum of all its donations, and is off by no more cents than it has rough ones.
* `MoneyNeedsApproval` (`OnlyApprovedRaiseMoney`): an approved status is in a row or in
  a copy only if it was there at first or an approval took effect.
* `LocksProtectRows` (`LockedRowsStand`): no two locks in `locks` conflict, an open
  transaction that reached its commit holds the exclusive locks of all it writes (`LockInv`).
* `StepsAdvance` (`EveryStepAdvances`): apart from a granted lock and a crash, every step takes one request
  to a later stage, and at its end drops its locks and no others (`StepForward`). A statement needs two locks at
  most and a stage weighs three, so the locks of the next statement do not outweigh the
  stage that is over. `Left` begins at 24, so no request takes more than 24 steps.
* `NobodyWaitsForEver` (`NeverStuck`): the open transactions are finitely many and hold all
  of the locks (`OpenInv`). If none is open, the pool is free. If none of them can go on, each
  waits for one of them, so all of them are deadlocked, and a smallest deadlocked subset,
  which a finite set has, is the cycle the detector finds.
* `DeadlocksAmongRivals` (`DeadlockAmongRivals`): a lock's row is one its holder's input
  touches (`TouchInv`), so a blocked request has a rival on a common row; and a minimal
  cycle has two members, since nobody blocks himself, so somebody survives.
* `ImplementsPromise` (`KeepsPromise`): every step is a step of `LedgerPromise` or leaves its variables
  unchanged, from the invariants above. The promise speaks of the four tables alone: the
  amount a step saves is one the donations in the table account for, and the one a donation
  adds is that of its own row, to within a cent if it was sent as a rough one and exactly otherwise
  (`Plus`). Of earlier donations the tables no longer tell which were rough, so there the
  promise allows the cent for each of them.
* `VerdictsLeaveRecords` (`ReviewsAreRecorded`): a verdict has its record or somebody who
  still owes it. Not inductive as it stands, since a donation writes the status of its
  copy back: the copies of open donations are shown to be approved ones, of a
  status that was there at first or has its own trace.

At the head of `DonationLedgerProofs` are the facts about rounding they rest on: `Dec`
yields whole cents, adds over whole cents, reaches every whole cent its argument reaches, and of a
float64 sum yields the exact cents unless the amount added is rough, and then at most one off;
and about `Credits`, from `SumTheorems`: more gifts allow for more amounts, one more gift for each amount with it on top.

Only model-checked: `EveryRequestEnds`, which is liveness. What it adds to the two theorems
about progress is the fairness: that what can go on does.

## 4. The rate limiter

`RateLimiter` models the middleware of `middleware_rate_limit.go` whole. It runs before
registration and login. `router.go:47-48` makes one limiter for each of the two routes, each
with its own mutex and map, so a key differs only by the client's address, and one
instance of the module is one route.

The state is the map `buckets`, a function on some of the keys, and for each request
the `key` and `stamp` it computed before it asked for the mutex (lines 30 and 31).
`Arrive` is those two lines, `Enter` everything from `mu.Lock()` to the verdict: the purge
when the map has reached its threshold (`Purged`), the bucket found or opened (`Opens`,
`Counting`), the comparison after the increment (`Exceeded`). Between the two other
requests may enter and time may pass, so requests enter in another order than their
stamps and `now.Sub(windowStart)` may be negative. `entered` and `counted` are history:
when a request held the mutex, and whom the present bucket of a key let pass.

`Tick` lets no request wait for the mutex longer than `MaxDelay`. The mutex is held for a
few map operations, so the delay is small, but nothing in the code bounds it:
`BurstBounded` and `MapBoundedByTraffic` are stated relative to it, the others
hold for any. The threshold of 4096 is the constant `MaxBuckets`. Of a restart, which
clears the map, nothing is modelled: it is another behaviour from `Init`.

The run `burst` has five requests, two clients, a limit of 1, a window of 2, a delay of
at most 1, a map purged from its first bucket on and a clock that stops at 6 (`MaxTime`): three
windows and three buckets of one client, which is what the worst burst takes. The delay is half
the window, the most `BurstBounded` allows for.

* `LimitIsExact`: the refused client had a full limit let through in the window before
  (`RefusalsAreJust`), and no bucket lets more than the limit pass (`LimitPerBucket`).
* `BurstBounded`: a stretch of a window's length sees less than three times the
  limit. Two windows meet in it as with any fixed window; the third is due to a stamp
  taken before, or a purge made by a request stamped later. With a limit of 1 two requests do pass.
* `MapBoundedByTraffic`: above the threshold the map holds only clients of the last
  window and delay. It bounds nothing in absolute terms, nor does the code.

`RateLimiterProofs` proves all of these for all constants, with `TypeCorrect`. The
invariants behind them: `counted` of a key is its bucket's count as long as that is below the limit and as large as the limit afterwards,
and consists of requests that entered since the window began (a stamp never lies after
the entry that made it); the domain of the map is finite, since every step adds one key
at most; a bucket that survives a purge at a stamp began less than a window before that stamp,
and was opened by a request that entered at most `MaxDelay` later.

For `BurstsAreBounded` the invariant `KeyInv` names the request that opened the present
bucket of each key (`Opener`). The next bucket of the key can only be opened at a stamp at
least a window after the present one's, hence no earlier than `Window - MaxDelay` after its opener entered. So of what the
earlier buckets let pass, less than the limit lies within such a distance before the opener, and less
than twice the limit within two of them. A stretch of a window's length is no longer than two,
and with the present bucket's own limit the sum stays below three times the limit. With a
longer delay the distance no longer suffices: given a window and a delay of 1, TLC finds a burst
of three limits.

## 5. Accounts

`Accounts` models the requests that make accounts and use them. None of them opens a
transaction: each reads, checks what it read, and sends one or two statements that are
committed one by one. Whatever happens between two of them stays.

`users`, `organizations` and `projects` are partial functions: the rows there are. The key
of a row is the request that inserted it, or a seeded key; an organization has the key
of its user, since `user_id` is unique. Of an organization the status is kept, of a project
the organization that published it. Nothing removes a row.

| Action | Code |
| --- | --- |
| `Register` | the lookup of both names, `service_auth.go:52-67`; the hash of the password takes long, and others may register meanwhile |
| `InsertUser`, `DuplicateUser` | line 76, and its failure at the unique indexes |
| `InsertOrganization` | lines 80-89, a second transaction |
| `ReviewOrganization`, `SaveOrganization`, `InsertReview` | `service_admin.go:64-88`: the read, `Save`, the record. Of the columns `Save` writes back nobody changes any but the status |
| `CreateProject`, `InsertProject` | `service_project.go:76-110`: the status of the organization is read, the INSERT comes later |
| `CreateUpdate`, `InsertUpdate` | `service_project.go:131-147` |
| `Answer` | the handler writes the response |
| `StatementError`, the second outcome of `Wrote`, `Crash` | with `Faults`: a statement fails, the answer of a COMMIT is lost, the server stops |

`Roles` are the roles a client may send, any strings: `handler_auth.go:25` binds the field
without a condition and `service_auth.go:64-72` stores it as it comes, an empty one as "user"
(`RoleOf`). The tag at `service_auth.go:46` says `oneof=user org`, but nothing runs a
validator on that struct, so the tag restricts nothing. The runs register with no role, which the
service makes "user", with "org" and with "admin", so that the types include what is really
stored. No run is made of the tag: it takes one step, and a look at the handler shows it. Who publishes has a token with the role "org", which a login gives as soon as the user's row
is there, with or without the file. Ids that do not exist and pages that only read are
left out, and so are locks: no request here holds one while it waits for another.

All runs start from the two seeded organizations, one approved and one that waits for its
review, and let names clash in every way there is: the second organization's username looks
like an email, and so may the username of somebody who registers.

| Run | Bounds | Shows |
| --- | --- | --- |
| `accounts` | 3 requests of any kind, 4 usernames, 3 emails, failures | `TypeOK`, `AnsweredIsComplete`, `RefusedOnlyIfTaken`, `PublishedByApproved`, `VerdictsAreRecorded` |
| `files` | 1 registration, failures | an organization's user without the file `service_auth.go:51` promises, for good: the name is taken, so registering again is refused |

The lookup of a login (`service_auth.go:100`) takes a name for a username or an email alike. An
email may equal another account's username, as `Accounts` lets it: a login by that email
(`Login.tsx:37`) then finds two rows and takes the one with the lower id. No document says
which it should be, so no run is about it.

Three requests race for a name and leave one to be refused, judge one organization
twice while it publishes, or publish, report and judge.

Proved for all constants (`AccountsProofs`), failures included: `TypeCorrect`;
`RegistrationsAreComplete` and `RefusalsAreTrue`, from an invariant that ties every stage
of a registration to the rows it has inserted so far and the indexes; `ApprovalComesFirst`,
from one that finds an approving verdict behind every "approved", in a row or in a
publication that read it; `VerdictsLeaveRecords`, since whoever saves a verdict owes its
record until it is written, or ends in doubt or cut off.

## 6. The browser session

`BrowserSession` models who is logged in, in all tabs of one browser. A tab holds the user
it shows in React's state (`user`) and reads `localStorage` (`store`) only when its document
loads; each call carries the token that is in the storage when it is sent. `calls` are the calls in
flight with the token they carry, `data` says under which token the rows of a page were
loaded, `leaving` which tabs wait for `location.href = '/login'` to take effect. A user
is an account `id` and the account whose name and role it bears (`as`), which a late
`getMe` can make another one.

| Action | Code |
| --- | --- |
| `Open`, `Leave`, by way of `Load` | a document loads: the effect of `AuthProvider`, `AuthContext.tsx:26-51`, and the first page |
| `Close`, `Visit` | a tab is closed; a link leads on (`Layout.tsx`), through the guards of `Profile`, `CreateProject`, `CreateUpdate`, `Admin` (`Routed`) |
| `Submit`, `SignedIn` | the forms of `Login` and `Register`, and `login` of the context |
| `Logout` | the buttons of the header and of the profile |
| `MeAnswered`, `MeFailed` | the then and the catch of `getMe`, `AuthContext.tsx:34-50` |
| `LoadAnswered`, `Failed` | the loads of `Profile`, `CreateUpdate` and `Admin`, and any failure that is not a 401 |
| `Unauthorized` | the interceptor, `api/index.ts:24-34`, then the catch of the caller |
| `Expire` | the time of a token is over, which the server sees (`Accepted`, `Refusable`) |

The storage has no listener, so a change by one tab is not seen by the others:
`outOfStep` (history) holds the tabs that missed one. `mixed` remembers that such a tab
wrote its user beside the token of another, `overtaken` that an answer of `getMe` to one
account came when another one was logged in.

Run `session`: two tabs, an administrator and an organization that each log in once, two calls in
flight (`CallIds`), and the pages login, profile and admin reached directly (`Reached`; home
and login are also reached by redirection). Two tokens are what it takes for a late answer
to an old session; two calls what it takes for answers in the wrong order; the third role
and the other pages have no guard or load of a kind these lack. Tabs and call ids are
symmetric, and no liveness is checked.

* `ScreenSpeaksForItsUser`: a tab that has seen the last change and is not on its way to
  `/login` shows the user for whom its next call will speak, and that user's rows.
* `RolesAreOwn`: unless a `getMe` overtook a login, names and roles are their accounts' own.
* `SessionsEndForCause`: what ends a session whose token is good. One of the causes is the
  refusal of a call that was sent under an older token, which the interceptor does not
  tell apart: the property says that this and the others are all there are.

Proved for any tabs, accounts, tokens and calls: `TypeCorrect`, inductive together with
`PageInv` (a page that loads something is shown to a user, and only such a page waits for rows
or shows them); `RolesStayOwn`; `ScreenSpeaksTrue`, from `ScreenInv`: what is stored belongs
together unless `mixed` (`StoreInv`), and every tab in step agrees with it, with the calls it
waits for counted in (`TabsInv`): an answer is shown later than it was asked for, and
without the calls the invariant is not inductive; and `SessionsEnd`, an action property,
from the types and from the fact that a page that is shown to nobody sends nothing.

## 7. The donation dialog

`DonationDialog` models `ProjectDetail` with its `DonationModal`. `route` is the project in the
address, `shown` the answer the page shows, `reads` the calls of `loadProject` in flight,
`open` and `busy` the dialog. Of the server it keeps what each donation was recorded for
(`row`) and which donations each raised amount counts (`credited`); `Save` lets a
transaction leave an amount that forgets any of them, which section 3 shows possible. A raised
amount may also count what no donation stands for: the demo data opens a project with 65000 raised
and 8000 of donations listed (`seed.go:46`, `:74`). That is `Opening`, which no save forgets.
`ask` is what the dialog sent for a gift: the project it goes to, the one the dialog named,
the address that will be loaded again, and whether the dialog is still there. `told` is what
the donor was told.

| Action | Code |
| --- | --- |
| `Enter`, `Jump`, `Leave` | the page, and its effect on `[id]`, `ProjectDetail.tsx:19-34` |
| `ReadProject`, `ReadRows` | `GetDetail`, one SELECT after the other, `service_project.go:59-68` |
| `Show`, `Miss` | the answer of `loadProject`, or its failure |
| `Click`, `Close`, `Submit` | the buttons, `DonationModal.tsx:25-38`; closing does not wait for a donation on its way |
| `Thank`, `GiveUp` | success with `onSuccess`, and the catch: an error, or ten seconds without an answer |
| `Handle`, `Elsewhere`, `Review` | the server records what was sent, at any time; other donors; a review saves an old amount |

Run `dialog`: two projects that open with an amount each, two gifts, two reads in flight (`MaxReads`), a list of two rows
(`Limit` is 20 in the code), so that the exemption of a full list, stated where it
matters, is reached but not all there is. Two gifts are a donation and its
retry, two reads an answer and the one that overtakes it.

* `OneGiftAtATime`: whatever is closed or reopened, at most one donation is awaited, and
  the button is disabled exactly then.
* `ThanksAreForTheProjectNamed`: the donor who is thanked has given to the project that
  the dialog named. The opposite does not hold: who is told that it failed may have given,
  and will give twice on trying again. No document promises otherwise.
* `AmountIsListed`: the amount is read before the list, so beside what the project opened
  with it never counts a donation the list lacks.
* `PageIsCurrent`: the answer to the last request is of the project in the address and has
  what the donor was thanked for. Its first half is qualified:
  `onSuccess` is the `loadProject` of an older render, so after a donation answered late the
  request may be for the project that was left (`strayed`).

All five are proved for any number of projects, donations and answers in flight. `TypeCorrect`
and `ThanksAreTrue` rest on `PageInv` and `AskInv` (what is on record is what was sent, and what was
sent is what the dialog named); `AmountsAreListed` on `AmountInv`, which follows a read through its two
stages; `PageKeepsUp` on `LastInv`, which says of the newest read
in flight what has to hold when it is shown.

## 8. The public pages

`PublicPages` models `Home`, `Projects` and `Ranking`, with the queries of
`repository_project.go` and `repository_user.go` they need. A load asks for several parts at once
(`Parts`) and each is read at a moment of its own (`Read`); the list is one call of two
queries, the count first. The answers are shown when all are there (`Show`), an error or ten
seconds drop them all (`Miss`). A stale load is not cancelled: an answer to an older query may
replace a newer one. `fresh` says the answers shown are those to the last load, `steady`
that since the page was opened all came, in order, and no project came or went. `Turn`
is a review meanwhile. `SaveUser` is whoever saves a user's row: a donation, or a profile change,
which saves the total it read with everything else (`service_auth.go:151-164`) and so may take a newer
one back. `drift` of a front page adds up by how much such saves changed totals between
its ranking and its statistics.

Run `pages`: two projects of two categories, one of which the visitor picks (`Picked`), one
project on a page, a user who is ranked and an organization which is not, totals of 0 or 1
(`MaxGiven`), two such changes between two queries (`MaxDrift`), one up and one back, two loads in flight
(`MaxCalls`). With two ranks and one ranked user no rank is
cut off in the instance: how ties break and who is cut off is left open by `IsTop` anyway, since the
query orders by the amount alone.

* `ListMatchesButtons`: the list that answers the last load is that of the marked buttons,
  and a page that says it is loading has the load for those buttons in flight.
* `NoticeIsTrue`: as long as the load is steady, no list ends up behind its last page, and
  none is announced to be empty that is not.
* `FrontPageAddsUp`: ranking and total differ by no more than the saves between the two
  queries changed, whether these added to a user's total or took it back.
* `LoadingEnds`: no page waits for ever, unless pages are opened for ever.

Fairness: `WF` of the failure of some call in flight (`Miss`). That is axios' timer of ten
seconds (`api/index.ts:5`): a call that is not answered fails. The server is not fair; nothing
obliges it to answer. A page opened anew drops the calls of the page before it, so the
timer of none may ever fire: the property exempts that.

Proved for any projects, users and page sizes (`PublicPagesProofs`): `TypeCorrect`;
`ListFollowsButtons`, from invariants about the last load in flight (`QueryInv`,
`LoadInv`); `NoticesAreTrue`, from one
that keeps, while the page is steady, the count and the list of every answer equal to what the
queries would answer now. The page shown then is not behind the last one because its button was
there to be clicked, and a first page of projects that match is not empty because the order of the
query gives every rank from 1 to their number to one of them. `FrontPageFigures`
(`FrontPageAddsUp`) rests on `FrontInv`: of a load of which one answer is there, what the other query
would answer now is off by no more than the drift so far, and from the second answer on the two are. The ranked gave part of what everybody gave, and all of it if
no rank was cut off, since who is not ranked then gave nothing (`TotalOfPart`, `TotalAgrees`). Only
model-checked: `LoadingEnds`, of which the second half of `ListMatchesButtons` is the safe part: whoever waits has a call whose timer runs.

## 9. The forms and the desk

`ReviewDesk` follows a project from its organization's form to the administrator's list. The
forms (`CreateProject`, `CreateUpdate`): `form` is what each organization's user has open and
whether its button is disabled, `post` what became of what was posted: awaited, left by its
user, given up, refused, done. The server stores a paper at any time after it was sent
(`Store`), also when the form was told of a time-out. The desk (`Admin`): `listed` are the items
shown, `loads` and `reviews` what it waits for. A load reads its two lists at two moments
(`Read`) and shows them together; every review that succeeds loads both again. Others review the
same items (`OtherVerdict`), donations complete projects (`Complete`). When the answer of `getMe`
replaces the user, the effect on `[user]` (`Admin.tsx:14-18`) loads the lists once more under a desk
that stays (`RefreshDesk`).

Run `desk`: an organization that awaits its review, a project and a report, two loads
(`MaxLoads`) and one review (`MaxReviews`) in flight. A verdict the desk gave up
counts as one until the server saves it. One project and one organization are one item of
each list; two loads are what it takes to be answered in the wrong order.

* `BusyWhileWaiting`: a button is disabled exactly while the form's own post is awaited. A
  post whose form was left is answered all the same and must not free another form.
* `DeskForgetsReviewed`: the lists of the last load hold nothing the desk has reviewed. An
  older load that is answered after it may: the code does not cancel it.
* `OneVerdictEach`: the buttons are never disabled and the server takes a verdict on any
  item, yet an administrator who waits for every answer and sees nothing fail gives no
  item two. An impatient one can, or one whose account is read anew while a review is on its way,
  since the load that asks for then may be read before the verdict; `excused` remembers both.

All are proved for any items and papers (`ReviewDeskProofs`): the buttons from `FormInv` (no user
awaits two posts); the desk from `KnownInv` (what the desk has seen was taken by the server,
so it can never be stored again as pending), `VerdictInv` (what has a verdict stays out of the
pending lists, and out of the newest load's) and `PatienceInv` (a patient administrator has
either a review or a load in flight, and one of it).

Run `updates` is a disagreement: see the next section.

## 10. What the checks found

Four runs are violations, each of one property.

| Run | The program's words | What happens |
| --- | --- | --- |
| `books` | `service_donation.go:51`: records, raised amount and accumulated donation are written consistently | one of two overlapping donations is lost from the amount |
| `rejection` | the platform's description, line 12: only what passed its review is shown | a donation in flight undoes a rejection |
| `files` | `service_auth.go:51`: an organization's file is created with its user | a failure between the two INSERTs leaves a user without a file, for good |
| `updates` | `README.md:5` and the description, line 18: organizations upload progress reports | the form sends `images: []`, `handler_project.go:126` binds a string: every report sent from the site is refused |

Run `updates` asks `OwnReportsAreTaken` of `ReviewDesk`, where `Sent` and `Bound` are the types
of the fields on both sides. Reports sent by other clients, with a string, are taken, and are part of `Accounts`.

## 11. What is proved and what is not

Every safety property of the passing runs, invariant or action property, is proved for all
constants, and so is the refinement. The
proofs assume nothing but the named ASSUMEs of the modules, which TLC evaluates in every
run: types of the constants, finite sets, keys that differ from `None`. They hold for the models, so for the external parts as
section 3 describes them. The liveness properties `EveryRequestEnds` and `LoadingEnds` are
beyond this prover and only model-checked.

Most invariants the runs check are not inductive. The strengthening follows one pattern: a
value in flight (a copy in a request, a call with its token, a read with the project it asked
for) has to satisfy already what the state must satisfy when it arrives.

## 12. Not modelled

* Startup: `config.Load`, the retries of `Connect`, `AutoMigrate`, `Seed`. They run before
  the first request, in one goroutine; what an interrupted seeding leaves is in the list of
  hazards, and nothing is promised of it. The stop of the server is part of `DonationLedger` and `Accounts`.
* Deployment: nginx, Docker, `init.sql`: configuration of other programs.
* Health check, API description, request ids, logging, CORS, recovery: no state.
* `withProgress`, a float64 quotient for display; the `limit` parameter of the list, which no
  page of the site sends at a value that matters; the names, messages and layout of the pages.
* `MyDonations`, `MyProjects`, `Certificate`: each reads one user's rows. The button of the
  certificate in `Profile` sends a call without any state; its 401 is that of a load. The
  timeline of reports on the project page is read with the project and shown as it is.
