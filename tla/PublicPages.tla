----------------------------- MODULE PublicPages -----------------------------
(***************************************************************************)
(* What a visitor sees without logging in: the front page, the list of the *)
(* projects with its categories and pages, and the rankings, with the      *)
(* queries behind them.  A page asks for all it needs at once (Promise.all)*)
(* and shows nothing until every answer is there; each is read from the    *)
(* database at a moment of its own.                                        *)
(***************************************************************************)
EXTENDS Sums

CONSTANTS
  Projects, Category,  \* the projects, numbered as they are created, and their categories
  Users, Role, Hours,  \* the accounts, their roles and hours of service
  PageSize,            \* the projects on a page of the list
  Teaser, Top,         \* the projects and the ranks on the front page
  Ranks,               \* the ranks on the page of rankings
  Picked,              \* bound: the categories the visitor looks at, beside "all"
  MaxGiven, MaxDrift,  \* bounds: what a user gives, what changes between two queries
  MaxCalls,            \* bound: the loads in flight
  None

ASSUME ProjectsAssumption == IsFiniteSet(Projects) /\ Projects \subseteq Nat
ASSUME UsersAssumption == IsFiniteSet(Users) /\ Hours \in [Users -> Nat]
ASSUME SizesAssumption == PageSize \in Nat \ {0} /\ {Teaser, Top, Ranks} \subseteq Nat \ {0}
ASSUME BoundsAssumption == {MaxGiven, MaxDrift, MaxCalls} \subseteq Nat

VARIABLES
  approved, given,   \* the projects that are listed, the totals of the users
  page,              \* where the visitor is
  category, number,  \* the list: its category and its page
  shown, loading,    \* the answers on the page, None before the first
  calls,             \* the loads in flight
  fresh,             \* history: those answers are to the last load
  steady             \* history: all came in order, and no project came or went

server == <<approved, given>>
vars == <<server, page, category, number, shown, loading, calls, fresh, steady>>

Pages == {"home", "projects", "ranking"}
Queries == [category: Picked \cup {"all"}, number: Nat]

\* The queries a page needs.  The list is one call that counts, then selects.
Parts(p) ==
  CASE p = "home" -> {"list", "donation", "stats"}
    [] p = "projects" -> {"count", "list"}
    [] p = "ranking" -> {"donation", "service"}

Init ==
  /\ approved \in SUBSET Projects
  /\ given \in [Users -> 0 .. MaxGiven]
  /\ page = "away"
  /\ category = "all"
  /\ number = 1
  /\ shown = None
  /\ loading = FALSE
  /\ calls = {}
  /\ fresh = FALSE
  /\ steady = FALSE

-----------------------------------------------------------------------------
(* The queries.                                                            *)

Matching(k) == {p \in approved : k \in {"all", Category[p]}}

\* Page n of a list that starts with the newest.
Slice(s, n, size) ==
  {p \in s : Cardinality({q \in s : q >= p}) \in (n - 1) * size + 1 .. n * size}

\* The best of the users, n at most; who is in front among equals is open.
IsTop(best, score, n) ==
  LET ranked == {u \in Users : Role[u] = "user" /\ score[u] > 0}
  IN /\ best \subseteq ranked
     /\ IF Cardinality(ranked) <= n THEN best = ranked
        ELSE Cardinality(best) = n /\ \A u \in best, v \in ranked \ best : score[u] >= score[v]

Ranking(score, n) == {[u \in best |-> score[u]] : best \in {b \in SUBSET Users : IsTop(b, score, n)}}

Stats_Everyone == [users |-> Cardinality(Users), donations |-> Total(given, Users)]  \* mutant: of any role
Stats ==
  LET people == {u \in Users : Role[u] = "user"}
  IN [users |-> Cardinality(people), donations |-> Total(given, people)]

\* What the database may answer now to one part of a load.
Answers(c, part) ==
  CASE part = "count" -> {Cardinality(Matching(c.query.category))}
    [] part = "list" ->
         {Slice(Matching(c.query.category), c.query.number,
                IF c.page = "home" THEN Teaser ELSE PageSize)}
    [] part = "donation" -> Ranking(given, IF c.page = "home" THEN Top ELSE Ranks)
    [] part = "service" -> Ranking(Hours, Ranks)
    [] part = "stats" -> {Stats}

TotalPages(total) == (total + PageSize - 1) \div PageSize

-----------------------------------------------------------------------------
(* The pages.                                                              *)

Query == [category |-> category, number |-> number]

\* The effect of page p for a query, beside the loads kept in flight.
LoadPage(p, query, kept) ==
  /\ Cardinality(kept) < MaxCalls
  /\ calls' = {[c EXCEPT !.newest = FALSE] : c \in kept} \cup
       {[page |-> p, query |-> query, newest |-> TRUE, drift |-> 0,
         got |-> [part \in Parts(p) |-> None]]}
  /\ loading' = TRUE
  /\ fresh' = FALSE

\* A page is opened, with everything at its start.
Visit_Late(p) ==                    \* mutant: the loads of the page before go on
  /\ page' = p
  /\ category' = "all"
  /\ number' = 1
  /\ shown' = None
  /\ LoadPage(p, [category |-> "all", number |-> 1], calls)
  /\ steady' = TRUE
  /\ UNCHANGED server
Visit(p) ==
  /\ page' = p
  /\ category' = "all"
  /\ number' = 1
  /\ shown' = None
  /\ LoadPage(p, [category |-> "all", number |-> 1], {})
  /\ steady' = TRUE
  /\ UNCHANGED server

Away ==
  /\ page # "away"
  /\ page' = "away"
  /\ shown' = None
  /\ loading' = FALSE
  /\ calls' = {}
  /\ fresh' = FALSE
  /\ steady' = FALSE
  /\ category' = "all"
  /\ number' = 1
  /\ UNCHANGED server

\* The category and the page of the list change; its effect on both asks again.
Select_OnPage(k, n) ==              \* mutant: the effect depends on the page only
  /\ <<k, n>> # <<category, number>>
  /\ category' = k
  /\ number' = n
  /\ IF n # number THEN LoadPage("projects", [category |-> k, number |-> n], calls)
     ELSE UNCHANGED <<calls, loading, fresh>>
  /\ UNCHANGED <<server, page, shown, steady>>
Select(k, n) ==
  /\ <<k, n>> # <<category, number>>
  /\ category' = k
  /\ number' = n
  /\ LoadPage("projects", [category |-> k, number |-> n], calls)
  /\ UNCHANGED <<server, page, shown, steady>>

\* The buttons of the categories are always there.
PickCategory_Here(k) == page = "projects" /\ Select(k, number)  \* mutant: the page is kept
PickCategory(k) == page = "projects" /\ Select(k, 1)

\* Those of the pages stand below a list that is not empty and has several.
PickPage ==
  /\ page = "projects"
  /\ ~loading
  /\ shown # None
  /\ shown.got["list"] # {}
  /\ LET last == TotalPages(shown.got["count"]) IN
       /\ last > 1
       /\ \/ \E n \in 1 .. last : Select(category, n)
          \/ number # 1 /\ Select(category, Max({1, number - 1}))
          \/ number # last /\ Select(category, Min({last, number + 1}))

-----------------------------------------------------------------------------
(* What comes back.                                                        *)

Settle(c) ==
  /\ calls' = calls \ {c}
  /\ loading' = FALSE
  /\ UNCHANGED <<server, page, category, number>>

Read(c, part) ==
  /\ c.got[part] = None
  /\ part = "list" /\ c.page = "projects" => c.got["count"] # None
  /\ \E a \in Answers(c, part) : calls' = (calls \ {c}) \cup {[c EXCEPT !.got[part] = a]}
  /\ UNCHANGED <<server, page, category, number, shown, loading, fresh, steady>>

Complete(c) == \A part \in DOMAIN c.got : c.got[part] # None

Show(c) ==
  /\ Complete(c)
  /\ shown' = [query |-> c.query, got |-> c.got, drift |-> c.drift]
  /\ fresh' = c.newest
  /\ steady' = (steady /\ c.newest)
  /\ Settle(c)

\* One of the answers is an error or late: the page keeps what it has.
Miss_Stuck(c) ==                    \* mutant: no finally, a failed load stays on
  /\ steady' = FALSE
  /\ calls' = calls \ {c}
  /\ UNCHANGED <<server, page, category, number, shown, loading, fresh>>
Miss(c) ==
  /\ steady' = FALSE
  /\ Settle(c)
  /\ UNCHANGED <<shown, fresh>>

-----------------------------------------------------------------------------
(* Meanwhile: reviews, donations, profile changes.                         *)

Turn(p) ==
  /\ approved' = IF p \in approved THEN approved \ {p} ELSE approved \cup {p}
  /\ steady' = FALSE
  /\ UNCHANGED <<given, page, category, number, shown, loading, calls, fresh>>

\* Of the ranking and the total of a front page, one is read.
Halfway(c) == c.page = "home" /\ ~(c.got["donation"] = None <=> c.got["stats"] = None)

Gap(m, n) == IF m >= n THEN m - n ELSE n - m

\* A donation saves its donor's row with the gift added to the total, a profile
\* change saves it as it is.  Both save what they read earlier, so that the
\* total may also fall back.
SaveUser(u) ==
  \E total \in 0 .. MaxGiven \ {given[u]} :
    /\ given' = [given EXCEPT ![u] = total]
    /\ calls' = {IF Halfway(c) THEN [c EXCEPT !.drift = @ + Gap(given[u], total)] ELSE c :
                   c \in calls}
    /\ \A c \in calls' : c.drift <= MaxDrift
    /\ UNCHANGED <<approved, page, category, number, shown, loading, fresh, steady>>

-----------------------------------------------------------------------------
Next ==
  \/ \E p \in Pages : Visit(p)
  \/ \E k \in Picked \cup {"all"} : PickCategory(k)
  \/ PickPage
  \/ Away
  \/ \E c \in calls : Show(c) \/ Miss(c) \/ \E part \in DOMAIN c.got : Read(c, part)
  \/ \E p \in Projects : Turn(p)
  \/ \E u \in Users : SaveUser(u)

\* Every call of the axios instance has a timer of ten seconds, which only a
\* page that is opened anew takes away.
Fairness == WF_vars(\E c \in calls : Miss(c))

Spec == Init /\ [][Next]_vars /\ Fairness

-----------------------------------------------------------------------------
(* Properties.                                                             *)

TypeOK ==
  /\ approved \subseteq Projects
  /\ given \in [Users -> Nat]
  /\ page \in Pages \cup {"away"}
  /\ [category |-> category, number |-> number] \in Queries
  /\ \A c \in calls : c.page = page /\ c.newest \in BOOLEAN
  /\ \A c \in calls \cup ({shown} \ {None}) :
       c.query \in Queries /\ DOMAIN c.got = Parts(page) /\ c.drift \in Nat
  /\ loading \in BOOLEAN /\ fresh \in BOOLEAN /\ steady \in BOOLEAN

\* What its marked buttons ask for is what the page shows once its last load
\* is answered, and what it waits for while it says that it is loading: no
\* earlier answer is taken for that one, nor does one, or an error, leave the
\* notice on when the last load is over (Projects.tsx:22-45, 57-60).
ListMatchesButtons ==
  /\ fresh => shown.query = Query
  /\ loading => \E c \in calls : c.newest /\ c.query = Query

\* As long as every answer comes, in order, and no project comes or goes, the
\* list never ends up behind its last page, and says that there is nothing in
\* a category only if there is nothing (Projects.tsx:57-60, 74-116).
NoticeIsTrue ==
  page = "projects" /\ steady /\ fresh =>
    /\ number \in 1 .. Max({1, TotalPages(shown.got["count"])})
    /\ shown.got["list"] = {} <=> Matching(category) = {}

\* The ranking and the total of the front page differ by no more than donations
\* and profile changes, which may take an amount back, did to the users between
\* the two queries: who is ranked gave no more than the total, and all of it if
\* no rank was cut off (Home.tsx:17-27, repository_user.go:62-94).
FrontPageAddsUp ==
  page = "home" /\ shown # None =>
    LET ranking == shown.got["donation"]
        sum == Total(ranking, DOMAIN ranking)
        total == shown.got["stats"].donations
    IN /\ sum <= total + shown.drift
       /\ Cardinality(DOMAIN ranking) < Top => total <= sum + shown.drift

\* No page waits for ever, whatever the server does and whatever is picked
\* meanwhile, unless pages are opened again and again (Projects.tsx:42-44,
\* Home.tsx:29-31, Ranking.tsx:25-27, api/index.ts:5).
LoadingEnds == (loading ~> ~loading) \/ []<><<\E p \in Pages : Visit(p)>>_vars
==============================================================================
