--------------------------- MODULE BrowserSession ---------------------------
(***************************************************************************)
(* Who is logged in, in the tabs of one browser: AuthContext and the pages *)
(* behind it, the axios instance with its two interceptors, and the        *)
(* localStorage that all tabs share.  A tab keeps the user it shows in     *)
(* React's state and reads the storage only when its document loads; the   *)
(* token of a call is read from the storage when the call is sent.  The    *)
(* token in React's state is left out: it is set together with the user    *)
(* and nothing reads it.                                                   *)
(***************************************************************************)
EXTENDS FiniteSets

CONSTANTS
  Tabs, Accounts,
  Role,          \* the role of each account
  Tokens, Owner, \* the tokens the server may issue, and for whom
  CallIds,       \* bound: how many calls are in flight at once
  Reached,       \* bound: the pages that are asked for by address, link or button
  None

Roles == {"user", "org", "admin"}

ASSUME RoleAssumption == Role \in [Accounts -> Roles]
ASSUME OwnerAssumption == Owner \in [Tokens -> Accounts]
ASSUME NoneAssumption == None \notin Tokens \cup [id: Accounts, as: Accounts]

\* A user as the browser keeps it: the account it logged in with, and the one
\* its username and role are those of.
Users == [id: Accounts, as: Accounts]

Pages == {"home", "login", "register", "profile", "createProject", "createUpdate", "admin"}
Forms == {"login", "register"}
ASSUME ReachedAssumption == Reached \subseteq Pages
Loaders == {"profile", "createUpdate", "admin"}   \* the pages that load what is the user's

CallKinds == Forms \cup {"me", "load"}
Calls == [id: CallIds, tab: Tabs, kind: CallKinds, token: Tokens \cup {None}, mounted: BOOLEAN]

VARIABLES
  store,       \* localStorage: a token and a user
  page, user,  \* what each tab shows, and to whom
  data,        \* the token under which a page's own rows were loaded
  leaving,     \* the tabs that are on their way to /login by location.href
  calls,       \* the calls in flight
  issued, expired,  \* the tokens the server issued, and those whose time is over
  outOfStep,   \* history: tabs that have not seen the last change of the session
  mixed,       \* history: such a tab wrote its user beside another one's token
  overtaken    \* history: an answer of getMe met another user than it was asked for

server == <<issued, expired>>
history == <<outOfStep, mixed, overtaken>>
vars == <<store, page, user, data, leaving, calls, server, history>>

Empty == [token |-> None, user |-> None]

Init ==
  /\ store = Empty
  /\ page = [t \in Tabs |-> "closed"]
  /\ user = [t \in Tabs |-> None]
  /\ data = [t \in Tabs |-> None]
  /\ leaving = {}
  /\ calls = {}
  /\ issued = {}
  /\ expired = {}
  /\ outOfStep = {}
  /\ mixed = FALSE
  /\ overtaken = FALSE

-----------------------------------------------------------------------------
(* The routes, and what a page does when it is rendered.                   *)

\* The page that is shown to u where p is asked for: the <Navigate> of Profile,
\* CreateProject, CreateUpdate and Admin.
Routed(p, u) ==
  CASE p = "profile" /\ u = None -> "login"
    [] p \in {"createProject", "createUpdate"} /\ (u = None \/ Role[u.as] # "org") -> "home"
    [] p = "admin" /\ (u = None \/ Role[u.as] # "admin") -> "home"
    [] OTHER -> p

\* The effect on [user] of the pages that load something.
Loads(p, u) == p \in Loaders /\ Routed(p, u) = p

\* Sends calls of these kinds from t, beside the calls kept in flight; the
\* request interceptor reads the token from the storage.
Send(t, kinds, kept) ==
  \E id \in [kinds -> CallIds] :
    /\ \A k \in kinds : \A c \in kept : c.id # id[k]
    /\ \A j, k \in kinds : id[j] = id[k] => j = k
    /\ calls' = kept \cup
         {[id |-> id[k], tab |-> t, kind |-> k, token |-> store'.token, mounted |-> TRUE] :
            k \in kinds}

\* Leaving a page unmounts it; AuthProvider, which asks getMe, stays.
Unmounted_Nothing(cs, t) == cs         \* mutant: late answers are shown on the next page
Unmounted(cs, t) ==
  {IF c.tab = t /\ c.kind # "me" THEN [c EXCEPT !.mounted = FALSE] ELSE c : c \in cs}

\* Tab t renders page p for u, both or one of them new, with the calls cs in flight.
Show(t, p, u, cs) ==
  LET q == Routed(p, u)
      stays == q = page[t]
  IN /\ page' = [page EXCEPT ![t] = q]
     /\ user' = [user EXCEPT ![t] = u]
     /\ data' = [data EXCEPT ![t] = IF stays THEN @ ELSE None]
     /\ Send(t, IF Loads(q, u) THEN {"load"} ELSE {}, IF stays THEN cs ELSE Unmounted(cs, t))

\* Tab t changes the session in the storage; the others do not notice.
Change(t, s) ==
  /\ store' = s
  /\ outOfStep' = (outOfStep \cup {o \in Tabs : page[o] # "closed"}) \ {t}
  /\ mixed' = FALSE

-----------------------------------------------------------------------------
(* What the user does.                                                     *)

Restored == IF store.token # None /\ store.user # None THEN store.user ELSE None

\* A document loads at page p: the effect of AuthProvider restores the session
\* and asks getMe, then the page is rendered.
Load(t, p) ==
  LET u == Restored
      q == Routed(p, u)
  IN /\ page' = [page EXCEPT ![t] = q]
     /\ user' = [user EXCEPT ![t] = u]
     /\ data' = [data EXCEPT ![t] = None]
     /\ leaving' = leaving \ {t}
     /\ store' = store
     /\ Send(t, (IF u # None THEN {"me"} ELSE {}) \cup (IF Loads(q, u) THEN {"load"} ELSE {}),
             {c \in calls : c.tab # t})
     /\ outOfStep' = IF mixed THEN outOfStep \cup {t} ELSE outOfStep \ {t}
     /\ UNCHANGED <<server, mixed, overtaken>>

\* A tab is opened or reloaded, wherever the address says.
Open(t) == \E p \in Reached : Load(t, p)

\* location.href = '/login' takes effect.
Leave(t) == t \in leaving /\ Load(t, "login")

Close(t) ==
  /\ page[t] # "closed"
  /\ page' = [page EXCEPT ![t] = "closed"]
  /\ user' = [user EXCEPT ![t] = None]
  /\ data' = [data EXCEPT ![t] = None]
  /\ leaving' = leaving \ {t}
  /\ calls' = {c \in calls : c.tab # t}
  /\ outOfStep' = outOfStep \ {t}
  /\ UNCHANGED <<store, server, mixed, overtaken>>

\* A link, a button or the history of the browser leads to another page.
Visit(t) ==
  /\ page[t] # "closed"
  /\ store' = store
  /\ \E p \in Reached \ {page[t]} : Show(t, p, user[t], calls)
  /\ UNCHANGED <<leaving, server, history>>

\* A form is submitted once at a time, as long as it stays on the screen.
Submit(t) ==
  /\ page[t] \in Forms
  /\ ~ \E c \in calls : c.tab = t /\ c.kind = page[t] /\ c.mounted
  /\ store' = store
  /\ Send(t, {page[t]}, calls)
  /\ UNCHANGED <<page, user, data, leaving, server, history>>

\* The button of the header or of the profile: both end at /login.
Logout(t) ==
  /\ page[t] \notin Forms \cup {"closed"}
  /\ user[t] # None
  /\ Change(t, Empty)
  /\ Show(t, "login", None, calls)
  /\ UNCHANGED <<leaving, server, overtaken>>

-----------------------------------------------------------------------------
(* What comes back.                                                        *)

\* The server accepts the token of a call, which it sees when it answers.
Accepted(c) == c.token \notin expired \cup {None}

\* getMe: the username and role are merged into the user there is by now.
Merged_Whole(c, u) ==                  \* mutant: the token is kept with the user
  IF u = None THEN None ELSE [id |-> u.id, as |-> Owner[c.token], token |-> c.token]
Merged(c, u) == IF u = None THEN None ELSE [u EXCEPT !.as = Owner[c.token]]

MeAnswered(c) ==
  LET t == c.tab
      u == Merged(c, user[t])
  IN /\ c.kind = "me"
     /\ Accepted(c)
     /\ store' = IF u = None THEN store ELSE [store EXCEPT !.user = u]
     /\ IF u = None
          THEN calls' = calls \ {c} /\ UNCHANGED <<page, user, data>>
          ELSE Show(t, page[t], u, calls \ {c})
     /\ mixed' = (mixed \/ (u # None /\ t \in outOfStep))
     /\ overtaken' = (overtaken \/ (u # None /\ u.as # u.id))
     /\ UNCHANGED <<leaving, server, outOfStep>>

\* Any failure of getMe but a 401: the catch logs out.
MeFailed(c) ==
  /\ c.kind = "me"
  /\ Change(c.tab, Empty)
  /\ Show(c.tab, page[c.tab], None, calls \ {c})
  /\ UNCHANGED <<leaving, server, overtaken>>

\* login() of AuthContext: the token of the answer and its user.
Session_Mixed(t, k) ==                 \* mutant: the role of the user before is kept
  [token |-> k, user |-> [id |-> Owner[k],
                          as |-> IF user[t] = None THEN Owner[k] ELSE user[t].as]]
Session(t, k) == [token |-> k, user |-> [id |-> Owner[k], as |-> Owner[k]]]

\* Login and Register: the new session, then navigate('/'), even from another page.
SignedIn(c) ==
  /\ c.kind \in Forms
  /\ \E k \in Tokens \ issued :
       /\ issued' = issued \cup {k}
       /\ Change(c.tab, Session(c.tab, k))
       /\ Show(c.tab, "home", Session(c.tab, k).user, calls \ {c})
  /\ UNCHANGED <<leaving, expired, overtaken>>

LoadAnswered(c) ==
  /\ c.kind = "load"
  /\ Accepted(c)
  /\ calls' = calls \ {c}
  /\ data' = IF c.mounted THEN [data EXCEPT ![c.tab] = c.token] ELSE data
  /\ UNCHANGED <<store, page, user, leaving, server, history>>

\* Any other failure is logged or shown, and nothing else.
Failed_Clears(c) ==                    \* mutant: every failure ends the session
  /\ c.kind # "me"
  /\ Change(c.tab, Empty)
  /\ calls' = calls \ {c}
  /\ UNCHANGED <<page, user, data, leaving, server, overtaken>>
Failed(c) ==
  /\ c.kind # "me"
  /\ calls' = calls \ {c}
  /\ UNCHANGED <<store, page, user, data, leaving, server, history>>

\* A call without a token or with one that is over, or a wrong password.
Refusable(c) ==
  \/ c.kind \in {"me", "load"} /\ (c.token = None \/ c.token \in expired)
  \/ c.kind = "login"

\* A 401: the interceptor empties the storage and leaves for /login.  The call
\* fails too, which for getMe means a logout.
Unauthorized(c) ==
  /\ Refusable(c)
  /\ Change(c.tab, Empty)
  /\ leaving' = leaving \cup {c.tab}
  /\ IF c.kind = "me"
       THEN Show(c.tab, page[c.tab], None, calls \ {c})
       ELSE calls' = calls \ {c} /\ UNCHANGED <<page, user, data>>
  /\ UNCHANGED <<server, overtaken>>

\* The time of a token is over.
Expire ==
  /\ \E k \in issued \ expired : expired' = expired \cup {k}
  /\ UNCHANGED <<store, page, user, data, leaving, calls, issued, history>>

-----------------------------------------------------------------------------
Act(t) == Open(t) \/ Leave(t) \/ Close(t) \/ Visit(t) \/ Submit(t) \/ Logout(t)

Answer(c) ==
  MeAnswered(c) \/ MeFailed(c) \/ SignedIn(c) \/ LoadAnswered(c) \/ Failed(c) \/ Unauthorized(c)

Next ==
  \/ \E t \in Tabs : Act(t)
  \/ \E c \in calls : Answer(c)
  \/ Expire

Spec == Init /\ [][Next]_vars

-----------------------------------------------------------------------------
(* Properties.                                                             *)

TypeOK ==
  /\ store \in [token: Tokens \cup {None}, user: Users \cup {None}]
  /\ page \in [Tabs -> Pages \cup {"closed"}]
  /\ user \in [Tabs -> Users \cup {None}]
  /\ data \in [Tabs -> Tokens \cup {None}]
  /\ leaving \subseteq Tabs
  /\ calls \subseteq Calls
  /\ \A c, d \in calls : c.id = d.id => c = d
  /\ issued \subseteq Tokens
  /\ expired \subseteq issued
  /\ outOfStep \subseteq Tabs
  /\ mixed \in BOOLEAN
  /\ overtaken \in BOOLEAN

\* The user on the screen is the one the next call will speak for, and the
\* rows on the page are that user's, whatever order logins, logouts, refusals
\* and late answers come in; only a change made in another tab, or a reload
\* after a tab that missed one wrote its user back, breaks it
\* (AuthContext.tsx:21-68, api/index.ts:8-32).
ScreenSpeaksForItsUser ==
  \A t \in Tabs : page[t] # "closed" /\ t \notin outOfStep /\ t \notin leaving =>
    /\ user[t] = None <=> store.token = None
    /\ user[t] # None => Owner[store.token] = user[t].id
    /\ data[t] # None => user[t] # None /\ Owner[data[t]] = user[t].id

\* A user is shown, and stored, under its own name and role unless an answer
\* of getMe that was asked for another one came late (AuthContext.tsx:34-50).
RolesAreOwn ==
  ~overtaken =>
    /\ \A t \in Tabs : user[t] # None => user[t].as = user[t].id
    /\ store.user # None => store.user.as = store.user.id

\* The calls that are answered or given up in a step.
Ended == {c \in calls : \A d \in calls' : d.id # c.id}

\* A session whose token is good ends only if the user logs out, a password is
\* mistyped, getMe fails, or a call is refused that was sent under another
\* token or none: a failing page, a time-out or a role that is not enough do
\* not end it (api/index.ts:27-31, AuthContext.tsx:48-50).
SessionsEndForCause ==
  [][ store.token \notin expired \cup {None} /\ store'.token = None =>
        \/ \E t \in Tabs : user[t] # None /\ user'[t] = None /\ Ended = {}
        \/ \E c \in Ended : c.kind \in {"me", "login"} \/ c.token # store.token ]_vars
=============================================================================
