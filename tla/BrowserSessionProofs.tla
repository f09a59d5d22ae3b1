------------------------ MODULE BrowserSessionProofs ------------------------
(***************************************************************************)
(* What the session keeps for any number of tabs, accounts, tokens and     *)
(* calls in flight.                                                        *)
(***************************************************************************)
EXTENDS BrowserSession, TLAPS

\* Only open tabs wait for answers, and only pages that load something, which
\* are shown to nobody but a user, wait for rows or show them.
PageInv ==
  /\ \A t \in Tabs :
       /\ page[t] \in Loaders => user[t] # None
       /\ data[t] # None => page[t] \in Loaders
  /\ \A c \in calls :
       /\ page[c.tab] # "closed"
       /\ c.kind = "load" /\ c.mounted => page[c.tab] \in Loaders

Unique == \A c, d \in calls : c.id = d.id => c = d

TypeInv == TypeOK /\ PageInv

-----------------------------------------------------------------------------
(* Pages and calls.                                                        *)

LEMMA Routes ==
  ASSUME NEW p \in Pages, NEW u
  PROVE  /\ Routed(p, u) \in Pages
         /\ Routed(p, u) \in Loaders => u # None
         /\ Routed(p, u) = "closed" => FALSE
BY DEF Routed, Pages, Loaders

\* What is sent is sent from t, by the page it shows, under the token in the
\* storage.
LEMMA Sends ==
  ASSUME NEW t \in Tabs, NEW kinds, NEW kept, Send(t, kinds, kept)
  PROVE  /\ kept \subseteq calls'
         /\ \A c \in calls' : c \notin kept =>
              c.tab = t /\ c.kind \in kinds /\ c.token = store'.token /\ c.mounted = TRUE
<1>1. PICK id \in [kinds -> CallIds] :
        calls' = kept \cup
          {[id |-> id[k], tab |-> t, kind |-> k, token |-> store'.token, mounted |-> TRUE] :
             k \in kinds}
  BY DEF Send
<1>2. QED
  BY <1>1

LEMMA SendTypes ==
  ASSUME NEW t \in Tabs, NEW kinds, kinds \subseteq CallKinds,
         NEW kept, kept \subseteq Calls, \A c, d \in kept : c.id = d.id => c = d,
         store'.token \in Tokens \cup {None},
         Send(t, kinds, kept)
  PROVE  calls' \subseteq Calls /\ Unique'
<1>1. PICK id \in [kinds -> CallIds] :
        /\ \A k \in kinds : \A c \in kept : c.id # id[k]
        /\ \A j, k \in kinds : id[j] = id[k] => j = k
        /\ calls' = kept \cup
             {[id |-> id[k], tab |-> t, kind |-> k, token |-> store'.token, mounted |-> TRUE] :
                k \in kinds}
  BY DEF Send
<1>2. calls' \subseteq Calls
  <2>1. ASSUME NEW k \in kinds
        PROVE  [id |-> id[k], tab |-> t, kind |-> k, token |-> store'.token, mounted |-> TRUE] \in Calls
    BY DEF Calls
  <2>2. QED
    BY <1>1, <2>1
<1>3. ASSUME NEW c \in calls', NEW d \in calls', c.id = d.id PROVE c = d
  <2>1. ASSUME NEW e \in calls', e \notin kept
        PROVE  \E k \in kinds :
                 e = [id |-> id[k], tab |-> t, kind |-> k, token |-> store'.token, mounted |-> TRUE]
    BY <1>1, <2>1
  <2>2. CASE c \in kept /\ d \in kept
    BY <1>3, <2>2
  <2>3. CASE c \in kept /\ d \notin kept
    <3>1. PICK k \in kinds :
            d = [id |-> id[k], tab |-> t, kind |-> k, token |-> store'.token, mounted |-> TRUE]
      BY <2>1, <2>3
    <3>2. d.id = id[k]
      BY <3>1
    <3>3. QED
      BY <1>1, <1>3, <2>3, <3>2
  <2>4. CASE c \notin kept /\ d \in kept
    <3>1. PICK k \in kinds :
            c = [id |-> id[k], tab |-> t, kind |-> k, token |-> store'.token, mounted |-> TRUE]
      BY <2>1, <2>4
    <3>2. c.id = id[k]
      BY <3>1
    <3>3. QED
      BY <1>1, <1>3, <2>4, <3>2
  <2>5. CASE c \notin kept /\ d \notin kept
    <3>1. PICK j \in kinds :
            c = [id |-> id[j], tab |-> t, kind |-> j, token |-> store'.token, mounted |-> TRUE]
      BY <2>1, <2>5
    <3>2. PICK k \in kinds :
            d = [id |-> id[k], tab |-> t, kind |-> k, token |-> store'.token, mounted |-> TRUE]
      BY <2>1, <2>5
    <3>3. c.id = id[j] /\ d.id = id[k]
      BY <3>1, <3>2
    <3>4. j = k
      BY <1>1, <1>3, <3>3
    <3>5. QED
      BY <3>1, <3>2, <3>4
  <2>6. QED
    BY <2>2, <2>3, <2>4, <2>5
<1>4. QED
  BY <1>2, <1>3 DEF Unique

LEMMA Unmounting ==
  ASSUME NEW cs, cs \subseteq Calls, \A c, d \in cs : c.id = d.id => c = d, NEW t
  PROVE  /\ Unmounted(cs, t) \subseteq Calls
         /\ \A c, d \in Unmounted(cs, t) : c.id = d.id => c = d
         /\ \A c \in Unmounted(cs, t) : \E d \in cs :
              /\ c.tab = d.tab /\ c.kind = d.kind /\ c.token = d.token
              /\ c.tab # t => c = d
              /\ c.tab = t /\ c.kind # "me" => ~c.mounted
<1> DEFINE Image(c) == IF c.tab = t /\ c.kind # "me" THEN [c EXCEPT !.mounted = FALSE] ELSE c
<1>1. ASSUME NEW c \in cs
      PROVE  /\ Image(c) \in Calls
             /\ Image(c).id = c.id /\ Image(c).tab = c.tab
             /\ Image(c).kind = c.kind /\ Image(c).token = c.token
             /\ c.tab # t => Image(c) = c
             /\ c.tab = t /\ c.kind # "me" => ~Image(c).mounted
  BY DEF Calls
<1>2. Unmounted(cs, t) = {Image(c) : c \in cs}
  BY DEF Unmounted
<1>3. QED
  <2> HIDE DEF Image
  <2>1. ASSUME NEW c \in Unmounted(cs, t) PROVE \E d \in cs : c = Image(d)
    BY <1>2
  <2>2. Unmounted(cs, t) \subseteq Calls
    BY <1>1, <2>1
  <2>3. ASSUME NEW c \in Unmounted(cs, t), NEW d \in Unmounted(cs, t), c.id = d.id PROVE c = d
    <3>1. PICK a \in cs : c = Image(a)
      BY <2>1
    <3>2. PICK b \in cs : d = Image(b)
      BY <2>1
    <3>3. a.id = b.id
      BY <1>1, <2>3, <3>1, <3>2
    <3>4. QED
      BY <3>1, <3>2, <3>3
  <2>4. ASSUME NEW c \in Unmounted(cs, t)
        PROVE  \E d \in cs :
                 /\ c.tab = d.tab /\ c.kind = d.kind /\ c.token = d.token
                 /\ c.tab # t => c = d
                 /\ c.tab = t /\ c.kind # "me" => ~c.mounted
    <3>1. PICK a \in cs : c = Image(a)
      BY <2>1
    <3>2. QED
      BY <1>1, <3>1
  <2>5. QED
    BY <2>2, <2>3, <2>4

\* What rendering a page changes, with cs, some of the calls, in flight.
LEMMA Shows ==
  ASSUME TypeInv, NEW t \in Tabs, NEW p \in Pages, NEW u \in Users \cup {None},
         NEW cs, cs \subseteq calls, store'.token \in Tokens \cup {None}, Show(t, p, u, cs)
  PROVE  /\ page' = [page EXCEPT ![t] = Routed(p, u)]
         /\ page' \in [Tabs -> Pages \cup {"closed"}]
         /\ user' = [user EXCEPT ![t] = u]
         /\ user' \in [Tabs -> Users \cup {None}]
         /\ data' \in [Tabs -> Tokens \cup {None}]
         /\ \A o \in Tabs : o # t => data'[o] = data[o]
         /\ data'[t] # None => data'[t] = data[t] /\ page'[t] = page[t]
         /\ calls' \subseteq Calls
         /\ Unique'
         /\ \A c \in calls' : c.tab # t => c \in calls
         /\ \A c \in calls' : c.tab = t /\ c.kind = "load" /\ c.mounted =>
              /\ page'[t] \in Loaders
              /\ c.token = store'.token \/ (c \in calls /\ page'[t] = page[t])
<1> DEFINE q == Routed(p, u)
           stays == q = page[t]
           kinds == IF Loads(q, u) THEN {"load"} ELSE {}
           kept == IF stays THEN cs ELSE Unmounted(cs, t)
<1>1. /\ page' = [page EXCEPT ![t] = q]
      /\ user' = [user EXCEPT ![t] = u]
      /\ data' = [data EXCEPT ![t] = IF stays THEN @ ELSE None]
      /\ Send(t, kinds, kept)
  BY DEF Show
<1>2. q \in Pages
  BY Routes
<1>3. cs \subseteq Calls /\ \A c, d \in cs : c.id = d.id => c = d
  BY DEF TypeInv, TypeOK
<1>4. kinds \subseteq CallKinds /\ (kinds # {} => q \in Loaders) /\ \A k \in kinds : k = "load"
  BY DEF CallKinds, Loads
<1>5. /\ kept \subseteq Calls
      /\ \A c, d \in kept : c.id = d.id => c = d
      /\ \A c \in kept : c.tab # t => c \in cs
      /\ \A c \in kept : c.tab = t /\ c.kind = "load" /\ c.mounted => stays /\ c \in cs
  <2>1. CASE stays
    BY <1>3, <2>1
  <2>2. CASE ~stays
    <3>1. kept = Unmounted(cs, t)
      BY <2>2
    <3>2. /\ Unmounted(cs, t) \subseteq Calls
          /\ \A c, d \in Unmounted(cs, t) : c.id = d.id => c = d
          /\ \A c \in Unmounted(cs, t) : \E d \in cs :
               /\ c.tab = d.tab /\ c.kind = d.kind
               /\ c.tab # t => c = d
               /\ c.tab = t /\ c.kind # "me" => ~c.mounted
      BY <1>3, Unmounting
    <3>3. QED
      BY <3>1, <3>2
  <2>3. QED
    BY <2>1, <2>2
<1> HIDE DEF kept, kinds
<1>6. calls' \subseteq Calls /\ Unique'
  BY <1>1, <1>4, <1>5, SendTypes
<1>7. /\ kept \subseteq calls'
      /\ \A c \in calls' : c \notin kept =>
           c.tab = t /\ c.kind \in kinds /\ c.token = store'.token /\ c.mounted = TRUE
  BY <1>1, Sends
<1>8. /\ page' \in [Tabs -> Pages \cup {"closed"}]
      /\ user' \in [Tabs -> Users \cup {None}]
      /\ data' \in [Tabs -> Tokens \cup {None}]
      /\ \A o \in Tabs : o # t => data'[o] = data[o]
      /\ page'[t] = q
      /\ data'[t] # None => data'[t] = data[t] /\ q = page[t]
  BY <1>1, <1>2 DEF TypeInv, TypeOK
<1>9. \A c \in calls' : c.tab # t => c \in calls
  BY <1>5, <1>7
<1>10. ASSUME NEW c \in calls', c.tab = t, c.kind = "load", c.mounted
       PROVE  /\ q \in Loaders
              /\ c.token = store'.token \/ (c \in calls /\ q = page[t])
  <2>1. CASE c \in kept
    BY <1>5, <1>10, <2>1 DEF TypeInv, PageInv
  <2>2. CASE c \notin kept
    BY <1>4, <1>7, <2>2
  <2>3. QED
    BY <2>1, <2>2
<1>11. QED
  BY <1>1, <1>6, <1>8, <1>9, <1>10

\* Rendering keeps the types of what it changes.
LEMMA ShowTypes ==
  ASSUME TypeInv, NEW t \in Tabs, NEW p \in Pages, NEW u \in Users \cup {None},
         NEW cs, cs \subseteq calls, store'.token \in Tokens \cup {None}, Show(t, p, u, cs)
  PROVE  /\ page' \in [Tabs -> Pages \cup {"closed"}]
         /\ user' \in [Tabs -> Users \cup {None}]
         /\ data' \in [Tabs -> Tokens \cup {None}]
         /\ calls' \subseteq Calls
         /\ Unique'
         /\ PageInv'
<1>1. /\ page' = [page EXCEPT ![t] = Routed(p, u)]
      /\ page' \in [Tabs -> Pages \cup {"closed"}]
      /\ user' = [user EXCEPT ![t] = u]
      /\ user' \in [Tabs -> Users \cup {None}]
      /\ data' \in [Tabs -> Tokens \cup {None}]
      /\ \A o \in Tabs : o # t => data'[o] = data[o]
      /\ data'[t] # None => data'[t] = data[t] /\ page'[t] = page[t]
      /\ calls' \subseteq Calls
      /\ Unique'
      /\ \A c \in calls' : c.tab # t => c \in calls
      /\ \A c \in calls' : c.tab = t /\ c.kind = "load" /\ c.mounted => page'[t] \in Loaders
  BY Shows
<1>2. Routed(p, u) \in Pages /\ (Routed(p, u) \in Loaders => u # None) /\ Routed(p, u) # "closed"
  BY Routes
<1>3. ASSUME NEW o \in Tabs
      PROVE  /\ page'[o] \in Loaders => user'[o] # None
             /\ data'[o] # None => page'[o] \in Loaders
  BY <1>1, <1>2 DEF TypeInv, TypeOK, PageInv
<1>4. ASSUME NEW c \in calls'
      PROVE  /\ page'[c.tab] # "closed"
             /\ c.kind = "load" /\ c.mounted => page'[c.tab] \in Loaders
  <2>1. c.tab \in Tabs
    BY <1>1 DEF Calls
  <2>2. CASE c.tab = t
    BY <1>1, <1>2, <2>2 DEF TypeInv, TypeOK
  <2>3. CASE c.tab # t
    BY <1>1, <2>1, <2>3 DEF TypeInv, TypeOK, PageInv
  <2>4. QED
    BY <2>2, <2>3
<1>5. PageInv'
  BY <1>3, <1>4 DEF PageInv
<1>6. QED
  BY <1>1, <1>5

-----------------------------------------------------------------------------
(* Types.                                                                  *)

Stores == [token: Tokens \cup {None}, user: Users \cup {None}]

LEMMA StoreTypes == Empty \in Stores /\ Empty.token = None /\ Empty.user = None
BY DEF Empty, Stores

LEMMA SessionTypes ==
  ASSUME NEW t \in Tabs, NEW k \in Tokens
  PROVE  /\ Session(t, k) \in Stores
         /\ Session(t, k).token = k
         /\ Session(t, k).user \in Users
         /\ Session(t, k).user # None
         /\ Session(t, k).user.id = Owner[k]
         /\ Session(t, k).user.as = Owner[k]
<1>1. Owner[k] \in Accounts
  BY OwnerAssumption
<1>2. [id |-> Owner[k], as |-> Owner[k]] \in Users
  BY <1>1 DEF Users
<1>3. QED
  BY <1>1, <1>2, NoneAssumption DEF Session, Stores, Users

\* The user that an answer of getMe leaves.
LEMMA MergedTypes ==
  ASSUME NEW c \in Calls, Accepted(c), NEW u \in Users \cup {None}
  PROVE  /\ Merged(c, u) \in Users \cup {None}
         /\ Merged(c, u) = None <=> u = None
         /\ u # None => Merged(c, u).id = u.id
<1>1. Owner[c.token] \in Accounts
  BY OwnerAssumption DEF Accepted, Calls
<1>2. CASE u = None
  BY <1>2 DEF Merged
<1>3. CASE u # None
  <2>1. [u EXCEPT !.as = Owner[c.token]] \in Users /\ [u EXCEPT !.as = Owner[c.token]].id = u.id
    BY <1>1, <1>3 DEF Users
  <2>2. QED
    BY <1>3, <2>1, NoneAssumption DEF Merged, Users
<1>4. QED
  BY <1>2, <1>3

LEMMA ChangeTypes ==
  ASSUME TypeInv, NEW t \in Tabs, NEW s \in Stores, Change(t, s)
  PROVE  /\ store' = s
         /\ store' \in Stores
         /\ store'.token \in Tokens \cup {None}
         /\ outOfStep' \subseteq Tabs
         /\ mixed' = FALSE
BY DEF Change, Stores, TypeInv, TypeOK

\* A tab that answers its last call, or none, and shows what it showed.
LEMMA Dropped ==
  ASSUME TypeInv, calls' \subseteq calls, UNCHANGED <<page, user, data>>
  PROVE  calls' \subseteq Calls /\ Unique' /\ PageInv'
BY DEF TypeInv, TypeOK, PageInv, Unique

LEMMA StepTypes == TypeInv /\ [Next]_vars => TypeInv'
<1> SUFFICES ASSUME TypeInv, [Next]_vars PROVE TypeInv'
  OBVIOUS
<1> USE DEF server, history
<1>a. TypeOK /\ PageInv
  BY DEF TypeInv
\* What is left to show of a step that renders, or drops calls.
<1>b. ASSUME store' \in Stores,
             page' \in [Tabs -> Pages \cup {"closed"}],
             user' \in [Tabs -> Users \cup {None}],
             data' \in [Tabs -> Tokens \cup {None}],
             leaving' \subseteq Tabs,
             calls' \subseteq Calls, Unique', PageInv',
             issued' \subseteq Tokens, expired' \subseteq issued',
             outOfStep' \subseteq Tabs, mixed' \in BOOLEAN, overtaken' \in BOOLEAN
      PROVE  TypeInv'
  BY <1>b DEF TypeInv, TypeOK, Stores, Unique
<1>c. /\ store \in Stores /\ store.token \in Tokens \cup {None}
      /\ \A c \in calls : c \in Calls /\ c.tab \in Tabs
      /\ \A t \in Tabs : user[t] \in Users \cup {None}
  BY <1>a DEF TypeOK, Stores, Calls
<1>1. ASSUME NEW t \in Tabs, NEW p \in Pages, Load(t, p) PROVE TypeInv'
  <2> DEFINE u == Restored
             q == Routed(p, u)
             kinds == (IF u # None THEN {"me"} ELSE {}) \cup (IF Loads(q, u) THEN {"load"} ELSE {})
             kept == {c \in calls : c.tab # t}
  <2>1. u \in Users \cup {None}
    BY <1>a DEF Restored, TypeOK
  <2>2. /\ page' = [page EXCEPT ![t] = q]
        /\ user' = [user EXCEPT ![t] = u]
        /\ data' = [data EXCEPT ![t] = None]
        /\ leaving' = leaving \ {t}
        /\ store' = store
        /\ Send(t, kinds, kept)
        /\ outOfStep' \subseteq outOfStep \cup {t}
        /\ UNCHANGED <<server, mixed, overtaken>>
    BY <1>1 DEF Load
  <2>3. q \in Pages /\ (q \in Loaders => u # None) /\ q # "closed"
    BY Routes
  <2>4. kinds \subseteq CallKinds /\ ("load" \in kinds => q \in Loaders)
    BY DEF CallKinds, Loads
  <2>5. kept \subseteq Calls /\ \A c, d \in kept : c.id = d.id => c = d
    BY <1>a DEF TypeOK
  <2>6. \A c \in kept : c \in calls /\ c.tab # t
    OBVIOUS
  <2> HIDE DEF u, q, kinds, kept
  <2>7. calls' \subseteq Calls /\ Unique'
    BY <1>c, <2>2, <2>4, <2>5, SendTypes
  <2>8. /\ kept \subseteq calls'
        /\ \A c \in calls' : c \notin kept =>
             c.tab = t /\ c.kind \in kinds /\ c.token = store'.token /\ c.mounted = TRUE
    BY <2>2, Sends
  <2>9. /\ page' \in [Tabs -> Pages \cup {"closed"}]
        /\ user' \in [Tabs -> Users \cup {None}]
        /\ data' \in [Tabs -> Tokens \cup {None}]
    BY <1>a, <2>1, <2>2, <2>3 DEF TypeOK
  <2>10. PageInv'
    <3>1. ASSUME NEW o \in Tabs
          PROVE  /\ page'[o] \in Loaders => user'[o] # None
                 /\ data'[o] # None => page'[o] \in Loaders
      BY <1>a, <2>2, <2>3 DEF TypeOK, PageInv
    <3>2. ASSUME NEW c \in calls'
          PROVE  /\ page'[c.tab] # "closed"
                 /\ c.kind = "load" /\ c.mounted => page'[c.tab] \in Loaders
      <4>1. CASE c \in kept
        BY <1>a, <1>c, <2>2, <2>6, <4>1 DEF TypeOK, PageInv
      <4>2. CASE c \notin kept
        BY <1>a, <2>2, <2>3, <2>4, <2>8, <4>2 DEF TypeOK
      <4>3. QED
        BY <4>1, <4>2
    <3>3. QED
      BY <3>1, <3>2 DEF PageInv
  <2>11. QED
    BY <1>a, <1>b, <1>c, <2>2, <2>7, <2>9, <2>10 DEF TypeOK
<1>2. ASSUME NEW t \in Tabs, Open(t) \/ Leave(t) PROVE TypeInv'
  <2>1. "login" \in Pages /\ Reached \subseteq Pages
    BY ReachedAssumption DEF Pages
  <2>2. QED
    BY <1>1, <1>2, <2>1 DEF Open, Leave
<1>3. ASSUME NEW t \in Tabs, Close(t) PROVE TypeInv'
  <2>1. PageInv'
    <3>1. /\ page' = [page EXCEPT ![t] = "closed"]
          /\ user' = [user EXCEPT ![t] = None]
          /\ data' = [data EXCEPT ![t] = None]
          /\ calls' = {c \in calls : c.tab # t}
      BY <1>3 DEF Close
    <3>2. "closed" \notin Loaders
      BY DEF Loaders
    <3>3. QED
      BY <1>a, <1>c, <3>1, <3>2 DEF TypeOK, PageInv
  <2>2. QED
    BY <1>3, <1>a, <1>b, <1>c, <2>1 DEF Close, TypeOK, Unique
<1>4. ASSUME NEW t \in Tabs, Visit(t) PROVE TypeInv'
  <2>1. PICK p \in Pages : Show(t, p, user[t], calls)
    BY <1>4, ReachedAssumption DEF Visit
  <2>2. store' = store /\ UNCHANGED <<leaving, server, history>>
    BY <1>4 DEF Visit
  <2>3. QED
    BY <1>a, <1>b, <1>c, <2>1, <2>2, ShowTypes DEF TypeOK
<1>5. ASSUME NEW t \in Tabs, Submit(t) PROVE TypeInv'
  <2>1. /\ store' = store
        /\ Send(t, {page[t]}, calls)
        /\ page[t] \in Forms
        /\ UNCHANGED <<page, user, data, leaving, server, history>>
    BY <1>5 DEF Submit
  <2>2. calls' \subseteq Calls /\ Unique'
    <3>1. {page[t]} \subseteq CallKinds
      BY <2>1 DEF CallKinds
    <3>2. calls \subseteq Calls /\ \A c, d \in calls : c.id = d.id => c = d
      BY <1>a DEF TypeOK
    <3>3. QED
      BY <1>c, <2>1, <3>1, <3>2, SendTypes
  <2>3. PageInv'
    <3>1. /\ calls \subseteq calls'
          /\ \A c \in calls' : c \notin calls =>
               c.tab = t /\ c.kind \in {page[t]} /\ c.token = store'.token /\ c.mounted = TRUE
      BY <2>1, Sends
    <3>2. page[t] # "closed" /\ page[t] # "load"
      BY <2>1 DEF Forms
    <3>3. QED
      BY <1>a, <2>1, <3>1, <3>2 DEF PageInv
  <2>4. QED
    BY <1>a, <1>b, <1>c, <2>1, <2>2, <2>3 DEF TypeOK
<1>6. ASSUME NEW t \in Tabs, Logout(t) PROVE TypeInv'
  <2>1. Change(t, Empty) /\ Show(t, "login", None, calls) /\ UNCHANGED <<leaving, server, overtaken>>
    BY <1>6 DEF Logout
  <2>2. store' \in Stores /\ store'.token \in Tokens \cup {None} /\ outOfStep' \subseteq Tabs /\ mixed' = FALSE
    BY <2>1, StoreTypes, ChangeTypes
  <2>3. "login" \in Pages
    BY DEF Pages
  <2>4. QED
    BY <1>a, <1>b, <2>1, <2>2, <2>3, ShowTypes DEF TypeOK
<1>7. ASSUME NEW c \in calls, MeAnswered(c) PROVE TypeInv'
  <2> DEFINE t == c.tab
             u == Merged(c, user[t])
  <2>1. /\ Accepted(c)
        /\ store' = IF u = None THEN store ELSE [store EXCEPT !.user = u]
        /\ IF u = None
             THEN calls' = calls \ {c} /\ UNCHANGED <<page, user, data>>
             ELSE Show(t, page[t], u, calls \ {c})
        /\ mixed' = (mixed \/ (u # None /\ t \in outOfStep))
        /\ overtaken' = (overtaken \/ (u # None /\ u.as # u.id))
        /\ UNCHANGED <<leaving, server, outOfStep>>
    BY <1>7 DEF MeAnswered
  <2>2. t \in Tabs /\ u \in Users \cup {None}
    BY <1>c, <2>1, MergedTypes
  <2>3. page[t] \in Pages
    BY <1>a, <2>2 DEF TypeOK, PageInv
  <2> HIDE DEF t, u
  <2>4. store' \in Stores /\ store'.token \in Tokens \cup {None}
    BY <1>c, <2>1, <2>2 DEF Stores
  <2>5. CASE u = None
    BY <1>a, <1>b, <2>1, <2>4, <2>5, Dropped DEF TypeOK
  <2>6. CASE u # None
    BY <1>a, <1>b, <2>1, <2>2, <2>3, <2>4, <2>6, ShowTypes DEF TypeOK
  <2>7. QED
    BY <2>5, <2>6
<1>8. ASSUME NEW c \in calls, Change(c.tab, Empty), UNCHANGED <<server, overtaken>>, leaving' \subseteq Tabs,
             \/ Show(c.tab, page[c.tab], None, calls \ {c})
             \/ calls' = calls \ {c} /\ UNCHANGED <<page, user, data>>
      PROVE  TypeInv'
  <2>1. store' \in Stores /\ store'.token \in Tokens \cup {None} /\ outOfStep' \subseteq Tabs /\ mixed' = FALSE
    BY <1>8, <1>c, StoreTypes, ChangeTypes
  <2>2. page[c.tab] \in Pages
    BY <1>a, <1>c DEF TypeOK, PageInv
  <2>3. CASE Show(c.tab, page[c.tab], None, calls \ {c})
    <3>1. /\ page' \in [Tabs -> Pages \cup {"closed"}]
          /\ user' \in [Tabs -> Users \cup {None}]
          /\ data' \in [Tabs -> Tokens \cup {None}]
          /\ calls' \subseteq Calls
          /\ Unique'
          /\ PageInv'
      BY <1>c, <2>1, <2>2, <2>3, ShowTypes
    <3>2. QED
      BY <1>8, <1>a, <1>b, <2>1, <3>1 DEF TypeOK
  <2>4. CASE calls' = calls \ {c} /\ UNCHANGED <<page, user, data>>
    BY <1>8, <1>a, <1>b, <2>1, <2>4, Dropped DEF TypeOK
  <2>5. QED
    BY <1>8, <2>3, <2>4
<1>9. ASSUME NEW c \in calls, MeFailed(c) \/ Unauthorized(c) PROVE TypeInv'
  <2>1. leaving \subseteq Tabs
    BY <1>a DEF TypeOK
  <2>2. QED
    BY <1>8, <1>9, <1>c, <2>1 DEF MeFailed, Unauthorized
<1>10. ASSUME NEW c \in calls, SignedIn(c) PROVE TypeInv'
  <2>1. PICK k \in Tokens \ issued :
          /\ issued' = issued \cup {k}
          /\ Change(c.tab, Session(c.tab, k))
          /\ Show(c.tab, "home", Session(c.tab, k).user, calls \ {c})
    BY <1>10 DEF SignedIn
  <2>2. UNCHANGED <<leaving, expired, overtaken>>
    BY <1>10 DEF SignedIn
  <2>3. Session(c.tab, k) \in Stores /\ Session(c.tab, k).user \in Users
    BY <1>c, SessionTypes
  <2>4. store' \in Stores /\ store'.token \in Tokens \cup {None} /\ outOfStep' \subseteq Tabs /\ mixed' = FALSE
    BY <1>c, <2>1, <2>3, ChangeTypes
  <2>5. "home" \in Pages
    BY DEF Pages
  <2>6. /\ page' \in [Tabs -> Pages \cup {"closed"}]
        /\ user' \in [Tabs -> Users \cup {None}]
        /\ data' \in [Tabs -> Tokens \cup {None}]
        /\ calls' \subseteq Calls
        /\ Unique'
        /\ PageInv'
    BY <1>c, <2>1, <2>3, <2>4, <2>5, ShowTypes
  <2>7. QED
    BY <1>a, <1>b, <2>1, <2>2, <2>4, <2>6 DEF TypeOK
<1>11. ASSUME NEW c \in calls, LoadAnswered(c) PROVE TypeInv'
  <2>1. /\ calls' = calls \ {c}
        /\ data' = IF c.mounted THEN [data EXCEPT ![c.tab] = c.token] ELSE data
        /\ c.kind = "load"
        /\ Accepted(c)
        /\ UNCHANGED <<store, page, user, leaving, server, history>>
    BY <1>11 DEF LoadAnswered
  <2>2. c.token \in Tokens /\ c.tab \in Tabs
    BY <1>c, <2>1 DEF Accepted, Calls
  <2>3. PageInv'
    BY <1>a, <2>1, <2>2 DEF PageInv, TypeOK
  <2>4. data' \in [Tabs -> Tokens \cup {None}]
    BY <1>a, <2>1, <2>2 DEF TypeOK
  <2>5. QED
    BY <1>a, <1>b, <1>c, <2>1, <2>3, <2>4 DEF TypeOK, Unique
<1>12. ASSUME NEW c \in calls, Failed(c) PROVE TypeInv'
  <2>1. calls' = calls \ {c} /\ UNCHANGED <<store, page, user, data, leaving, server, history>>
    BY <1>12 DEF Failed
  <2>2. QED
    BY <1>a, <1>b, <1>c, <2>1, Dropped DEF TypeOK
<1>13. CASE Expire
  <2>1. PICK k \in issued \ expired : expired' = expired \cup {k}
    BY <1>13 DEF Expire
  <2>2. UNCHANGED <<store, page, user, data, leaving, calls, issued, history>>
    BY <1>13 DEF Expire
  <2>3. QED
    BY <1>a, <1>b, <1>c, <2>1, <2>2, Dropped DEF TypeOK
<1>14. CASE UNCHANGED vars
  BY <1>14, <1>a, <1>b, <1>c, Dropped DEF vars, TypeOK
<1>15. QED
  BY <1>2, <1>3, <1>4, <1>5, <1>6, <1>7, <1>9, <1>10, <1>11, <1>12, <1>13, <1>14 DEF Next, Act, Answer

LEMMA InitTypes == Init => TypeInv
<1> SUFFICES ASSUME Init PROVE TypeInv
  OBVIOUS
<1>1. store \in Stores
  BY StoreTypes DEF Init
<1>2. "closed" \notin Loaders
  BY DEF Loaders
<1>3. QED
  BY <1>1, <1>2 DEF Init, TypeInv, TypeOK, PageInv, Stores

\* Every variable keeps its type, and calls keep identities of their own.
THEOREM TypeCorrect == Spec => []TypeOK
<1>1. Spec => []TypeInv
  BY InitTypes, StepTypes, PTL DEF Spec
<1>2. TypeInv => TypeOK
  BY DEF TypeInv
<1>3. QED
  BY <1>1, <1>2, PTL

-----------------------------------------------------------------------------
(* Roles.                                                                  *)

Own(u) == u # None => u.as = u.id

LEMMA RolesStep == TypeInv /\ RolesAreOwn /\ [Next]_vars => RolesAreOwn'
<1> SUFFICES ASSUME TypeInv, RolesAreOwn, [Next]_vars, ~overtaken' PROVE RolesAreOwn'
  BY DEF RolesAreOwn
<1> USE DEF server, history
<1>a. TypeOK /\ PageInv
  BY DEF TypeInv
<1>b. \A c \in calls : c \in Calls /\ c.tab \in Tabs
  BY <1>a DEF TypeOK, Calls
<1>c. ~overtaken => Own(store.user) /\ \A t \in Tabs : Own(user[t])
  BY DEF RolesAreOwn, Own
<1>1. ASSUME Own(store'.user), \A t \in Tabs : Own(user'[t]) PROVE RolesAreOwn'
  BY <1>1 DEF RolesAreOwn, Own
<1>2. ASSUME NEW t \in Tabs, NEW u, NEW p \in Pages, NEW cs, Show(t, p, u, cs), Own(u), ~overtaken
      PROVE  \A o \in Tabs : Own(user'[o])
  <2>1. user' = [user EXCEPT ![t] = u]
    BY <1>2 DEF Show
  <2>2. QED
    BY <1>2, <1>a, <1>c, <2>1 DEF TypeOK
<1>3. Own(None)
  BY DEF Own
<1>4. ASSUME NEW t \in Tabs, NEW p \in Pages, Load(t, p) PROVE RolesAreOwn'
  <2>1. user' = [user EXCEPT ![t] = Restored] /\ store' = store /\ overtaken' = overtaken
    BY <1>4 DEF Load
  <2>2. Own(Restored)
    BY <1>c, <1>3, <2>1 DEF Restored
  <2>3. QED
    BY <1>1, <1>a, <1>c, <2>1, <2>2 DEF TypeOK
<1>5. ASSUME NEW t \in Tabs, Open(t) \/ Leave(t) PROVE RolesAreOwn'
  <2>1. "login" \in Pages /\ Reached \subseteq Pages
    BY ReachedAssumption DEF Pages
  <2>2. QED
    BY <1>4, <1>5, <2>1 DEF Open, Leave
<1>6. ASSUME NEW t \in Tabs, Close(t) PROVE RolesAreOwn'
  BY <1>6, <1>1, <1>3, <1>a, <1>c DEF Close, TypeOK
<1>7. ASSUME NEW t \in Tabs, Visit(t) PROVE RolesAreOwn'
  <2>1. store' = store /\ overtaken' = overtaken
    BY <1>7 DEF Visit
  <2>2. PICK p \in Pages : Show(t, p, user[t], calls)
    BY <1>7, ReachedAssumption DEF Visit
  <2>3. QED
    BY <1>1, <1>2, <1>c, <2>1, <2>2
<1>8. ASSUME NEW t \in Tabs, Submit(t) PROVE RolesAreOwn'
  BY <1>8, <1>1, <1>c DEF Submit
<1>9. ASSUME NEW t \in Tabs, Logout(t) PROVE RolesAreOwn'
  <2>1. store' = Empty /\ overtaken' = overtaken /\ Show(t, "login", None, calls)
    BY <1>9 DEF Logout, Change
  <2>2. "login" \in Pages
    BY DEF Pages
  <2>3. QED
    BY <1>1, <1>2, <1>3, <2>1, <2>2, StoreTypes
<1>10. ASSUME NEW c \in calls, MeAnswered(c) PROVE RolesAreOwn'
  <2> DEFINE u == Merged(c, user[c.tab])
  <2>1. /\ store' = IF u = None THEN store ELSE [store EXCEPT !.user = u]
        /\ IF u = None
             THEN UNCHANGED user
             ELSE Show(c.tab, page[c.tab], u, calls \ {c})
        /\ overtaken' = (overtaken \/ (u # None /\ u.as # u.id))
    BY <1>10 DEF MeAnswered
  <2>2. Own(u) /\ ~overtaken
    BY <2>1 DEF Own
  <2>3. page[c.tab] \in Pages
    BY <1>a, <1>b DEF TypeOK, PageInv
  <2> HIDE DEF u
  <2>4. CASE u = None
    BY <1>1, <1>c, <2>1, <2>2, <2>4
  <2>5. CASE u # None
    <3>1. store'.user = u
      BY <1>a, <2>1, <2>5 DEF TypeOK
    <3>2. \A t \in Tabs : Own(user'[t])
      BY <1>2, <1>b, <2>1, <2>2, <2>3, <2>5
    <3>3. QED
      BY <1>1, <2>2, <3>1, <3>2
  <2>6. QED
    BY <2>4, <2>5
<1>11. ASSUME NEW c \in calls, MeFailed(c) \/ Unauthorized(c) PROVE RolesAreOwn'
  <2>1. /\ store' = Empty
        /\ overtaken' = overtaken
        /\ Show(c.tab, page[c.tab], None, calls \ {c}) \/ user' = user
    BY <1>11 DEF MeFailed, Unauthorized, Change
  <2>2. page[c.tab] \in Pages
    BY <1>a, <1>b DEF TypeOK, PageInv
  <2>3. \A t \in Tabs : Own(user'[t])
    BY <1>2, <1>3, <1>b, <1>c, <2>1, <2>2
  <2>4. QED
    BY <1>1, <1>3, <2>1, <2>3, StoreTypes
<1>12. ASSUME NEW c \in calls, SignedIn(c) PROVE RolesAreOwn'
  <2>1. PICK k \in Tokens :
          /\ store' = Session(c.tab, k)
          /\ Show(c.tab, "home", Session(c.tab, k).user, calls \ {c})
    BY <1>12 DEF SignedIn, Change
  <2>2. overtaken' = overtaken
    BY <1>12 DEF SignedIn
  <2>3. Own(Session(c.tab, k).user)
    BY <1>b, SessionTypes DEF Own
  <2>4. "home" \in Pages
    BY DEF Pages
  <2>5. QED
    BY <1>1, <1>2, <1>b, <2>1, <2>2, <2>3, <2>4
<1>13. ASSUME NEW c \in calls, LoadAnswered(c) \/ Failed(c) PROVE RolesAreOwn'
  BY <1>13, <1>1, <1>c DEF LoadAnswered, Failed
<1>14. CASE Expire \/ UNCHANGED vars
  BY <1>14, <1>1, <1>c DEF Expire, vars
<1>15. QED
  BY <1>5, <1>6, <1>7, <1>8, <1>9, <1>10, <1>11, <1>12, <1>13, <1>14 DEF Next, Act, Answer

\* A user is shown, and stored, under its own role unless an answer of getMe
\* that was asked for another one came late (AuthContext.tsx:34-50).
THEOREM RolesStayOwn == Spec => []RolesAreOwn
<1>1. Init => RolesAreOwn
  BY StoreTypes DEF Init, RolesAreOwn
<1>2. TypeInv /\ RolesAreOwn /\ [Next]_vars => (TypeInv /\ RolesAreOwn)'
  BY StepTypes, RolesStep
<1>3. QED
  BY InitTypes, <1>1, <1>2, PTL DEF Spec

-----------------------------------------------------------------------------
(* The screen and the storage.                                             *)

Speaks(t) ==
  /\ store.token # None => user[t] # None /\ Owner[store.token] = user[t].id
  /\ store.token = None /\ t \notin leaving => user[t] = None
Shown(t) == data[t] # None => user[t] # None /\ Owner[data[t]] = user[t].id
Waits(c) ==
  c.kind = "load" /\ c.mounted /\ c.token # None =>
    user[c.tab] # None /\ Owner[c.token] = user[c.tab].id

\* A tab that has seen the last change shows the user of the stored token,
\* and waits for and shows rows of that user, until it is told to leave; the
\* stored user is the token's, unless a tab that missed a change wrote it.
ScreenInv ==
  /\ ~mixed /\ store.token # None => store.user # None /\ Owner[store.token] = store.user.id
  /\ \A t \in Tabs : page[t] # "closed" /\ t \notin outOfStep => Speaks(t)
  /\ \A t \in Tabs : page[t] # "closed" /\ t \notin outOfStep \cup leaving => Shown(t)
  /\ \A c \in calls : c.tab \notin outOfStep \cup leaving => Waits(c)

TabsInv ==
  /\ \A t \in Tabs : page[t] # "closed" /\ t \notin outOfStep => Speaks(t)
  /\ \A t \in Tabs : page[t] # "closed" /\ t \notin outOfStep \cup leaving => Shown(t)
  /\ \A c \in calls : c.tab \notin outOfStep \cup leaving => Waits(c)

\* A tab that renders a page for the user of the token keeps in step, if what
\* stays on the page is of that user.
LEMMA ShowScreen ==
  ASSUME TypeInv, ScreenInv, NEW t \in Tabs, NEW p \in Pages, NEW u \in Users \cup {None},
         NEW cs, cs \subseteq calls, store'.token \in Tokens \cup {None}, Show(t, p, u, cs),
         page'[t] \in Loaders /\ page'[t] = page[t] /\ t \notin outOfStep' \cup leaving' =>
           t \notin outOfStep \cup leaving /\ user[t] # None /\ u # None /\ u.id = user[t].id,
         t \notin outOfStep' =>
           /\ store'.token # None => u # None /\ Owner[store'.token] = u.id
           /\ store'.token = None /\ t \notin leaving' => u = None,
         \A o \in Tabs : o # t /\ page[o] # "closed" /\ o \notin outOfStep' =>
           o \notin outOfStep /\ store'.token = store.token /\ (o \in leaving <=> o \in leaving')
  PROVE  TabsInv'
<1>1. /\ page' = [page EXCEPT ![t] = Routed(p, u)]
      /\ page' \in [Tabs -> Pages \cup {"closed"}]
      /\ user' = [user EXCEPT ![t] = u]
      /\ user' \in [Tabs -> Users \cup {None}]
      /\ data' \in [Tabs -> Tokens \cup {None}]
      /\ \A o \in Tabs : o # t => data'[o] = data[o]
      /\ data'[t] # None => data'[t] = data[t] /\ page'[t] = page[t]
      /\ calls' \subseteq Calls
      /\ Unique'
      /\ \A c \in calls' : c.tab # t => c \in calls
      /\ \A c \in calls' : c.tab = t /\ c.kind = "load" /\ c.mounted =>
           /\ page'[t] \in Loaders
           /\ c.token = store'.token \/ (c \in calls /\ page'[t] = page[t])
  BY Shows
<1>2. user'[t] = u /\ \A o \in Tabs : o # t => user'[o] = user[o] /\ page'[o] = page[o]
  BY <1>1 DEF TypeInv, TypeOK
<1>3. \A c \in calls' : c.tab \in Tabs
  BY <1>1 DEF Calls
<1>4. \A c \in calls : page[c.tab] # "closed"
  BY DEF TypeInv, PageInv
<1>5. ASSUME NEW o \in Tabs, page'[o] # "closed", o \notin outOfStep' PROVE Speaks(o)'
  <2>1. CASE o = t
    BY <1>2, <1>5, <2>1 DEF Speaks
  <2>2. CASE o # t
    BY <1>2, <1>5, <2>2 DEF Speaks, ScreenInv
  <2>3. QED
    BY <2>1, <2>2
<1>6. ASSUME NEW o \in Tabs, page'[o] # "closed", o \notin outOfStep' \cup leaving' PROVE Shown(o)'
  <2>1. CASE o = t
    <3>1. SUFFICES ASSUME data'[t] # None PROVE u # None /\ Owner[data'[t]] = u.id
      BY <1>2, <2>1 DEF Shown
    <3>2. data'[t] = data[t] /\ page'[t] = page[t] /\ page[t] \in Loaders
      BY <1>1, <3>1 DEF TypeInv, PageInv
    <3>3. t \notin outOfStep \cup leaving /\ user[t] # None /\ u # None /\ u.id = user[t].id
      BY <1>6, <2>1, <3>2
    <3>4. Shown(t)
      BY <1>6, <2>1, <3>2, <3>3 DEF ScreenInv
    <3>5. QED
      BY <3>1, <3>2, <3>3, <3>4 DEF Shown
  <2>2. CASE o # t
    <3>1. o \notin outOfStep \cup leaving /\ page[o] # "closed"
      BY <1>2, <1>6, <2>2
    <3>2. Shown(o)
      BY <3>1 DEF ScreenInv
    <3>3. QED
      BY <1>1, <1>2, <2>2, <3>2 DEF Shown
  <2>3. QED
    BY <2>1, <2>2
<1>7. ASSUME NEW c \in calls', c.tab \notin outOfStep' \cup leaving' PROVE Waits(c)'
  <2>1. SUFFICES ASSUME c.kind = "load", c.mounted, c.token # None
                 PROVE  user'[c.tab] # None /\ Owner[c.token] = user'[c.tab].id
    BY DEF Waits
  <2>2. CASE c.tab = t
    <3>1. page'[t] \in Loaders /\ (c.token = store'.token \/ (c \in calls /\ page'[t] = page[t]))
      BY <1>1, <2>1, <2>2
    <3>2. CASE c.token = store'.token
      BY <1>2, <1>7, <2>1, <2>2, <3>2
    <3>3. CASE c \in calls /\ page'[t] = page[t]
      <4>1. t \notin outOfStep \cup leaving /\ user[t] # None /\ u # None /\ u.id = user[t].id
        BY <1>7, <2>2, <3>1, <3>3
      <4>2. Waits(c)
        BY <2>2, <3>3, <4>1 DEF ScreenInv
      <4>3. QED
        BY <1>2, <2>1, <2>2, <4>1, <4>2 DEF Waits
    <3>4. QED
      BY <3>1, <3>2, <3>3
  <2>3. CASE c.tab # t
    <3>1. c \in calls /\ c.tab \in Tabs /\ page[c.tab] # "closed"
      BY <1>1, <1>3, <1>4, <2>3
    <3>2. c.tab \notin outOfStep \cup leaving
      BY <1>7, <2>3, <3>1
    <3>3. Waits(c)
      BY <3>1, <3>2 DEF ScreenInv
    <3>4. QED
      BY <1>2, <2>1, <2>3, <3>1, <3>3 DEF Waits
  <2>4. QED
    BY <2>2, <2>3
<1>8. QED
  BY <1>5, <1>6, <1>7 DEF TabsInv

StoreInv == ~mixed /\ store.token # None => store.user # None /\ Owner[store.token] = store.user.id

\* A change of the session tells every other tab apart.
LEMMA ChangeTabs ==
  ASSUME TypeInv, NEW t \in Tabs, NEW s, Change(t, s)
  PROVE  /\ store' = s
         /\ mixed' = FALSE
         /\ t \notin outOfStep'
         /\ \A o \in Tabs : o # t /\ page[o] # "closed" => o \in outOfStep'
BY DEF Change

LEMMA ScreenStep == TypeInv /\ ScreenInv /\ [Next]_vars => ScreenInv'
<1> SUFFICES ASSUME TypeInv, ScreenInv, [Next]_vars PROVE ScreenInv'
  OBVIOUS
<1> USE DEF server, history
<1>a. TypeOK /\ PageInv /\ StoreInv /\ TabsInv
  BY DEF TypeInv, ScreenInv, StoreInv, TabsInv
<1>b. \A c \in calls : c \in Calls /\ c.tab \in Tabs /\ page[c.tab] \in Pages /\ page[c.tab] # "closed"
  BY <1>a DEF TypeOK, PageInv, Calls
<1>c. \A t \in Tabs : user[t] \in Users \cup {None}
  BY <1>a DEF TypeOK
<1>d. store \in Stores /\ store.token \in Tokens \cup {None}
  BY <1>a DEF TypeOK, Stores
<1>1. ASSUME StoreInv', TabsInv' PROVE ScreenInv'
  BY <1>1 DEF ScreenInv, StoreInv, TabsInv
\* Fewer calls, more rows of a user, a changed clock.
<1>2. ASSUME UNCHANGED <<store, page, user, leaving, outOfStep, mixed>>,
             \A c \in calls' : c \in calls \/ c.kind # "load",
             \A t \in Tabs : data'[t] = data[t] \/
               (t \notin outOfStep \cup leaving =>
                  user[t] # None /\ Owner[data'[t]] = user[t].id)
      PROVE  ScreenInv'
  <2>1. StoreInv'
    BY <1>2, <1>a DEF StoreInv
  <2>2. TabsInv'
    BY <1>2, <1>a DEF TabsInv, Speaks, Shown, Waits
  <2>3. QED
    BY <1>1, <2>1, <2>2
<1>3. ASSUME NEW t \in Tabs, NEW p \in Pages, Load(t, p) PROVE ScreenInv'
  <2> DEFINE u == Restored
             q == Routed(p, u)
             kinds == (IF u # None THEN {"me"} ELSE {}) \cup (IF Loads(q, u) THEN {"load"} ELSE {})
             kept == {c \in calls : c.tab # t}
  <2>1. /\ page' = [page EXCEPT ![t] = q]
        /\ user' = [user EXCEPT ![t] = u]
        /\ data' = [data EXCEPT ![t] = None]
        /\ leaving' = leaving \ {t}
        /\ store' = store
        /\ Send(t, kinds, kept)
        /\ outOfStep' = IF mixed THEN outOfStep \cup {t} ELSE outOfStep \ {t}
        /\ mixed' = mixed
    BY <1>3 DEF Load
  <2>2. ~mixed => /\ store.token # None => u # None /\ Owner[store.token] = u.id
                  /\ store.token = None => u = None
    BY <1>a DEF Restored, StoreInv
  <2>3. \A c \in kept : c \in calls /\ c.tab # t
    OBVIOUS
  <2> HIDE DEF u, q, kinds, kept
  <2>4. /\ kept \subseteq calls'
        /\ \A c \in calls' : c \notin kept =>
             c.tab = t /\ c.kind \in kinds /\ c.token = store'.token /\ c.mounted = TRUE
    BY <2>1, Sends
  <2>5. user'[t] = u /\ data'[t] = None
        /\ \A o \in Tabs : o # t => user'[o] = user[o] /\ page'[o] = page[o] /\ data'[o] = data[o]
    BY <1>a, <2>1 DEF TypeOK
  <2>6. \A o \in Tabs : o # t => (o \in outOfStep' <=> o \in outOfStep) /\ (o \in leaving' <=> o \in leaving)
    BY <2>1
  <2>7. t \notin outOfStep' => ~mixed
    BY <2>1
  <2>8. ASSUME NEW o \in Tabs, page'[o] # "closed", o \notin outOfStep' PROVE Speaks(o)'
    <3>1. CASE o = t
      BY <2>1, <2>2, <2>5, <2>7, <2>8, <3>1 DEF Speaks
    <3>2. CASE o # t
      <4>1. Speaks(o)
        BY <1>a, <2>5, <2>6, <2>8, <3>2 DEF TabsInv
      <4>2. QED
        BY <2>1, <2>5, <2>6, <3>2, <4>1 DEF Speaks
    <3>3. QED
      BY <3>1, <3>2
  <2>9. ASSUME NEW o \in Tabs, page'[o] # "closed", o \notin outOfStep' \cup leaving' PROVE Shown(o)'
    <3>1. CASE o = t
      BY <2>5, <3>1 DEF Shown
    <3>2. CASE o # t
      <4>1. Shown(o)
        BY <1>a, <2>5, <2>6, <2>9, <3>2 DEF TabsInv
      <4>2. QED
        BY <2>5, <3>2, <4>1 DEF Shown
    <3>3. QED
      BY <3>1, <3>2
  <2>10. ASSUME NEW c \in calls', c.tab \notin outOfStep' \cup leaving' PROVE Waits(c)'
    <3>1. CASE c \in kept
      <4>1. c \in calls /\ c.tab # t /\ c.tab \in Tabs
        BY <1>b, <2>3, <3>1
      <4>2. Waits(c)
        BY <1>a, <2>6, <2>10, <4>1 DEF TabsInv
      <4>3. QED
        BY <2>5, <4>1, <4>2 DEF Waits
    <3>2. CASE c \notin kept
      BY <2>1, <2>2, <2>4, <2>5, <2>7, <2>10, <3>2 DEF Waits
    <3>3. QED
      BY <3>1, <3>2
  <2>11. TabsInv'
    BY <2>8, <2>9, <2>10 DEF TabsInv
  <2>12. StoreInv'
    BY <1>a, <2>1 DEF StoreInv
  <2>13. QED
    BY <1>1, <2>11, <2>12
<1>4. ASSUME NEW t \in Tabs, Open(t) \/ Leave(t) PROVE ScreenInv'
  <2>1. "login" \in Pages /\ Reached \subseteq Pages
    BY ReachedAssumption DEF Pages
  <2>2. QED
    BY <1>3, <1>4, <2>1 DEF Open, Leave
<1>5. ASSUME NEW t \in Tabs, Close(t) PROVE ScreenInv'
  <2>1. /\ page' = [page EXCEPT ![t] = "closed"]
        /\ user' = [user EXCEPT ![t] = None]
        /\ data' = [data EXCEPT ![t] = None]
        /\ leaving' = leaving \ {t}
        /\ calls' = {c \in calls : c.tab # t}
        /\ outOfStep' = outOfStep \ {t}
        /\ store' = store /\ mixed' = mixed
    BY <1>5 DEF Close
  <2>2. page'[t] = "closed"
        /\ \A o \in Tabs : o # t => user'[o] = user[o] /\ page'[o] = page[o] /\ data'[o] = data[o]
    BY <1>a, <2>1 DEF TypeOK
  <2>3. TabsInv'
    BY <1>a, <1>b, <2>1, <2>2 DEF TabsInv, Speaks, Shown, Waits
  <2>4. QED
    BY <1>1, <1>a, <2>1, <2>3 DEF StoreInv
<1>6. ASSUME NEW t \in Tabs, Visit(t) PROVE ScreenInv'
  <2>1. UNCHANGED <<store, leaving, outOfStep, mixed>>
    BY <1>6 DEF Visit
  <2>2. PICK p \in Pages : Show(t, p, user[t], calls)
    BY <1>6, ReachedAssumption DEF Visit
  <2>3. page[t] # "closed"
    BY <1>6 DEF Visit
  <2>4. page[t] \in Loaders => user[t] # None
    BY <1>a DEF PageInv
  <2>5. t \notin outOfStep => Speaks(t)
    BY <1>a, <2>3 DEF TabsInv
  <2>6. TabsInv'
    <3>1. t \notin outOfStep' =>
            /\ store'.token # None => user[t] # None /\ Owner[store'.token] = user[t].id
            /\ store'.token = None /\ t \notin leaving' => user[t] = None
      BY <2>1, <2>5 DEF Speaks
    <3>2. page'[t] \in Loaders /\ page'[t] = page[t] /\ t \notin outOfStep' \cup leaving' =>
            t \notin outOfStep \cup leaving /\ user[t] # None /\ user[t] # None /\ user[t].id = user[t].id
      BY <2>1, <2>4
    <3>3. \A o \in Tabs : o # t /\ page[o] # "closed" /\ o \notin outOfStep' =>
            o \notin outOfStep /\ store'.token = store.token /\ (o \in leaving <=> o \in leaving')
      BY <2>1
    <3>4. store'.token \in Tokens \cup {None} /\ user[t] \in Users \cup {None}
      BY <1>c, <1>d, <2>1
    <3>5. QED
      BY <2>2, <3>1, <3>2, <3>3, <3>4, ShowScreen
  <2>7. QED
    BY <1>1, <1>a, <2>1, <2>6 DEF StoreInv
<1>7. ASSUME NEW t \in Tabs, Submit(t) PROVE ScreenInv'
  <2>1. /\ Send(t, {page[t]}, calls)
        /\ page[t] \in Forms
        /\ UNCHANGED <<store, page, user, data, leaving, history>>
    BY <1>7 DEF Submit
  <2>2. /\ calls \subseteq calls'
        /\ \A c \in calls' : c \notin calls =>
             c.tab = t /\ c.kind \in {page[t]} /\ c.token = store'.token /\ c.mounted = TRUE
    BY <2>1, Sends
  <2>3. page[t] # "load"
    BY <2>1 DEF Forms
  <2>4. QED
    BY <1>2, <2>1, <2>2, <2>3
\* A change of the session by a tab that renders a page without rows.
<1>8. ASSUME NEW t \in Tabs, NEW p \in Pages, NEW s \in Stores, Change(t, s),
             Show(t, p, s.user, calls) \/ \E c \in calls : Show(t, p, s.user, calls \ {c}),
             leaving \subseteq leaving', leaving' \subseteq leaving \cup {t},
             s.token # None => s.user # None /\ Owner[s.token] = s.user.id,
             s.token = None => s.user = None,
             page'[t] \in Loaders => page'[t] # page[t]
      PROVE  ScreenInv'
  <2>1. /\ store' = s
        /\ mixed' = FALSE
        /\ \A o \in Tabs : o # t /\ page[o] # "closed" => o \in outOfStep'
    BY <1>8, ChangeTabs
  <2>2. s.user \in Users \cup {None} /\ store'.token \in Tokens \cup {None}
    BY <1>8, <2>1 DEF Stores
  <2>3. PICK cs : cs \subseteq calls /\ Show(t, p, s.user, cs)
    <3>1. calls \subseteq calls /\ \A c \in calls : calls \ {c} \subseteq calls
      OBVIOUS
    <3>2. QED
      BY <1>8, <3>1
  <2>4. TabsInv'
    <3>1. page'[t] \in Loaders /\ page'[t] = page[t] /\ t \notin outOfStep' \cup leaving' =>
            t \notin outOfStep \cup leaving /\ user[t] # None /\ s.user # None /\ s.user.id = user[t].id
      BY <1>8
    <3>2. t \notin outOfStep' =>
            /\ store'.token # None => s.user # None /\ Owner[store'.token] = s.user.id
            /\ store'.token = None /\ t \notin leaving' => s.user = None
      BY <1>8, <2>1
    <3>3. \A o \in Tabs : o # t /\ page[o] # "closed" /\ o \notin outOfStep' =>
            o \notin outOfStep /\ store'.token = store.token /\ (o \in leaving <=> o \in leaving')
      BY <2>1
    <3>4. QED
      BY <2>2, <2>3, <3>1, <3>2, <3>3, ShowScreen
  <2>5. StoreInv'
    BY <1>8, <2>1 DEF StoreInv
  <2>6. QED
    BY <1>1, <2>4, <2>5
<1>9. ASSUME NEW t \in Tabs, NEW p \in Pages, NEW u, NEW cs, Show(t, p, u, cs)
      PROVE  page'[t] = Routed(p, u)
  BY <1>9, <1>a DEF Show, TypeOK
<1>10. ASSUME NEW t \in Tabs, Logout(t) PROVE ScreenInv'
  <2>1. Change(t, Empty) /\ Show(t, "login", None, calls) /\ leaving' = leaving
    BY <1>10 DEF Logout
  <2>2. "login" \in Pages
    BY DEF Pages
  <2>3. page'[t] \notin Loaders
    BY <1>9, <2>1, <2>2 DEF Routed, Loaders
  <2>4. QED
    BY <1>8, <2>1, <2>2, <2>3, StoreTypes
<1>11. ASSUME NEW c \in calls, Change(c.tab, Empty), Show(c.tab, page[c.tab], None, calls \ {c}),
              leaving \subseteq leaving', leaving' \subseteq leaving \cup {c.tab}
       PROVE  ScreenInv'
  <2>1. page'[c.tab] = Routed(page[c.tab], None)
    BY <1>9, <1>11, <1>b
  <2>2. page'[c.tab] \notin Loaders
    BY <1>b, <2>1, Routes
  <2>3. QED
    BY <1>8, <1>11, <1>b, <2>2, StoreTypes
<1>12. ASSUME NEW c \in calls, MeFailed(c) PROVE ScreenInv'
  BY <1>11, <1>12 DEF MeFailed
<1>13. ASSUME NEW c \in calls, Unauthorized(c) PROVE ScreenInv'
  <2>1. Change(c.tab, Empty) /\ leaving' = leaving \cup {c.tab}
    BY <1>13 DEF Unauthorized
  <2>2. CASE c.kind = "me"
    BY <1>11, <1>13, <2>1, <2>2 DEF Unauthorized
  <2>3. CASE c.kind # "me"
    <3>1. calls' = calls \ {c} /\ UNCHANGED <<page, user, data>>
      BY <1>13, <2>3 DEF Unauthorized
    <3>2. /\ store' = Empty
          /\ mixed' = FALSE
          /\ \A o \in Tabs : o # c.tab /\ page[o] # "closed" => o \in outOfStep'
      BY <1>b, <2>1, ChangeTabs
    <3>3. TabsInv'
      BY <1>b, <2>1, <3>1, <3>2, StoreTypes DEF TabsInv, Speaks, Shown, Waits
    <3>4. StoreInv'
      BY <3>2, StoreTypes DEF StoreInv
    <3>5. QED
      BY <1>1, <3>3, <3>4
  <2>4. QED
    BY <2>2, <2>3
<1>14. ASSUME NEW c \in calls, SignedIn(c) PROVE ScreenInv'
  <2>1. PICK k \in Tokens :
          /\ Change(c.tab, Session(c.tab, k))
          /\ Show(c.tab, "home", Session(c.tab, k).user, calls \ {c})
    BY <1>14 DEF SignedIn
  <2>2. leaving' = leaving
    BY <1>14 DEF SignedIn
  <2>3. /\ Session(c.tab, k) \in Stores
        /\ Session(c.tab, k).token = k
        /\ Session(c.tab, k).user # None
        /\ Session(c.tab, k).user.id = Owner[k]
    BY <1>b, SessionTypes
  <2>4. "home" \in Pages /\ k # None
    BY NoneAssumption DEF Pages
  <2>5. page'[c.tab] \notin Loaders
    BY <1>9, <1>b, <2>1, <2>4 DEF Routed, Loaders
  <2>6. QED
    BY <1>8, <1>b, <2>1, <2>2, <2>3, <2>4, <2>5
<1>15. ASSUME NEW c \in calls, MeAnswered(c) PROVE ScreenInv'
  <2> DEFINE t == c.tab
             u == Merged(c, user[t])
  <2>1. /\ Accepted(c)
        /\ store' = IF u = None THEN store ELSE [store EXCEPT !.user = u]
        /\ IF u = None
             THEN calls' = calls \ {c} /\ UNCHANGED <<page, user, data>>
             ELSE Show(t, page[t], u, calls \ {c})
        /\ mixed' = (mixed \/ (u # None /\ t \in outOfStep))
        /\ UNCHANGED <<leaving, server, outOfStep>>
    BY <1>15 DEF MeAnswered
  <2>2. /\ t \in Tabs /\ u \in Users \cup {None}
        /\ u = None <=> user[t] = None
        /\ user[t] # None => u.id = user[t].id
    BY <1>b, <1>c, <2>1, MergedTypes
  <2>3. page[t] \in Pages /\ page[t] # "closed"
    BY <1>b
  <2> HIDE DEF t, u
  <2>4. CASE u = None
    <3>1. UNCHANGED <<store, page, user, data>>
      BY <2>1, <2>4
    <3>2. mixed \in BOOLEAN
      BY <1>a DEF TypeOK
    <3>3. mixed' = mixed
      BY <2>1, <2>4, <3>2
    <3>4. \A d \in calls' : d \in calls \/ d.kind # "load"
      BY <2>1, <2>4
    <3>5. \A o \in Tabs : data'[o] = data[o] \/
            (o \notin outOfStep \cup leaving =>
               user[o] # None /\ Owner[data'[o]] = user[o].id)
      BY <3>1
    <3>6. QED
      BY <1>2, <2>1, <3>1, <3>3, <3>4, <3>5
  <2>5. CASE u # None
    <3>1. store'.token = store.token /\ store'.user = u
      BY <1>d, <2>1, <2>5 DEF Stores
    <3>2. t \notin outOfStep => Speaks(t)
      BY <1>a, <2>2, <2>3 DEF TabsInv
    <3>3. StoreInv'
      BY <2>1, <2>2, <2>5, <3>1, <3>2, <1>a DEF StoreInv, Speaks
    <3>4. TabsInv'
      <4>1. t \notin outOfStep' =>
              /\ store'.token # None => u # None /\ Owner[store'.token] = u.id
              /\ store'.token = None /\ t \notin leaving' => u = None
        BY <2>1, <2>2, <3>1, <3>2 DEF Speaks
      <4>2. page'[t] \in Loaders /\ page'[t] = page[t] /\ t \notin outOfStep' \cup leaving' =>
              t \notin outOfStep \cup leaving /\ user[t] # None /\ u # None /\ u.id = user[t].id
        BY <2>1, <2>2, <2>5
      <4>3. \A o \in Tabs : o # t /\ page[o] # "closed" /\ o \notin outOfStep' =>
              o \notin outOfStep /\ store'.token = store.token /\ (o \in leaving <=> o \in leaving')
        BY <2>1, <3>1
      <4>4. store'.token \in Tokens \cup {None} /\ calls \ {c} \subseteq calls
        BY <1>d, <3>1
      <4>5. Show(t, page[t], u, calls \ {c})
        BY <2>1, <2>5
      <4>6. QED
        BY <2>2, <2>3, <4>1, <4>2, <4>3, <4>4, <4>5, ShowScreen
    <3>5. QED
      BY <1>1, <3>3, <3>4
  <2>6. QED
    BY <2>4, <2>5
<1>16. ASSUME NEW c \in calls, LoadAnswered(c) PROVE ScreenInv'
  <2>1. /\ calls' = calls \ {c}
        /\ data' = IF c.mounted THEN [data EXCEPT ![c.tab] = c.token] ELSE data
        /\ c.kind = "load"
        /\ c.token # None
        /\ UNCHANGED <<store, page, user, leaving, server, history>>
    BY <1>16 DEF LoadAnswered, Accepted
  <2>2. c.tab \notin outOfStep \cup leaving => Waits(c)
    BY <1>a DEF TabsInv
  <2>3. \A t \in Tabs : data'[t] = data[t] \/
          (t \notin outOfStep \cup leaving => user[t] # None /\ Owner[data'[t]] = user[t].id)
    BY <1>a, <2>1, <2>2 DEF TypeOK, Waits
  <2>4. QED
    BY <1>2, <2>1, <2>3
<1>17. ASSUME NEW c \in calls, Failed(c) PROVE ScreenInv'
  BY <1>17, <1>2 DEF Failed
<1>18. CASE Expire \/ UNCHANGED vars
  BY <1>18, <1>2 DEF Expire, vars
<1>19. QED
  BY <1>4, <1>5, <1>6, <1>7, <1>10, <1>12, <1>13, <1>14, <1>15, <1>16, <1>17, <1>18 DEF Next, Act, Answer

\* A tab that is open, has seen the last change and is not on its way to
\* /login shows the user whose token the next call carries, and that user's
\* rows (AuthContext.tsx:21-68, api/index.ts:8-32).
THEOREM ScreenSpeaksTrue == Spec => []ScreenSpeaksForItsUser
<1>1. Init => ScreenInv
  BY StoreTypes DEF Init, ScreenInv
<1>2. TypeInv /\ ScreenInv /\ [Next]_vars => (TypeInv /\ ScreenInv)'
  BY StepTypes, ScreenStep
<1>3. ScreenInv => ScreenSpeaksForItsUser
  BY DEF ScreenInv, Speaks, Shown, ScreenSpeaksForItsUser
<1>4. QED
  BY InitTypes, <1>1, <1>2, <1>3, PTL DEF Spec

-----------------------------------------------------------------------------
(* How a session ends.                                                     *)

Cause ==
  store.token \notin expired \cup {None} /\ store'.token = None =>
    \/ \E t \in Tabs : user[t] # None /\ user'[t] = None /\ Ended = {}
    \/ \E c \in Ended : c.kind \in {"me", "login"} \/ c.token # store.token

\* A tab that is left without a user sends nothing.
LEMMA NothingSent ==
  ASSUME NEW t \in Tabs, NEW p \in Pages, NEW cs, Show(t, p, None, cs)
  PROVE  calls' = cs \/ calls' = Unmounted(cs, t)
<1> DEFINE q == Routed(p, None)
           kinds == IF Loads(q, None) THEN {"load"} ELSE {}
           kept == IF q = page[t] THEN cs ELSE Unmounted(cs, t)
<1>1. kinds = {}
  BY Routes DEF Loads
<1>2. Send(t, kinds, kept)
  BY DEF Show
<1>3. Send(t, {}, kept)
  BY <1>1, <1>2
<1>4. calls' = kept
  BY <1>3 DEF Send
<1>5. QED
  BY <1>4

\* Leaving a page makes no call end.
LEMMA UnmountingKeepsIds ==
  ASSUME NEW cs, cs \subseteq Calls, NEW t
  PROVE  /\ \A c \in cs : \E d \in Unmounted(cs, t) : d.id = c.id
         /\ \A d \in Unmounted(cs, t) : \E c \in cs : d.id = c.id
<1> DEFINE Image(c) == IF c.tab = t /\ c.kind # "me" THEN [c EXCEPT !.mounted = FALSE] ELSE c
<1>1. \A c \in cs : Image(c).id = c.id
  BY DEF Calls
<1>2. Unmounted(cs, t) = {Image(c) : c \in cs}
  BY DEF Unmounted
<1> HIDE DEF Image
<1>3. QED
  BY <1>1, <1>2

LEMMA CauseStep == TypeInv /\ [Next]_vars => [Cause]_vars
<1> SUFFICES ASSUME TypeInv, Next, store.token \notin expired \cup {None}, store'.token = None
             PROVE  \/ \E t \in Tabs : user[t] # None /\ user'[t] = None /\ Ended = {}
                    \/ \E c \in Ended : c.kind \in {"me", "login"} \/ c.token # store.token
  BY DEF Cause
<1>a. TypeOK /\ PageInv
  BY DEF TypeInv
<1>b. /\ calls \subseteq Calls
      /\ \A c, d \in calls : c.id = d.id => c = d
      /\ user \in [Tabs -> Users \cup {None}]
  BY <1>a DEF TypeOK, Unique
<1>c. \A c \in calls : c.tab \in Tabs /\ page[c.tab] \in Pages
  BY <1>a DEF TypeOK, PageInv, Calls
<1>d. store' # store
  OBVIOUS
<1>1. ASSUME NEW t \in Tabs, Act(t)
      PROVE  user[t] # None /\ user'[t] = None /\ Ended = {}
  <2>1. Logout(t)
    BY <1>1, <1>d DEF Act, Open, Leave, Load, Close, Visit, Submit
  <2>2. user[t] # None /\ user' = [user EXCEPT ![t] = None] /\ Show(t, "login", None, calls)
    BY <2>1 DEF Logout, Show
  <2>3. calls' = calls \/ calls' = Unmounted(calls, t)
    BY <2>2, NothingSent DEF Pages
  <2>4. \A c \in calls : \E d \in calls' : d.id = c.id
    BY <1>b, <2>3, UnmountingKeepsIds
  <2>5. QED
    BY <1>b, <2>2, <2>4 DEF Ended
\* A call ends when it is not among those that go on.
<1>2. ASSUME NEW c \in calls, calls' = calls \ {c} \/ calls' = Unmounted(calls \ {c}, c.tab)
      PROVE  c \in Ended
  <2>1. \A d \in calls' : \E e \in calls \ {c} : d.id = e.id
    BY <1>2, <1>b, UnmountingKeepsIds
  <2>2. QED
    BY <1>b, <2>1 DEF Ended
<1>3. ASSUME NEW c \in calls, Answer(c)
      PROVE  c \in Ended /\ (c.kind \in {"me", "login"} \/ c.token # store.token)
  <2>1. ~MeAnswered(c)
    <3>1. ASSUME MeAnswered(c) PROVE store'.token = store.token
      <4>1. store' = store \/ \E u : store' = [store EXCEPT !.user = u]
        BY <3>1 DEF MeAnswered
      <4>2. store \in [token: Tokens \cup {None}, user: Users \cup {None}]
        BY <1>a DEF TypeOK
      <4>3. QED
        BY <4>1, <4>2
    <3>2. QED
      BY <3>1
  <2>2. ~SignedIn(c)
    <3>1. ASSUME SignedIn(c) PROVE store'.token # None
      <4>1. PICK k \in Tokens : store' = Session(c.tab, k)
        BY <3>1 DEF SignedIn, Change
      <4>2. QED
        BY <1>c, <4>1, SessionTypes, NoneAssumption
    <3>2. QED
      BY <3>1
  <2>3. ~LoadAnswered(c) /\ ~Failed(c)
    BY <1>d DEF LoadAnswered, Failed
  <2>4. CASE MeFailed(c)
    <3>1. c.kind = "me" /\ Show(c.tab, page[c.tab], None, calls \ {c})
      BY <2>4 DEF MeFailed
    <3>2. calls' = calls \ {c} \/ calls' = Unmounted(calls \ {c}, c.tab)
      BY <1>c, <3>1, NothingSent
    <3>3. QED
      BY <1>2, <3>1, <3>2
  <2>5. CASE Unauthorized(c)
    <3>1. calls' = calls \ {c} \/ calls' = Unmounted(calls \ {c}, c.tab)
      <4>1. CASE c.kind = "me"
        <5>1. Show(c.tab, page[c.tab], None, calls \ {c})
          BY <2>5, <4>1 DEF Unauthorized
        <5>2. QED
          BY <1>c, <5>1, NothingSent
      <4>2. CASE c.kind # "me"
        BY <2>5, <4>2 DEF Unauthorized
      <4>3. QED
        BY <4>1, <4>2
    <3>2. c.kind \in {"me", "login"} \/ c.token # store.token
      BY <2>5 DEF Unauthorized, Refusable
    <3>3. QED
      BY <1>2, <3>1, <3>2
  <2>6. QED
    BY <1>3, <2>1, <2>2, <2>3, <2>4, <2>5 DEF Answer
<1>4. ~Expire
  BY <1>d DEF Expire
<1>5. QED
  BY <1>1, <1>3, <1>4 DEF Next

\* A session whose token is good ends only by a logout, a mistyped password, a
\* failing getMe, or the refusal of a call that another token, or none, was
\* sent with (api/index.ts:27-31, AuthContext.tsx:48-50).
THEOREM SessionsEnd == Spec => SessionsEndForCause
<1>1. TypeInv /\ [Next]_vars => [Cause]_vars
  BY CauseStep
<1>2. TypeInv /\ [Next]_vars => TypeInv'
  BY StepTypes
<1>3. Spec => [][Cause]_vars
  BY InitTypes, <1>1, <1>2, PTL DEF Spec
<1>4. [][Cause]_vars <=> SessionsEndForCause
  BY PTL DEF Cause, SessionsEndForCause
<1>5. QED
  BY <1>3, <1>4, PTL
=============================================================================
