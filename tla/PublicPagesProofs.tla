-------------------------- MODULE PublicPagesProofs --------------------------
(***************************************************************************)
(* What the public pages show, for any projects, categories, page sizes    *)
(* and numbers of loads in flight.                                         *)
(***************************************************************************)
EXTENDS PublicPages, SumTheorems

(* A page of a list is not empty as long as the list reaches it.  The rank *)
(* of a project maps the n projects of a list one to one into 1 .. n, hence*)
(* onto it: each rank is some project's.                                   *)

Rank(S, p) == Cardinality({q \in S : q >= p})

LEMMA RankExists ==
  ASSUME NEW S, S \subseteq Nat, IsFiniteSet(S), NEW m \in 1 .. Cardinality(S)
  PROVE  \E p \in S : Rank(S, p) = m
<1> DEFINE n == Cardinality(S)
           From(p) == {q \in S : q >= p}
           f == [p \in S |-> Rank(S, p)]
<1>1. n \in Nat /\ IsFiniteSet(1 .. n) /\ Cardinality(1 .. n) = n
  BY FS_CardinalityType, FS_Interval
<1>2. ASSUME NEW p \in S
      PROVE  IsFiniteSet(From(p)) /\ Cardinality(From(p)) \in 1 .. n
  <2>1. From(p) \in SUBSET S /\ p \in From(p)
    OBVIOUS
  <2>2. IsFiniteSet(From(p)) /\ Cardinality(From(p)) <= n
    BY <2>1, FS_Subset
  <2>3. Cardinality(From(p)) \in Nat /\ Cardinality(From(p)) # 0
    BY <2>1, <2>2, FS_CardinalityType, FS_EmptySet
  <2>4. QED
    BY <1>1, <2>2, <2>3
<1>3. ASSUME NEW p \in S, NEW q \in S, p < q
      PROVE  Rank(S, p) # Rank(S, q)
  <2>0. p \in Nat /\ q \in Nat /\ \A x \in S : x \in Nat
    OBVIOUS
  <2>1. From(q) \in SUBSET From(p) /\ p \in From(p) /\ p \notin From(q)
    <3>1. \A x \in S : x >= q => x >= p
      BY <1>3, <2>0
    <3>2. p >= p /\ ~(p >= q)
      BY <1>3, <2>0
    <3>3. QED
      BY <3>1, <3>2
  <2>2. Cardinality(From(p)) # Cardinality(From(q))
    BY <1>2, <2>1, FS_Subset
  <2>3. QED
    BY <2>2 DEF Rank
<1>4. f \in Injection(S, 1 .. n)
  <2>1. f \in [S -> 1 .. n]
    BY <1>2 DEF Rank
  <2>2. \A p, q \in S : f[p] = f[q] => p = q
    BY <1>3
  <2>3. QED
    BY <2>1, <2>2 DEF Injection, IsInjective
<1>5. f \in Surjection(S, 1 .. n)
  BY <1>1, <1>4, FS_Injection
<1>6. QED
  BY <1>5 DEF Surjection

\* The larger of one and a number.
LEMMA MaxOfOne ==
  ASSUME NEW n \in Int
  PROVE  Max({1, n}) = IF n >= 1 THEN n ELSE 1
BY DEF Max

LEMMA PagesOfList ==
  ASSUME NEW n \in Nat
  PROVE  /\ TotalPages(n) \in Nat
         /\ \A m \in Nat \ {0} : m <= TotalPages(n) => (m - 1) * PageSize + 1 <= n
<1>1. PageSize \in Nat /\ PageSize >= 1
  BY SizesAssumption
<1> DEFINE a == n + PageSize - 1
           d == a \div PageSize
<1>2. a \in Nat /\ d \in Nat /\ d * PageSize <= a
  BY <1>1
<1>3. ASSUME NEW m \in Nat \ {0}, m <= d PROVE (m - 1) * PageSize + 1 <= n
  <2>1. m * PageSize <= d * PageSize
    BY <1>1, <1>2, <1>3
  <2>2. m * PageSize = (m - 1) * PageSize + PageSize
    BY <1>1
  <2>3. QED
    BY <1>1, <1>2, <2>1, <2>2
<1>4. QED
  BY <1>2, <1>3 DEF TotalPages

InRange(n, S) == n \in 1 .. Max({1, TotalPages(Cardinality(S))})

\* On a page of the list there is something if there is anything at all.
LEMMA SliceInRange ==
  ASSUME NEW S, S \subseteq Nat, IsFiniteSet(S), NEW n \in Nat, InRange(n, S)
  PROVE  Slice(S, n, PageSize) = {} <=> S = {}
<1>1. CASE S = {}
  BY <1>1 DEF Slice
<1>2. CASE S # {}
  <2>1. Cardinality(S) \in Nat /\ Cardinality(S) >= 1 /\ PageSize \in Nat /\ PageSize >= 1
    BY <1>2, FS_CardinalityType, FS_EmptySet, SizesAssumption
  <2>2. n >= 1 /\ (n = 1 \/ n <= TotalPages(Cardinality(S)))
    BY <2>1, PagesOfList, MaxOfOne DEF InRange
  <2>3. (n - 1) * PageSize + 1 \in 1 .. Cardinality(S)
    <3>1. (n - 1) * PageSize + 1 <= Cardinality(S)
      <4>1. CASE n = 1
        BY <2>1, <4>1
      <4>2. CASE n <= TotalPages(Cardinality(S))
        BY <2>1, <2>2, <4>2, PagesOfList
      <4>3. QED
        BY <2>2, <4>1, <4>2
    <3>2. (n - 1) * PageSize \in Nat
      BY <2>1, <2>2
    <3>3. QED
      BY <2>1, <3>1, <3>2
  <2>4. PICK p \in S : Rank(S, p) = (n - 1) * PageSize + 1
    BY <2>3, RankExists
  <2>5. (n - 1) * PageSize + 1 \in (n - 1) * PageSize + 1 .. n * PageSize
    <3>1. n * PageSize = (n - 1) * PageSize + PageSize /\ (n - 1) * PageSize \in Nat
      BY <2>1, <2>2
    <3>2. QED
      BY <2>1, <3>1
  <2>6. p \in Slice(S, n, PageSize)
    BY <2>4, <2>5 DEF Slice, Rank
  <2>7. QED
    BY <1>2, <2>6
<1>3. QED
  BY <1>1, <1>2

-----------------------------------------------------------------------------
(* Types.                                                                  *)

Got(p, got) ==
  /\ DOMAIN got = Parts(p)
  /\ got = [part \in DOMAIN got |-> got[part]]
  /\ p = "projects" => got["count"] \in Nat \cup {None}

Call(p, c) ==
  /\ c = [page |-> c.page, query |-> c.query, newest |-> c.newest, drift |-> c.drift,
          got |-> c.got]
  /\ p \in Pages /\ c.page = p
  /\ c.query \in Queries
  /\ c.newest \in BOOLEAN /\ c.drift \in Nat
  /\ Got(p, c.got)

Answered(p, s) ==
  /\ s.query \in Queries
  /\ s.drift \in Nat
  /\ Got(p, s.got)
  /\ \A part \in Parts(p) : s.got[part] # None

TypeInv ==
  /\ approved \subseteq Projects
  /\ given \in [Users -> Nat]
  /\ page \in Pages \cup {"away"}
  /\ Query \in Queries
  /\ \A c \in calls : Call(page, c)
  /\ shown # None => Answered(page, shown)
  /\ loading \in BOOLEAN /\ fresh \in BOOLEAN /\ steady \in BOOLEAN

LEMMA QueryFields ==
  ASSUME NEW k, NEW n
  PROVE  [category |-> k, number |-> n] \in Queries <=> k \in Picked \cup {"all"} /\ n \in Nat
BY DEF Queries

LEMMA MatchingFinite ==
  ASSUME approved \subseteq Projects, NEW k
  PROVE  /\ Matching(k) \subseteq Nat
         /\ IsFiniteSet(Matching(k))
         /\ Cardinality(Matching(k)) \in Nat
<1>1. Matching(k) \subseteq Projects
  BY DEF Matching
<1>2. QED
  BY <1>1, ProjectsAssumption, FS_Subset, FS_CardinalityType

\* What a change of one field leaves of a call.
LEMMA Aged ==
  ASSUME NEW p, NEW c, Call(p, c), NEW b \in BOOLEAN
  PROVE  LET d == [c EXCEPT !.newest = b] IN
         Call(p, d) /\ d.newest = b /\ d.query = c.query /\ d.got = c.got
BY DEF Call

LEMMA Drifted ==
  ASSUME NEW p, NEW c, Call(p, c), NEW n \in Nat
  PROVE  LET d == [c EXCEPT !.drift = n] IN
         Call(p, d) /\ d.newest = c.newest /\ d.drift = n /\ d.query = c.query /\ d.got = c.got
BY DEF Call

LEMMA Filled ==
  ASSUME NEW p, NEW c, Call(p, c), NEW part \in Parts(p), NEW a,
         part = "count" => a \in Nat
  PROVE  LET d == [c EXCEPT !.got[part] = a] IN
         /\ Call(p, d) /\ d.newest = c.newest /\ d.drift = c.drift /\ d.query = c.query
         /\ d.got = [c.got EXCEPT ![part] = a]
<1> DEFINE d == [c EXCEPT !.got[part] = a]
<1>1. d = [c EXCEPT !.got = [c.got EXCEPT ![part] = a]]
  BY DEF Call
<1>2. Got(p, [c.got EXCEPT ![part] = a])
  BY DEF Call, Got
<1>3. QED
  BY <1>1, <1>2 DEF Call

LEMMA NewCall ==
  ASSUME NEW p \in Pages, NEW q \in Queries
  PROVE  LET c == [page |-> p, query |-> q, newest |-> TRUE, drift |-> 0,
                   got |-> [part \in Parts(p) |-> None]]
         IN  Call(p, c) /\ c.newest /\ c.query = q /\ \A part \in Parts(p) : c.got[part] = None
<1> DEFINE g == [part \in Parts(p) |-> None]
<1>1. Got(p, g)
  BY DEF Got, Parts
<1>2. QED
  BY <1>1 DEF Call

\* What a load leaves in flight.
LEMMA Loads ==
  ASSUME NEW p \in Pages, NEW q \in Queries, NEW kept, \A c \in kept : Call(p, c),
         LoadPage(p, q, kept)
  PROVE  /\ loading' = TRUE /\ fresh' = FALSE
         /\ \A d \in calls' :
              /\ Call(p, d)
              /\ \/ d.newest /\ d.query = q /\ \A part \in Parts(p) : d.got[part] = None
                 \/ ~d.newest /\ \E c \in kept : d.query = c.query /\ d.got = c.got
<1>1. PICK new : /\ new = [page |-> p, query |-> q, newest |-> TRUE, drift |-> 0,
                           got |-> [part \in Parts(p) |-> None]]
                 /\ calls' = {[c EXCEPT !.newest = FALSE] : c \in kept} \cup {new}
  BY DEF LoadPage
<1>2. Call(p, new) /\ new.newest /\ new.query = q /\ \A part \in Parts(p) : new.got[part] = None
  BY <1>1, NewCall
<1>3. ASSUME NEW d \in calls', d # new
      PROVE  Call(p, d) /\ ~d.newest /\ \E c \in kept : d.query = c.query /\ d.got = c.got
  <2>1. PICK c \in kept : d = [c EXCEPT !.newest = FALSE]
    BY <1>1, <1>3
  <2>2. Call(p, c)
    OBVIOUS
  <2>3. PICK b \in BOOLEAN : b = FALSE
    OBVIOUS
  <2>4. d = [c EXCEPT !.newest = b]
    BY <2>1, <2>3
  <2>5. Call(p, d) /\ d.newest = b /\ d.query = c.query /\ d.got = c.got
    BY <2>2, <2>4, Aged
  <2>6. QED
    BY <2>3, <2>5
<1>4. QED
  BY <1>2, <1>3 DEF LoadPage

\* A page that is opened has only its own load in flight.
LEMMA OpeningLoads ==
  ASSUME NEW p \in Pages, NEW q \in Queries, LoadPage(p, q, {})
  PROVE  /\ loading' = TRUE /\ fresh' = FALSE
         /\ \A d \in calls' :
              /\ Call(p, d) /\ d.newest /\ d.query = q
              /\ \A part \in Parts(p) : d.got[part] = None
<1>1. PICK new : /\ new = [page |-> p, query |-> q, newest |-> TRUE, drift |-> 0,
                           got |-> [part \in Parts(p) |-> None]]
                 /\ calls' = {[c EXCEPT !.newest = FALSE] : c \in {}} \cup {new}
  BY DEF LoadPage
<1>2. Call(p, new) /\ new.newest /\ new.query = q /\ \A part \in Parts(p) : new.got[part] = None
  BY <1>1, NewCall
<1>3. \A d \in calls' : d = new
  BY <1>1
<1>4. QED
  BY <1>2, <1>3 DEF LoadPage

\* The list of the projects is asked for with a new category or page.
LEMMA Selected ==
  ASSUME TypeInv, PickPage \/ \E k \in Picked \cup {"all"} : PickCategory(k)
  PROVE  /\ page = "projects" /\ Query' \in Queries
         /\ Select(category', number')
         /\ \/ number' = 1
            \/ /\ ~loading /\ shown # None
               /\ category' = category
               /\ number' \in 1 .. TotalPages(shown.got["count"]) \cup 1 .. number
<1>1. ASSUME NEW k \in Picked \cup {"all"}, PickCategory(k)
      PROVE  page = "projects" /\ Select(k, 1) /\ category' = k /\ number' = 1
  BY <1>1 DEF PickCategory, Select
<1>2. ASSUME PickPage
      PROVE  /\ page = "projects" /\ ~loading /\ shown # None
             /\ category' = category /\ Select(category, number')
             /\ number' \in {1} \cup 1 .. TotalPages(shown.got["count"]) \cup 1 .. number
  <2>1. page = "projects" /\ ~loading /\ shown # None
    BY <1>2 DEF PickPage
  <2>2. "count" \in Parts(page)
    BY <2>1 DEF Parts
  <2>3. shown.got["count"] \in Nat
    BY <2>1, <2>2 DEF TypeInv, Answered, Got
  <2>4. PICK last : last = TotalPages(shown.got["count"])
    OBVIOUS
  <2>5. last \in Nat /\ number \in Nat
    BY <2>3, <2>4, PagesOfList, QueryFields DEF TypeInv, Query
  <2>6. /\ last > 1
        /\ \/ \E n \in 1 .. last : Select(category, n)
           \/ number # 1 /\ Select(category, Max({1, number - 1}))
           \/ number # last /\ Select(category, Min({last, number + 1}))
    BY <1>2, <2>4 DEF PickPage
  <2>7. PICK n \in {1} \cup 1 .. last \cup 1 .. number : Select(category, n)
    <3>1. Max({1, number - 1}) \in {1} \cup 1 .. number
      BY <2>5, MaxOfOne
    <3>2. Min({last, number + 1}) \in 1 .. last
      BY <2>5, <2>6 DEF Min
    <3>3. QED
      BY <2>6, <3>1, <3>2
  <2>8. QED
    BY <2>1, <2>4, <2>5, <2>6, <2>7 DEF Select
<1>3. ASSUME category' \in Picked \cup {"all"}, number' \in Nat PROVE Query' \in Queries
  BY <1>3, QueryFields DEF Query
<1>4. category \in Picked \cup {"all"} /\ number \in Nat
  BY QueryFields DEF TypeInv, Query
<1>5. CASE PickPage
  <2>1. number' \in Nat
    BY <1>2, <1>4, <1>5
  <2>2. Select(category', number')
    BY <1>2, <1>5
  <2>3. QED
    BY <1>2, <1>3, <1>4, <1>5, <2>1, <2>2
<1>6. CASE \E k \in Picked \cup {"all"} : PickCategory(k)
  <2>1. PICK k \in Picked \cup {"all"} : PickCategory(k)
    BY <1>6
  <2>2. page = "projects" /\ Select(k, 1) /\ category' = k /\ number' = 1
    BY <1>1, <2>1
  <2>3. QED
    BY <1>3, <2>2
<1>7. QED
  BY <1>5, <1>6

\* What a save of a user's row leaves of the loads.
LEMMA SaveKeeps ==
  ASSUME TypeInv, NEW u \in Users, SaveUser(u)
  PROVE  /\ UNCHANGED <<approved, page, category, number, shown, loading, fresh, steady>>
         /\ \E total \in Nat :
              /\ given' = [given EXCEPT ![u] = total]
              /\ \A d \in calls' :
                   /\ Call(page, d)
                   /\ \E c \in calls :
                        /\ d.newest = c.newest /\ d.query = c.query /\ d.got = c.got
                        /\ d.drift = IF Halfway(c) THEN c.drift + Gap(given[u], total)
                                      ELSE c.drift
         /\ \A c \in calls : \E d \in calls' : d.newest = c.newest
<1>1. PICK total \in 0 .. MaxGiven :
        /\ given' = [given EXCEPT ![u] = total]
        /\ calls' = {IF Halfway(c) THEN [c EXCEPT !.drift = @ + Gap(given[u], total)] ELSE c :
                       c \in calls}
        /\ UNCHANGED <<approved, page, category, number, shown, loading, fresh, steady>>
  BY DEF SaveUser
<1>2. total \in Nat /\ Gap(given[u], total) \in Nat
  BY BoundsAssumption DEF TypeInv, Gap
<1> DEFINE Moved(c) == IF Halfway(c) THEN [c EXCEPT !.drift = @ + Gap(given[u], total)] ELSE c
<1>3. ASSUME NEW c \in calls
      PROVE  /\ Call(page, Moved(c))
             /\ Moved(c).newest = c.newest /\ Moved(c).query = c.query /\ Moved(c).got = c.got
             /\ Moved(c).drift = IF Halfway(c) THEN c.drift + Gap(given[u], total) ELSE c.drift
  <2>1. Call(page, c)
    BY DEF TypeInv
  <2>2. CASE ~Halfway(c)
    BY <2>1, <2>2
  <2>3. CASE Halfway(c)
    <3>1. PICK n \in Nat : n = c.drift + Gap(given[u], total)
      BY <1>2, <2>1 DEF Call
    <3>2. Moved(c) = [c EXCEPT !.drift = n]
      BY <2>3, <3>1
    <3>3. QED
      BY <2>1, <2>3, <3>1, <3>2, Drifted
  <2>4. QED
    BY <2>2, <2>3
<1> HIDE DEF Moved
<1>4. calls' = {Moved(c) : c \in calls}
  BY <1>1 DEF Moved
<1>5. ASSUME NEW d \in calls'
      PROVE  /\ Call(page, d)
             /\ \E c \in calls :
                  /\ d.newest = c.newest /\ d.query = c.query /\ d.got = c.got
                  /\ d.drift = IF Halfway(c) THEN c.drift + Gap(given[u], total) ELSE c.drift
  <2>1. PICK c \in calls : d = Moved(c)
    BY <1>4
  <2>2. QED
    BY <1>3, <2>1
<1>6. \A c \in calls : \E d \in calls' : d.newest = c.newest
  BY <1>3, <1>4
<1>7. QED
  BY <1>1, <1>2, <1>5, <1>6

LEMMA InitTypes == Init => TypeInv
<1> SUFFICES ASSUME Init PROVE TypeInv
  OBVIOUS
<1>1. Query \in Queries
  BY QueryFields DEF Init, Query
<1>2. 0 .. MaxGiven \subseteq Nat
  BY BoundsAssumption
<1>3. QED
  BY <1>1, <1>2 DEF Init, TypeInv

\* An answer is of the type of its part.
LEMMA AnswerTypes ==
  ASSUME TypeInv, NEW c \in calls, NEW part \in DOMAIN c.got, NEW a \in Answers(c, part)
  PROVE  part \in Parts(page) /\ (part = "count" => a \in Nat)
<1>1. part \in Parts(page)
  BY DEF TypeInv, Call, Got
<1>2. ASSUME part = "count" PROVE a \in Nat
  <2>1. a = Cardinality(Matching(c.query.category))
    BY <1>2 DEF Answers
  <2>2. QED
    BY <2>1, MatchingFinite DEF TypeInv
<1>3. QED
  BY <1>1, <1>2

LEMMA StepTypes == TypeInv /\ [Next]_vars => TypeInv'
<1> SUFFICES ASSUME TypeInv, [Next]_vars PROVE TypeInv'
  OBVIOUS
<1>0. \A c \in calls : Call(page, c)
  BY DEF TypeInv
<1>1. ASSUME NEW p \in Pages, Visit(p) PROVE TypeInv'
  <2>1. [category |-> "all", number |-> 1] \in Queries
    BY QueryFields
  <2>2. LoadPage(p, [category |-> "all", number |-> 1], {})
    BY <1>1 DEF Visit
  <2>3. loading' = TRUE /\ fresh' = FALSE /\ \A d \in calls' : Call(p, d)
    BY <2>1, <2>2, OpeningLoads
  <2>4. Query' \in Queries
    BY <1>1, <2>1 DEF Visit, Query
  <2>5. QED
    BY <1>1, <2>3, <2>4 DEF Visit, TypeInv, server
<1>2. ASSUME PickPage \/ \E k \in Picked \cup {"all"} : PickCategory(k) PROVE TypeInv'
  <2>1. page = "projects" /\ Query' \in Queries /\ Select(category', number')
    BY <1>2, Selected
  <2>2. LoadPage("projects", Query', calls)
    BY <2>1 DEF Select, Query
  <2>3. PICK q : q = Query'
    OBVIOUS
  <2>4. loading' = TRUE /\ fresh' = FALSE /\ \A d \in calls' : Call(page, d)
    <3>1. "projects" \in Pages
      BY DEF Pages
    <3>2. LoadPage("projects", q, calls) /\ q \in Queries
      BY <2>1, <2>2, <2>3
    <3>3. QED
      BY <1>0, <2>1, <3>1, <3>2, Loads
  <2>5. UNCHANGED <<server, page, shown, steady>>
    BY <2>1 DEF Select
  <2>6. QED
    BY <2>1, <2>4, <2>5 DEF TypeInv, server
<1>3. CASE Away
  <2>1. Query' \in Queries
    BY <1>3, QueryFields DEF Away, Query
  <2>2. QED
    BY <1>3, <2>1 DEF Away, TypeInv, server
<1>4. ASSUME NEW c \in calls, Show(c) PROVE TypeInv'
  <2>1. /\ shown' = [query |-> c.query, got |-> c.got, drift |-> c.drift]
        /\ Complete(c) /\ calls' \subseteq calls /\ UNCHANGED <<server, page, category, number>>
        /\ fresh' = c.newest /\ loading' = FALSE /\ steady' = (steady /\ c.newest)
    BY <1>4 DEF Show, Settle
  <2>2. Call(page, c)
    BY <1>0
  <2>3. shown'.query = c.query /\ shown'.got = c.got /\ shown'.drift = c.drift
    BY <2>1
  <2>4. Answered(page, shown')
    BY <2>1, <2>2, <2>3 DEF Answered, Call, Got, Complete
  <2>5. fresh' \in BOOLEAN /\ loading' \in BOOLEAN /\ steady' \in BOOLEAN
    BY <2>1, <2>2 DEF Call
  <2>6. QED
    BY <1>0, <2>1, <2>4, <2>5 DEF TypeInv, server, Query
<1>5. ASSUME NEW c \in calls, Miss(c) PROVE TypeInv'
  BY <1>5 DEF Miss, Settle, TypeInv, server, Query
<1>6. ASSUME NEW c \in calls, NEW part \in DOMAIN c.got, Read(c, part) PROVE TypeInv'
  <2>1. PICK a \in Answers(c, part) : calls' = (calls \ {c}) \cup {[c EXCEPT !.got[part] = a]}
    BY <1>6 DEF Read
  <2>2. part \in Parts(page) /\ (part = "count" => a \in Nat)
    BY <2>1, AnswerTypes
  <2>3. \A d \in calls' : Call(page, d)
    BY <1>0, <2>1, <2>2, Filled
  <2>4. UNCHANGED <<server, page, category, number, shown, loading, fresh, steady>>
    BY <1>6 DEF Read
  <2>5. QED
    BY <2>3, <2>4 DEF TypeInv, server, Query
<1>7. ASSUME NEW p \in Projects, Turn(p) PROVE TypeInv'
  BY <1>7 DEF Turn, TypeInv, Query
<1>8. ASSUME NEW u \in Users, SaveUser(u) PROVE TypeInv'
  <2>1. /\ UNCHANGED <<approved, page, category, number, shown, loading, fresh, steady>>
        /\ given' \in [Users -> Nat]
        /\ \A d \in calls' : Call(page, d)
    BY <1>8, SaveKeeps DEF TypeInv
  <2>2. QED
    BY <2>1 DEF TypeInv, Query
<1>9. CASE UNCHANGED vars
  BY <1>9 DEF vars, server, TypeInv, Query
<1>10. QED
  BY <1>1, <1>2, <1>3, <1>4, <1>5, <1>6, <1>7, <1>8, <1>9 DEF Next

LEMMA AlwaysTyped == Spec => []TypeInv
BY InitTypes, StepTypes, PTL DEF Spec

\* Pages, loads and answers keep their types.
THEOREM TypeCorrect == Spec => []TypeOK
<1>1. TypeInv => TypeOK
  BY DEF TypeInv, TypeOK, Query, Call, Answered, Got
<1>2. QED
  BY <1>1, AlwaysTyped, PTL

-----------------------------------------------------------------------------
(* The list and its buttons.                                               *)

QueryInv ==
  /\ \A c \in calls : c.newest => c.query = Query
  /\ fresh => shown.query = Query

LEMMA StepQuery == TypeInv /\ QueryInv /\ [Next]_vars => QueryInv'
<1> SUFFICES ASSUME TypeInv, QueryInv, [Next]_vars PROVE QueryInv'
  OBVIOUS
<1>0. \A c \in calls : Call(page, c)
  BY DEF TypeInv
<1>1. ASSUME NEW p \in Pages, Visit(p) PROVE QueryInv'
  <2>1. PICK q \in Queries : q = Query' /\ LoadPage(p, q, {})
    BY <1>1, QueryFields DEF Visit, Query
  <2>2. fresh' = FALSE /\ \A d \in calls' : d.query = q
    BY <2>1, OpeningLoads
  <2>3. QED
    BY <2>1, <2>2 DEF QueryInv
<1>2. ASSUME PickPage \/ \E k \in Picked \cup {"all"} : PickCategory(k) PROVE QueryInv'
  <2>1. PICK q \in Queries : q = Query' /\ LoadPage("projects", q, calls) /\ page = "projects"
    BY <1>2, Selected DEF Select, Query
  <2>2. "projects" \in Pages
    BY DEF Pages
  <2>3. fresh' = FALSE /\ \A d \in calls' : d.newest => d.query = q
    BY <1>0, <2>1, <2>2, Loads
  <2>4. QED
    BY <2>1, <2>3 DEF QueryInv
<1>3. CASE Away
  BY <1>3 DEF Away, QueryInv
<1>4. ASSUME NEW c \in calls, Show(c) PROVE QueryInv'
  <2>1. /\ shown'.query = c.query /\ calls' \subseteq calls /\ Query' = Query
        /\ fresh' = c.newest
    BY <1>4 DEF Show, Settle, Query
  <2>2. QED
    BY <2>1 DEF QueryInv
<1>5. ASSUME NEW c \in calls, Miss(c) PROVE QueryInv'
  BY <1>5 DEF Miss, Settle, QueryInv, Query
<1>6. ASSUME NEW c \in calls, NEW part \in DOMAIN c.got, Read(c, part) PROVE QueryInv'
  <2>1. PICK a \in Answers(c, part) : calls' = (calls \ {c}) \cup {[c EXCEPT !.got[part] = a]}
    BY <1>6 DEF Read
  <2>2. part \in Parts(page) /\ (part = "count" => a \in Nat)
    BY <2>1, AnswerTypes
  <2>3. PICK d : d = [c EXCEPT !.got[part] = a] /\ d.newest = c.newest /\ d.query = c.query
    <3>1. PICK d : d = [c EXCEPT !.got[part] = a]
      OBVIOUS
    <3>2. d.newest = c.newest /\ d.query = c.query
      BY <1>0, <2>2, <3>1, Filled
    <3>3. QED
      BY <3>1, <3>2
  <2>4. UNCHANGED <<category, number, shown, fresh>>
    BY <1>6 DEF Read
  <2>5. QED
    BY <2>1, <2>3, <2>4 DEF QueryInv, Query
<1>7. ASSUME NEW p \in Projects, Turn(p) PROVE QueryInv'
  BY <1>7 DEF Turn, QueryInv, Query
<1>8. ASSUME NEW u \in Users, SaveUser(u) PROVE QueryInv'
  <2>1. /\ UNCHANGED <<category, number, shown, fresh>>
        /\ \A d \in calls' : \E c \in calls : d.newest = c.newest /\ d.query = c.query
    BY <1>8, SaveKeeps
  <2>2. QED
    BY <2>1 DEF QueryInv, Query
<1>9. CASE UNCHANGED vars
  BY <1>9 DEF vars, QueryInv, Query
<1>10. QED
  BY <1>1, <1>2, <1>3, <1>4, <1>5, <1>6, <1>7, <1>8, <1>9 DEF Next

\* While a page says it is loading, its last load is in flight.
LoadInv == loading => \E c \in calls : c.newest

LEMMA StepLoad == TypeInv /\ LoadInv /\ [Next]_vars => LoadInv'
<1> SUFFICES ASSUME TypeInv, LoadInv, [Next]_vars PROVE LoadInv'
  OBVIOUS
<1>0. \A c \in calls : Call(page, c)
  BY DEF TypeInv
<1>1. ASSUME NEW p, NEW query, NEW kept, LoadPage(p, query, kept) PROVE LoadInv'
  <2>1. PICK new : new \in calls' /\ new = [page |-> p, query |-> query, newest |-> TRUE,
                                         drift |-> 0, got |-> [part \in Parts(p) |-> None]]
    BY <1>1 DEF LoadPage
  <2>2. new.newest
    BY <2>1
  <2>3. QED
    BY <2>1, <2>2 DEF LoadInv
<1>2. ASSUME NEW c \in calls, NEW part \in DOMAIN c.got, Read(c, part) PROVE LoadInv'
  <2>1. PICK a \in Answers(c, part) : calls' = (calls \ {c}) \cup {[c EXCEPT !.got[part] = a]}
    BY <1>2 DEF Read
  <2>2. part \in Parts(page) /\ (part = "count" => a \in Nat)
    BY <2>1, AnswerTypes
  <2>3. PICK d : d = [c EXCEPT !.got[part] = a]
    OBVIOUS
  <2>4. d.newest = c.newest
    BY <1>0, <2>2, <2>3, Filled
  <2>5. loading' = loading
    BY <1>2 DEF Read
  <2>6. QED
    BY <2>1, <2>3, <2>4, <2>5 DEF LoadInv
<1>3. ASSUME NEW u \in Users, SaveUser(u) PROVE LoadInv'
  <2>1. loading' = loading /\ \A c \in calls : \E d \in calls' : d.newest = c.newest
    BY <1>3, SaveKeeps
  <2>2. QED
    BY <2>1 DEF LoadInv
<1>4. CASE \E p \in Pages : Visit(p)
  BY <1>1, <1>4 DEF Visit
<1>5. CASE PickPage \/ \E k \in Picked \cup {"all"} : PickCategory(k)
  BY <1>1, <1>5, Selected DEF Select
<1>6. CASE Away \/ \E c \in calls : Show(c) \/ Miss(c)
  BY <1>6 DEF Away, Show, Miss, Settle, LoadInv
<1>7. CASE \E p \in Projects : Turn(p)
  BY <1>7 DEF Turn, LoadInv
<1>8. CASE UNCHANGED vars
  BY <1>8 DEF vars, LoadInv
<1>9. QED
  BY <1>2, <1>3, <1>4, <1>5, <1>6, <1>7, <1>8 DEF Next

\* In whatever order the answers to earlier categories and pages arrive, the
\* list that answers the last load is that of the marked buttons, and a page
\* that says it is loading has that load in flight.
THEOREM ListFollowsButtons == Spec => []ListMatchesButtons
<1>1. Init => QueryInv /\ LoadInv
  BY DEF Init, QueryInv, LoadInv
<1>2. QueryInv /\ LoadInv => ListMatchesButtons
  BY DEF QueryInv, LoadInv, ListMatchesButtons
<1>3. QED
  BY <1>1, <1>2, AlwaysTyped, StepQuery, StepLoad, PTL DEF Spec

-----------------------------------------------------------------------------
(* The notice of an empty list.  While every answer comes in order and no  *)
(* project comes or goes, all that was read is what is read now, and the   *)
(* buttons lead to pages the list has.                                     *)

Truthful(query, got) ==
  LET all == Matching(query.category) IN
  /\ got["count"] # None => got["count"] = Cardinality(all)
  /\ got["list"] # None => got["list"] = Slice(all, query.number, PageSize)

NoticeInv ==
  page = "projects" /\ steady =>
    /\ InRange(number, Matching(category))
    /\ \A c \in calls : Truthful(c.query, c.got)
    /\ fresh => /\ Truthful(shown.query, shown.got)
                /\ shown.got["count"] # None
                /\ shown.got["list"] # None
    /\ loading \/ fresh

\* The first page is one the list has, empty or not.
LEMMA FirstPage ==
  ASSUME NEW S, Cardinality(S) \in Nat
  PROVE  InRange(1, S)
<1>1. TotalPages(Cardinality(S)) \in Nat
  BY PagesOfList
<1>2. Max({1, TotalPages(Cardinality(S))}) \in Nat /\ Max({1, TotalPages(Cardinality(S))}) >= 1
  BY <1>1, MaxOfOne
<1>3. QED
  BY <1>2 DEF InRange

\* An answer tells what the database holds.
LEMMA AnswersAreTrue ==
  ASSUME TypeInv, page = "projects", NEW c \in calls, NEW part \in DOMAIN c.got,
         NEW a \in Answers(c, part), Truthful(c.query, c.got)
  PROVE  Truthful(c.query, [c.got EXCEPT ![part] = a])
<1>1. c.page = "projects" /\ DOMAIN c.got = {"count", "list"}
  BY DEF TypeInv, Call, Got, Parts
<1>2. CASE part = "count"
  <2>1. a = Cardinality(Matching(c.query.category))
    BY <1>2 DEF Answers
  <2>2. QED
    BY <1>1, <1>2, <2>1 DEF Truthful
<1>3. CASE part = "list"
  <2>1. a = Slice(Matching(c.query.category), c.query.number, PageSize)
    BY <1>1, <1>3 DEF Answers
  <2>2. QED
    BY <1>1, <1>3, <2>1 DEF Truthful
<1>4. QED
  BY <1>1, <1>2, <1>3

\* The buttons lead to pages the list has.
LEMMA ButtonsInRange ==
  ASSUME TypeInv, QueryInv, NoticeInv, steady,
         PickPage \/ \E k \in Picked \cup {"all"} : PickCategory(k)
  PROVE  InRange(number', Matching(category'))
<1>1. /\ page = "projects"
      /\ \/ number' = 1
         \/ /\ ~loading /\ shown # None
            /\ category' = category
            /\ number' \in 1 .. TotalPages(shown.got["count"]) \cup 1 .. number
  BY Selected
<1>2. CASE number' = 1
  BY <1>2, MatchingFinite, FirstPage DEF TypeInv
<1>3. CASE number' # 1
  <2>1. category' = category /\ ~loading
    BY <1>1, <1>3
  <2>2. shown.got["count"] = Cardinality(Matching(category))
    BY <1>1, <2>1 DEF NoticeInv, QueryInv, Query, Truthful
  <2>3. PICK n \in Nat : n = TotalPages(Cardinality(Matching(category)))
    BY MatchingFinite, PagesOfList DEF TypeInv
  <2>4. number \in 1 .. Max({1, n}) /\ Max({1, n}) = IF n >= 1 THEN n ELSE 1
    BY <1>1, <2>3, MaxOfOne DEF NoticeInv, InRange
  <2>5. number' \in 1 .. n \cup 1 .. number
    BY <1>1, <1>3, <2>2, <2>3
  <2>6. number' \in 1 .. Max({1, n})
    BY <2>4, <2>5
  <2>7. QED
    BY <2>1, <2>3, <2>6 DEF InRange
<1>4. QED
  BY <1>2, <1>3

LEMMA StepNotice == TypeInv /\ QueryInv /\ NoticeInv /\ [Next]_vars => NoticeInv'
<1> SUFFICES ASSUME TypeInv, QueryInv, NoticeInv, [Next]_vars PROVE NoticeInv'
  OBVIOUS
<1>0. \A c \in calls : Call(page, c)
  BY DEF TypeInv
<1>1. ASSUME NEW p \in Pages, Visit(p) PROVE NoticeInv'
  <2>1. SUFFICES ASSUME p = "projects" PROVE NoticeInv'
    BY <1>1 DEF Visit, NoticeInv
  <2>2. PICK q \in Queries : LoadPage(p, q, {})
    BY <1>1, QueryFields DEF Visit
  <2>3. /\ loading' = TRUE /\ fresh' = FALSE
        /\ \A d \in calls' : \A part \in Parts(p) : d.got[part] = None
    BY <2>2, OpeningLoads
  <2>4. \A d \in calls' : d.got["count"] = None /\ d.got["list"] = None
    BY <2>1, <2>3 DEF Parts
  <2>5. approved' = approved /\ number' = 1 /\ Cardinality(Matching(category')) \in Nat
    BY <1>1, MatchingFinite DEF Visit, server, TypeInv
  <2>6. InRange(number, Matching(category))'
    BY <2>5, FirstPage DEF Matching, InRange
  <2>7. QED
    BY <2>3, <2>4, <2>6 DEF NoticeInv, Truthful
<1>2. ASSUME PickPage \/ \E k \in Picked \cup {"all"} : PickCategory(k) PROVE NoticeInv'
  <2>1. PICK q \in Queries : LoadPage("projects", q, calls) /\ page = "projects"
    BY <1>2, Selected DEF Select, Query
  <2>2. "projects" \in Pages
    BY DEF Pages
  <2>3. UNCHANGED <<server, page, shown, steady>>
    BY <1>2, Selected DEF Select
  <2>4. SUFFICES ASSUME steady PROVE NoticeInv'
    BY <2>3 DEF NoticeInv
  <2>5. \A c \in calls : Truthful(c.query, c.got)
    BY <2>1, <2>4 DEF NoticeInv
  <2>6. /\ loading' = TRUE /\ fresh' = FALSE
        /\ \A d \in calls' :
             \/ \A part \in Parts("projects") : d.got[part] = None
             \/ \E c \in calls : d.query = c.query /\ d.got = c.got
    BY <1>0, <2>1, <2>2, Loads
  <2>7. \A d \in calls' : Truthful(d.query, d.got)
    BY <2>5, <2>6 DEF Parts, Truthful
  <2>8. \A d \in calls' : Truthful(d.query, d.got)'
    BY <2>3, <2>7 DEF Truthful, Matching, server
  <2>9. InRange(number, Matching(category))'
    BY <1>2, <2>3, <2>4, ButtonsInRange DEF InRange, Matching, server
  <2>10. QED
    BY <2>6, <2>8, <2>9 DEF NoticeInv
<1>3. CASE Away
  BY <1>3 DEF Away, NoticeInv
<1>4. ASSUME NEW c \in calls, Show(c) PROVE NoticeInv'
  <2>1. /\ shown'.query = c.query /\ shown'.got = c.got
        /\ calls' \subseteq calls /\ UNCHANGED <<server, page, category, number>>
        /\ fresh' = c.newest /\ steady' = (steady /\ c.newest) /\ Complete(c)
    BY <1>4 DEF Show, Settle
  <2>2. SUFFICES ASSUME page = "projects", steady, c.newest PROVE NoticeInv'
    BY <2>1 DEF NoticeInv
  <2>3. "count" \in DOMAIN c.got /\ "list" \in DOMAIN c.got
    BY <1>0, <2>2 DEF Call, Got, Parts
  <2>4. c.got["count"] # None /\ c.got["list"] # None
    BY <2>1, <2>3 DEF Complete
  <2>5. QED
    BY <2>1, <2>2, <2>4 DEF NoticeInv, Truthful, Matching, server
<1>5. ASSUME NEW c \in calls, Miss(c) PROVE NoticeInv'
  BY <1>5 DEF Miss, NoticeInv
<1>6. ASSUME NEW c \in calls, NEW part \in DOMAIN c.got, Read(c, part) PROVE NoticeInv'
  <2>1. PICK a \in Answers(c, part) : calls' = (calls \ {c}) \cup {[c EXCEPT !.got[part] = a]}
    BY <1>6 DEF Read
  <2>2. part \in Parts(page) /\ (part = "count" => a \in Nat)
    BY <2>1, AnswerTypes
  <2>3. PICK d : /\ d = [c EXCEPT !.got[part] = a]
                 /\ d.query = c.query /\ d.got = [c.got EXCEPT ![part] = a]
    <3>1. PICK d : d = [c EXCEPT !.got[part] = a]
      OBVIOUS
    <3>2. d.query = c.query /\ d.got = [c.got EXCEPT ![part] = a]
      BY <1>0, <2>2, <3>1, Filled
    <3>3. QED
      BY <3>1, <3>2
  <2>4. UNCHANGED <<server, page, category, number, shown, loading, fresh, steady>>
    BY <1>6 DEF Read
  <2>5. SUFFICES ASSUME page = "projects", steady PROVE NoticeInv'
    BY <2>4 DEF NoticeInv
  <2>6. Truthful(d.query, d.got)
    BY <2>3, <2>5, AnswersAreTrue DEF NoticeInv
  <2>7. \A e \in calls' : Truthful(e.query, e.got)
    BY <2>1, <2>3, <2>5, <2>6 DEF NoticeInv
  <2>8. QED
    BY <2>4, <2>5, <2>7 DEF NoticeInv, Truthful, Matching, server
<1>7. ASSUME NEW p \in Projects, Turn(p) PROVE NoticeInv'
  BY <1>7 DEF Turn, NoticeInv
<1>8. ASSUME NEW u \in Users, SaveUser(u) PROVE NoticeInv'
  <2>1. /\ UNCHANGED <<approved, page, category, number, shown, loading, fresh, steady>>
        /\ \A d \in calls' : \E c \in calls : d.got = c.got /\ d.query = c.query
    BY <1>8, SaveKeeps
  <2>2. QED
    BY <2>1 DEF NoticeInv, Truthful, Matching
<1>9. CASE UNCHANGED vars
  BY <1>9 DEF vars, server, NoticeInv, Truthful, Matching
<1>10. QED
  BY <1>1, <1>2, <1>3, <1>4, <1>5, <1>6, <1>7, <1>8, <1>9 DEF Next

\* As long as every answer comes in order and no project comes or goes, the
\* list never ends up behind its last page, and is empty only if the category
\* is, for any page size and any number of projects.
THEOREM NoticesAreTrue == Spec => []NoticeIsTrue
<1>1. Init => QueryInv /\ NoticeInv
  BY DEF Init, QueryInv, NoticeInv
<1>2. TypeInv /\ QueryInv /\ NoticeInv => NoticeIsTrue
  <2> SUFFICES ASSUME TypeInv, QueryInv, NoticeInv, page = "projects", steady, fresh
               PROVE  /\ number \in 1 .. Max({1, TotalPages(shown.got["count"])})
                      /\ shown.got["list"] = {} <=> Matching(category) = {}
    BY DEF NoticeIsTrue
  <2>1. /\ InRange(number, Matching(category))
        /\ shown.got["count"] = Cardinality(Matching(category))
        /\ shown.got["list"] = Slice(Matching(category), number, PageSize)
    BY DEF NoticeInv, QueryInv, Query, Truthful
  <2>2. number \in Nat
    BY QueryFields DEF TypeInv, Query
  <2>3. QED
    BY <2>1, <2>2, MatchingFinite, SliceInRange DEF InRange, TypeInv
<1>3. QED
  BY <1>1, <1>2, AlwaysTyped, StepQuery, StepNotice, PTL DEF Spec

-----------------------------------------------------------------------------
(* The figures of the front page.  They are read one by one, so those read *)
(* so far have to be within the drift of what the database holds by now,   *)
(* until both are there.                                                   *)

AddsUp(ranking, stats, drift) ==
  LET sum == Total(ranking, DOMAIN ranking)
  IN /\ sum \in Nat /\ stats.donations \in Nat /\ drift \in Nat
     /\ sum <= stats.donations + drift
     /\ Cardinality(DOMAIN ranking) < Top => stats.donations <= sum + drift

IsNear(stats, now, drift) ==
  /\ stats.donations \in Nat /\ now.donations \in Nat /\ drift \in Nat
  /\ stats.donations <= now.donations + drift
  /\ now.donations <= stats.donations + drift

Fit(ranking, stats, now, drift) ==
  /\ ranking # None /\ stats # None => AddsUp(ranking, stats, drift)
  /\ ranking # None /\ stats = None => AddsUp(ranking, now, drift)
  /\ ranking = None /\ stats # None => IsNear(stats, now, drift)

Figures(c) == Fit(c.got["donation"], c.got["stats"], Stats, c.drift)

FrontInv ==
  page = "home" =>
    /\ \A c \in calls : Figures(c)
    /\ shown # None => AddsUp(shown.got["donation"], shown.got["stats"], shown.drift)

\* At any one moment the ranking and the total fit together: the ranked are
\* among those who are counted, and the others gave nothing unless a rank was
\* cut off.
LEMMA QueriesAddUp ==
  ASSUME given \in [Users -> Nat], NEW ranking \in Ranking(given, Top)
  PROVE  AddsUp(ranking, Stats, 0)
<1> DEFINE people == {u \in Users : Role[u] = "user"}
           ranked == {u \in Users : Role[u] = "user" /\ given[u] > 0}
<1>1. PICK best \in SUBSET Users :
        IsTop(best, given, Top) /\ ranking = [u \in best |-> given[u]]
  BY DEF Ranking
<1>2. /\ best \subseteq ranked
      /\ IF Cardinality(ranked) <= Top THEN best = ranked ELSE Cardinality(best) = Top
  BY <1>1 DEF IsTop
<1>3. best \in SUBSET people /\ IsFiniteSet(people) /\ IsFiniteSet(best)
  BY <1>2, UsersAssumption, FS_Subset
<1>4. Total(ranking, best) = Total(given, best)
  BY <1>1, <1>3, TotalAgrees
<1>5. /\ Total(given, best) <= Total(given, people)
      /\ (\A u \in people \ best : given[u] = 0) => Total(given, best) = Total(given, people)
  BY <1>3, TotalOfPart
<1>6. ASSUME Cardinality(best) < Top PROVE \A u \in people \ best : given[u] = 0
  <2>1. best = ranked
    BY <1>2, <1>6, SizesAssumption
  <2>2. QED
    BY <2>1
<1>7. DOMAIN ranking = best /\ Stats.donations = Total(given, people)
  BY <1>1 DEF Stats
<1>8. Total(given, best) \in Nat /\ Total(given, people) \in Nat
  BY <1>3, TotalType
<1>9. QED
  BY <1>4, <1>5, <1>6, <1>7, <1>8 DEF AddsUp

\* The total of one moment is a number, and near itself.
LEMMA StatsType ==
  ASSUME given \in [Users -> Nat]
  PROVE  Stats.donations \in Nat
<1> DEFINE people == {u \in Users : Role[u] = "user"}
<1>1. IsFiniteSet(people)
  BY UsersAssumption, FS_Subset
<1>2. Total(given, people) \in Nat
  BY <1>1, TotalType
<1>3. QED
  BY <1>2 DEF Stats

\* An answer fits those that were read before it.
LEMMA AnswersAddUp ==
  ASSUME TypeInv, page = "home", NEW c \in calls, Figures(c),
         NEW part \in DOMAIN c.got, c.got[part] = None, NEW a \in Answers(c, part),
         NEW d, d.got = [c.got EXCEPT ![part] = a], d.drift = c.drift
  PROVE  Figures(d)
<1>1. c.page = "home" /\ DOMAIN c.got = {"list", "donation", "stats"} /\ c.drift \in Nat
  BY DEF TypeInv, Call, Got, Parts
<1>2. Stats.donations \in Nat
  BY StatsType DEF TypeInv
<1>3. CASE part = "donation"
  <2>1. AddsUp(a, Stats, 0)
    BY <1>1, <1>3, QueriesAddUp DEF Answers, TypeInv
  <2>2. d.got["donation"] = a /\ d.got["stats"] = c.got["stats"] /\ c.got["donation"] = None
    BY <1>1, <1>3
  <2>3. AddsUp(a, Stats, c.drift)
    BY <1>1, <2>1 DEF AddsUp
  <2>4. ASSUME c.got["stats"] # None PROVE AddsUp(a, c.got["stats"], c.drift)
    <3>1. IsNear(c.got["stats"], Stats, c.drift)
      BY <2>2, <2>4 DEF Figures, Fit
    <3>2. QED
      BY <2>1, <3>1 DEF AddsUp, IsNear
  <2>5. QED
    BY <2>2, <2>3, <2>4 DEF Figures, Fit
<1>4. CASE part = "stats"
  <2>1. a = Stats
    BY <1>1, <1>4 DEF Answers
  <2>2. d.got["stats"] = a /\ d.got["donation"] = c.got["donation"] /\ c.got["stats"] = None
    BY <1>1, <1>4
  <2>3. IsNear(Stats, Stats, c.drift)
    BY <1>1, <1>2 DEF IsNear
  <2>4. QED
    BY <2>1, <2>2, <2>3 DEF Figures, Fit
<1>5. CASE part = "list"
  <2>1. d.got["stats"] = c.got["stats"] /\ d.got["donation"] = c.got["donation"]
    BY <1>1, <1>5
  <2>2. QED
    BY <2>1 DEF Figures
<1>6. QED
  BY <1>1, <1>3, <1>4, <1>5

\* A save of a user's row moves the total by no more than that row.
LEMMA TotalDrifts ==
  ASSUME given \in [Users -> Nat], NEW u \in Users, NEW total \in Nat,
         given' = [given EXCEPT ![u] = total]
  PROVE  IsNear(Stats, Stats', Gap(given[u], total))
<1> DEFINE people == {v \in Users : Role[v] = "user"}
<1>1. IsFiniteSet(people) /\ people \subseteq Users
  BY UsersAssumption, FS_Subset
<1>2. PICK f, g : f = given /\ g = given'
  OBVIOUS
<1>3. \A v \in Users : f[v] \in Nat /\ g[v] \in Nat /\ (v # u => f[v] = g[v])
  BY <1>2
<1>4. Total(f, people) \in Nat /\ Total(g, people) \in Nat
  BY <1>1, <1>3, TotalType
<1>5. CASE u \in people
  <2>1. Total(g, people) = Total(f, people) + g[u] - f[u]
    BY <1>1, <1>3, <1>5, TotalChanges, ZenonT(60)
  <2>2. g[u] = total /\ f[u] = given[u] /\ f[u] \in Nat
    BY <1>2, <1>3
  <2>3. Stats.donations = Total(f, people) /\ Stats'.donations = Total(g, people)
    BY <1>2 DEF Stats
  <2>4. QED
    BY <1>4, <2>1, <2>2, <2>3 DEF IsNear, Gap
<1>6. CASE u \notin people
  <2>1. Total(g, people) = Total(f, people)
    BY <1>1, <1>3, <1>6, TotalAgrees
  <2>2. f[u] = given[u] /\ f[u] \in Nat
    BY <1>2, <1>3
  <2>3. Stats.donations = Total(f, people) /\ Stats'.donations = Total(g, people)
    BY <1>2 DEF Stats
  <2>4. QED
    BY <1>4, <2>1, <2>2, <2>3 DEF IsNear, Gap
<1>7. QED
  BY <1>5, <1>6

\* Its loads keep fitting, those that are half read by the drift it adds.
LEMMA FiguresDrift ==
  ASSUME TypeInv, page = "home", NEW u \in Users, NEW total \in Nat,
         given' = [given EXCEPT ![u] = total], NEW c \in calls, Figures(c),
         NEW d, d.got = c.got,
         d.drift = IF Halfway(c) THEN c.drift + Gap(given[u], total) ELSE c.drift
  PROVE  Figures(d)'
<1>1. c.page = "home" /\ c.drift \in Nat
  BY DEF TypeInv, Call
<1>2. PICK now, then : now = Stats' /\ then = Stats
  OBVIOUS
<1>3. PICK gap \in Nat : gap = Gap(given[u], total) /\ IsNear(then, now, gap)
  <2>1. IsNear(then, now, Gap(given[u], total))
    BY <1>2, TotalDrifts DEF TypeInv
  <2>2. QED
    BY <2>1 DEF IsNear
<1>4. PICK ranking, stats : ranking = c.got["donation"] /\ stats = c.got["stats"]
  OBVIOUS
<1>5. Fit(ranking, stats, then, c.drift)
  BY <1>2, <1>4 DEF Figures
<1>6. Halfway(c) <=> ~(ranking = None <=> stats = None)
  BY <1>1, <1>4 DEF Halfway
<1>7. Fit(ranking, stats, now, d.drift)
  <2>1. CASE Halfway(c)
    <3>1. d.drift = c.drift + gap
      BY <1>3, <2>1
    <3>2. CASE ranking # None
      BY <1>1, <1>3, <1>5, <1>6, <2>1, <3>1, <3>2 DEF Fit, AddsUp, IsNear
    <3>3. CASE ranking = None
      BY <1>1, <1>3, <1>5, <1>6, <2>1, <3>1, <3>3 DEF Fit, IsNear
    <3>4. QED
      BY <3>2, <3>3
  <2>2. CASE ~Halfway(c)
    BY <1>5, <1>6, <2>2 DEF Fit
  <2>3. QED
    BY <2>1, <2>2
<1>8. QED
  BY <1>2, <1>4, <1>7 DEF Figures

\* As long as no user's row is saved, what was read fits as before.
LEMMA FiguresStay ==
  ASSUME given' = given
  PROVE  \A c : Figures(c)' <=> Figures(c)
BY DEF Figures, Stats

LEMMA StepFront == TypeInv /\ FrontInv /\ [Next]_vars => FrontInv'
<1> SUFFICES ASSUME TypeInv, FrontInv, [Next]_vars PROVE FrontInv'
  OBVIOUS
<1>0. \A c \in calls : Call(page, c)
  BY DEF TypeInv
<1>1. ASSUME NEW p \in Pages, Visit(p) PROVE FrontInv'
  <2>1. PICK q \in Queries : LoadPage(p, q, {})
    BY <1>1, QueryFields DEF Visit
  <2>2. \A d \in calls' : DOMAIN d.got = Parts(p) /\ \A part \in Parts(p) : d.got[part] = None
    BY <2>1, OpeningLoads DEF Call, Got
  <2>3. SUFFICES ASSUME p = "home" PROVE FrontInv'
    BY <1>1 DEF Visit, FrontInv
  <2>4. \A d \in calls' : d.got["donation"] = None /\ d.got["stats"] = None
    BY <2>2, <2>3 DEF Parts
  <2>5. shown' = None
    BY <1>1 DEF Visit
  <2>6. QED
    BY <2>4, <2>5 DEF FrontInv, Figures, Fit
<1>2. ASSUME PickPage \/ \E k \in Picked \cup {"all"} : PickCategory(k) PROVE FrontInv'
  BY <1>2, Selected DEF Select, FrontInv
<1>3. CASE Away
  BY <1>3 DEF Away, FrontInv
<1>4. ASSUME NEW c \in calls, Show(c) PROVE FrontInv'
  <2>1. /\ shown'.got = c.got /\ shown'.drift = c.drift /\ Complete(c)
        /\ calls' \subseteq calls /\ UNCHANGED <<given, page>>
    BY <1>4 DEF Show, Settle, server
  <2>2. SUFFICES ASSUME page = "home" PROVE FrontInv'
    BY <2>1 DEF FrontInv
  <2>3. "donation" \in DOMAIN c.got /\ "stats" \in DOMAIN c.got
    BY <1>0, <2>2 DEF Call, Got, Parts
  <2>4. AddsUp(c.got["donation"], c.got["stats"], c.drift)
    BY <2>1, <2>2, <2>3 DEF FrontInv, Figures, Fit, Complete
  <2>5. \A d \in calls' : Figures(d)'
    BY <2>1, <2>2, FiguresStay DEF FrontInv
  <2>6. AddsUp(shown.got["donation"], shown.got["stats"], shown.drift)'
    BY <2>1, <2>4 DEF AddsUp
  <2>7. QED
    BY <2>5, <2>6 DEF FrontInv
<1>5. ASSUME NEW c \in calls, Miss(c) PROVE FrontInv'
  <2>1. calls' \subseteq calls /\ UNCHANGED <<given, page, shown>>
    BY <1>5 DEF Miss, Settle, server
  <2>2. QED
    BY <2>1, FiguresStay DEF FrontInv
<1>6. ASSUME NEW c \in calls, NEW part \in DOMAIN c.got, Read(c, part) PROVE FrontInv'
  <2>1. PICK a \in Answers(c, part) : calls' = (calls \ {c}) \cup {[c EXCEPT !.got[part] = a]}
    BY <1>6 DEF Read
  <2>2. part \in Parts(page) /\ (part = "count" => a \in Nat)
    BY <2>1, AnswerTypes
  <2>3. PICK d : /\ d = [c EXCEPT !.got[part] = a]
                 /\ d.drift = c.drift /\ d.got = [c.got EXCEPT ![part] = a]
    <3>1. PICK d : d = [c EXCEPT !.got[part] = a]
      OBVIOUS
    <3>2. d.drift = c.drift /\ d.got = [c.got EXCEPT ![part] = a]
      BY <1>0, <2>2, <3>1, Filled
    <3>3. QED
      BY <3>1, <3>2
  <2>4. c.got[part] = None /\ UNCHANGED <<given, page, shown>>
    BY <1>6 DEF Read, server
  <2>5. SUFFICES ASSUME page = "home" PROVE FrontInv'
    BY <2>4 DEF FrontInv
  <2>6. Figures(d)
    BY <2>3, <2>4, <2>5, AnswersAddUp DEF FrontInv
  <2>7. \A e \in calls' : Figures(e)
    BY <2>1, <2>3, <2>5, <2>6 DEF FrontInv
  <2>8. QED
    BY <2>4, <2>5, <2>7, FiguresStay DEF FrontInv
<1>7. ASSUME NEW p \in Projects, Turn(p) PROVE FrontInv'
  BY <1>7, FiguresStay DEF Turn, FrontInv
<1>8. ASSUME NEW u \in Users, SaveUser(u) PROVE FrontInv'
  <2>1. PICK total \in Nat :
          /\ given' = [given EXCEPT ![u] = total]
          /\ \A d \in calls' : \E c \in calls :
               /\ d.got = c.got
               /\ d.drift = IF Halfway(c) THEN c.drift + Gap(given[u], total) ELSE c.drift
    BY <1>8, SaveKeeps
  <2>2. UNCHANGED <<page, shown>>
    BY <1>8, SaveKeeps
  <2>3. SUFFICES ASSUME page = "home" PROVE FrontInv'
    BY <2>2 DEF FrontInv
  <2>4. \A c \in calls : Figures(c)
    BY <2>3 DEF FrontInv
  <2>5. ASSUME NEW d \in calls' PROVE Figures(d)'
    BY <2>1, <2>3, <2>4, FiguresDrift
  <2>6. (shown # None => AddsUp(shown.got["donation"], shown.got["stats"], shown.drift))'
    BY <2>2, <2>3 DEF FrontInv, AddsUp
  <2>7. QED
    BY <2>5, <2>6 DEF FrontInv
<1>9. CASE UNCHANGED vars
  BY <1>9, FiguresStay DEF vars, server, FrontInv
<1>10. QED
  BY <1>1, <1>2, <1>3, <1>4, <1>5, <1>6, <1>7, <1>8, <1>9 DEF Next

\* The ranking and the total of the front page differ by no more than what was
\* done to the users between the two queries, donations and profile changes
\* that take an amount back, for any number of users, ranks and saves.
THEOREM FrontPageFigures == Spec => []FrontPageAddsUp
<1>1. Init => FrontInv
  BY DEF Init, FrontInv
<1>2. FrontInv => FrontPageAddsUp
  BY DEF FrontInv, FrontPageAddsUp, AddsUp
<1>3. QED
  BY <1>1, <1>2, AlwaysTyped, StepFront, PTL DEF Spec
=============================================================================
