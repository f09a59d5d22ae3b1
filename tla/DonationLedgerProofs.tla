------------------------ MODULE DonationLedgerProofs ------------------------
(***************************************************************************)
(* The properties of DonationLedger for every set of requests, users and   *)
(* projects, every pool and every initial table.                           *)
(***************************************************************************)
EXTENDS DonationLedger, SumTheorems

-----------------------------------------------------------------------------
(* Facts about the rounding of decimal(14,2) columns, for every amount.    *)

\* What a column stores is a whole number of cents.
LEMMA DecIsDec ==
  ASSUME NEW x \in Nat
  PROVE  IsDec(Dec(x))
<1>1. (x + 5) \div 10 \in Nat
  OBVIOUS
<1>2. QED
  BY <1>1 DEF Dec, IsDec

\* However the float64 sum comes out, rounding it to cents is the same as
\* adding the rounded amount, unless the amount is one of about half a cent:
\* then the row of the donation and its credit may differ by one cent.
LEMMA DecOfFloatSum ==
  ASSUME NEW c, IsDec(c), NEW a \in Nat, a > 0, NEW x \in FloatSum(c, a)
  PROVE  /\ x \in Nat
         /\ Dec(x) \in Near(c + Dec(a), IF HalfCent(a) THEN 1 ELSE 0)
<1>1. PICK k \in Nat : c = 10 * k
  <2>1. c = 10 * (c \div 10) /\ c \div 10 \in Nat
    BY DEF IsDec
  <2>2. QED
    BY <2>1
<1>2. PICK q \in Nat, m \in 0..9 : a = 10 * q + m /\ a % 10 = m
  <2>1. a = 10 * (a \div 10) + (a % 10) /\ a \div 10 \in Nat /\ a % 10 \in 0..9
    OBVIOUS
  <2>2. QED
    BY <2>1
<1>3. PICK e \in -1 .. 1 : x = 10 * k + 10 * q + m + e
  <2>1. x - (10 * k + 10 * q + m) \in -1 .. 1 /\ x \in Int
    BY <1>1, <1>2 DEF FloatSum
  <2>2. QED
    BY <2>1, <1>1, <1>2
<1>4. x \in Nat
  BY <1>1, <1>2, <1>3
<1>5. Dec(a) = 10 * q + (IF m >= 5 THEN 10 ELSE 0)
  <2>1. (10 * q + m + 5) \div 10 = q + (IF m >= 5 THEN 1 ELSE 0)
    OBVIOUS
  <2>2. QED
    BY <1>2, <2>1 DEF Dec
<1>6. Dec(x) = 10 * k + 10 * q + (IF m + e >= 5 THEN 10 ELSE 0)
  <2>1. (10 * k + 10 * q + m + e + 5) \div 10 = k + q + (IF m + e >= 5 THEN 1 ELSE 0)
    OBVIOUS
  <2>2. QED
    BY <1>3, <2>1 DEF Dec
<1>7. CASE HalfCent(a)
  <2>1. Dec(x) - (c + Dec(a)) \in {-10, 0, 10}
    BY <1>1, <1>5, <1>6
  <2>2. PICK i \in -1 .. 1 : Dec(x) = c + Dec(a) + 10 * i
    BY <1>1, <1>5, <1>6, <2>1
  <2>3. QED
    BY <1>4, <1>7, <2>2 DEF Near
<1>8. CASE ~HalfCent(a)
  <2>1. m + e >= 5 <=> m >= 5
    BY <1>2, <1>8 DEF HalfCent
  <2>2. Dec(x) = c + Dec(a) + 10 * 0
    BY <1>1, <1>5, <1>6, <2>1
  <2>3. QED
    BY <1>4, <1>8, <2>2 DEF Near
<1>9. QED
  BY <1>7, <1>8

\* Rounding never takes an amount below whole cents it had reached.
LEMMA DecReaches ==
  ASSUME NEW t, IsDec(t), NEW x \in Nat, x >= t
  PROVE  Dec(x) >= t
<1>1. PICK k \in Nat : t = 10 * k
  <2>1. t = 10 * (t \div 10) /\ t \div 10 \in Nat
    BY DEF IsDec
  <2>2. QED
    BY <2>1
<1>2. (x + 5) \div 10 >= k
  BY <1>1
<1>3. QED
  BY <1>1, <1>2 DEF Dec

-----------------------------------------------------------------------------
(* What donations give together.                                           *)

LEMMA SumType ==
  ASSUME NEW S, IsFiniteSet(S), \A d \in S : d.amount \in Nat
  PROVE  Sum(S) \in Nat /\ Sum({}) = 0
BY TotalType, TotalStep, FS_EmptySet DEF Sum

LEMMA SumAdds ==
  ASSUME NEW S, IsFiniteSet(S), NEW x, x \notin S, \A d \in S \cup {x} : d.amount \in Nat
  PROVE  Sum(S \cup {x}) = Sum(S) + x.amount
<1> DEFINE f == [d \in S |-> d.amount]
           g == [d \in S \cup {x} |-> d.amount]
<1>1. Total(g, S \cup {x}) = g[x] + Total(g, S)
  BY TotalAdds
<1>2. Total(f, S) = Total(g, S)
  BY TotalAgrees
<1>3. Total(f, S) \in Nat
  BY SumType DEF Sum
<1>4. QED
  BY <1>1, <1>2, <1>3 DEF Sum

LEMMA SumOfSome ==
  ASSUME NEW S, IsFiniteSet(S), \A d \in S : d.amount \in Nat, NEW T \in SUBSET S
  PROVE  Sum(T) <= Sum(S)
<1> DEFINE f == [d \in S |-> d.amount]
           g == [d \in T |-> d.amount]
<1>1. Total(f, T) <= Total(f, S)
  BY TotalOfPart
<1>2. Total(g, T) = Total(f, T)
  BY FS_Subset, TotalAgrees
<1>3. QED
  BY <1>1, <1>2 DEF Sum

-----------------------------------------------------------------------------
(* Cents more or less, and the credits they make.                          *)

LEMMA NearIsOwn ==
  ASSUME NEW n \in Int
  PROVE  Near(n, 0) = {n}
BY DEF Near

LEMMA NearGrows ==
  ASSUME NEW n \in Int, NEW j \in Nat, NEW k \in Nat, j <= k
  PROVE  Near(n, j) \subseteq Near(n, k)
BY DEF Near

\* Cents add up along a sum.
LEMMA NearAdds ==
  ASSUME NEW n \in Int, NEW g \in Int, NEW j \in Nat, NEW k \in Nat,
         NEW c \in Near(n, j), NEW y \in Near(c + g, k)
  PROVE  y \in Near(n + g, j + k)
<1>1. PICK i \in -j .. j : c = n + 10 * i
  BY DEF Near
<1>2. PICK l \in -k .. k : y = c + g + 10 * l
  BY DEF Near
<1>3. i + l \in -(j + k) .. (j + k) /\ y = n + g + 10 * (i + l)
  BY <1>1, <1>2
<1>4. QED
  BY <1>3 DEF Near

\* How many of some gifts are rough.
LEMMA RoughCount ==
  ASSUME NEW S, IsFiniteSet(S), NEW R, NEW T \in SUBSET S, NEW Q, T \cap R \subseteq Q
  PROVE  /\ IsFiniteSet(T) /\ Cardinality(T \cap R) \in Nat
         /\ Cardinality(S \cap Q) \in Nat
         /\ Cardinality(T \cap R) <= Cardinality(S \cap Q)
<1>1. IsFiniteSet(T) /\ IsFiniteSet(T \cap R) /\ IsFiniteSet(S \cap Q)
  BY FS_Subset
<1>2. T \cap R \in SUBSET (S \cap Q)
  OBVIOUS
<1>3. QED
  BY <1>1, <1>2, FS_Subset, FS_CardinalityType

\* One more gift is one more rough one at most, and is if it is rough.
LEMMA RoughOneMore ==
  ASSUME NEW S, IsFiniteSet(S), NEW R, NEW x, x \notin S, NEW Q, S \cap R \subseteq Q,
         NEW k \in {0, 1}, k = 1 => x \in Q
  PROVE  /\ Cardinality(S \cap R) \in Nat /\ Cardinality((S \cup {x}) \cap Q) \in Nat
         /\ Cardinality(S \cap R) + k <= Cardinality((S \cup {x}) \cap Q)
<1>1. IsFiniteSet(S \cup {x})
  BY FS_AddElement
<1>2. CASE k = 0
  <2>1. /\ Cardinality(S \cap R) \in Nat /\ Cardinality((S \cup {x}) \cap Q) \in Nat
        /\ Cardinality(S \cap R) <= Cardinality((S \cup {x}) \cap Q)
    BY <1>1, RoughCount
  <2>2. QED
    BY <1>2, <2>1
<1>3. CASE k = 1
  <2>1. IsFiniteSet(S \cap R) /\ x \notin S \cap R /\ Cardinality(S \cap R) \in Nat
    BY FS_Subset, FS_CardinalityType
  <2>2. Cardinality((S \cap R) \cup {x}) = Cardinality(S \cap R) + 1
    BY <2>1, FS_AddElement
  <2>3. (S \cap R) \cup {x} \in SUBSET ((S \cup {x}) \cap Q)
    BY <1>3
  <2>4. IsFiniteSet((S \cup {x}) \cap Q)
    BY <1>1, FS_Subset
  <2>5. QED
    BY <1>3, <2>1, <2>2, <2>3, <2>4, FS_Subset, FS_CardinalityType
<1>4. QED
  BY <1>2, <1>3

\* Before anything is given there is the opening amount.
LEMMA CreditsOfNone ==
  ASSUME NEW n \in Nat, NEW R
  PROVE  n \in Credits(n, {}, R)
<1>1. Sum({}) = 0 /\ Cardinality({} \cap R) = 0
  BY SumType, FS_EmptySet
<1>2. n \in Near(n + Sum({}), Cardinality({} \cap R))
  BY <1>1, NearIsOwn
<1>3. QED
  BY <1>2 DEF Credits

\* What credits some gifts credits some of more gifts.
LEMMA CreditsGrow ==
  ASSUME NEW n \in Nat, NEW S, IsFiniteSet(S), \A d \in S : d.amount \in Nat,
         NEW R, NEW T, S \subseteq T, NEW Q, S \cap R \subseteq Q
  PROVE  Credits(n, S, R) \subseteq Credits(n, T, Q)
<1> SUFFICES ASSUME NEW c \in Credits(n, S, R) PROVE c \in Credits(n, T, Q)
  OBVIOUS
<1>1. PICK U \in SUBSET S : c \in Near(n + Sum(U), Cardinality(U \cap R))
  BY DEF Credits
<1>2. IsFiniteSet(U) /\ Sum(U) \in Nat
  BY FS_Subset, SumType
<1>3. /\ Cardinality(U \cap R) \in Nat /\ Cardinality(U \cap Q) \in Nat
      /\ Cardinality(U \cap R) <= Cardinality(U \cap Q)
  BY <1>2, RoughCount
<1>4. c \in Near(n + Sum(U), Cardinality(U \cap Q))
  BY <1>1, <1>2, <1>3, NearGrows
<1>5. QED
  BY <1>4 DEF Credits

\* One more gift is credited on top of whatever was credited before, to within
\* a cent if it is a rough one.
LEMMA CreditsOneMore ==
  ASSUME NEW n \in Nat, NEW S, IsFiniteSet(S), NEW R, NEW x, x \notin S,
         \A d \in S \cup {x} : d.amount \in Nat, NEW Q, S \cap R \subseteq Q,
         NEW c \in Credits(n, S, R),
         NEW k \in {0, 1}, k = 1 => x \in Q, NEW y \in Near(c + x.amount, k)
  PROVE  y \in Credits(n, S \cup {x}, Q)
<1>1. PICK T \in SUBSET S : c \in Near(n + Sum(T), Cardinality(T \cap R))
  BY DEF Credits
<1>2. IsFiniteSet(T) /\ Sum(T) \in Nat /\ Sum(T \cup {x}) = Sum(T) + x.amount
  BY FS_Subset, SumType, SumAdds
<1>3. /\ Cardinality(T \cap R) \in Nat /\ Cardinality((T \cup {x}) \cap Q) \in Nat
      /\ Cardinality(T \cap R) + k <= Cardinality((T \cup {x}) \cap Q)
  BY <1>2, RoughOneMore
<1>4. y \in Near(n + Sum(T) + x.amount, Cardinality(T \cap R) + k)
  BY <1>1, <1>2, <1>3, NearAdds
<1>5. y \in Near(n + Sum(T \cup {x}), Cardinality((T \cup {x}) \cap Q))
  <2>1. n + Sum(T) + x.amount = n + Sum(T \cup {x}) /\ n + Sum(T) + x.amount \in Int
    BY <1>2
  <2>2. QED
    BY <1>3, <1>4, <2>1, NearGrows
<1>6. T \cup {x} \in SUBSET (S \cup {x})
  OBVIOUS
<1>7. QED
  BY <1>5, <1>6 DEF Credits

\* No credit exceeds all of the gifts and a cent for each rough one.
LEMMA CreditsAtMost ==
  ASSUME NEW n \in Nat, NEW S, IsFiniteSet(S), \A d \in S : d.amount \in Nat, NEW R,
         NEW c \in Credits(n, S, R)
  PROVE  /\ c <= n + Sum(S) + 10 * Cardinality(S \cap R) /\ c \in Int
         /\ n + Sum(S) \in Nat /\ Cardinality(S \cap R) \in Nat
<1>1. PICK T \in SUBSET S : c \in Near(n + Sum(T), Cardinality(T \cap R))
  BY DEF Credits
<1>2. Sum(T) \in Nat /\ Sum(S) \in Nat /\ Sum(T) <= Sum(S)
  BY FS_Subset, SumType, SumOfSome
<1>3. /\ Cardinality(T \cap R) \in Nat /\ Cardinality(S \cap R) \in Nat
      /\ Cardinality(T \cap R) <= Cardinality(S \cap R)
  BY RoughCount
<1>4. PICK i \in -Cardinality(T \cap R) .. Cardinality(T \cap R) : c = n + Sum(T) + 10 * i
  BY <1>1 DEF Near
<1>5. QED
  BY <1>2, <1>3, <1>4

-----------------------------------------------------------------------------
(* Types.  What a statement locks and writes is typed only if the request  *)
(* is of a kind that reaches the statement, so both are proved together.   *)

StageOK ==
  \A r \in Requests :
    /\ pc[r] = "insertDonation" => input[r].kind = "donate"
    /\ pc[r] \in {"saveOwner", "saveProject"} => input[r].kind \in {"donate", "review"}
    /\ pc[r] = "saveUser" => input[r].kind \in {"donate", "profile"}
    /\ pc[r] = "loaded" => input[r].kind \in {"review", "profile"}
    /\ pc[r] = "audit" => input[r].kind = "review"
    /\ pc[r] = "idle" <=> input[r].kind = "none"
    /\ input[r].kind = "review" /\ pc[r] # "refused" => input[r].status \in Reviewed
    /\ input[r].kind = "donate" /\ pc[r] # "refused" => input[r].amount > 0

TypeInv == TypeOK /\ StageOK

\* The kind of an input tells its fields.
LEMMA InputKinds ==
  ASSUME NEW i \in Inputs \cup {NoInput}
  PROVE  /\ i.kind = "donate" =>
              /\ i \in Inputs /\ i.user \in Users /\ i.project \in Projects
              /\ i.amount \in Amounts /\ i.amount \in Nat
         /\ i.kind = "review" =>
              i \in Inputs /\ i.project \in Projects /\ i.status \in Statuses
         /\ i.kind = "profile" =>
              i \in Inputs /\ i.user \in Users /\ i.realName \in Names \cup {NoName}
         /\ i.kind = "none" <=> i \notin Inputs
<1>1. CASE i \in Inputs
  BY <1>1, AmountsAssumption
  DEF Inputs, DonateInputs, ReviewInputs, ProfileInputs
<1>2. CASE i = NoInput /\ i \notin Inputs
  BY <1>2 DEF NoInput
<1>3. QED
  BY <1>1, <1>2

\* The rows a request computes from typed copies are typed.
LEMMA WrittenRows ==
  ASSUME NEW row \in ProjectRows, NEW acc \in UserRows, NEW x \in Nat, NEW y \in Nat,
         NEW s \in Statuses, NEW n \in Names \cup {NoName}
  PROVE  /\ Credited(row, x) \in ProjectRows
         /\ Judged(row, s) \in ProjectRows
         /\ WithGift(acc, y) \in UserRows
         /\ Renamed(acc, n) \in UserRows
<1>1. Dec(x) \in Nat /\ Dec(y) \in Nat
  BY DecIsDec DEF IsDec
<1>2. QED
  BY <1>1 DEF Credited, Judged, WithGift, Renamed, ProjectRows, UserRows, Statuses

\* The locks a statement needs are the request's own, on rows of the tables.
LEMMA NeedsType ==
  ASSUME TypeInv, NEW r \in Requests
  PROVE  Needs(r) \subseteq {l \in Locks : l.holder = r}
<1>1. input[r] \in Inputs \cup {NoInput}
  BY DEF TypeInv, TypeOK
<1>2. ASSUME NEW x \in Rows
      PROVE  /\ Shared(r, x) \in Locks /\ Shared(r, x).holder = r
             /\ Exclusive(r, x) \in Locks /\ Exclusive(r, x).holder = r
  BY <1>2 DEF Locks, Shared, Exclusive
<1>3. CASE pc[r] = "insertDonation"
  <2>1. input[r].user \in Rows /\ input[r].project \in Rows
    BY <1>1, <1>3, InputKinds DEF TypeInv, StageOK, Rows
  <2>2. QED
    BY <1>2, <1>3, <2>1 DEF Needs
<1>4. CASE pc[r] = "saveOwner"
  <2>1. Owner[input[r].project] \in Rows
    BY <1>1, <1>4, InputKinds, OwnerAssumption DEF TypeInv, StageOK, Rows
  <2>2. QED
    BY <1>2, <1>4, <2>1 DEF Needs
<1>5. CASE pc[r] = "saveProject"
  <2>1. input[r].project \in Rows
    BY <1>1, <1>5, InputKinds DEF TypeInv, StageOK, Rows
  <2>2. QED
    BY <1>2, <1>5, <2>1 DEF Needs
<1>6. CASE pc[r] = "saveUser"
  <2>1. input[r].user \in Rows
    BY <1>1, <1>6, InputKinds DEF TypeInv, StageOK, Rows
  <2>2. QED
    BY <1>2, <1>6, <2>1 DEF Needs
<1>7. CASE pc[r] \notin {"insertDonation", "saveOwner", "saveProject", "saveUser"}
  BY <1>7 DEF Needs
<1>8. QED
  BY <1>3, <1>4, <1>5, <1>6, <1>7

LEMMA InitTypes == Init => TypeInv
<1> SUFFICES ASSUME Init PROVE TypeInv
  OBVIOUS
<1>1. NoProject \in ProjectRows /\ NoUser \in UserRows
  BY DEF NoProject, NoUser, ProjectRows, UserRows, Statuses
<1>2. TypeOK
  BY <1>1, InitialProjectsAssumption, InitialUsersAssumption
  DEF Init, TypeOK, Stages
<1>3. StageOK
  BY DEF Init, StageOK, NoInput
<1>4. QED
  BY <1>2, <1>3 DEF TypeInv

\* Ending a request keeps the types: its copies are zeroed, its locks dropped.
LEMMA EndTypes ==
  ASSUME TypeOK, NEW r \in Requests, NEW s \in Ended \cup {"answer", "audit"}, End(r, s)
  PROVE  /\ pc' \in [Requests -> Stages]
         /\ pc'[r] = s
         /\ \A q \in Requests \ {r} : pc'[q] = pc[q]
         /\ project' \in [Requests -> ProjectRows]
         /\ user' \in [Requests -> UserRows]
         /\ locks' \subseteq Locks
<1>1. NoProject \in ProjectRows /\ NoUser \in UserRows
  BY DEF NoProject, NoUser, ProjectRows, UserRows, Statuses
<1>2. s \in Stages
  BY DEF Ended, Stages, InFlight
<1>3. QED
  BY <1>1, <1>2 DEF End, TypeOK

\* A crash ends the requests in flight and touches no other.
LEMMA CrashStages ==
  ASSUME NEW s \in Stages
  PROVE  /\ AfterCrash(s) \in Stages
         /\ \/ AfterCrash(s) \in {"lost", "cutOff"}
            \/ AfterCrash(s) = s /\ s \notin InFlight
         /\ s \in {"idle", "refused"} => AfterCrash(s) = s
         /\ AfterCrash(s) \in {"idle", "refused"} => AfterCrash(s) = s
         /\ AfterCrash(s) \in Effective <=> s \in Effective
<1>1. CASE s \in InTx \cup {"loaded"}
  <2>1. AfterCrash(s) = "lost"
    BY <1>1 DEF AfterCrash, InTx
  <2>2. QED
    BY <1>1, <2>1 DEF Stages, Ended, Effective, InTx
<1>2. CASE s \in {"audit", "answer"}
  <2>1. AfterCrash(s) = "cutOff"
    BY <1>2 DEF AfterCrash, InTx
  <2>2. QED
    BY <1>2, <2>1 DEF Stages, Ended, Effective
<1>3. CASE s \notin InFlight
  <2>1. AfterCrash(s) = s
    BY <1>3 DEF AfterCrash, InFlight, InTx
  <2>2. QED
    BY <1>3, <2>1
<1>4. QED
  BY <1>1, <1>2, <1>3 DEF InFlight

\* A value out of range and a deadlock are errors of an open transaction.
LEMMA RollbacksAreInTx ==
  ASSUME NEW r \in Requests, OutOfRange(r) \/ DeadlockVictim(r)
  PROVE  pc[r] \in InTx
<1>1. CASE OutOfRange(r)
  <2>1. SUFFICES ASSUME pc[r] \notin {"insertDonation", "saveProject", "saveUser"}
                 PROVE  ~MayOverflow(r)
    BY <1>1 DEF OutOfRange, InTx
  <2>2. QED
    BY <2>1, MaxDecimalAssumption DEF MayOverflow, Stored
<1>2. CASE DeadlockVictim(r)
  <2>1. Needs(r) # {}
    BY <1>2 DEF DeadlockVictim, InCycle, Deadlocked, Blockers
  <2>2. QED
    BY <2>1 DEF Needs, InTx
<1>3. QED
  BY <1>1, <1>2

\* What a donation's COMMIT writes: some outcome of each of its two sums.
LEMMA CommittedSums ==
  ASSUME TypeInv, NEW r \in Requests, CommitDonation(r)
  PROVE  /\ pc[r] = "commit" /\ input[r].kind = "donate"
         /\ input[r].amount \in Nat /\ input[r].amount > 0
         /\ project[r] \in ProjectRows /\ user[r] \in UserRows
         /\ \E x \in FloatSum(project[r].currentAmount, input[r].amount) :
              x \in Nat /\ projects' =
                [projects EXCEPT ![input[r].project] = Credited(project[r], x)]
         /\ \E y \in FloatSum(user[r].totalDonation, input[r].amount) :
              y \in Nat /\ users' = [users EXCEPT ![input[r].user] = WithGift(user[r], y)]
<1>1. /\ pc[r] = "commit" /\ input[r].kind = "donate"
      /\ \E x \in Raises(r) :
           projects' = [projects EXCEPT ![input[r].project] = Credited(project[r], x)]
      /\ \E y \in Totals(r) :
           users' = [users EXCEPT ![input[r].user] = WithGift(user[r], y)]
  BY DEF CommitDonation
<1>2. input[r] \in Inputs \cup {NoInput}
  BY DEF TypeInv, TypeOK
<1>3. input[r].amount \in Nat /\ input[r].amount > 0
  BY <1>1, <1>2, InputKinds DEF TypeInv, StageOK
<1>4. /\ project[r] \in ProjectRows /\ project[r].currentAmount \in Nat
      /\ user[r] \in UserRows /\ user[r].totalDonation \in Nat
  BY DEF TypeInv, TypeOK, ProjectRows, UserRows
<1>5. ASSUME NEW c \in Nat, NEW x \in FloatSum(c, input[r].amount) PROVE x \in Nat
  BY <1>3, <1>5 DEF FloatSum
<1>6. QED
  BY <1>1, <1>3, <1>4, <1>5 DEF Raises, Totals

LEMMA StepTypes == TypeInv /\ [Next]_vars => TypeInv'
<1> SUFFICES ASSUME TypeInv, [Next]_vars PROVE TypeInv'
  OBVIOUS
<1> USE DEF TypeInv
<1>0. \A q \in Requests : input[q] \in Inputs \cup {NoInput}
  BY DEF TypeOK
<1>1. ASSUME NEW r \in Requests, Refuse(r) PROVE TypeInv'
  <2>1. PICK i \in Inputs : input' = [input EXCEPT ![r] = i]
    BY <1>1 DEF Refuse
  <2>2. pc[r] = "idle" /\ End(r, "refused") /\ UNCHANGED <<tables, overwritten>>
    BY <1>1 DEF Refuse
  <2>3. i.kind # "none"
    BY InputKinds
  <2>4. TypeOK'
    BY <2>1, <2>2, EndTypes DEF TypeOK, Ended, tables
  <2>5. StageOK'
    BY <2>1, <2>2, <2>3, EndTypes DEF TypeOK, StageOK, Ended
  <2>6. QED
    BY <2>4, <2>5
<1>2. ASSUME NEW r \in Requests, CreateDonation(r) PROVE TypeInv'
  <2>1. PICK i \in Inputs :
          /\ i.kind = "donate" /\ i.amount > 0
          /\ input' = [input EXCEPT ![r] = i]
          /\ project' = [project EXCEPT ![r] = projects[i.project]]
          /\ user' = [user EXCEPT ![r] = users[i.user]]
    BY <1>2 DEF CreateDonation
  <2>2. /\ pc[r] = "idle" /\ pc' = [pc EXCEPT ![r] = "insertDonation"]
        /\ UNCHANGED <<tables, locks, overwritten>>
    BY <1>2 DEF CreateDonation
  <2>3. i.user \in Users /\ i.project \in Projects
    BY <2>1, InputKinds
  <2>4. TypeOK'
    BY <2>1, <2>2, <2>3 DEF TypeOK, Stages, InFlight, InTx, tables
  <2>5. StageOK'
    BY <2>1, <2>2 DEF TypeOK, StageOK
  <2>6. QED
    BY <2>4, <2>5
<1>3. ASSUME NEW r \in Requests, RefuseDonation(r) PROVE TypeInv'
  <2>1. PICK i \in Inputs : i.kind = "donate" /\ input' = [input EXCEPT ![r] = i]
    BY <1>3 DEF RefuseDonation
  <2>2. pc[r] = "idle" /\ End(r, "refused") /\ UNCHANGED <<tables, overwritten>>
    BY <1>3 DEF RefuseDonation
  <2>3. TypeOK'
    BY <2>1, <2>2, EndTypes DEF TypeOK, Ended, tables
  <2>4. StageOK'
    BY <2>1, <2>2, EndTypes DEF TypeOK, StageOK, Ended
  <2>5. QED
    BY <2>3, <2>4
<1>4. ASSUME NEW r \in Requests, ReviewProject(r) PROVE TypeInv'
  <2>1. PICK i \in Inputs :
          /\ i.kind = "review"
          /\ i.status \in Reviewed
          /\ input' = [input EXCEPT ![r] = i]
          /\ project' = [project EXCEPT ![r] = projects[i.project]]
    BY <1>4 DEF ReviewProject
  <2>2. /\ pc[r] = "idle" /\ pc' = [pc EXCEPT ![r] = "loaded"]
        /\ UNCHANGED <<tables, user, locks, overwritten>>
    BY <1>4 DEF ReviewProject
  <2>3. i.project \in Projects
    BY <2>1, InputKinds
  <2>4. TypeOK'
    BY <2>1, <2>2, <2>3 DEF TypeOK, Stages, InFlight, tables
  <2>5. StageOK'
    BY <2>1, <2>2 DEF TypeOK, StageOK
  <2>6. QED
    BY <2>4, <2>5
<1>5. ASSUME NEW r \in Requests, UpdateProfile(r) PROVE TypeInv'
  <2>1. PICK i \in Inputs :
          /\ i.kind = "profile"
          /\ input' = [input EXCEPT ![r] = i]
          /\ user' = [user EXCEPT ![r] = users[i.user]]
    BY <1>5 DEF UpdateProfile
  <2>2. /\ pc[r] = "idle" /\ pc' = [pc EXCEPT ![r] = "loaded"]
        /\ UNCHANGED <<tables, project, locks, overwritten>>
    BY <1>5 DEF UpdateProfile
  <2>3. i.user \in Users
    BY <2>1, InputKinds
  <2>4. TypeOK'
    BY <2>1, <2>2, <2>3 DEF TypeOK, Stages, InFlight, tables
  <2>5. StageOK'
    BY <2>1, <2>2 DEF TypeOK, StageOK
  <2>6. QED
    BY <2>4, <2>5
<1>6. ASSUME NEW r \in Requests, BeginSave(r) PROVE TypeInv'
  <2>1. /\ pc[r] = "loaded"
        /\ pc' = [pc EXCEPT ![r] =
                    IF input[r].kind = "review" THEN "saveOwner" ELSE "saveUser"]
        /\ UNCHANGED <<tables, input, project, user, locks, overwritten>>
    BY <1>6 DEF BeginSave
  <2>2. TypeOK'
    BY <2>1 DEF TypeOK, Stages, InFlight, InTx, tables
  <2>3. StageOK'
    BY <2>1 DEF TypeOK, StageOK
  <2>4. QED
    BY <2>2, <2>3
<1>7. ASSUME NEW r \in Requests, Lock(r) PROVE TypeInv'
  <2>1. PICK l \in Needs(r) : locks' = locks \cup {l}
    BY <1>7 DEF Lock, Grantable
  <2>2. l \in Locks
    BY NeedsType
  <2>3. UNCHANGED <<tables, pc, input, project, user, overwritten>>
    BY <1>7 DEF Lock
  <2>4. TypeOK'
    BY <2>1, <2>2, <2>3 DEF TypeOK, tables
  <2>5. StageOK'
    BY <2>3 DEF StageOK
  <2>6. QED
    BY <2>4, <2>5
<1>8. ASSUME NEW r \in Requests, Statement(r) PROVE TypeInv'
  <2>1. /\ pc[r] \in InTx \ {"commit"}
        /\ UNCHANGED <<tables, input, project, user, locks, overwritten>>
        /\ pc' = [pc EXCEPT ![r] =
                    CASE pc[r] = "insertDonation" -> "saveOwner"
                      [] pc[r] = "saveOwner" -> "saveProject"
                      [] pc[r] = "saveProject" /\ input[r].kind = "donate" -> "saveUser"
                      [] OTHER -> "commit"]
    BY <1>8 DEF Statement, NextStatement
  <2>2. /\ pc'[r] \in {"saveOwner", "saveProject", "saveUser", "commit"}
        /\ pc'[r] = "saveOwner" => pc[r] = "insertDonation"
        /\ pc'[r] = "saveProject" => pc[r] = "saveOwner"
        /\ pc'[r] = "saveUser" => input[r].kind = "donate"
        /\ \A q \in Requests \ {r} : pc'[q] = pc[q]
    BY <2>1 DEF TypeOK
  <2>3. TypeOK'
    BY <2>1, <2>2 DEF TypeOK, Stages, InFlight, InTx, tables
  <2>4. pc[r] # "idle" /\ pc[r] # "refused"
    BY <2>1 DEF InTx
  <2>5. StageOK'
    BY <2>1, <2>2, <2>4 DEF StageOK
  <2>6. QED
    BY <2>3, <2>5
<1>9. ASSUME NEW r \in Requests, CommitDonation(r) PROVE TypeInv'
  <2> DEFINE p == input[r].project
             u == input[r].user
             gift == Dec(input[r].amount)
  <2>1. /\ pc[r] = "commit" /\ input[r].kind = "donate"
        /\ donations' = donations \cup
             {[request |-> r, userId |-> u, projectId |-> p, amount |-> gift]}
        /\ overwritten' \subseteq overwritten \cup {p, u}
        /\ UNCHANGED <<reviews, input>>
    BY <1>9 DEF CommitDonation
  <2>2. PICK s \in {"answer", "inDoubt"} : End(r, s)
    BY <1>9 DEF CommitDonation, Committed
  <2>3. /\ p \in Projects /\ u \in Users /\ input[r].amount \in Nat
        /\ gift \in Nat
    BY <1>0, <2>1, InputKinds, DecIsDec DEF IsDec
  <2>4. /\ \E row \in ProjectRows : projects' = [projects EXCEPT ![p] = row]
        /\ \E row \in UserRows : users' = [users EXCEPT ![u] = row]
    BY <1>9, CommittedSums, WrittenRows, ZenonT(60) DEF Statuses
  <2>5. overwritten' \subseteq Rows
    BY <2>1, <2>3 DEF TypeOK, Rows
  <2>6. donations' \subseteq DonationRows
    BY <2>1, <2>3 DEF TypeOK, DonationRows
  <2> HIDE DEF p, u, gift
  <2>7. TypeOK'
    BY <2>1, <2>2, <2>3, <2>4, <2>5, <2>6, EndTypes DEF TypeOK, Ended
  <2>8. StageOK'
    BY <2>1, <2>2, EndTypes DEF StageOK, Ended
  <2>9. QED
    BY <2>7, <2>8
<1>10. ASSUME NEW r \in Requests, CommitReview(r) PROVE TypeInv'
  <2> DEFINE p == input[r].project
  <2>1. /\ pc[r] = "commit" /\ input[r].kind = "review"
        /\ projects' = [projects EXCEPT ![p] = Judged(project[r], input[r].status)]
        /\ overwritten' \subseteq overwritten \cup {p}
        /\ UNCHANGED <<users, donations, reviews, input>>
    BY <1>10 DEF CommitReview
  <2>2. PICK s \in {"audit", "inDoubt"} : End(r, s)
    BY <1>10 DEF CommitReview, Committed
  <2>3. p \in Projects /\ input[r].status \in Statuses
    BY <1>0, <2>1, InputKinds
  <2>4. Judged(project[r], input[r].status) \in ProjectRows
    BY <2>3 DEF TypeOK, Judged, ProjectRows
  <2> HIDE DEF p
  <2>5. TypeOK'
    BY <2>1, <2>2, <2>3, <2>4, EndTypes DEF TypeOK, Ended, Rows
  <2>6. StageOK'
    BY <2>1, <2>2, EndTypes DEF StageOK, Ended
  <2>7. QED
    BY <2>5, <2>6
<1>11. ASSUME NEW r \in Requests, CommitProfile(r) PROVE TypeInv'
  <2> DEFINE u == input[r].user
  <2>1. /\ pc[r] = "commit" /\ input[r].kind = "profile"
        /\ users' = [users EXCEPT ![u] = Renamed(user[r], input[r].realName)]
        /\ overwritten' \subseteq overwritten \cup {u}
        /\ UNCHANGED <<projects, donations, reviews, input>>
    BY <1>11 DEF CommitProfile
  <2>2. PICK s \in {"answer", "inDoubt"} : End(r, s)
    BY <1>11 DEF CommitProfile, Committed
  <2>3. u \in Users /\ input[r].realName \in Names \cup {NoName}
    BY <1>0, <2>1, InputKinds
  <2>4. Renamed(user[r], input[r].realName) \in UserRows
    BY <2>3 DEF TypeOK, Renamed, UserRows
  <2> HIDE DEF u
  <2>5. TypeOK'
    BY <2>1, <2>2, <2>3, <2>4, EndTypes DEF TypeOK, Ended, Rows
  <2>6. StageOK'
    BY <2>1, <2>2, EndTypes DEF StageOK, Ended
  <2>7. QED
    BY <2>5, <2>6
<1>12. ASSUME NEW r \in Requests, InsertReview(r) PROVE TypeInv'
  <2>1. /\ pc[r] = "audit" /\ pc' = [pc EXCEPT ![r] = "answer"]
        /\ reviews' = reviews \cup
             {[request |-> r, projectId |-> input[r].project, status |-> input[r].status]}
        /\ UNCHANGED <<projects, users, donations, input, project, user, locks, overwritten>>
    BY <1>12 DEF InsertReview
  <2>2. input[r].project \in Projects /\ input[r].status \in Reviewed
    BY <1>0, <2>1, InputKinds DEF StageOK
  <2>3. reviews' \subseteq ReviewRows
    BY <2>1, <2>2 DEF TypeOK, ReviewRows
  <2>4. TypeOK'
    BY <2>1, <2>3 DEF TypeOK, Stages, InFlight
  <2>5. StageOK'
    BY <2>1 DEF TypeOK, StageOK
  <2>6. QED
    BY <2>4, <2>5
<1>13. ASSUME NEW r \in Requests, NEW s \in Ended, pc[r] \in InFlight, s # "refused",
              End(r, s), UNCHANGED <<tables, input, overwritten>>
       PROVE  TypeInv'
  <2>1. TypeOK'
    BY <1>13, EndTypes DEF TypeOK, tables
  <2>2. pc[r] # "idle" /\ pc[r] # "refused"
    BY <1>13 DEF InFlight, InTx
  <2>3. StageOK'
    BY <1>13, <2>2, EndTypes DEF StageOK, Ended
  <2>4. QED
    BY <2>1, <2>3
<1>14. ASSUME NEW r \in Requests, Answer(r) PROVE TypeInv'
  BY <1>13, <1>14 DEF Answer, Ended, InFlight
<1>15. ASSUME NEW r \in Requests, OutOfRange(r) PROVE TypeInv'
  BY <1>13, <1>15, RollbacksAreInTx DEF OutOfRange, Ended, InFlight
<1>16. ASSUME NEW r \in Requests, DeadlockVictim(r) PROVE TypeInv'
  BY <1>13, <1>16, RollbacksAreInTx DEF DeadlockVictim, Ended, InFlight
<1>17. ASSUME NEW r \in Requests, StatementError(r) PROVE TypeInv'
  BY <1>13, <1>17 DEF StatementError, Ended, InFlight
<1>18. CASE Crash
  <2>1. /\ pc' = [r \in Requests |-> AfterCrash(pc[r])]
        /\ project' = [r \in Requests |-> NoProject]
        /\ user' = [r \in Requests |-> NoUser]
        /\ locks' = {}
        /\ UNCHANGED <<tables, input, overwritten>>
    BY <1>18 DEF Crash
  <2>2. NoProject \in ProjectRows /\ NoUser \in UserRows
    BY DEF NoProject, NoUser, ProjectRows, UserRows, Statuses
  <2>3. \A r \in Requests :
          /\ pc'[r] \in Stages
          /\ pc'[r] \in {"lost", "cutOff"} \/ (pc'[r] = pc[r] /\ pc[r] \notin InFlight)
          /\ pc[r] \in {"idle", "refused"} => pc'[r] = pc[r]
          /\ pc'[r] \in {"idle", "refused"} => pc'[r] = pc[r]
    <3> TAKE r \in Requests
    <3>1. pc'[r] = AfterCrash(pc[r]) /\ pc[r] \in Stages
      BY <2>1 DEF TypeOK
    <3>2. QED
      BY <3>1, CrashStages
  <2>4. TypeOK'
    BY <2>1, <2>2, <2>3 DEF TypeOK, tables
  <2>5. StageOK'
    BY <2>1, <2>3 DEF StageOK, InFlight, InTx
  <2>6. QED
    BY <2>4, <2>5
<1>19. CASE UNCHANGED vars
  BY <1>19 DEF TypeOK, StageOK, vars, tables
<1>20. QED
  BY <1>1, <1>2, <1>3, <1>4, <1>5, <1>6, <1>7, <1>8, <1>9, <1>10, <1>11, <1>12,
     <1>14, <1>15, <1>16, <1>17, <1>18, <1>19
  DEF Next, Begin, Continue, Terminating

\* Every variable keeps its type, and no request reaches a statement that is
\* not part of its handler.
THEOREM TypeCorrect == Spec => []TypeOK
<1>1. TypeInv => TypeOK
  BY DEF TypeInv
<1>2. QED
  BY <1>1, InitTypes, StepTypes, PTL DEF Spec

LEMMA AlwaysTyped == Spec => []TypeInv
BY InitTypes, StepTypes, PTL DEF Spec

-----------------------------------------------------------------------------
(* Lemmas about every step.                                                *)

Committing(r) == CommitDonation(r) \/ CommitReview(r) \/ CommitProfile(r)

\* Only a commit writes a row, and only the insertion of a review its record.
LEMMA RowWriters ==
  ASSUME [Next]_vars
  PROVE  \/ \E r \in Requests : Committing(r)
         \/ /\ UNCHANGED <<projects, users, donations, overwritten>>
            /\ UNCHANGED reviews \/ \E r \in Requests : InsertReview(r)
BY DEF Next, Begin, Continue, Committing, Refuse, CreateDonation, RefuseDonation,
       ReviewProject, UpdateProfile, BeginSave, Lock, Statement, NextStatement, InsertReview, Answer,
       OutOfRange, DeadlockVictim, StatementError, Crash, Terminating, vars, tables

\* A commit makes its own request effective and no other.
LEMMA CommitEffect ==
  ASSUME TypeInv, NEW r \in Requests, Committing(r)
  PROVE  /\ pc[r] = "commit" /\ pc'[r] \in Effective
         /\ input' = input
         /\ \A q \in Requests \ {r} : pc'[q] = pc[q] /\ project'[q] = project[q]
<1>1. pc[r] = "commit" /\ input' = input
  BY DEF Committing, CommitDonation, CommitReview, CommitProfile
<1>2. PICK s \in {"answer", "audit", "inDoubt"} : End(r, s)
  BY DEF Committing, CommitDonation, CommitReview, CommitProfile, Committed
<1>3. QED
  BY <1>1, <1>2 DEF End, TypeInv, TypeOK, Effective

\* Apart from commits, no step makes a request effective or undoes it, and a
\* request keeps its input from the moment it has one.
LEMMA EffectStays ==
  ASSUME TypeInv, [Next]_vars, \A r \in Requests : ~Committing(r)
  PROVE  \A q \in Requests :
           /\ pc'[q] \in Effective <=> pc[q] \in Effective
           /\ input'[q] = input[q] \/ pc[q] = "idle"
<1>0. TypeOK
  BY DEF TypeInv
<1>1. ASSUME NEW r \in Requests, NEW i, pc[r] = "idle", input' = [input EXCEPT ![r] = i],
             NEW s \in {"refused", "insertDonation", "loaded"}, pc' = [pc EXCEPT ![r] = s]
      PROVE  \A q \in Requests :
               /\ pc'[q] \in Effective <=> pc[q] \in Effective
               /\ input'[q] = input[q] \/ pc[q] = "idle"
  BY <1>0, <1>1 DEF TypeOK, Effective
<1>2. ASSUME NEW r \in Requests, Begin(r)
      PROVE  \A q \in Requests :
               /\ pc'[q] \in Effective <=> pc[q] \in Effective
               /\ input'[q] = input[q] \/ pc[q] = "idle"
  BY <1>1, <1>2
  DEF Begin, Refuse, CreateDonation, RefuseDonation, ReviewProject, UpdateProfile, End
<1>3. ASSUME NEW r \in Requests, UNCHANGED input, pc' = [pc EXCEPT ![r] = pc'[r]],
             pc'[r] \in Effective <=> pc[r] \in Effective
      PROVE  \A q \in Requests :
               /\ pc'[q] \in Effective <=> pc[q] \in Effective
               /\ input'[q] = input[q] \/ pc[q] = "idle"
  BY <1>0, <1>3 DEF TypeOK
<1>4. ASSUME NEW r \in Requests, Continue(r) \/ DeadlockVictim(r) \/ StatementError(r)
      PROVE  /\ UNCHANGED input /\ pc' = [pc EXCEPT ![r] = pc'[r]]
             /\ pc'[r] \in Effective <=> pc[r] \in Effective
  <2>1. CASE BeginSave(r)
    BY <1>0, <2>1 DEF BeginSave, TypeOK, Effective
  <2>2. CASE Lock(r)
    BY <1>0, <2>2 DEF Lock, TypeOK
  <2>3. CASE Statement(r)
    BY <1>0, <2>3 DEF Statement, NextStatement, TypeOK, Effective, InTx
  <2>4. CASE InsertReview(r)
    BY <1>0, <2>4 DEF InsertReview, TypeOK, Effective
  <2>5. CASE Answer(r)
    BY <1>0, <2>5 DEF Answer, End, TypeOK, Effective
  <2>6. CASE OutOfRange(r) \/ DeadlockVictim(r)
    BY <1>0, <2>6, RollbacksAreInTx
    DEF OutOfRange, DeadlockVictim, End, TypeOK, Effective, InTx
  <2>7. CASE StatementError(r)
    BY <1>0, <2>7 DEF StatementError, End, TypeOK, Effective, InTx
  <2>8. QED
    BY <1>4, <2>1, <2>2, <2>3, <2>4, <2>5, <2>6, <2>7 DEF Continue, Committing
<1>5. ASSUME Crash
      PROVE  \A q \in Requests :
               /\ pc'[q] \in Effective <=> pc[q] \in Effective
               /\ input'[q] = input[q] \/ pc[q] = "idle"
  <2> TAKE q \in Requests
  <2>1. pc'[q] = AfterCrash(pc[q]) /\ pc[q] \in Stages /\ input' = input
    BY <1>0, <1>5 DEF Crash, TypeOK
  <2>2. QED
    BY <2>1, CrashStages
<1>6. CASE UNCHANGED vars
  BY <1>6 DEF vars
<1>7. QED
  BY <1>2, <1>3, <1>4, <1>5, <1>6 DEF Next, Terminating

-----------------------------------------------------------------------------
(* Records.  RecordedOnce speaks of each request; to prove it one needs to *)
(* know of each row that it belongs to such a request.                     *)

DonationOf(r) ==
  [request |-> r, userId |-> input[r].user, projectId |-> input[r].project,
   amount |-> Dec(input[r].amount)]

RecordInv ==
  /\ IsFiniteSet(donations)
  /\ \A d \in donations :
       /\ pc[d.request] \in Effective
       /\ input[d.request].kind = "donate"
       /\ d = DonationOf(d.request)
  /\ \A r \in Requests :
       input[r].kind = "donate" /\ pc[r] \in Effective => DonationOf(r) \in donations

LEMMA InitRecords == Init => RecordInv
BY FS_EmptySet DEF Init, RecordInv, Effective

LEMMA StepRecords == TypeInv /\ RecordInv /\ [Next]_vars => RecordInv'
<1> SUFFICES ASSUME TypeInv, RecordInv, [Next]_vars PROVE RecordInv'
  OBVIOUS
<1>0. \A d \in donations : d.request \in Requests
  BY DEF TypeInv, TypeOK, DonationRows
<1>1. ASSUME NEW r \in Requests, CommitDonation(r) PROVE RecordInv'
  <2>1. /\ input[r].kind = "donate"
        /\ donations' = donations \cup {DonationOf(r)}
    BY <1>1 DEF CommitDonation, DonationOf
  <2>2. /\ pc'[r] \in Effective /\ input' = input
        /\ \A q \in Requests \ {r} : pc'[q] = pc[q]
    BY <1>1, CommitEffect DEF Committing
  <2>3. DonationOf(r).request = r
    BY DEF DonationOf
  <2>4. IsFiniteSet(donations')
    BY <2>1, FS_AddElement DEF RecordInv
  <2>5. QED
    BY <1>0, <2>1, <2>2, <2>3, <2>4 DEF RecordInv, DonationOf
<1>2. ASSUME NEW r \in Requests, CommitReview(r) \/ CommitProfile(r) PROVE RecordInv'
  <2>1. input[r].kind # "donate" /\ donations' = donations
    BY <1>2 DEF CommitReview, CommitProfile
  <2>2. /\ pc'[r] \in Effective /\ input' = input
        /\ \A q \in Requests \ {r} : pc'[q] = pc[q]
    BY <1>2, CommitEffect DEF Committing
  <2>3. QED
    BY <1>0, <2>1, <2>2 DEF RecordInv, DonationOf
<1>3. CASE \A r \in Requests : ~Committing(r)
  <2>1. \A q \in Requests : /\ pc'[q] \in Effective <=> pc[q] \in Effective
                            /\ input'[q] = input[q] \/ pc[q] = "idle"
    BY <1>3, EffectStays
  <2>2. donations' = donations
    BY <1>3, RowWriters
  <2>3. "idle" \notin Effective
    BY DEF Effective
  <2>4. QED
    BY <1>0, <2>1, <2>2, <2>3 DEF RecordInv, DonationOf
<1>4. QED
  BY <1>1, <1>2, <1>3 DEF Committing

\* A donation that succeeded has exactly one row, one that did not has none,
\* however commits, deadlocks, errors and crashes interleave.
THEOREM DonationsAreRecordedOnce == Spec => []RecordedOnce
<1>1. Init => RecordInv
  BY InitRecords
<1>2. TypeInv /\ RecordInv => RecordedOnce
  <2> SUFFICES ASSUME TypeInv, RecordInv, NEW r \in Requests, input[r].kind = "donate"
               PROVE  LET rows == {d \in donations : d.request = r} IN
                      /\ pc[r] \in Effective => rows = {DonationOf(r)}
                      /\ pc[r] \notin Effective => rows = {}
    BY DEF RecordedOnce, DonationOf
  <2>1. DonationOf(r).request = r
    BY DEF DonationOf
  <2>2. QED
    BY <2>1 DEF RecordInv
<1>3. QED
  BY <1>1, <1>2, AlwaysTyped, StepRecords, PTL DEF Spec

\* The gifts to a project and those of a user are finitely many numbers.
LEMMA GiftsFinite ==
  ASSUME TypeInv, RecordInv, NEW x
  PROVE  /\ IsFiniteSet(GiftsTo(x)) /\ \A d \in GiftsTo(x) : d.amount \in Nat
         /\ IsFiniteSet(GiftsBy(x)) /\ \A d \in GiftsBy(x) : d.amount \in Nat
<1>1. GiftsTo(x) \in SUBSET donations /\ GiftsBy(x) \in SUBSET donations
  BY DEF GiftsTo, GiftsBy
<1>2. \A d \in donations : d.amount \in Nat
  BY DEF TypeInv, TypeOK, DonationRows
<1>3. QED
  BY <1>1, <1>2, FS_Subset DEF RecordInv

\* The row a donation adds is a new one, of its project and its user.
LEMMA NewGift ==
  ASSUME TypeInv, RecordInv, NEW r \in Requests, CommitDonation(r),
         NEW p, p = input[r].project, NEW u, u = input[r].user,
         NEW a, a = input[r].amount, NEW d, d = DonationOf(r)
  PROVE  /\ pc[r] = "commit" /\ input[r].kind = "donate"
         /\ p \in Projects /\ u \in Users /\ a \in Amounts /\ a \in Nat
         /\ d.amount = Dec(a) /\ d.amount \in Nat
         /\ d \notin donations /\ donations' = donations \cup {d}
         /\ GiftsTo(p)' = GiftsTo(p) \cup {d}
         /\ \A q \in Projects \ {p} : GiftsTo(q)' = GiftsTo(q)
         /\ GiftsBy(u)' = GiftsBy(u) \cup {d}
         /\ \A v \in Users \ {u} : GiftsBy(v)' = GiftsBy(v)
<1>1. pc[r] = "commit" /\ input[r].kind = "donate" /\ donations' = donations \cup {d}
  BY DEF CommitDonation, DonationOf
<1>2. input[r] \in Inputs \cup {NoInput}
  BY DEF TypeInv, TypeOK
<1>3. p \in Projects /\ u \in Users /\ a \in Amounts /\ a \in Nat /\ Dec(a) \in Nat
  BY <1>1, <1>2, InputKinds, DecIsDec DEF IsDec
<1>4. d.request = r /\ d.projectId = p /\ d.userId = u /\ d.amount = Dec(a)
  BY DEF DonationOf
<1>5. d \notin donations
  BY <1>1, <1>4 DEF RecordInv, Effective
<1>6. QED
  BY <1>1, <1>3, <1>4, <1>5 DEF GiftsTo, GiftsBy

-----------------------------------------------------------------------------
(* Money.  A row is earned if it holds cents, all of them from donations   *)
(* on record, and is completed only with what it asked for.  The rows alone*)
(* are not inductive: a commit writes what its request read some time ago, *)
(* so the copies in memory have to be earned as well.                      *)

EarnedProject(row, p, gifts, rough) ==
  /\ IsDec(row.currentAmount)
  /\ row.currentAmount \in Credits(InitialProjects[p].currentAmount, gifts, rough)
  /\ row.targetAmount = InitialProjects[p].targetAmount
  /\ row.status = "completed" => row.currentAmount >= row.targetAmount

EarnedUser(row, u, gifts, rough) ==
  /\ IsDec(row.totalDonation)
  /\ row.totalDonation \in Credits(InitialUsers[u].totalDonation, gifts, rough)

\* The request r holds a copy.
Holding(r) == pc[r] \in InTx \cup {"loaded"}

CopiesEarned(r) ==
  /\ input[r].kind \in {"donate", "review"} =>
       /\ input[r].project \in Projects
       /\ EarnedProject(project[r], input[r].project, GiftsTo(input[r].project), Rough)
  /\ input[r].kind \in {"donate", "profile"} =>
       /\ input[r].user \in Users
       /\ EarnedUser(user[r], input[r].user, GiftsBy(input[r].user), Rough)

MoneyInv ==
  /\ \A p \in Projects : EarnedProject(projects[p], p, GiftsTo(p), Rough)
  /\ \A u \in Users : EarnedUser(users[u], u, GiftsBy(u), Rough)
  /\ \A r \in Requests : Holding(r) => CopiesEarned(r)

\* More gifts earn no less.
LEMMA EarnedGrows ==
  ASSUME NEW row, NEW S, IsFiniteSet(S), \A d \in S : d.amount \in Nat,
         NEW R, NEW T, S \subseteq T, NEW Q, S \cap R \subseteq Q
  PROVE  /\ \A p \in Projects : EarnedProject(row, p, S, R) => EarnedProject(row, p, T, Q)
         /\ \A u \in Users : EarnedUser(row, u, S, R) => EarnedUser(row, u, T, Q)
<1>1. /\ \A p \in Projects : InitialProjects[p].currentAmount \in Nat
      /\ \A u \in Users : InitialUsers[u].totalDonation \in Nat
  BY InitialProjectsAssumption, InitialUsersAssumption DEF IsDec
<1>2. \A n \in Nat : Credits(n, S, R) \subseteq Credits(n, T, Q)
  BY CreditsGrow
<1>3. QED
  BY <1>1, <1>2 DEF EarnedProject, EarnedUser

\* By how many cents a donation of a may be credited wrongly.
Slack(a) == IF HalfCent(a) THEN 1 ELSE 0

\* A credit is the copy and the donation's own row, to within that.
LEMMA CreditIsNear ==
  ASSUME NEW row \in ProjectRows, IsDec(row.currentAmount), NEW a \in Nat, a > 0,
         NEW x \in FloatSum(row.currentAmount, a)
  PROVE  Credited(row, x).currentAmount \in Near(row.currentAmount + Dec(a), Slack(a))
BY DecOfFloatSum DEF Credited, ProjectRows, Slack

LEMMA GiftIsNear ==
  ASSUME NEW row \in UserRows, IsDec(row.totalDonation), NEW a \in Nat, a > 0,
         NEW y \in FloatSum(row.totalDonation, a)
  PROVE  WithGift(row, y).totalDonation \in Near(row.totalDonation + Dec(a), Slack(a))
BY DecOfFloatSum DEF WithGift, UserRows, Slack

\* A credit on top of an earned copy is earned once the donation is recorded.
LEMMA CreditIsEarned ==
  ASSUME NEW row \in ProjectRows, NEW p \in Projects, NEW S, IsFiniteSet(S), NEW R,
         EarnedProject(row, p, S, R), NEW a \in Nat, a > 0,
         NEW x \in FloatSum(row.currentAmount, a), NEW d, d \notin S, d.amount = Dec(a),
         \A g \in S \cup {d} : g.amount \in Nat,
         NEW Q, S \cap R \subseteq Q, HalfCent(a) => d \in Q
  PROVE  EarnedProject(Credited(row, x), p, S \cup {d}, Q)
<1>1. row.currentAmount \in Nat /\ row.targetAmount \in Nat /\ IsDec(row.targetAmount)
  BY InitialProjectsAssumption DEF ProjectRows, EarnedProject
<1>2. x \in Nat /\ Dec(x) \in Near(row.currentAmount + Dec(a), Slack(a))
  BY <1>1, DecOfFloatSum DEF EarnedProject, Slack
<1>3. IsDec(Dec(x)) /\ Dec(x) \in Nat
  BY <1>2, DecIsDec DEF IsDec
<1>4. /\ Credited(row, x).currentAmount = Dec(x)
      /\ Credited(row, x).targetAmount = row.targetAmount
      /\ Credited(row, x).status = IF x >= row.targetAmount THEN "completed" ELSE row.status
  BY DEF Credited, ProjectRows
<1>5. Credited(row, x).status = "completed" => Dec(x) >= row.targetAmount
  <2>1. CASE x >= row.targetAmount
    BY <1>1, <1>2, <2>1, DecReaches
  <2>2. CASE ~(x >= row.targetAmount)
    <3>1. x < row.targetAmount /\ (row.status = "completed" => row.currentAmount >= row.targetAmount)
      BY <1>1, <1>2, <2>2 DEF EarnedProject
    <3>2. row.status = "completed" => x >= row.currentAmount + a - 1
      BY <1>1 DEF FloatSum
    <3>3. row.status = "completed" => x >= row.currentAmount
      BY <1>1, <1>2, <3>2
    <3>4. QED
      BY <1>1, <1>2, <1>4, <3>1, <3>3
  <2>3. QED
    BY <2>1, <2>2
<1>6. Dec(x) \in Credits(InitialProjects[p].currentAmount, S \cup {d}, Q)
  <2>1. /\ Slack(a) \in {0, 1} /\ (Slack(a) = 1 => d \in Q)
        /\ Dec(x) \in Near(row.currentAmount + d.amount, Slack(a))
        /\ InitialProjects[p].currentAmount \in Nat
    BY <1>2, InitialProjectsAssumption DEF Slack, IsDec
  <2>2. row.currentAmount \in Credits(InitialProjects[p].currentAmount, S, R)
    BY DEF EarnedProject
  <2>3. QED
    BY <2>1, <2>2, CreditsOneMore
<1>7. QED
  BY <1>2, <1>3, <1>4, <1>5, <1>6 DEF EarnedProject

LEMMA GiftIsEarned ==
  ASSUME NEW row \in UserRows, NEW u \in Users, NEW S, IsFiniteSet(S), NEW R,
         EarnedUser(row, u, S, R), NEW a \in Nat, a > 0,
         NEW y \in FloatSum(row.totalDonation, a), NEW d, d \notin S, d.amount = Dec(a),
         \A g \in S \cup {d} : g.amount \in Nat,
         NEW Q, S \cap R \subseteq Q, HalfCent(a) => d \in Q
  PROVE  EarnedUser(WithGift(row, y), u, S \cup {d}, Q)
<1>1. row.totalDonation \in Nat
  BY DEF UserRows
<1>2. y \in Nat /\ Dec(y) \in Near(row.totalDonation + Dec(a), Slack(a))
  BY <1>1, DecOfFloatSum DEF EarnedUser, Slack
<1>3. IsDec(Dec(y))
  BY <1>2, DecIsDec
<1>4. WithGift(row, y).totalDonation = Dec(y)
  BY DEF WithGift, UserRows
<1>5. Dec(y) \in Credits(InitialUsers[u].totalDonation, S \cup {d}, Q)
  <2>1. /\ Slack(a) \in {0, 1} /\ (Slack(a) = 1 => d \in Q)
        /\ Dec(y) \in Near(row.totalDonation + d.amount, Slack(a))
        /\ InitialUsers[u].totalDonation \in Nat
    BY <1>2, InitialUsersAssumption DEF Slack, IsDec
  <2>2. row.totalDonation \in Credits(InitialUsers[u].totalDonation, S, R)
    BY DEF EarnedUser
  <2>3. QED
    BY <2>1, <2>2, CreditsOneMore
<1>6. QED
  BY <1>2, <1>3, <1>4, <1>5 DEF EarnedUser

\* A donation that is rough stays so, and becomes so only by its own COMMIT.
LEMMA RoughStays ==
  ASSUME TypeInv, RecordInv, [Next]_vars
  PROVE  /\ Rough \subseteq Rough'
         /\ UNCHANGED donations => Rough' = Rough
<1>1. \A d \in donations : input'[d.request] = input[d.request]
  <2> TAKE d \in donations
  <2>1. d.request \in Requests /\ pc[d.request] \in Effective
    BY DEF TypeInv, TypeOK, DonationRows, RecordInv
  <2>2. CASE \E r \in Requests : Committing(r)
    BY <2>2, CommitEffect
  <2>3. CASE \A r \in Requests : ~Committing(r)
    BY <2>1, <2>3, EffectStays DEF Effective
  <2>4. QED
    BY <2>2, <2>3
<1>2. donations \subseteq donations'
  <2>1. CASE \E r \in Requests : Committing(r)
    BY <2>1 DEF Committing, CommitDonation, CommitReview, CommitProfile
  <2>2. CASE \A r \in Requests : ~Committing(r)
    BY <2>2, RowWriters
  <2>3. QED
    BY <2>1, <2>2
<1>3. QED
  BY <1>1, <1>2 DEF Rough

LEMMA InitMoney == Init => MoneyInv
<1> SUFFICES ASSUME Init PROVE MoneyInv
  OBVIOUS
<1>1. \A r \in Requests : ~Holding(r)
  BY DEF Init, Holding, InTx
<1>2. \A x : GiftsTo(x) = {} /\ GiftsBy(x) = {}
  BY DEF Init, GiftsTo, GiftsBy
<1>3. \A p \in Projects : EarnedProject(projects[p], p, GiftsTo(p), Rough)
  <2> TAKE p \in Projects
  <2>1. InitialProjects[p].currentAmount \in Nat
    BY InitialProjectsAssumption DEF IsDec
  <2>2. InitialProjects[p].currentAmount \in Credits(InitialProjects[p].currentAmount, {}, Rough)
    BY <2>1, CreditsOfNone
  <2>3. QED
    BY <1>2, <2>2, InitialProjectsAssumption DEF Init, EarnedProject
<1>4. \A u \in Users : EarnedUser(users[u], u, GiftsBy(u), Rough)
  <2> TAKE u \in Users
  <2>1. InitialUsers[u].totalDonation \in Nat
    BY InitialUsersAssumption DEF IsDec
  <2>2. InitialUsers[u].totalDonation \in Credits(InitialUsers[u].totalDonation, {}, Rough)
    BY <2>1, CreditsOfNone
  <2>3. QED
    BY <1>2, <2>2, InitialUsersAssumption DEF Init, EarnedUser
<1>5. QED
  BY <1>1, <1>3, <1>4 DEF MoneyInv

\* A step of r changes neither the stage nor the copies of another request.
Others(r) ==
  \A q \in Requests \ {r} :
    /\ pc'[q] = pc[q]
    /\ input'[q] = input[q]
    /\ project'[q] = project[q]
    /\ user'[q] = user[q]

\* A step that writes no row and takes no copy keeps the money as it is.
LEMMA QuietMoney ==
  ASSUME MoneyInv, UNCHANGED <<projects, users, donations>>, Rough' = Rough,
         \A q \in Requests : Holding(q)' =>
           /\ Holding(q)
           /\ input'[q] = input[q]
           /\ project'[q] = project[q]
           /\ user'[q] = user[q]
  PROVE  MoneyInv'
<1>1. \A x : GiftsTo(x)' = GiftsTo(x) /\ GiftsBy(x)' = GiftsBy(x)
  BY DEF GiftsTo, GiftsBy
<1>2. QED
  BY <1>1 DEF MoneyInv, CopiesEarned

\* Ending a request only drops its copies.
LEMMA EndHolds ==
  ASSUME TypeOK, NEW r \in Requests, NEW s \in Ended \cup {"answer", "audit"}, End(r, s),
         \A q \in Requests \ {r} : input'[q] = input[q]
  PROVE  Others(r) /\ ~Holding(r)'
<1>1. pc'[r] = s /\ Others(r)
  BY DEF End, TypeOK, Others
<1>2. QED
  BY <1>1 DEF Holding, InTx, Ended

\* While donations are only added, what is earned stays earned.
LEMMA OthersStayEarned ==
  ASSUME TypeInv, RecordInv, MoneyInv, NEW r \in Requests, Others(r), ~Holding(r)',
         donations \subseteq donations', Rough \subseteq Rough'
  PROVE  \A q \in Requests : Holding(q)' => CopiesEarned(q)'
<1> SUFFICES ASSUME NEW q \in Requests, Holding(q)'
             PROVE  CopiesEarned(q)'
  OBVIOUS
<1>1. /\ CopiesEarned(q)
      /\ input'[q] = input[q] /\ project'[q] = project[q] /\ user'[q] = user[q]
  BY DEF Others, Holding, MoneyInv
<1>2. ASSUME NEW x
      PROVE  /\ IsFiniteSet(GiftsTo(x)) /\ \A d \in GiftsTo(x) : d.amount \in Nat
             /\ IsFiniteSet(GiftsBy(x)) /\ \A d \in GiftsBy(x) : d.amount \in Nat
             /\ GiftsTo(x) \subseteq GiftsTo(x)' /\ GiftsTo(x) \cap Rough \subseteq Rough'
             /\ GiftsBy(x) \subseteq GiftsBy(x)' /\ GiftsBy(x) \cap Rough \subseteq Rough'
  <2>1. /\ GiftsTo(x) \subseteq GiftsTo(x)' /\ GiftsTo(x) \cap Rough \subseteq Rough'
        /\ GiftsBy(x) \subseteq GiftsBy(x)' /\ GiftsBy(x) \cap Rough \subseteq Rough'
    BY DEF GiftsTo, GiftsBy
  <2>2. QED
    BY <2>1, GiftsFinite
<1>3. ASSUME input[q].kind \in {"donate", "review"}, NEW p, p = input[q].project
      PROVE  /\ p \in Projects
             /\ EarnedProject(project[q], p, GiftsTo(p)', Rough')
  <2>1. p \in Projects /\ EarnedProject(project[q], p, GiftsTo(p), Rough)
    BY <1>1, <1>3 DEF CopiesEarned
  <2>2. PICK S, T : S = GiftsTo(p) /\ T = GiftsTo(p)'
    OBVIOUS
  <2>3. /\ IsFiniteSet(S) /\ \A d \in S : d.amount \in Nat
        /\ S \subseteq T /\ S \cap Rough \subseteq Rough'
    BY <1>2, <2>2
  <2>4. EarnedProject(project[q], p, T, Rough')
    BY <2>1, <2>2, <2>3, EarnedGrows
  <2>5. QED
    BY <2>1, <2>2, <2>4
<1>4. ASSUME input[q].kind \in {"donate", "profile"}, NEW u, u = input[q].user
      PROVE  /\ u \in Users
             /\ EarnedUser(user[q], u, GiftsBy(u)', Rough')
  <2>1. u \in Users /\ EarnedUser(user[q], u, GiftsBy(u), Rough)
    BY <1>1, <1>4 DEF CopiesEarned
  <2>2. PICK S, T : S = GiftsBy(u) /\ T = GiftsBy(u)'
    OBVIOUS
  <2>3. /\ IsFiniteSet(S) /\ \A d \in S : d.amount \in Nat
        /\ S \subseteq T /\ S \cap Rough \subseteq Rough'
    BY <1>2, <2>2
  <2>4. EarnedUser(user[q], u, T, Rough')
    BY <2>1, <2>2, <2>3, EarnedGrows
  <2>5. QED
    BY <2>1, <2>2, <2>4
<1>5. QED
  BY <1>1, <1>3, <1>4 DEF CopiesEarned

\* A request that takes copies of stored rows takes earned ones.
LEMMA CopyIsEarned ==
  ASSUME MoneyInv, NEW r \in Requests, Others(r), UNCHANGED <<projects, users, donations>>,
         Rough' = Rough,
         input'[r].kind \in {"donate", "review"} =>
           input'[r].project \in Projects /\ project'[r] = projects[input'[r].project],
         input'[r].kind \in {"donate", "profile"} =>
           input'[r].user \in Users /\ user'[r] = users[input'[r].user]
  PROVE  MoneyInv'
<1>1. \A x : GiftsTo(x)' = GiftsTo(x) /\ GiftsBy(x)' = GiftsBy(x)
  BY DEF GiftsTo, GiftsBy
<1>2. /\ \A p \in Projects : EarnedProject(projects'[p], p, GiftsTo(p)', Rough')
      /\ \A u \in Users : EarnedUser(users'[u], u, GiftsBy(u)', Rough')
  BY <1>1 DEF MoneyInv
<1>3. ASSUME NEW q \in Requests, Holding(q)' PROVE CopiesEarned(q)'
  <2>1. CASE q = r
    BY <1>1, <2>1 DEF MoneyInv, CopiesEarned
  <2>2. CASE q # r
    <3>1. /\ Holding(q) /\ input'[q] = input[q]
          /\ project'[q] = project[q] /\ user'[q] = user[q]
      BY <1>3, <2>2 DEF Others, Holding
    <3>2. QED
      BY <1>1, <3>1 DEF MoneyInv, CopiesEarned
  <2>3. QED
    BY <2>1, <2>2
<1>4. QED
  BY <1>2, <1>3 DEF MoneyInv

LEMMA StepMoney == TypeInv /\ RecordInv /\ MoneyInv /\ [Next]_vars => MoneyInv'
<1> SUFFICES ASSUME TypeInv, RecordInv, MoneyInv, [Next]_vars PROVE MoneyInv'
  OBVIOUS
<1>0. /\ TypeOK
      /\ \A q \in Requests : input[q] \in Inputs \cup {NoInput}
      /\ Rough \subseteq Rough' /\ (UNCHANGED donations => Rough' = Rough)
  BY RoughStays DEF TypeInv, TypeOK
<1>1. ASSUME NEW r \in Requests, NEW i \in Inputs, input' = [input EXCEPT ![r] = i],
             End(r, "refused"), UNCHANGED <<tables, overwritten>>
      PROVE  MoneyInv'
  <2>1. Others(r) /\ ~Holding(r)'
    BY <1>0, <1>1, EndHolds DEF Ended, TypeOK
  <2>2. QED
    BY <1>0, <1>1, <2>1, QuietMoney DEF Others, Holding, tables
<1>2. ASSUME NEW r \in Requests, CreateDonation(r) PROVE MoneyInv'
  <2>1. PICK i \in Inputs :
          /\ i.kind = "donate"
          /\ input' = [input EXCEPT ![r] = i]
          /\ project' = [project EXCEPT ![r] = projects[i.project]]
          /\ user' = [user EXCEPT ![r] = users[i.user]]
    BY <1>2 DEF CreateDonation
  <2>2. /\ pc' = [pc EXCEPT ![r] = "insertDonation"]
        /\ UNCHANGED <<tables, locks, overwritten>>
    BY <1>2 DEF CreateDonation
  <2>3. i.project \in Projects /\ i.user \in Users
    BY <2>1, InputKinds
  <2>4. /\ input'[r] = i /\ project'[r] = projects[i.project] /\ user'[r] = users[i.user]
        /\ Others(r)
    BY <1>0, <2>1, <2>2 DEF TypeOK, Others
  <2>5. QED
    BY <1>0, <2>1, <2>2, <2>3, <2>4, CopyIsEarned DEF tables
<1>3. ASSUME NEW r \in Requests, ReviewProject(r) PROVE MoneyInv'
  <2>1. PICK i \in Inputs :
          /\ i.kind = "review"
          /\ input' = [input EXCEPT ![r] = i]
          /\ project' = [project EXCEPT ![r] = projects[i.project]]
    BY <1>3 DEF ReviewProject
  <2>2. /\ pc' = [pc EXCEPT ![r] = "loaded"]
        /\ UNCHANGED <<tables, user, locks, overwritten>>
    BY <1>3 DEF ReviewProject
  <2>3. i.project \in Projects
    BY <2>1, InputKinds
  <2>4. /\ input'[r] = i /\ project'[r] = projects[i.project]
        /\ Others(r)
    BY <1>0, <2>1, <2>2 DEF TypeOK, Others
  <2>5. QED
    BY <1>0, <2>1, <2>2, <2>3, <2>4, CopyIsEarned DEF tables
<1>4. ASSUME NEW r \in Requests, UpdateProfile(r) PROVE MoneyInv'
  <2>1. PICK i \in Inputs :
          /\ i.kind = "profile"
          /\ input' = [input EXCEPT ![r] = i]
          /\ user' = [user EXCEPT ![r] = users[i.user]]
    BY <1>4 DEF UpdateProfile
  <2>2. /\ pc' = [pc EXCEPT ![r] = "loaded"]
        /\ UNCHANGED <<tables, project, locks, overwritten>>
    BY <1>4 DEF UpdateProfile
  <2>3. i.user \in Users
    BY <2>1, InputKinds
  <2>4. /\ input'[r] = i /\ user'[r] = users[i.user]
        /\ Others(r)
    BY <1>0, <2>1, <2>2 DEF TypeOK, Others
  <2>5. QED
    BY <1>0, <2>1, <2>2, <2>3, <2>4, CopyIsEarned DEF tables
<1>5. ASSUME NEW r \in Requests, Holding(r) \/ ~Holding(r)', Others(r),
             UNCHANGED <<projects, users, donations, input, project, user>>
      PROVE  MoneyInv'
  BY <1>0, <1>5, QuietMoney DEF Others, Holding
<1>6. ASSUME NEW r \in Requests, BeginSave(r) \/ Lock(r) \/ Statement(r) \/ InsertReview(r)
      PROVE  MoneyInv'
  <2>1. UNCHANGED <<projects, users, donations, input, project, user>>
    BY <1>6 DEF BeginSave, Lock, Statement, NextStatement, InsertReview, tables
  <2>2. Others(r)
    BY <1>0, <1>6, <2>1 DEF Others, BeginSave, Lock, Statement, NextStatement, InsertReview, TypeOK
  <2>3. Holding(r) \/ ~Holding(r)'
    BY <1>0, <1>6 DEF Holding, BeginSave, Lock, Statement, NextStatement, InsertReview, InTx, TypeOK
  <2>4. QED
    BY <1>5, <2>1, <2>2, <2>3
<1>7. ASSUME NEW r \in Requests, NEW s \in Ended, End(r, s), UNCHANGED <<tables, input, overwritten>>
      PROVE  MoneyInv'
  <2>1. Others(r) /\ ~Holding(r)'
    BY <1>0, <1>7, EndHolds
  <2>2. QED
    BY <1>0, <1>7, <2>1, QuietMoney DEF Others, Holding, tables
<1>8. ASSUME NEW r \in Requests, CommitDonation(r) PROVE MoneyInv'
  <2>1. PICK p, u, a, d : /\ p = input[r].project /\ u = input[r].user
                          /\ a = input[r].amount /\ d = DonationOf(r)
    OBVIOUS
  <2>2. PICK x \in FloatSum(project[r].currentAmount, a), y \in FloatSum(user[r].totalDonation, a) :
          /\ projects' = [projects EXCEPT ![p] = Credited(project[r], x)]
          /\ users' = [users EXCEPT ![u] = WithGift(user[r], y)]
          /\ input' = input /\ a > 0
    <3>1. /\ \E x \in FloatSum(project[r].currentAmount, a) :
               projects' = [projects EXCEPT ![p] = Credited(project[r], x)]
          /\ \E y \in FloatSum(user[r].totalDonation, a) :
               users' = [users EXCEPT ![u] = WithGift(user[r], y)]
          /\ a > 0
      BY <1>8, <2>1, CommittedSums
    <3>2. input' = input
      BY <1>8 DEF CommitDonation
    <3>3. QED
      BY <3>1, <3>2
  <2>3. /\ pc[r] = "commit" /\ input[r].kind = "donate"
        /\ p \in Projects /\ u \in Users /\ a \in Nat
        /\ d.amount = Dec(a) /\ d.amount \in Nat
        /\ d \notin donations /\ donations' = donations \cup {d}
        /\ GiftsTo(p)' = GiftsTo(p) \cup {d}
        /\ \A q \in Projects \ {p} : GiftsTo(q)' = GiftsTo(q)
        /\ GiftsBy(u)' = GiftsBy(u) \cup {d}
        /\ \A v \in Users \ {u} : GiftsBy(v)' = GiftsBy(v)
    BY <1>8, <2>1, NewGift, SMTT(60)
  <2>4. PICK s \in {"answer", "inDoubt"} : End(r, s)
    BY <1>8 DEF CommitDonation, Committed
  <2>5. Others(r) /\ ~Holding(r)'
    BY <1>0, <2>2, <2>4, EndHolds DEF Ended
  <2>6. /\ EarnedProject(project[r], p, GiftsTo(p), Rough) /\ EarnedUser(user[r], u, GiftsBy(u), Rough)
        /\ project[r] \in ProjectRows /\ user[r] \in UserRows
        /\ projects \in [Projects -> ProjectRows] /\ users \in [Users -> UserRows]
    BY <1>0, <2>1, <2>3 DEF MoneyInv, CopiesEarned, Holding, InTx, TypeOK
  <2>7. /\ d \notin GiftsTo(p) /\ d \notin GiftsBy(u)
        /\ GiftsTo(p) \cap Rough \subseteq Rough' /\ GiftsBy(u) \cap Rough \subseteq Rough'
    BY <1>0, <2>3 DEF GiftsTo, GiftsBy
  <2>8. /\ EarnedProject(projects'[p], p, GiftsTo(p)', Rough')
        /\ EarnedUser(users'[u], u, GiftsBy(u)', Rough')
    <3>1. HalfCent(a) => d \in Rough'
      BY <2>1, <2>2, <2>3 DEF Rough, DonationOf
    <3>2. EarnedProject(Credited(project[r], x), p, GiftsTo(p) \cup {d}, Rough')
      BY <2>2, <2>3, <2>6, <2>7, <3>1, GiftsFinite, CreditIsEarned
    <3>3. EarnedUser(WithGift(user[r], y), u, GiftsBy(u) \cup {d}, Rough')
      BY <2>2, <2>3, <2>6, <2>7, <3>1, GiftsFinite, GiftIsEarned
    <3>4. QED
      BY <2>2, <2>3, <2>6, <3>2, <3>3
  <2>9. /\ \A q \in Projects : EarnedProject(projects'[q], q, GiftsTo(q)', Rough')
        /\ \A v \in Users : EarnedUser(users'[v], v, GiftsBy(v)', Rough')
    <3>1. ASSUME NEW q \in Projects, q # p PROVE EarnedProject(projects'[q], q, GiftsTo(q)', Rough')
      <4>1. projects'[q] = projects[q] /\ GiftsTo(q)' = GiftsTo(q) /\ GiftsTo(q) \cap Rough \subseteq Rough'
        BY <1>0, <2>2, <2>3, <2>6, <3>1
      <4>2. EarnedProject(projects[q], q, GiftsTo(q), Rough)
        BY DEF MoneyInv
      <4>3. IsFiniteSet(GiftsTo(q)) /\ \A g \in GiftsTo(q) : g.amount \in Nat
        BY GiftsFinite
      <4>4. QED
        BY <4>1, <4>2, <4>3, EarnedGrows
    <3>2. ASSUME NEW v \in Users, v # u PROVE EarnedUser(users'[v], v, GiftsBy(v)', Rough')
      <4>1. users'[v] = users[v] /\ GiftsBy(v)' = GiftsBy(v) /\ GiftsBy(v) \cap Rough \subseteq Rough'
        BY <1>0, <2>2, <2>3, <2>6, <3>2
      <4>2. EarnedUser(users[v], v, GiftsBy(v), Rough)
        BY DEF MoneyInv
      <4>3. IsFiniteSet(GiftsBy(v)) /\ \A g \in GiftsBy(v) : g.amount \in Nat
        BY GiftsFinite
      <4>4. QED
        BY <4>1, <4>2, <4>3, EarnedGrows
    <3>3. QED
      BY <2>8, <3>1, <3>2
  <2>10. QED
    BY <2>2, <2>3, <2>5, <2>9, OthersStayEarned, <1>0 DEF MoneyInv
<1>9. ASSUME NEW r \in Requests, CommitReview(r) PROVE MoneyInv'
  <2>1. PICK p : p = input[r].project
    OBVIOUS
  <2>2. /\ pc[r] = "commit" /\ input[r].kind = "review"
        /\ projects' = [projects EXCEPT ![p] = Judged(project[r], input[r].status)]
        /\ UNCHANGED <<users, donations, input>>
    BY <1>9, <2>1 DEF CommitReview
  <2>3. PICK s \in {"audit", "inDoubt"} : End(r, s)
    BY <1>9 DEF CommitReview, Committed
  <2>4. Others(r) /\ ~Holding(r)'
    BY <1>0, <2>2, <2>3, EndHolds DEF Ended
  <2>5. p \in Projects /\ input[r].status \in Reviewed
    BY <1>0, <2>1, <2>2, InputKinds DEF TypeInv, StageOK
  <2>6. /\ EarnedProject(project[r], p, GiftsTo(p), Rough) /\ project[r] \in ProjectRows
        /\ projects \in [Projects -> ProjectRows]
    BY <1>0, <2>1, <2>2 DEF MoneyInv, CopiesEarned, Holding, InTx, TypeOK
  <2>7. EarnedProject(Judged(project[r], input[r].status), p, GiftsTo(p), Rough)
    BY <2>5, <2>6 DEF EarnedProject, Judged, ProjectRows, Reviewed
  <2>8. \A x : GiftsTo(x)' = GiftsTo(x) /\ GiftsBy(x)' = GiftsBy(x)
    BY <2>2 DEF GiftsTo, GiftsBy
  <2>9. \A q \in Projects : EarnedProject(projects'[q], q, GiftsTo(q)', Rough')
    BY <1>0, <2>2, <2>5, <2>6, <2>7, <2>8 DEF MoneyInv
  <2>10. QED
    BY <2>2, <2>4, <2>8, <2>9, OthersStayEarned, <1>0 DEF MoneyInv
<1>10. ASSUME NEW r \in Requests, CommitProfile(r) PROVE MoneyInv'
  <2>1. PICK u : u = input[r].user
    OBVIOUS
  <2>2. /\ pc[r] = "commit" /\ input[r].kind = "profile"
        /\ users' = [users EXCEPT ![u] = Renamed(user[r], input[r].realName)]
        /\ UNCHANGED <<projects, donations, input>>
    BY <1>10, <2>1 DEF CommitProfile
  <2>3. PICK s \in {"answer", "inDoubt"} : End(r, s)
    BY <1>10 DEF CommitProfile, Committed
  <2>4. Others(r) /\ ~Holding(r)'
    BY <1>0, <2>2, <2>3, EndHolds DEF Ended
  <2>5. u \in Users
    BY <1>0, <2>1, <2>2, InputKinds
  <2>6. /\ EarnedUser(user[r], u, GiftsBy(u), Rough) /\ user[r] \in UserRows
        /\ users \in [Users -> UserRows]
    BY <1>0, <2>1, <2>2 DEF MoneyInv, CopiesEarned, Holding, InTx, TypeOK
  <2>7. EarnedUser(Renamed(user[r], input[r].realName), u, GiftsBy(u), Rough)
    BY <2>6 DEF EarnedUser, Renamed, UserRows
  <2>8. \A x : GiftsTo(x)' = GiftsTo(x) /\ GiftsBy(x)' = GiftsBy(x)
    BY <2>2 DEF GiftsTo, GiftsBy
  <2>9. \A v \in Users : EarnedUser(users'[v], v, GiftsBy(v)', Rough')
    BY <1>0, <2>2, <2>5, <2>6, <2>7, <2>8 DEF MoneyInv
  <2>10. QED
    BY <2>2, <2>4, <2>8, <2>9, OthersStayEarned, <1>0 DEF MoneyInv
<1>11. CASE Crash
  <2>1. \A q \in Requests : ~Holding(q)'
    <3> TAKE q \in Requests
    <3>1. pc'[q] = AfterCrash(pc[q]) /\ pc[q] \in Stages
      BY <1>0, <1>11 DEF Crash, TypeOK
    <3>2. QED
      BY <3>1, CrashStages DEF Holding, InFlight, InTx
  <2>2. QED
    BY <1>0, <1>11, <2>1, QuietMoney DEF Crash, tables
<1>12. CASE UNCHANGED vars
  BY <1>0, <1>12, QuietMoney DEF vars, tables, Holding
<1>13. ASSUME NEW r \in Requests, Begin(r) PROVE MoneyInv'
  BY <1>1, <1>2, <1>3, <1>4, <1>13 DEF Begin, Refuse, RefuseDonation
<1>14. ASSUME NEW r \in Requests, Continue(r) PROVE MoneyInv'
  BY <1>6, <1>7, <1>8, <1>9, <1>10, <1>14 DEF Continue, Answer, OutOfRange, Ended
<1>15. ASSUME NEW r \in Requests, DeadlockVictim(r) \/ StatementError(r) PROVE MoneyInv'
  BY <1>7, <1>15 DEF DeadlockVictim, StatementError, Ended
<1>16. QED
  BY <1>11, <1>12, <1>13, <1>14, <1>15 DEF Next, Terminating

LEMMA AlwaysEarned == Spec => [](TypeInv /\ RecordInv /\ MoneyInv)
<1>1. Init => TypeInv /\ RecordInv /\ MoneyInv
  BY InitTypes, InitRecords, InitMoney
<1>2. (TypeInv /\ RecordInv /\ MoneyInv) /\ [Next]_vars => (TypeInv /\ RecordInv /\ MoneyInv)'
  BY StepTypes, StepRecords, StepMoney
<1>3. QED
  BY <1>1, <1>2, PTL DEF Spec

\* Whatever the interleaving of the three handlers, the amount of a project
\* or a user is its opening amount plus some of the donations on record, each
\* at most once and in full, but for a cent on each that was sent within a mill
\* of half a cent, whichever way the float64 sums come out.
THEOREM OnlyDonationsAreCredited == Spec => []CreditsAreDonations
<1>1. MoneyInv => CreditsAreDonations
  BY DEF MoneyInv, EarnedProject, EarnedUser, CreditsAreDonations
<1>2. QED
  BY <1>1, AlwaysEarned, PTL

\* A project is completed only with its target in its row, and in the donations
\* too, up to a cent for each that was sent within a mill of half a cent.
THEOREM CompletionIsEarned == Spec => []CompletedIsEarned
<1>1. TypeInv /\ RecordInv /\ MoneyInv => CompletedIsEarned
  <2> SUFFICES ASSUME TypeInv, RecordInv, MoneyInv, NEW p \in Projects,
                      projects[p].status = "completed"
               PROVE  /\ projects[p].currentAmount >= projects[p].targetAmount
                      /\ Received(p) + 10 * Cardinality(GiftsTo(p) \cap Rough)
                           >= projects[p].targetAmount
    BY DEF CompletedIsEarned
  <2>1. EarnedProject(projects[p], p, GiftsTo(p), Rough) /\ projects[p] \in ProjectRows
    BY DEF MoneyInv, TypeInv, TypeOK
  <2>2. /\ projects[p].currentAmount <= Received(p) + 10 * Cardinality(GiftsTo(p) \cap Rough)
        /\ Received(p) \in Nat /\ Cardinality(GiftsTo(p) \cap Rough) \in Nat
    BY <2>1, GiftsFinite, CreditsAtMost, InitialProjectsAssumption
    DEF EarnedProject, Received, IsDec
  <2>3. QED
    BY <2>1, <2>2 DEF EarnedProject, ProjectRows
<1>2. QED
  BY <1>1, AlwaysEarned, PTL

-----------------------------------------------------------------------------
(* Approval.  The status is read once and written back later, so besides   *)
(* the rows every copy a donation holds has to come from an approval.      *)

Approved(p) ==
  \/ InitialProjects[p].status = "approved"
  \/ \E r \in Requests : HasApproved(r, p)

ApprovalInv ==
  /\ \A p \in Projects : projects[p].status = "approved" => Approved(p)
  /\ \A r \in Requests :
       input[r].kind = "donate" /\ pc[r] \in InTx =>
         Approved(input[r].project) /\ project[r].status = "approved"
  /\ \A d \in donations : Approved(d.projectId)

\* Nothing takes an approval back from the history.
LEMMA ApprovalStays ==
  ASSUME TypeInv, [Next]_vars, NEW p \in Projects, Approved(p)
  PROVE  Approved(p)'
<1>1. ASSUME NEW q \in Requests, HasApproved(q, p) PROVE HasApproved(q, p)'
  <2>1. pc[q] \in Effective /\ pc[q] # "idle" /\ pc[q] # "commit"
    BY <1>1 DEF HasApproved, Effective
  <2>2. CASE \E r \in Requests : Committing(r)
    BY <1>1, <2>1, <2>2, CommitEffect DEF HasApproved
  <2>3. CASE \A r \in Requests : ~Committing(r)
    BY <1>1, <2>1, <2>3, EffectStays DEF HasApproved
  <2>4. QED
    BY <2>2, <2>3
<1>2. QED
  BY <1>1 DEF Approved

\* A donation that holds a copy either held it before or has just read an
\* approved project.
LEMMA DonationsHold ==
  ASSUME TypeInv, [Next]_vars, NEW q \in Requests,
         input'[q].kind = "donate", pc'[q] \in InTx
  PROVE  \/ input'[q] = input[q] /\ project'[q] = project[q] /\ pc[q] \in InTx
         \/ /\ input'[q].project \in Projects
            /\ project'[q] = projects[input'[q].project]
            /\ project'[q].status = "approved"
<1>0. TypeOK /\ StageOK
  BY DEF TypeInv
<1>1. CASE \E r \in Requests : Committing(r)
  BY <1>1, CommitEffect DEF Effective, InTx
<1>2. ASSUME NEW r \in Requests, Begin(r)
      PROVE  \/ input'[q] = input[q] /\ project'[q] = project[q] /\ pc[q] \in InTx
             \/ /\ input'[q].project \in Projects
                /\ project'[q] = projects[input'[q].project]
                /\ project'[q].status = "approved"
  <2>1. CASE CreateDonation(r)
    <3>1. PICK i \in Inputs :
            /\ i.kind = "donate"
            /\ AcceptsMoney(projects[i.project])
            /\ input' = [input EXCEPT ![r] = i]
            /\ project' = [project EXCEPT ![r] = projects[i.project]]
      BY <2>1 DEF CreateDonation
    <3>2. i.project \in Projects
      BY <3>1, InputKinds
    <3>3. pc' = [pc EXCEPT ![r] = "insertDonation"]
      BY <2>1 DEF CreateDonation
    <3>4. QED
      BY <1>0, <3>1, <3>2, <3>3 DEF TypeOK, AcceptsMoney
  <2>2. CASE Refuse(r) \/ RefuseDonation(r) \/ ReviewProject(r) \/ UpdateProfile(r)
    BY <1>0, <2>2
    DEF Refuse, RefuseDonation, ReviewProject, UpdateProfile, End, TypeOK, InTx
  <2>3. QED
    BY <1>2, <2>1, <2>2 DEF Begin
<1>3. ASSUME NEW r \in Requests, Continue(r) \/ DeadlockVictim(r) \/ StatementError(r),
             \A s \in Requests : ~Committing(s)
      PROVE  input'[q] = input[q] /\ project'[q] = project[q] /\ pc[q] \in InTx
  <2>1. CASE BeginSave(r)
    BY <1>0, <2>1 DEF BeginSave, TypeOK, StageOK
  <2>2. CASE Lock(r) \/ Statement(r) \/ InsertReview(r)
    BY <1>0, <2>2 DEF Lock, Statement, NextStatement, InsertReview, TypeOK, InTx
  <2>3. CASE Answer(r) \/ OutOfRange(r) \/ DeadlockVictim(r) \/ StatementError(r)
    BY <1>0, <2>3
    DEF Answer, OutOfRange, DeadlockVictim, StatementError, End, TypeOK, InTx
  <2>4. QED
    BY <1>3, <2>1, <2>2, <2>3 DEF Continue, Committing
<1>4. CASE Crash
  <2>1. pc'[q] = AfterCrash(pc[q]) /\ pc[q] \in Stages
    BY <1>0, <1>4 DEF Crash, TypeOK
  <2>2. QED
    BY <2>1, CrashStages DEF InFlight, InTx
<1>5. CASE UNCHANGED vars
  BY <1>5 DEF vars
<1>6. QED
  BY <1>1, <1>2, <1>3, <1>4, <1>5 DEF Next, Terminating

LEMMA StepApproval == TypeInv /\ TypeInv' /\ ApprovalInv /\ [Next]_vars => ApprovalInv'
<1> SUFFICES ASSUME TypeInv, TypeInv', ApprovalInv, [Next]_vars PROVE ApprovalInv'
  OBVIOUS
<1>0. /\ TypeOK
      /\ \A q \in Requests : input[q] \in Inputs \cup {NoInput}
      /\ \A p \in Projects : Approved(p) => Approved(p)'
  BY ApprovalStays DEF TypeInv, TypeOK
<1>1. ASSUME NEW q \in Requests, input'[q].kind = "donate", pc'[q] \in InTx
      PROVE  Approved(input[q].project)' /\ project'[q].status = "approved"
  <2>1. PICK p \in Projects : p = input'[q].project
    BY <1>1, InputKinds DEF TypeInv, TypeOK
  <2>2. Approved(p)
    BY <1>1, <2>1, DonationsHold DEF ApprovalInv
  <2>3. Approved(p)'
    BY <1>0, <2>2
  <2>4. project'[q].status = "approved"
    BY <1>1, DonationsHold DEF ApprovalInv
  <2>5. QED
    BY <2>1, <2>3, <2>4 DEF Approved, HasApproved
<1>2. ASSUME NEW r \in Requests, CommitDonation(r)
      PROVE  /\ \A p \in Projects : projects'[p].status = "approved" => Approved(p)'
             /\ \A d \in donations' : Approved(d.projectId)'
  <2>1. /\ input[r].kind = "donate" /\ pc[r] \in InTx
        /\ projects' = [projects EXCEPT ![input[r].project] = projects'[input[r].project]]
        /\ donations' = donations \cup {DonationOf(r)}
    BY <1>0, <1>2 DEF CommitDonation, DonationOf, InTx, TypeOK
  <2>2. input[r].project \in Projects /\ Approved(input[r].project)
    BY <1>0, <2>1, InputKinds DEF ApprovalInv
  <2>3. \A d \in donations : d.projectId \in Projects
    BY <1>0 DEF TypeOK, DonationRows
  <2>4. QED
    BY <1>0, <2>1, <2>2, <2>3 DEF ApprovalInv, TypeOK, DonationOf
<1>3. ASSUME NEW r \in Requests, CommitReview(r)
      PROVE  /\ \A p \in Projects : projects'[p].status = "approved" => Approved(p)'
             /\ \A d \in donations' : Approved(d.projectId)'
  <2>1. /\ input[r].kind = "review" /\ donations' = donations
        /\ projects' = [projects EXCEPT ![input[r].project] =
                          Judged(project[r], input[r].status)]
    BY <1>3 DEF CommitReview
  <2>2. PICK p \in Projects : p = input[r].project
    BY <1>0, <2>1, InputKinds
  <2>3. projects'[p].status = input[r].status
    BY <1>0, <2>1, <2>2 DEF TypeOK, Judged, ProjectRows
  <2>4. input[r].status = "approved" => Approved(p)'
    <3>1. input'[r] = input[r] /\ pc'[r] \in Effective
      BY <1>3, CommitEffect DEF Committing
    <3>2. QED
      BY <2>1, <2>2, <3>1 DEF HasApproved, Approved
  <2>5. \A q \in Projects \ {p} : projects'[q] = projects[q]
    BY <1>0, <2>1, <2>2 DEF TypeOK
  <2>6. \A d \in donations : d.projectId \in Projects
    BY <1>0 DEF TypeOK, DonationRows
  <2>7. QED
    BY <1>0, <2>1, <2>3, <2>4, <2>5, <2>6 DEF ApprovalInv
<1>4. ASSUME UNCHANGED <<projects, donations>>
      PROVE  /\ \A p \in Projects : projects'[p].status = "approved" => Approved(p)'
             /\ \A d \in donations' : Approved(d.projectId)'
  BY <1>0, <1>4 DEF ApprovalInv, TypeOK, DonationRows
<1>5. (\E r \in Requests : CommitDonation(r) \/ CommitReview(r)) \/ UNCHANGED <<projects, donations>>
  BY RowWriters DEF Committing, CommitProfile
<1>6. QED
  BY <1>1, <1>2, <1>3, <1>4, <1>5 DEF ApprovalInv

\* No donation is recorded for a project no administrator ever approved.
THEOREM MoneyNeedsApproval == Spec => []OnlyApprovedRaiseMoney
<1>1. Init => ApprovalInv
  BY DEF Init, ApprovalInv, Approved, InTx
<1>2. ApprovalInv => OnlyApprovedRaiseMoney
  BY DEF ApprovalInv, OnlyApprovedRaiseMoney, Approved
<1>3. Init => TypeInv /\ ApprovalInv
  BY <1>1, InitTypes
<1>4. (TypeInv /\ ApprovalInv) /\ [Next]_vars => (TypeInv /\ ApprovalInv)'
  BY StepTypes, StepApproval
<1>5. QED
  BY <1>2, <1>3, <1>4, PTL DEF Spec

-----------------------------------------------------------------------------
(* Verdicts.  A donation writes the status of its copy back, so a verdict  *)
(* has to be accounted for on the rows and for the open donations.         *)

\* The verdict s on p is in the table of reviews, or a review of it has yet
\* to record it or was not answered with success.
Recorded(p, s) == \E v \in reviews : v.projectId = p /\ v.status = s
Outstanding(r, p, s) ==
  /\ pc[r] \in {"audit", "inDoubt", "cutOff"}
  /\ input[r].kind = "review"
  /\ input[r].project = p
  /\ input[r].status = s
Noted(p, s) == Recorded(p, s) \/ \E r \in Requests : Outstanding(r, p, s)
Accounted(p, s) == s = InitialProjects[p].status \/ Noted(p, s)

VerdictInv ==
  /\ \A p \in Projects : projects[p].status \in Reviewed => Accounted(p, projects[p].status)
  /\ \A r \in Requests :
       input[r].kind = "donate" /\ pc[r] \in InTx => Accounted(input[r].project, "approved")

\* A review that has yet to record its verdict stays so until it does.
LEMMA OutstandingUntilRecorded ==
  ASSUME TypeInv, [Next]_vars, NEW q \in Requests, NEW p, NEW s, Outstanding(q, p, s)
  PROVE  Outstanding(q, p, s)' \/ InsertReview(q)
<1> DEFINE Waiting == {"audit", "inDoubt", "cutOff"}
<1>0. TypeOK /\ pc[q] \in Waiting
  BY DEF TypeInv, Outstanding
<1>1. ASSUME NEW r \in Requests, Committing(r) PROVE Outstanding(q, p, s)'
  BY <1>0, <1>1, CommitEffect DEF Outstanding
<1>2. CASE \A r \in Requests : ~Committing(r)
  <2>1. input'[q] = input[q]
    BY <1>0, <1>2, EffectStays
  <2>2. SUFFICES ASSUME ~InsertReview(q) PROVE pc'[q] \in Waiting
    BY <2>1 DEF Outstanding
  <2>3. ASSUME NEW r \in Requests, Begin(r) PROVE pc'[q] \in Waiting
    BY <1>0, <2>3
    DEF Begin, Refuse, CreateDonation, RefuseDonation, ReviewProject, UpdateProfile, End, TypeOK
  <2>4. ASSUME NEW r \in Requests, BeginSave(r) \/ Lock(r) \/ Statement(r) PROVE pc'[q] \in Waiting
    BY <1>0, <2>4 DEF BeginSave, Lock, Statement, InTx, TypeOK
  <2>5. ASSUME NEW r \in Requests, InsertReview(r) PROVE pc'[q] \in Waiting
    BY <1>0, <2>2, <2>5 DEF InsertReview, TypeOK
  <2>6. ASSUME NEW r \in Requests, OutOfRange(r) \/ DeadlockVictim(r) PROVE pc'[q] \in Waiting
    <3>1. r # q
      BY <1>0, <2>6, RollbacksAreInTx DEF InTx
    <3>2. QED
      BY <1>0, <2>6, <3>1 DEF OutOfRange, DeadlockVictim, End, TypeOK
  <2>7. ASSUME NEW r \in Requests, Answer(r) \/ StatementError(r) PROVE pc'[q] \in Waiting
    BY <1>0, <2>7 DEF Answer, StatementError, End, InTx, TypeOK
  <2>8. CASE Crash
    BY <1>0, <2>8 DEF Crash, AfterCrash, InTx, TypeOK
  <2>9. CASE UNCHANGED vars
    BY <1>0, <2>9 DEF vars
  <2>10. QED
    BY <1>2, <2>3, <2>4, <2>5, <2>6, <2>7, <2>8, <2>9 DEF Next, Continue, Committing, Terminating
<1>3. QED
  BY <1>1, <1>2

\* A verdict that is accounted for stays so.
LEMMA AccountedForEver ==
  ASSUME TypeInv, [Next]_vars, NEW p, NEW s, Accounted(p, s) PROVE Accounted(p, s)'
<1>1. reviews \subseteq reviews'
  BY RowWriters DEF Committing, CommitDonation, CommitReview, CommitProfile, InsertReview
<1>2. CASE s = InitialProjects[p].status
  BY <1>2 DEF Accounted
<1>3. CASE Recorded(p, s)
  BY <1>1, <1>3 DEF Recorded, Noted, Accounted
<1>4. ASSUME NEW q \in Requests, Outstanding(q, p, s) PROVE Accounted(p, s)'
  <2>1. CASE Outstanding(q, p, s)'
    BY <2>1 DEF Noted, Accounted
  <2>2. CASE InsertReview(q)
    <3> DEFINE v == [request |-> q, projectId |-> p, status |-> s]
    <3>1. v \in reviews'
      BY <1>4, <2>2 DEF InsertReview, Outstanding
    <3>2. v.projectId = p /\ v.status = s
      OBVIOUS
    <3>3. Recorded(p, s)'
      BY <3>1, <3>2, Zenon DEF Recorded
    <3>4. QED
      BY <3>3 DEF Noted, Accounted
  <2>3. QED
    BY <1>4, <2>1, <2>2, OutstandingUntilRecorded
<1>5. QED
  BY <1>2, <1>3, <1>4 DEF Accounted, Noted

LEMMA StepVerdicts ==
  TypeInv /\ TypeInv' /\ ApprovalInv /\ VerdictInv /\ [Next]_vars => VerdictInv'
<1> SUFFICES ASSUME TypeInv, TypeInv', ApprovalInv, VerdictInv, [Next]_vars PROVE VerdictInv'
  OBVIOUS
<1>0. /\ TypeOK
      /\ \A q \in Requests : input[q] \in Inputs \cup {NoInput}
      /\ \A p \in Projects : Accounted(p, "approved") => Accounted(p, "approved")'
  BY AccountedForEver DEF TypeInv, TypeOK
<1>1. ASSUME NEW q \in Requests, input'[q].kind = "donate", pc'[q] \in InTx
      PROVE  Accounted(input[q].project, "approved")'
  <2>1. PICK p \in Projects : p = input'[q].project
    BY <1>1, InputKinds DEF TypeInv, TypeOK
  <2>2. Accounted(p, "approved")
    BY <1>1, <2>1, DonationsHold DEF VerdictInv, Reviewed
  <2>3. Accounted(p, "approved")'
    BY <1>0, <2>2
  <2>4. QED
    BY <2>1, <2>3
<1>2. ASSUME NEW p \in Projects, projects'[p] = projects[p], projects[p].status \in Reviewed
      PROVE  Accounted(p, projects[p].status)'
  <2>1. PICK s : s = projects[p].status
    OBVIOUS
  <2>2. Accounted(p, s)'
    BY <1>2, <2>1, AccountedForEver DEF VerdictInv
  <2>3. QED
    BY <1>2, <2>1, <2>2
<1>3. ASSUME NEW r \in Requests, CommitDonation(r), NEW p \in Projects,
             projects'[p].status \in Reviewed
      PROVE  Accounted(p, projects[p].status)'
  <2>1. /\ input[r].kind = "donate" /\ pc[r] \in InTx
        /\ \E x : projects' = [projects EXCEPT ![input[r].project] = Credited(project[r], x)]
    BY <1>3 DEF CommitDonation, InTx
  <2>2. CASE p = input[r].project
    <3>1. project[r].status = "approved" /\ Accounted(p, "approved")'
      BY <1>0, <2>1, <2>2 DEF ApprovalInv, VerdictInv
    <3>2. projects'[p].status = "approved"
      BY <1>0, <1>3, <2>1, <2>2, <3>1 DEF Credited, TypeOK, ProjectRows, Reviewed
    <3>3. QED
      BY <3>1, <3>2
  <2>3. CASE p # input[r].project
    BY <1>0, <1>2, <1>3, <2>1, <2>3 DEF TypeOK
  <2>4. QED
    BY <2>2, <2>3
<1>4. ASSUME NEW r \in Requests, CommitReview(r), NEW p \in Projects,
             projects'[p].status \in Reviewed
      PROVE  Accounted(p, projects[p].status)'
  <2>1. /\ input[r].kind = "review" /\ input' = input
        /\ projects' = [projects EXCEPT ![input[r].project] = Judged(project[r], input[r].status)]
    BY <1>4 DEF CommitReview
  <2>2. CASE p = input[r].project
    <3>1. PICK s : s = input[r].status
      OBVIOUS
    <3>2. projects'[p].status = s
      BY <1>0, <2>1, <2>2, <3>1 DEF TypeOK, Judged, ProjectRows
    <3>3. pc'[r] \in {"audit", "inDoubt"}
      BY <1>0, <1>4 DEF CommitReview, Committed, End, TypeOK
    <3>4. Outstanding(r, p, s)'
      BY <2>1, <2>2, <3>1, <3>3 DEF Outstanding
    <3>5. Accounted(p, s)'
      BY <3>4 DEF Noted, Accounted
    <3>6. QED
      BY <3>2, <3>5
  <2>3. CASE p # input[r].project
    BY <1>0, <1>2, <1>4, <2>1, <2>3 DEF TypeOK
  <2>4. QED
    BY <2>2, <2>3
<1>5. CASE UNCHANGED projects
  BY <1>1, <1>2, <1>5 DEF VerdictInv
<1>6. (\E r \in Requests : CommitDonation(r) \/ CommitReview(r)) \/ UNCHANGED projects
  BY RowWriters DEF Committing, CommitProfile
<1>7. QED
  BY <1>1, <1>3, <1>4, <1>5, <1>6 DEF VerdictInv

\* No verdict on a project loses its trace: although the record is inserted
\* after the verdict was committed, and open donations write the old status
\* back, a verdict that shows is in the table of reviews, or its review is
\* still at it or was not answered with success (service_admin.go:43-53).
THEOREM VerdictsLeaveRecords == Spec => []ReviewsAreRecorded
<1>1. Init => TypeInv /\ ApprovalInv /\ VerdictInv
  BY InitTypes DEF Init, ApprovalInv, Approved, VerdictInv, Accounted, InTx
<1>2. TypeInv /\ ApprovalInv /\ VerdictInv /\ [Next]_vars
        => (TypeInv /\ ApprovalInv /\ VerdictInv)'
  BY StepTypes, StepApproval, StepVerdicts
<1>3. VerdictInv => ReviewsAreRecorded
  BY DEF VerdictInv, ReviewsAreRecorded, Accounted, Noted, Recorded, Outstanding
<1>4. QED
  BY <1>1, <1>2, <1>3, PTL DEF Spec

-----------------------------------------------------------------------------
(* Locks.  Two-phase locking: what a commit writes it has locked, and a    *)
(* lock is given up only when its holder ends.                             *)

LockInv ==
  /\ \A l, m \in locks : ~Conflict(l, m)
  /\ \A r \in Requests :
       /\ pc[r] = "saveUser" /\ input[r].kind = "donate" =>
            Exclusive(r, input[r].project) \in locks
       /\ pc[r] = "commit" /\ input[r].kind \in {"donate", "review"} =>
            Exclusive(r, input[r].project) \in locks
       /\ pc[r] = "commit" /\ input[r].kind \in {"donate", "profile"} =>
            Exclusive(r, input[r].user) \in locks

LEMMA StepLocks == TypeInv /\ LockInv /\ [Next]_vars => LockInv'
<1> SUFFICES ASSUME TypeInv, LockInv, [Next]_vars PROVE LockInv'
  OBVIOUS
<1>0. TypeOK /\ StageOK
  BY DEF TypeInv
<1>1. ASSUME NEW r \in Requests, NEW s \in Stages \ {"saveUser", "commit"}, End(r, s),
             \A q \in Requests \ {r} : input'[q] = input[q]
      PROVE  LockInv'
  <2>1. /\ pc'[r] = s /\ \A q \in Requests \ {r} : pc'[q] = pc[q]
        /\ locks' = {l \in locks : l.holder # r}
    BY <1>0, <1>1 DEF End, TypeOK
  <2>2. \A q, x : Exclusive(q, x).holder = q
    BY DEF Exclusive
  <2>3. QED
    BY <1>1, <2>1, <2>2 DEF LockInv, Conflict
<1>2. ASSUME NEW r \in Requests, Begin(r) PROVE LockInv'
  <2>1. CASE Refuse(r) \/ RefuseDonation(r)
    BY <1>0, <1>1, <2>1 DEF Refuse, RefuseDonation, Stages, Ended, TypeOK
  <2>2. CASE CreateDonation(r) \/ ReviewProject(r) \/ UpdateProfile(r)
    <3>1. /\ locks' = locks
          /\ pc'[r] \in {"insertDonation", "loaded"}
          /\ \A q \in Requests \ {r} : pc'[q] = pc[q] /\ input'[q] = input[q]
      BY <1>0, <2>2 DEF CreateDonation, ReviewProject, UpdateProfile, TypeOK
    <3>2. QED
      BY <3>1 DEF LockInv
  <2>3. QED
    BY <1>2, <2>1, <2>2 DEF Begin
<1>3. ASSUME NEW r \in Requests, BeginSave(r) \/ InsertReview(r) PROVE LockInv'
  <2>1. CASE BeginSave(r)
    BY <1>0, <2>1 DEF BeginSave, LockInv, TypeOK, StageOK
  <2>2. CASE InsertReview(r)
    BY <1>0, <2>2 DEF InsertReview, LockInv, TypeOK
  <2>3. QED
    BY <1>3, <2>1, <2>2
<1>4. ASSUME NEW r \in Requests, Lock(r) PROVE LockInv'
  <2>1. PICK l \in Needs(r) : /\ \A m \in locks : ~Conflict(l, m)
                              /\ locks' = locks \cup {l}
    BY <1>4 DEF Lock, Grantable
  <2>2. UNCHANGED <<pc, input>>
    BY <1>4 DEF Lock
  <2>3. \A m \in locks : ~Conflict(l, m) /\ ~Conflict(m, l)
    BY <2>1 DEF Conflict
  <2>4. ~Conflict(l, l)
    BY DEF Conflict
  <2>5. QED
    BY <2>1, <2>2, <2>3, <2>4 DEF LockInv
<1>5. ASSUME NEW r \in Requests, Statement(r) PROVE LockInv'
  <2>1. /\ pc[r] \in InTx \ {"commit"} /\ Needs(r) \subseteq locks
        /\ UNCHANGED <<input, locks>>
        /\ \A q \in Requests \ {r} : pc'[q] = pc[q]
    BY <1>0, <1>5 DEF Statement, NextStatement, Ready, TypeOK
  <2>2. /\ pc'[r] = "saveUser" =>
              pc[r] = "saveProject" /\ input[r].kind = "donate"
        /\ pc'[r] = "commit" =>
              \/ pc[r] = "saveUser"
              \/ pc[r] = "saveProject" /\ input[r].kind # "donate"
    BY <1>0, <1>5 DEF Statement, NextStatement, TypeOK, InTx
  <2>3. /\ pc[r] = "saveProject" => Exclusive(r, input[r].project) \in locks
        /\ pc[r] = "saveUser" => Exclusive(r, input[r].user) \in locks
    BY <2>1 DEF Needs
  <2>4. QED
    BY <1>0, <2>1, <2>2, <2>3 DEF LockInv, StageOK
<1>6. ASSUME NEW r \in Requests, Committing(r) PROVE LockInv'
  <2>1. \E s \in {"answer", "audit", "inDoubt"} : End(r, s)
    BY <1>6 DEF Committing, CommitDonation, CommitReview, CommitProfile, Committed
  <2>2. QED
    BY <1>1, <1>6, <2>1, CommitEffect DEF Stages, InFlight, Ended
<1>7. ASSUME NEW r \in Requests,
             Answer(r) \/ OutOfRange(r) \/ DeadlockVictim(r) \/ StatementError(r)
      PROVE  LockInv'
  <2>1. UNCHANGED input
    BY <1>7 DEF Answer, OutOfRange, DeadlockVictim, StatementError
  <2>2. \E s \in Ended : End(r, s)
    BY <1>7 DEF Answer, OutOfRange, DeadlockVictim, StatementError, Ended
  <2>3. QED
    BY <1>1, <2>1, <2>2 DEF Stages, Ended
<1>8. CASE Crash
  <2>1. \A q \in Requests : pc'[q] \notin InFlight
    <3> TAKE q \in Requests
    <3>1. pc'[q] = AfterCrash(pc[q]) /\ pc[q] \in Stages
      BY <1>0, <1>8 DEF Crash, TypeOK
    <3>2. QED
      BY <3>1, CrashStages DEF InFlight, InTx
  <2>2. locks' = {}
    BY <1>8 DEF Crash
  <2>3. QED
    BY <2>1, <2>2 DEF LockInv, InFlight, InTx
<1>9. CASE UNCHANGED vars
  BY <1>9 DEF vars, LockInv
<1>10. QED
  BY <1>2, <1>3, <1>4, <1>5, <1>6, <1>7, <1>8, <1>9
  DEF Next, Continue, Committing, Terminating

\* A commit changes a locked row only if its own request holds the lock.
LEMMA CommitsOwnRows ==
  ASSUME TypeInv, LockInv, [Next]_vars, NEW l \in locks,
         \/ l.row \in Projects /\ projects'[l.row] # projects[l.row]
         \/ l.row \in Users /\ users'[l.row] # users[l.row]
  PROVE  pc[l.holder] = "commit" /\ pc'[l.holder] # "commit"
<1>0. /\ TypeOK
      /\ \A q \in Requests : input[q] \in Inputs \cup {NoInput}
      /\ Users \cap Projects = {}
  BY KeysAssumption DEF TypeInv, TypeOK
<1>1. PICK r \in Requests : Committing(r)
  BY RowWriters
<1>2. pc[r] = "commit" /\ pc'[r] # "commit"
  BY <1>1, CommitEffect DEF Effective
<1>3. Exclusive(r, l.row) \in locks
  <2>1. CASE CommitDonation(r)
    <3>1. /\ input[r].kind = "donate" /\ input[r].project \in Projects
          /\ input[r].user \in Users
      BY <1>0, <2>1, InputKinds DEF CommitDonation
    <3>2. l.row \in {input[r].project, input[r].user}
      BY <1>0, <2>1, <3>1 DEF CommitDonation, TypeOK
    <3>3. QED
      BY <1>2, <3>1, <3>2 DEF LockInv
  <2>2. CASE CommitReview(r)
    <3>1. input[r].kind = "review" /\ input[r].project \in Projects
      BY <1>0, <2>2, InputKinds DEF CommitReview
    <3>2. l.row = input[r].project
      BY <1>0, <2>2, <3>1 DEF CommitReview, TypeOK
    <3>3. QED
      BY <1>2, <3>1, <3>2 DEF LockInv
  <2>3. CASE CommitProfile(r)
    <3>1. input[r].kind = "profile" /\ input[r].user \in Users
      BY <1>0, <2>3, InputKinds DEF CommitProfile
    <3>2. l.row = input[r].user
      BY <1>0, <2>3, <3>1 DEF CommitProfile, TypeOK
    <3>3. QED
      BY <1>2, <3>1, <3>2 DEF LockInv
  <2>4. QED
    BY <1>1, <2>1, <2>2, <2>3 DEF Committing
<1>4. ~Conflict(Exclusive(r, l.row), l)
  BY <1>3 DEF LockInv
<1>5. l.holder = r
  BY <1>4 DEF Conflict, Exclusive
<1>6. QED
  BY <1>2, <1>5

\* A row that is locked is changed by no commit but its holder's.
THEOREM LocksProtectRows == Spec => LockedRowsStand
<1>1. Init => TypeInv /\ LockInv
  BY InitTypes DEF Init, LockInv
<1>2. (TypeInv /\ LockInv) /\ [Next]_vars => (TypeInv /\ LockInv)'
  BY StepTypes, StepLocks
<1>3. TypeInv /\ LockInv /\ [Next]_vars =>
        [\A l \in locks :
           \/ l.row \in Projects /\ projects'[l.row] # projects[l.row]
           \/ l.row \in Users /\ users'[l.row] # users[l.row]
           => pc[l.holder] = "commit" /\ pc'[l.holder] # "commit"]_vars
  BY CommitsOwnRows
<1>4. QED
  BY <1>1, <1>2, <1>3, PTL DEF Spec, LockedRowsStand

-----------------------------------------------------------------------------
(* Progress.  Every step takes one request forward and leaves the others   *)
(* where they are.                                                         *)

\* r goes to a later stage s, and its transaction, if it is over, releases
\* its locks.
Advances(r, s) ==
  /\ pc' = [pc EXCEPT ![r] = s]
  /\ StagesLeft(s) < StagesLeft(pc[r])
  /\ \A q \in Requests \ {r} : input'[q] = input[q]
  /\ \/ locks' = {l \in locks : l.holder # r}
     \/ locks' = locks /\ (pc[r] \in InTx => s \in InTx)

LEMMA StagesLeftType == \A s : StagesLeft(s) \in 0..8
BY DEF StagesLeft

\* A request that ends has nothing left to do.
LEMMA EndAdvances ==
  ASSUME TypeOK, NEW r \in Requests, NEW s, End(r, s), StagesLeft(s) < StagesLeft(pc[r]),
         \A q \in Requests \ {r} : input'[q] = input[q]
  PROVE  Advances(r, s)
BY DEF End, Advances

LEMMA StepForward ==
  ASSUME TypeInv, Next, vars' # vars
  PROVE  \/ \E r \in Requests : Lock(r)
         \/ \E r \in Requests : \E s \in Stages : Advances(r, s)
         \/ Crash
<1>0. /\ TypeOK
      /\ \A r \in Requests : pc[r] \in Stages
  BY DEF TypeInv, TypeOK
<1> DEFINE Forward(r) == \E s \in Stages : Advances(r, s)
<1>1. ASSUME NEW r \in Requests, Begin(r) PROVE Forward(r)
  <2>1. pc[r] = "idle"
    BY <1>1 DEF Begin, Refuse, CreateDonation, RefuseDonation, ReviewProject, UpdateProfile
  <2>2. \A q \in Requests \ {r} : input'[q] = input[q]
    BY <1>0, <1>1
    DEF Begin, Refuse, CreateDonation, RefuseDonation, ReviewProject, UpdateProfile, TypeOK
  <2>3. CASE Refuse(r) \/ RefuseDonation(r)
    <3>1. End(r, "refused")
      BY <2>3 DEF Refuse, RefuseDonation
    <3>2. StagesLeft("refused") < StagesLeft("idle")
      BY DEF StagesLeft
    <3>3. QED
      BY <1>0, <2>1, <2>2, <3>1, <3>2, EndAdvances DEF Stages, Ended
  <2>4. CASE CreateDonation(r) \/ ReviewProject(r) \/ UpdateProfile(r)
    <3>1. PICK s \in {"insertDonation", "loaded"} : pc' = [pc EXCEPT ![r] = s]
      BY <2>4 DEF CreateDonation, ReviewProject, UpdateProfile
    <3>2. locks' = locks
      BY <2>4 DEF CreateDonation, ReviewProject, UpdateProfile
    <3>3. StagesLeft(s) < StagesLeft("idle")
      BY DEF StagesLeft
    <3>4. QED
      BY <2>1, <2>2, <3>1, <3>2, <3>3 DEF Advances, Stages, InFlight, InTx
  <2>5. QED
    BY <1>1, <2>3, <2>4 DEF Begin
<1>2. ASSUME NEW r \in Requests, BeginSave(r) PROVE Forward(r)
  <2>1. PICK s \in {"saveOwner", "saveUser"} : pc' = [pc EXCEPT ![r] = s]
    BY <1>2 DEF BeginSave
  <2>2. pc[r] = "loaded" /\ UNCHANGED <<input, locks>>
    BY <1>2 DEF BeginSave
  <2>3. StagesLeft(s) < StagesLeft("loaded")
    BY DEF StagesLeft
  <2>4. QED
    BY <2>1, <2>2, <2>3 DEF Advances, Stages, InFlight, InTx
<1>3. ASSUME NEW r \in Requests, Statement(r) PROVE Forward(r)
  <2>1. /\ pc[r] \in InTx \ {"commit"} /\ UNCHANGED <<input, locks>>
        /\ pc' = [pc EXCEPT ![r] = NextStatement(r)]
    BY <1>3 DEF Statement
  <2>2. /\ NextStatement(r) \in InTx
        /\ StagesLeft(NextStatement(r)) < StagesLeft(pc[r])
    BY <2>1 DEF NextStatement, InTx, StagesLeft
  <2>3. QED
    BY <2>1, <2>2 DEF Advances, Stages, InFlight
<1>4. ASSUME NEW r \in Requests, InsertReview(r) PROVE Forward(r)
  <2>1. /\ pc[r] = "audit" /\ UNCHANGED <<input, locks>>
        /\ pc' = [pc EXCEPT ![r] = "answer"]
    BY <1>4 DEF InsertReview
  <2>2. StagesLeft("answer") < StagesLeft("audit")
    BY DEF StagesLeft
  <2>3. QED
    BY <2>1, <2>2 DEF Advances, Stages, InFlight, InTx
<1>5. ASSUME NEW r \in Requests, Committing(r) PROVE Forward(r)
  <2>1. PICK s \in {"answer", "audit", "inDoubt"} : End(r, s)
    BY <1>5 DEF Committing, CommitDonation, CommitReview, CommitProfile, Committed
  <2>2. pc[r] = "commit" /\ input' = input
    BY <1>5, CommitEffect
  <2>3. StagesLeft(s) < StagesLeft("commit")
    BY DEF StagesLeft
  <2>4. QED
    BY <1>0, <2>1, <2>2, <2>3, EndAdvances DEF Stages, InFlight, Ended
<1>6. ASSUME NEW r \in Requests,
             Answer(r) \/ OutOfRange(r) \/ DeadlockVictim(r) \/ StatementError(r)
      PROVE  Forward(r)
  <2>1. PICK s \in Ended : End(r, s)
    BY <1>6 DEF Answer, OutOfRange, DeadlockVictim, StatementError, Ended
  <2>2. pc[r] \in InFlight /\ input' = input
    BY <1>6, RollbacksAreInTx
    DEF Answer, OutOfRange, DeadlockVictim, StatementError, InFlight
  <2>3. StagesLeft(s) = 0 /\ StagesLeft(pc[r]) > 0
    BY <2>2 DEF StagesLeft, Ended, InFlight, InTx
  <2>4. QED
    BY <1>0, <2>1, <2>2, <2>3, EndAdvances DEF Stages
<1>7. QED
  BY <1>1, <1>2, <1>3, <1>4, <1>5, <1>6 DEF Next, Continue, Committing, Terminating

\* A part of a pair has at most two elements.
LEMMA PartOfPair ==
  ASSUME NEW x, NEW y, NEW S \in SUBSET {x, y}
  PROVE  IsFiniteSet(S) /\ Cardinality(S) \in 0..2
<1>1. IsFiniteSet({x}) /\ Cardinality({x}) = 1
  BY FS_Singleton
<1>2. {x, y} = {x} \cup {y}
  OBVIOUS
<1>3. IsFiniteSet({x, y}) /\ Cardinality({x, y}) <= 2
  BY <1>1, <1>2, FS_AddElement
<1>4. /\ IsFiniteSet(S) /\ Cardinality(S) <= Cardinality({x, y})
      /\ Cardinality(S) \in Nat /\ Cardinality({x, y}) \in Nat
  BY <1>3, FS_Subset, FS_CardinalityType
<1>5. QED
  BY <1>3, <1>4

\* At most two locks are missing for a statement.
LEMMA NeedsFew ==
  ASSUME NEW r
  PROVE  /\ IsFiniteSet(Needs(r) \ locks)
         /\ Cardinality(Needs(r) \ locks) \in 0..2
         /\ Cardinality((Needs(r) \ locks)') \in 0..2
<1>1. (\E x, y : Needs(r) \subseteq {x, y}) /\ (\E x, y : Needs(r)' \subseteq {x, y})
  BY DEF Needs
<1>2. /\ \E x, y : Needs(r) \ locks \subseteq {x, y}
      /\ \E x, y : (Needs(r) \ locks)' \subseteq {x, y}
  BY <1>1
<1>3. QED
  BY <1>2, PartOfPair

\* A step of r takes nothing from what another request has.
LEMMA OthersHaveAsMuchLeft ==
  ASSUME TypeInv, NEW r \in Requests, NEW q \in Requests \ {r},
         pc'[q] = pc[q], input'[q] = input[q],
         \A l : l.holder = q => (l \in locks' <=> l \in locks)
  PROVE  Left(q)' = Left(q)
<1>1. Needs(q)' = Needs(q)
  BY DEF Needs
<1>2. \A l \in Needs(q) : l.holder = q
  BY NeedsType
<1>3. Needs(q)' \ locks' = Needs(q) \ locks
  BY <1>1, <1>2
<1>4. QED
  BY <1>3 DEF Left

LEMMA StepAdvances ==
  ASSUME TypeInv, [Next]_vars, vars' # vars
  PROVE  /\ \A r \in Requests : Left(r)' <= Left(r)
         /\ \E r \in Requests : Left(r)' < Left(r)
<1>0. TypeOK /\ Next
  BY DEF TypeInv
<1>1. \A r \in Requests :
        /\ Cardinality(Needs(r) \ locks) \in 0..2
        /\ Cardinality((Needs(r) \ locks)') \in 0..2
        /\ StagesLeft(pc[r]) \in 0..8 /\ StagesLeft(pc'[r]) \in 0..8
        /\ Left(r) \in Nat /\ Left(r)' \in Nat
  <2> TAKE r \in Requests
  <2>1. /\ Cardinality(Needs(r) \ locks) \in 0..2
        /\ Cardinality((Needs(r) \ locks)') \in 0..2
        /\ StagesLeft(pc[r]) \in 0..8 /\ StagesLeft(pc'[r]) \in 0..8
    BY NeedsFew, StagesLeftType
  <2>2. QED
    BY <2>1 DEF Left
<1>2. ASSUME NEW r \in Requests, Left(r)' < Left(r),
             \A q \in Requests \ {r} : Left(q)' = Left(q)
      PROVE  /\ \A q \in Requests : Left(q)' <= Left(q)
             /\ \E q \in Requests : Left(q)' < Left(q)
  <2>1. ASSUME NEW q \in Requests PROVE Left(q)' <= Left(q)
    <3>1. Left(q) \in Nat /\ Left(q)' \in Nat
      BY <1>1
    <3>2. Left(q)' = Left(q) \/ Left(q)' < Left(q)
      BY <1>2
    <3>3. QED
      BY <3>1, <3>2
  <2>2. QED
    BY <1>2, <2>1
<1>3. ASSUME NEW r \in Requests, Lock(r)
      PROVE  Left(r)' < Left(r) /\ \A q \in Requests \ {r} : Left(q)' = Left(q)
  <2>1. PICK l \in Grantable(r) : locks' = locks \cup {l}
    BY <1>3 DEF Lock
  <2>2. UNCHANGED <<pc, input>>
    BY <1>3 DEF Lock
  <2>3. l \in Needs(r) /\ l \notin locks /\ l.holder = r
    BY <2>1, NeedsType DEF Grantable
  <2>4. Needs(r)' = Needs(r)
    BY <2>2 DEF Needs
  <2>5. (Needs(r) \ locks)' = (Needs(r) \ locks) \ {l}
    BY <2>1, <2>4
  <2>6. Cardinality((Needs(r) \ locks)') = Cardinality(Needs(r) \ locks) - 1
    BY <2>3, <2>5, NeedsFew, FS_RemoveElement
  <2>7. Left(r)' < Left(r)
    BY <1>1, <2>2, <2>6 DEF Left
  <2>8. ASSUME NEW q \in Requests \ {r} PROVE Left(q)' = Left(q)
    BY <2>1, <2>2, <2>3, OthersHaveAsMuchLeft
  <2>9. QED
    BY <2>7, <2>8
<1>4. ASSUME NEW r \in Requests, NEW s \in Stages, Advances(r, s)
      PROVE  Left(r)' < Left(r) /\ \A q \in Requests \ {r} : Left(q)' = Left(q)
  <2>1. pc'[r] = s /\ \A q \in Requests \ {r} : pc'[q] = pc[q] /\ input'[q] = input[q]
    BY <1>0, <1>4 DEF Advances, TypeOK
  <2>2. StagesLeft(s) < StagesLeft(pc[r])
    BY <1>4 DEF Advances
  <2>3. Left(r)' < Left(r)
    BY <1>1, <2>1, <2>2 DEF Left
  <2>4. \A l : l.holder # r => (l \in locks' <=> l \in locks)
    BY <1>4 DEF Advances
  <2>5. QED
    BY <2>1, <2>3, <2>4, OthersHaveAsMuchLeft
<1>5. CASE Crash
  <2>1. ASSUME NEW q \in Requests
        PROVE  \/ pc'[q] \in {"lost", "cutOff"}
               \/ pc'[q] = pc[q] /\ pc[q] \notin InFlight
    <3>1. pc'[q] = AfterCrash(pc[q]) /\ pc[q] \in Stages
      BY <1>0, <1>5 DEF Crash, TypeOK
    <3>2. QED
      BY <3>1, CrashStages
  <2>2. ASSUME NEW q \in Requests, pc'[q] \in {"lost", "cutOff"}
        PROVE  Left(q)' = 0
    <3>1. StagesLeft(pc'[q]) = 0
      BY <2>2 DEF StagesLeft
    <3>2. Needs(q)' = {}
      BY <2>2 DEF Needs
    <3>3. (Needs(q) \ locks)' = {}
      BY <3>2
    <3>4. Cardinality((Needs(q) \ locks)') = 0
      BY <3>3, FS_EmptySet
    <3>5. QED
      BY <3>1, <3>4 DEF Left
  <2>3. ASSUME NEW q \in Requests, pc'[q] = pc[q], pc[q] \notin InFlight
        PROVE  Left(q)' = Left(q)
    <3>1. Needs(q) = {} /\ Needs(q)' = {}
      BY <2>3 DEF Needs, InFlight, InTx
    <3>2. (Needs(q) \ locks)' = Needs(q) \ locks
      BY <3>1
    <3>3. QED
      BY <2>3, <3>2 DEF Left
  <2>4. PICK r \in Requests : pc[r] \in InFlight
    BY <1>5 DEF Crash
  <2>5. Left(r) > 0
    <3>1. StagesLeft(pc[r]) > 0
      BY <2>4 DEF StagesLeft, InFlight, InTx
    <3>2. StagesLeft(pc[r]) \in 0..8 /\ Cardinality(Needs(r) \ locks) \in 0..2
      BY <1>1
    <3>3. QED
      BY <3>1, <3>2 DEF Left
  <2>6. Left(r)' = 0
    BY <2>1, <2>2, <2>4
  <2>7. ASSUME NEW q \in Requests PROVE Left(q)' <= Left(q)
    <3>1. Left(q) \in Nat
      BY <1>1
    <3>2. Left(q)' = 0 \/ Left(q)' = Left(q)
      BY <2>1, <2>2, <2>3
    <3>3. QED
      BY <3>1, <3>2
  <2>8. QED
    BY <2>5, <2>6, <2>7
<1>6. QED
  BY <1>0, <1>2, <1>3, <1>4, <1>5, StepForward

\* Whatever fails, the requests only go forward: no step repeats work.
THEOREM StepsAdvance == Spec => EveryStepAdvances
<1>1. TypeInv /\ [Next]_vars =>
        [/\ \A r \in Requests : Left(r)' <= Left(r)
         /\ \E r \in Requests : Left(r)' < Left(r)]_vars
  BY StepAdvances
<1>2. QED
  BY <1>1, AlwaysTyped, PTL DEF Spec, EveryStepAdvances

\* Finitely many transactions are open, and they hold all of the locks.
OpenInv ==
  /\ IsFiniteSet(OpenTx)
  /\ \A l \in locks : l.holder \in OpenTx

LEMMA StepOpen == TypeInv /\ OpenInv /\ [Next]_vars => OpenInv'
<1> SUFFICES ASSUME TypeInv, OpenInv, [Next]_vars PROVE OpenInv'
  OBVIOUS
<1>0. TypeOK
  BY DEF TypeInv
<1>1. ASSUME NEW r \in Requests, Lock(r) PROVE OpenInv'
  <2>1. PICK l \in Needs(r) : locks' = locks \cup {l}
    BY <1>1 DEF Lock, Grantable
  <2>2. OpenTx' = OpenTx
    BY <1>1 DEF Lock, OpenTx
  <2>3. pc[r] \in InTx /\ l.holder = r
    BY <2>1, NeedsType DEF Needs, InTx
  <2>4. QED
    BY <2>1, <2>2, <2>3 DEF OpenInv, OpenTx
<1>2. ASSUME NEW r \in Requests, NEW s \in Stages, Advances(r, s) PROVE OpenInv'
  <2>1. pc'[r] = s /\ \A q \in Requests \ {r} : pc'[q] = pc[q]
    BY <1>0, <1>2 DEF Advances, TypeOK
  <2>2. OpenTx' \subseteq OpenTx \cup {r}
    BY <2>1 DEF OpenTx
  <2>3. IsFiniteSet(OpenTx')
    BY <2>2, FS_AddElement, FS_Subset DEF OpenInv
  <2>4. ASSUME NEW l \in locks' PROVE l.holder \in OpenTx'
    <3>1. /\ l \in locks
          /\ l.holder = r /\ pc[r] \in InTx => s \in InTx
      BY <1>2, <2>4 DEF Advances
    <3>2. l.holder \in OpenTx
      BY <3>1 DEF OpenInv
    <3>3. QED
      BY <2>1, <3>1, <3>2 DEF OpenTx
  <2>5. QED
    BY <2>3, <2>4 DEF OpenInv
<1>3. CASE Crash
  <2>1. locks' = {}
    BY <1>3 DEF Crash
  <2>2. ASSUME NEW q \in Requests PROVE pc'[q] \notin InTx
    <3>1. pc'[q] = AfterCrash(pc[q]) /\ pc[q] \in Stages
      BY <1>0, <1>3 DEF Crash, TypeOK
    <3>2. QED
      BY <3>1, CrashStages DEF InFlight, InTx
  <2>3. OpenTx' = {}
    BY <2>2 DEF OpenTx
  <2>4. QED
    BY <2>1, <2>3, FS_EmptySet DEF OpenInv
<1>4. CASE UNCHANGED vars
  BY <1>4 DEF vars, OpenInv, OpenTx
<1>5. QED
  BY <1>1, <1>2, <1>3, <1>4, StepForward

\* If no transaction can go on, each waits for one of them: a deadlock, and
\* within it a cycle.
LEMMA StuckMeansCycle ==
  ASSUME OpenInv, OpenTx # {}, \A r \in OpenTx : ~CanGoOn(r)
  PROVE  \E r \in Requests : InCycle(r)
<1>1. ASSUME NEW r \in OpenTx PROVE Blockers(r) \cap OpenTx # {}
  <2>1. Grantable(r) = {} /\ ~Ready(r)
    BY <1>1 DEF CanGoOn, OpenTx
  <2>2. PICK l \in Needs(r) : l \notin locks
    BY <2>1 DEF Ready
  <2>3. PICK m \in locks : Conflict(l, m)
    BY <2>1, <2>2 DEF Grantable
  <2>4. m.holder \in Blockers(r)
    BY <2>2, <2>3 DEF Blockers
  <2>5. QED
    BY <2>4 DEF OpenInv
<1>2. Deadlocked(OpenTx)
  BY <1>1 DEF Deadlocked
<1> DEFINE B == {D \in SUBSET OpenTx : Deadlocked(D)}
<1>3. PICK D \in B : \A C \in B : C \subseteq D => C = D
  <2>1. B # {} /\ B \subseteq SUBSET OpenTx /\ IsFiniteSet(OpenTx)
    BY <1>2 DEF OpenInv
  <2> HIDE DEF B
  <2>2. QED
    BY <2>1, SmallestSubset
<1>4. PICK r \in D : r \in Requests
  BY <1>3 DEF Deadlocked, OpenTx
<1>5. D \in SUBSET Requests /\ Deadlocked(D)
  BY <1>3 DEF OpenTx
<1>6. \A C \in SUBSET D : Deadlocked(C) => C = D
  BY <1>3
<1>7. QED
  BY <1>4, <1>5, <1>6 DEF InCycle

LEMMA NobodyIsStuck == OpenInv => NeverStuck
<1> SUFFICES ASSUME OpenInv, NEW q \in Requests, pc[q] \in InFlight
             PROVE  \E r \in Requests : CanGoOn(r) \/ InCycle(r)
  BY DEF NeverStuck
<1>1. CASE OpenTx = {}
  <2>1. FreeConn
    BY <1>1, FS_EmptySet, PoolAssumption DEF FreeConn
  <2>2. pc[q] \notin InTx
    BY <1>1 DEF OpenTx
  <2>3. CanGoOn(q)
    BY <2>1, <2>2 DEF CanGoOn, InFlight
  <2>4. QED
    BY <2>3
<1>2. CASE OpenTx # {}
  BY <1>2, StuckMeansCycle DEF OpenTx
<1>3. QED
  BY <1>1, <1>2

\* While a request is in flight somebody can go on, or there is a cycle of
\* locks that InnoDB breaks.
THEOREM NobodyWaitsForEver == Spec => []NeverStuck
<1>1. Init => OpenInv
  <2> SUFFICES ASSUME Init PROVE OpenInv
    OBVIOUS
  <2>1. OpenTx = {} /\ locks = {}
    BY DEF Init, OpenTx, InTx
  <2>2. QED
    BY <2>1, FS_EmptySet DEF OpenInv
<1>2. TypeInv /\ OpenInv /\ [Next]_vars => OpenInv'
  BY StepOpen
<1>3. QED
  BY <1>1, <1>2, AlwaysTyped, NobodyIsStuck, PTL DEF Spec

-----------------------------------------------------------------------------
(* Deadlocks.  A member of a cycle waits for another member, which waits   *)
(* as well and so is not over.                                             *)

Survivor(r) == pc[r] \in InFlight \cup (Ended \ {"victim", "refused"})

TouchInv == \A l \in locks : l.row \in Touched(input[l.holder])

Rivals(s, r) == pc[s] # "refused" /\ Touched(input[r]) \cap Touched(input[s]) # {}

HasSurvivor == (\E r \in Requests : pc[r] = "victim") => \E r \in Requests : Survivor(r)

HasRival ==
  \A r \in Requests : pc[r] = "victim" => \E s \in Requests \ {r} : Rivals(s, r)

\* What a statement locks is what its request touches.
LEMMA NeedsTouched ==
  ASSUME TypeInv, NEW r \in Requests, NEW l \in Needs(r)
  PROVE  l.row \in Touched(input[r])
<1>1. input[r].kind \in {"donate", "review", "profile", "none"}
  BY DEF TypeInv, TypeOK, Inputs, DonateInputs, ReviewInputs, ProfileInputs, NoInput
<1>2. CASE pc[r] = "insertDonation" \/ pc[r] = "saveUser"
  BY <1>2 DEF Needs, Touched, Shared, Exclusive, TypeInv, StageOK
<1>3. CASE pc[r] = "saveOwner" \/ pc[r] = "saveProject"
  BY <1>3 DEF Needs, Touched, Exclusive, TypeInv, StageOK
<1>4. QED
  BY <1>2, <1>3 DEF Needs

\* A request that has begun keeps its input, and who was not refused never is.
LEMMA BegunKeepsInput ==
  ASSUME TypeInv, [Next]_vars, NEW r \in Requests, pc[r] # "idle"
  PROVE  input'[r] = input[r] /\ (pc'[r] = "refused" => pc[r] = "refused")
<1>0. TypeOK
  BY DEF TypeInv
<1>1. CASE \E q \in Requests : Committing(q)
  BY <1>1, CommitEffect DEF Effective
<1>2. CASE \A q \in Requests : ~Committing(q)
  <2>1. input'[r] = input[r]
    BY <1>2, EffectStays
  <2>2. ASSUME NEW q \in Requests, Begin(q)
        PROVE  pc'[r] = pc[r]
    BY <1>0, <2>2
    DEF Begin, Refuse, CreateDonation, RefuseDonation, ReviewProject, UpdateProfile, End,
        TypeOK
  <2>3. ASSUME NEW q \in Requests,
               BeginSave(q) \/ Lock(q) \/ Statement(q) \/ InsertReview(q)
        PROVE  pc'[r] = "refused" => pc[r] = "refused"
    BY <1>0, <2>3
    DEF BeginSave, Lock, Statement, NextStatement, InsertReview, TypeOK
  <2>4. ASSUME NEW q \in Requests,
               Answer(q) \/ OutOfRange(q) \/ DeadlockVictim(q) \/ StatementError(q)
        PROVE  pc'[r] = "refused" => pc[r] = "refused"
    BY <1>0, <2>4
    DEF Answer, OutOfRange, DeadlockVictim, StatementError, End, TypeOK
  <2>5. CASE Crash
    <3>1. pc'[r] = AfterCrash(pc[r]) /\ pc[r] \in Stages
      BY <1>0, <2>5 DEF Crash, TypeOK
    <3>2. QED
      BY <2>1, <3>1, CrashStages
  <2>6. CASE UNCHANGED vars
    BY <2>6 DEF vars
  <2>7. QED
    BY <1>2, <2>1, <2>2, <2>3, <2>4, <2>5, <2>6, SMTT(60) DEF Next, Continue, Committing, Terminating
<1>3. QED
  BY <1>1, <1>2

\* A step adds to the locks only what the statement of a request needs.
LEMMA NewLocks ==
  ASSUME [Next]_vars, NEW l \in locks', l \notin locks
  PROVE  \E r \in Requests : l \in Needs(r)
BY DEF Next, Begin, Continue, Refuse, CreateDonation, RefuseDonation, ReviewProject,
       UpdateProfile, BeginSave, Lock, Statement, CommitDonation, CommitReview,
       CommitProfile, Committed, InsertReview, Answer, OutOfRange, DeadlockVictim,
       StatementError, Crash, Terminating, End, vars, Grantable

LEMMA StepTouch == TypeInv /\ TouchInv /\ [Next]_vars => TouchInv'
<1> SUFFICES ASSUME TypeInv, TouchInv, [Next]_vars, NEW l \in locks'
             PROVE  l.row \in Touched(input'[l.holder])
  BY DEF TouchInv, Touched
<1>1. l.holder \in Requests /\ l.row \in Touched(input[l.holder])
  <2>1. CASE l \in locks
    BY <2>1 DEF TouchInv, TypeInv, TypeOK, Locks
  <2>2. CASE l \notin locks
    BY <2>2, NewLocks, NeedsType, NeedsTouched
  <2>3. QED
    BY <2>1, <2>2
<1>2. pc[l.holder] # "idle"
  BY <1>1 DEF TypeInv, StageOK, Touched
<1>3. QED
  BY <1>1, <1>2, BegunKeepsInput

LEMMA CycleHasAnother ==
  ASSUME TypeInv, TouchInv, NEW r \in Requests, DeadlockVictim(r)
  PROVE  \E q \in Requests \ {r} : pc[q] \in InTx /\ Rivals(q, r)
<1>1. PICK D \in SUBSET Requests : r \in D /\ Deadlocked(D)
  BY DEF DeadlockVictim, InCycle
<1>2. PICK q \in D : q \in Blockers(r)
  BY <1>1 DEF Deadlocked
<1>3. PICK m \in locks, l \in Needs(r) : q = m.holder /\ Conflict(l, m)
  BY <1>2 DEF Blockers
<1>4. q # r
  <2>1. l.holder = r
    BY NeedsType
  <2>2. QED
    BY <1>3, <2>1 DEF Conflict
<1>5. Needs(q) # {}
  BY <1>1 DEF Deadlocked, Blockers
<1>6. pc[q] \in InTx
  BY <1>5 DEF Needs, InTx
<1>7. l.row \in Touched(input[r]) /\ l.row \in Touched(input[q])
  BY <1>3, NeedsTouched DEF Conflict, TouchInv
<1>8. QED
  BY <1>4, <1>6, <1>7 DEF Rivals, InTx

LEMMA StepSurvivor ==
  ASSUME TypeInv, TouchInv, HasSurvivor, [Next]_vars
  PROVE  HasSurvivor'
<1>0. TypeOK /\ "idle" \notin Ended \cup InFlight
  BY DEF TypeInv, Ended, InFlight, InTx
<1>1. ASSUME NEW r \in Requests, DeadlockVictim(r) PROVE HasSurvivor'
  <2>1. PICK q \in Requests \ {r} : pc[q] \in InTx
    BY <1>1, CycleHasAnother
  <2>2. pc'[q] = pc[q]
    BY <1>0, <1>1 DEF DeadlockVictim, End, TypeOK
  <2>3. QED
    BY <2>1, <2>2 DEF HasSurvivor, Survivor, InFlight
<1>2. ASSUME \A q \in Requests : pc'[q] = "victim" => pc[q] = "victim",
             \A q \in Requests : Survivor(q) => Survivor(q)'
      PROVE  HasSurvivor'
  BY <1>2 DEF HasSurvivor, Survivor
<1>3. ASSUME NEW r \in Requests, NEW s \in Stages \ {"victim"}, pc' = [pc EXCEPT ![r] = s],
             Survivor(r) => s # "refused" /\ s # "idle"
      PROVE  HasSurvivor'
  BY <1>0, <1>2, <1>3 DEF Survivor, TypeOK, Stages
<1>4. ASSUME NEW r \in Requests, Begin(r) PROVE HasSurvivor'
  BY <1>0, <1>3, <1>4
  DEF Begin, Refuse, CreateDonation, RefuseDonation, ReviewProject, UpdateProfile, End,
      Survivor, Stages, InFlight, InTx, Ended
<1>5. ASSUME NEW r \in Requests, BeginSave(r) \/ Statement(r) \/ InsertReview(r)
      PROVE  HasSurvivor'
  BY <1>0, <1>3, <1>5
  DEF BeginSave, Statement, NextStatement, InsertReview, Stages, InFlight, InTx
<1>6. ASSUME NEW r \in Requests,
             Committing(r) \/ Answer(r) \/ OutOfRange(r) \/ StatementError(r)
      PROVE  HasSurvivor'
  <2>1. \E s \in {"answer", "audit", "inDoubt", "done", "failed"} :
          pc' = [pc EXCEPT ![r] = s]
    BY <1>6 DEF Committing, CommitDonation, CommitReview, CommitProfile, Committed,
                Answer, OutOfRange, StatementError, End
  <2>2. QED
    BY <1>3, <2>1 DEF Stages, InFlight, Ended
<1>7. ASSUME NEW r \in Requests, Lock(r) PROVE HasSurvivor'
  BY <1>7 DEF Lock, HasSurvivor, Survivor
<1>8. CASE Crash
  <2>1. \A q \in Requests :
          /\ pc'[q] \in {"lost", "cutOff"} \/ (pc'[q] = pc[q] /\ pc[q] \notin InFlight)
          /\ pc[q] \in Stages
    <3> TAKE q \in Requests
    <3>1. pc'[q] = AfterCrash(pc[q]) /\ pc[q] \in Stages
      BY <1>0, <1>8 DEF Crash, TypeOK
    <3>2. QED
      BY <3>1, CrashStages
  <2>2. QED
    BY <1>2, <2>1 DEF Survivor, Ended
<1>9. CASE UNCHANGED vars
  BY <1>9 DEF vars, HasSurvivor, Survivor
<1>10. QED
  BY <1>1, <1>4, <1>5, <1>6, <1>7, <1>8, <1>9 DEF Next, Continue, Committing, Terminating

LEMMA OnlyDeadlocksMakeVictims ==
  ASSUME TypeInv, [Next]_vars, NEW r \in Requests, pc[r] # "victim", pc'[r] = "victim"
  PROVE  DeadlockVictim(r)
<1>0. TypeOK
  BY DEF TypeInv
<1>1. ASSUME NEW q \in Requests, Begin(q) PROVE FALSE
  BY <1>0, <1>1
  DEF Begin, Refuse, CreateDonation, RefuseDonation, ReviewProject, UpdateProfile, End, TypeOK
<1>2. ASSUME NEW q \in Requests, BeginSave(q) \/ Lock(q) \/ Statement(q) \/ InsertReview(q)
      PROVE  FALSE
  BY <1>0, <1>2 DEF BeginSave, Lock, Statement, NextStatement, InsertReview, TypeOK
<1>3. ASSUME NEW q \in Requests,
             Committing(q) \/ Answer(q) \/ OutOfRange(q) \/ StatementError(q)
      PROVE  FALSE
  BY <1>0, <1>3 DEF Committing, CommitDonation, CommitReview, CommitProfile, Committed,
                    Answer, OutOfRange, StatementError, End, TypeOK
<1>4. ASSUME NEW q \in Requests, DeadlockVictim(q) PROVE q = r
  BY <1>0, <1>4 DEF DeadlockVictim, End, TypeOK
<1>5. ~Crash
  <2>1. ASSUME Crash PROVE pc'[r] = AfterCrash(pc[r]) /\ pc[r] \in Stages
    BY <1>0, <2>1 DEF Crash, TypeOK
  <2>2. QED
    BY <2>1, CrashStages
<1>6. ~UNCHANGED vars
  BY DEF vars
<1>7. QED
  BY <1>1, <1>2, <1>3, <1>4, <1>5, <1>6 DEF Next, Continue, Committing, Terminating

\* A victim keeps its rival, whatever becomes of the rival.
LEMMA StepRival ==
  ASSUME TypeInv, TouchInv, HasRival, [Next]_vars
  PROVE  HasRival'
<1> SUFFICES ASSUME NEW r \in Requests, pc'[r] = "victim"
             PROVE  \E s \in Requests \ {r} :
                      /\ pc'[s] # "refused"
                      /\ Touched(input'[r]) \cap Touched(input'[s]) # {}
  BY DEF HasRival, Rivals, Touched
<1>1. PICK s \in Requests \ {r} : Rivals(s, r)
  <2>1. CASE pc[r] = "victim"
    BY <2>1 DEF HasRival
  <2>2. CASE pc[r] # "victim"
    <3>1. DeadlockVictim(r)
      BY <2>2, OnlyDeadlocksMakeVictims
    <3>2. QED
      BY <3>1, CycleHasAnother
  <2>3. QED
    BY <2>1, <2>2
<1>2. pc[r] # "idle" /\ pc[s] # "idle"
  BY <1>1 DEF Rivals, TypeInv, StageOK, Touched
<1>3. QED
  BY <1>1, <1>2, BegunKeepsInput DEF Rivals

\* Who is rolled back to break a deadlock shared a row with another request,
\* and breaking deadlocks never ends every request that was waiting.
THEOREM DeadlocksAmongRivals == Spec => []DeadlockAmongRivals
<1> DEFINE Inv == TypeInv /\ TouchInv /\ HasSurvivor /\ HasRival
<1>1. Init => Inv
  BY InitTypes DEF Init, TouchInv, HasSurvivor, HasRival
<1>2. Inv /\ [Next]_vars => Inv'
  BY StepTypes, StepTouch, StepSurvivor, StepRival
<1>3. Inv => DeadlockAmongRivals
  BY DEF DeadlockAmongRivals, HasSurvivor, HasRival, Rivals, Survivor
<1>4. QED
  BY <1>1, <1>2, <1>3, PTL DEF Spec

-----------------------------------------------------------------------------
(* Balance.                                                                *)

\* A balance stands while no gift is added, and with one more gift the amount
\* that was in balance is in balance with its credit.
LEMMA BalanceStands ==
  ASSUME NEW n \in Int, NEW S, IsFiniteSet(S), NEW R, NEW Q, S \cap R \subseteq Q,
         NEW c \in Near(n, Cardinality(S \cap R))
  PROVE  c \in Near(n, Cardinality(S \cap Q))
<1>1. /\ Cardinality(S \cap R) \in Nat /\ Cardinality(S \cap Q) \in Nat
      /\ Cardinality(S \cap R) <= Cardinality(S \cap Q)
  BY RoughCount
<1>2. QED
  BY <1>1, NearGrows

LEMMA BalanceMoves ==
  ASSUME NEW n \in Int, NEW S, IsFiniteSet(S), NEW R, NEW Q, S \cap R \subseteq Q,
         NEW c \in Near(n, Cardinality(S \cap R)), NEW a, NEW g \in Int,
         NEW d, d \notin S, HalfCent(a) => d \in Q, NEW y \in Near(c + g, Slack(a))
  PROVE  y \in Near(n + g, Cardinality((S \cup {d}) \cap Q))
<1>1. Slack(a) \in {0, 1} /\ (Slack(a) = 1 => d \in Q)
  BY DEF Slack
<1>2. PICK k \in {0, 1} : k = Slack(a)
  BY <1>1
<1>3. /\ Cardinality(S \cap R) \in Nat /\ Cardinality((S \cup {d}) \cap Q) \in Nat
      /\ Cardinality(S \cap R) + k <= Cardinality((S \cup {d}) \cap Q)
  BY <1>1, <1>2, RoughOneMore
<1>4. y \in Near(n + g, Cardinality(S \cap R) + k)
  BY <1>2, <1>3, NearAdds
<1>5. QED
  BY <1>3, <1>4, NearGrows

LEMMA StepBalance ==
  ASSUME TypeInv, RecordInv, MoneyInv, BalancedUnlessOverwritten, [Next]_vars
  PROVE  BalancedUnlessOverwritten'
<1>0. /\ TypeOK
      /\ \A q \in Requests : input[q] \in Inputs \cup {NoInput}
      /\ Rough \subseteq Rough' /\ (UNCHANGED donations => Rough' = Rough)
  BY RoughStays DEF TypeInv, TypeOK
<1>1. ASSUME UNCHANGED donations
      PROVE  /\ \A p : /\ Received(p)' = Received(p)
                        /\ (GiftsTo(p) \cap Rough)' = GiftsTo(p) \cap Rough
             /\ \A u : /\ Donated(u)' = Donated(u)
                        /\ (GiftsBy(u) \cap Rough)' = GiftsBy(u) \cap Rough
  BY <1>0, <1>1 DEF Received, Donated, GiftsTo, GiftsBy
<1>2. ASSUME NEW r \in Requests, CommitDonation(r) PROVE BalancedUnlessOverwritten'
  <2>1. PICK p, u, a, d : /\ p = input[r].project /\ u = input[r].user
                          /\ a = input[r].amount /\ d = DonationOf(r)
    OBVIOUS
  <2>0. PICK x \in FloatSum(project[r].currentAmount, a), y \in FloatSum(user[r].totalDonation, a) :
          /\ projects' = [projects EXCEPT ![p] = Credited(project[r], x)]
          /\ users' = [users EXCEPT ![u] = WithGift(user[r], y)]
          /\ a > 0
    <3>1. /\ \E x \in FloatSum(project[r].currentAmount, a) :
               projects' = [projects EXCEPT ![p] = Credited(project[r], x)]
          /\ \E y \in FloatSum(user[r].totalDonation, a) :
               users' = [users EXCEPT ![u] = WithGift(user[r], y)]
          /\ a > 0
      BY <1>2, <2>1, CommittedSums
    <3>2. QED
      BY <3>1
  <2>2. /\ overwritten \subseteq overwritten'
        /\ UNCHANGED input
        /\ p \notin overwritten' => projects[p].currentAmount = project[r].currentAmount
        /\ u \notin overwritten' => users[u].totalDonation = user[r].totalDonation
    BY <1>2, <2>1 DEF CommitDonation
  <2>3. /\ pc[r] = "commit" /\ input[r].kind = "donate"
        /\ p \in Projects /\ u \in Users /\ a \in Nat
        /\ d.amount = Dec(a) /\ d.amount \in Nat /\ d \notin donations
        /\ GiftsTo(p)' = GiftsTo(p) \cup {d}
        /\ \A q \in Projects \ {p} : GiftsTo(q)' = GiftsTo(q)
        /\ GiftsBy(u)' = GiftsBy(u) \cup {d}
        /\ \A v \in Users \ {u} : GiftsBy(v)' = GiftsBy(v)
    BY <1>2, <2>1, NewGift, SMTT(60)
  <2>4. /\ EarnedProject(project[r], p, GiftsTo(p), Rough)
        /\ EarnedUser(user[r], u, GiftsBy(u), Rough)
        /\ project[r] \in ProjectRows /\ user[r] \in UserRows
    BY <1>0, <2>1, <2>3 DEF MoneyInv, CopiesEarned, Holding, InTx, TypeOK
  <2>5. /\ d \notin GiftsTo(p) /\ d \notin GiftsBy(u)
        /\ HalfCent(a) => d \in Rough'
        /\ \A q : /\ GiftsTo(q) \cap Rough \subseteq Rough'
                  /\ GiftsBy(q) \cap Rough \subseteq Rough'
    BY <1>0, <1>2, <2>1, <2>2, <2>3, NewGift DEF GiftsTo, GiftsBy, Rough, DonationOf
  <2>6. /\ Credited(project[r], x).currentAmount
             \in Near(project[r].currentAmount + d.amount, Slack(a))
        /\ WithGift(user[r], y).totalDonation
             \in Near(user[r].totalDonation + d.amount, Slack(a))
    BY <2>0, <2>3, <2>4, CreditIsNear, GiftIsNear DEF EarnedProject, EarnedUser
  <2>7. /\ Sum(GiftsTo(p)) \in Nat /\ Sum(GiftsBy(u)) \in Nat
        /\ Sum(GiftsTo(p)') = Sum(GiftsTo(p)) + d.amount
        /\ Sum(GiftsBy(u)') = Sum(GiftsBy(u)) + d.amount
    BY <2>3, <2>5, GiftsFinite, SumType, SumAdds
  <2>8. /\ InitialProjects[p].currentAmount \in Nat /\ InitialUsers[u].totalDonation \in Nat
    BY <2>3, InitialProjectsAssumption, InitialUsersAssumption DEF IsDec
  <2>9. /\ Received(p)' = Received(p) + d.amount
        /\ Donated(u)' = Donated(u) + d.amount
    BY <2>3, <2>7, <2>8 DEF Received, Donated
  <2>10. ASSUME NEW q \in Projects
         PROVE  Received(q) \in Int /\ IsFiniteSet(GiftsTo(q))
    <3>1. IsFiniteSet(GiftsTo(q)) /\ \A g \in GiftsTo(q) : g.amount \in Nat
      BY GiftsFinite
    <3>2. Sum(GiftsTo(q)) \in Nat /\ InitialProjects[q].currentAmount \in Nat
      BY <3>1, SumType, InitialProjectsAssumption DEF IsDec
    <3>3. QED
      BY <3>1, <3>2 DEF Received
  <2>11. ASSUME NEW v \in Users
         PROVE  Donated(v) \in Int /\ IsFiniteSet(GiftsBy(v))
    <3>1. IsFiniteSet(GiftsBy(v)) /\ \A g \in GiftsBy(v) : g.amount \in Nat
      BY GiftsFinite
    <3>2. Sum(GiftsBy(v)) \in Nat /\ InitialUsers[v].totalDonation \in Nat
      BY <3>1, SumType, InitialUsersAssumption DEF IsDec
    <3>3. QED
      BY <3>1, <3>2 DEF Donated
  <2>12. ASSUME NEW q \in Projects \ overwritten'
         PROVE  projects'[q].currentAmount \in
                  Near(Received(q)', Cardinality((GiftsTo(q) \cap Rough)'))
    <3>1. projects[q].currentAmount \in Near(Received(q), Cardinality(GiftsTo(q) \cap Rough))
      BY <2>2, <2>12 DEF BalancedUnlessOverwritten
    <3>2. CASE q = p
      <4>1. projects'[p].currentAmount \in Near(projects[p].currentAmount + d.amount, Slack(a))
        BY <1>0, <2>0, <2>2, <2>3, <2>6, <2>12, <3>2 DEF TypeOK
      <4>2. projects'[p].currentAmount \in
              Near(Received(p) + d.amount, Cardinality((GiftsTo(p) \cup {d}) \cap Rough'))
        <5>1. /\ Received(p) \in Int /\ IsFiniteSet(GiftsTo(p)) /\ d.amount \in Int
              /\ GiftsTo(p) \cap Rough \subseteq Rough' /\ d \notin GiftsTo(p)
              /\ HalfCent(a) => d \in Rough'
          BY <2>3, <2>5, <2>10
        <5>2. PICK n, S, R, Q, b, z :
                /\ n = Received(p) /\ S = GiftsTo(p) /\ R = Rough /\ Q = Rough'
                /\ b = projects[p].currentAmount /\ z = projects'[p].currentAmount
          OBVIOUS
        <5>3. /\ b \in Near(n, Cardinality(S \cap R)) /\ z \in Near(b + d.amount, Slack(a))
              /\ n \in Int /\ IsFiniteSet(S) /\ d.amount \in Int
              /\ S \cap R \subseteq Q /\ d \notin S /\ (HalfCent(a) => d \in Q)
          BY <3>1, <3>2, <4>1, <5>1, <5>2
        <5>4. z \in Near(n + d.amount, Cardinality((S \cup {d}) \cap Q))
          BY <5>3, BalanceMoves
        <5>5. QED
          BY <5>2, <5>4
      <4>3. QED
        BY <2>3, <2>9, <3>2, <4>2
    <3>3. CASE q # p
      <4>1. projects'[q] = projects[q] /\ GiftsTo(q)' = GiftsTo(q) /\ Received(q)' = Received(q)
        BY <1>0, <2>0, <2>3, <3>3 DEF TypeOK, Received
      <4>2. QED
        BY <2>5, <2>10, <3>1, <4>1, BalanceStands
    <3>4. QED
      BY <3>2, <3>3
  <2>13. ASSUME NEW v \in Users \ overwritten'
         PROVE  users'[v].totalDonation \in
                  Near(Donated(v)', Cardinality((GiftsBy(v) \cap Rough)'))
    <3>1. users[v].totalDonation \in Near(Donated(v), Cardinality(GiftsBy(v) \cap Rough))
      BY <2>2, <2>13 DEF BalancedUnlessOverwritten
    <3>2. CASE v = u
      <4>1. users'[u].totalDonation \in Near(users[u].totalDonation + d.amount, Slack(a))
        BY <1>0, <2>0, <2>2, <2>3, <2>6, <2>13, <3>2 DEF TypeOK
      <4>2. users'[u].totalDonation \in
              Near(Donated(u) + d.amount, Cardinality((GiftsBy(u) \cup {d}) \cap Rough'))
        <5>1. /\ Donated(u) \in Int /\ IsFiniteSet(GiftsBy(u)) /\ d.amount \in Int
              /\ GiftsBy(u) \cap Rough \subseteq Rough' /\ d \notin GiftsBy(u)
              /\ HalfCent(a) => d \in Rough'
          BY <2>3, <2>5, <2>11
        <5>2. PICK n, S, R, Q, b, z :
                /\ n = Donated(u) /\ S = GiftsBy(u) /\ R = Rough /\ Q = Rough'
                /\ b = users[u].totalDonation /\ z = users'[u].totalDonation
          OBVIOUS
        <5>3. /\ b \in Near(n, Cardinality(S \cap R)) /\ z \in Near(b + d.amount, Slack(a))
              /\ n \in Int /\ IsFiniteSet(S) /\ d.amount \in Int
              /\ S \cap R \subseteq Q /\ d \notin S /\ (HalfCent(a) => d \in Q)
          BY <3>1, <3>2, <4>1, <5>1, <5>2
        <5>4. z \in Near(n + d.amount, Cardinality((S \cup {d}) \cap Q))
          BY <5>3, BalanceMoves
        <5>5. QED
          BY <5>2, <5>4
      <4>3. QED
        BY <2>3, <2>9, <3>2, <4>2
    <3>3. CASE v # u
      <4>1. users'[v] = users[v] /\ GiftsBy(v)' = GiftsBy(v) /\ Donated(v)' = Donated(v)
        BY <1>0, <2>0, <2>3, <3>3 DEF TypeOK, Donated
      <4>2. QED
        BY <2>5, <2>11, <3>1, <4>1, BalanceStands
    <3>4. QED
      BY <3>2, <3>3
  <2>14. QED
    BY <2>12, <2>13 DEF BalancedUnlessOverwritten
<1>3. ASSUME NEW r \in Requests, CommitReview(r) PROVE BalancedUnlessOverwritten'
  <2>1. PICK p : p = input[r].project
    OBVIOUS
  <2>2. /\ input[r].kind = "review"
        /\ projects' = [projects EXCEPT ![p] = Judged(project[r], input[r].status)]
        /\ UNCHANGED <<users, donations>>
        /\ overwritten \subseteq overwritten'
        /\ p \notin overwritten' => projects[p].currentAmount = project[r].currentAmount
    BY <1>3, <2>1 DEF CommitReview
  <2>3. p \in Projects /\ project[r] \in ProjectRows
    BY <1>0, <2>1, <2>2, InputKinds DEF TypeOK
  <2>4. Judged(project[r], input[r].status).currentAmount = project[r].currentAmount
    BY <2>3 DEF Judged, ProjectRows
  <2>5. QED
    BY <1>0, <1>1, <2>2, <2>3, <2>4 DEF BalancedUnlessOverwritten, TypeOK
<1>4. ASSUME NEW r \in Requests, CommitProfile(r) PROVE BalancedUnlessOverwritten'
  <2>1. PICK u : u = input[r].user
    OBVIOUS
  <2>2. /\ input[r].kind = "profile"
        /\ users' = [users EXCEPT ![u] = Renamed(user[r], input[r].realName)]
        /\ UNCHANGED <<projects, donations>>
        /\ overwritten \subseteq overwritten'
        /\ u \notin overwritten' => users[u].totalDonation = user[r].totalDonation
    BY <1>4, <2>1 DEF CommitProfile
  <2>3. u \in Users /\ user[r] \in UserRows
    BY <1>0, <2>1, <2>2, InputKinds DEF TypeOK
  <2>4. Renamed(user[r], input[r].realName).totalDonation = user[r].totalDonation
    BY <2>3 DEF Renamed, UserRows
  <2>5. QED
    BY <1>0, <1>1, <2>2, <2>3, <2>4 DEF BalancedUnlessOverwritten, TypeOK
<1>5. CASE UNCHANGED <<projects, users, donations, overwritten>>
  BY <1>1, <1>5 DEF BalancedUnlessOverwritten
<1>6. QED
  BY <1>2, <1>3, <1>4, <1>5, RowWriters DEF Committing

\* The books go out of balance only through a commit that saves an older
\* amount, and by a cent at most for each donation sent within a mill of half a
\* cent: every other step, failures included, keeps them.
THEOREM OnlyOverwritesUnbalance == Spec => []BalancedUnlessOverwritten
<1>1. Init => BalancedUnlessOverwritten
  <2> SUFFICES ASSUME Init PROVE BalancedUnlessOverwritten
    OBVIOUS
  <2>1. \A x : GiftsTo(x) = {} /\ GiftsBy(x) = {}
    BY DEF Init, GiftsTo, GiftsBy
  <2>2. Sum({}) = 0
    BY FS_EmptySet, SumType
  <2>3. \A p \in Projects : Received(p) = InitialProjects[p].currentAmount
    <3>1. ASSUME NEW p \in Projects PROVE InitialProjects[p].currentAmount \in Nat
      BY InitialProjectsAssumption DEF IsDec
    <3>2. \A p : Received(p) = InitialProjects[p].currentAmount + 0
      BY <2>1, <2>2, Zenon DEF Received
    <3>3. QED
      BY <3>1, <3>2
  <2>4. \A u \in Users : Donated(u) = InitialUsers[u].totalDonation
    <3>1. ASSUME NEW u \in Users PROVE InitialUsers[u].totalDonation \in Nat
      BY InitialUsersAssumption DEF IsDec
    <3>2. \A u : Donated(u) = InitialUsers[u].totalDonation + 0
      BY <2>1, <2>2, Zenon DEF Donated
    <3>3. QED
      BY <3>1, <3>2
  <2>5. \A x : Cardinality(GiftsTo(x) \cap Rough) = 0 /\ Cardinality(GiftsBy(x) \cap Rough) = 0
    <3>1. \A x : GiftsTo(x) \cap Rough = {} /\ GiftsBy(x) \cap Rough = {}
      BY <2>1
    <3>2. QED
      BY <3>1, FS_EmptySet
  <2>6. /\ \A p \in Projects : projects[p].currentAmount \in Near(Received(p), 0)
        /\ \A u \in Users : users[u].totalDonation \in Near(Donated(u), 0)
    <3>1. /\ \A p \in Projects : projects[p].currentAmount \in Int
          /\ \A u \in Users : users[u].totalDonation \in Int
      BY InitialProjectsAssumption, InitialUsersAssumption DEF Init, IsDec
    <3>2. QED
      BY <2>3, <2>4, <3>1, NearIsOwn DEF Init
  <2>7. QED
    BY <2>5, <2>6 DEF BalancedUnlessOverwritten
<1>2. QED
  BY <1>1, AlwaysEarned, StepBalance, PTL DEF Spec

-----------------------------------------------------------------------------
(* Refinement.  The tables are LedgerPromise's variables as they stand; a  *)
(* commit is one of its steps, the insertion of a review another, and      *)
(* everything else a stutter.                                              *)

ReviewInv == \A v \in reviews : pc[v.request] \in {"answer", "done", "cutOff"}

LEMMA StepReviews == TypeInv /\ ReviewInv /\ [Next]_vars => ReviewInv'
<1> SUFFICES ASSUME TypeInv, ReviewInv, [Next]_vars PROVE ReviewInv'
  OBVIOUS
<1>0. TypeOK /\ \A v \in reviews : v.request \in Requests
  BY DEF TypeInv, TypeOK, ReviewRows
<1>1. ASSUME NEW r \in Requests, UNCHANGED reviews,
             \A q \in Requests \ {r} : pc'[q] = pc[q],
             pc[r] \in {"answer", "done", "cutOff"} => pc'[r] \in {"answer", "done", "cutOff"}
      PROVE  ReviewInv'
  BY <1>0, <1>1 DEF ReviewInv
<1>2. ASSUME NEW r \in Requests, Begin(r) PROVE ReviewInv'
  <2>1. /\ UNCHANGED reviews /\ pc[r] = "idle"
        /\ \A q \in Requests \ {r} : pc'[q] = pc[q]
    BY <1>0, <1>2
    DEF Begin, Refuse, CreateDonation, RefuseDonation, ReviewProject, UpdateProfile, End,
        tables, TypeOK
  <2>2. QED
    BY <1>1, <2>1
<1>3. ASSUME NEW r \in Requests, Committing(r) PROVE ReviewInv'
  <2>1. UNCHANGED reviews
    BY <1>3 DEF Committing, CommitDonation, CommitReview, CommitProfile
  <2>2. QED
    BY <1>1, <1>3, <2>1, CommitEffect
<1>4. ASSUME NEW r \in Requests, InsertReview(r) PROVE ReviewInv'
  <2>1. /\ reviews' = reviews \cup {[request |-> r, projectId |-> input[r].project,
                                     status |-> input[r].status]}
        /\ pc' = [pc EXCEPT ![r] = "answer"]
    BY <1>4 DEF InsertReview
  <2>2. QED
    BY <1>0, <2>1 DEF ReviewInv, TypeOK
<1>5. ASSUME NEW r \in Requests, BeginSave(r) \/ Lock(r) \/ Statement(r) PROVE ReviewInv'
  <2>1. /\ UNCHANGED reviews
        /\ pc[r] \in {"loaded"} \cup InTx \/ pc' = pc
        /\ \A q \in Requests \ {r} : pc'[q] = pc[q]
    BY <1>0, <1>5 DEF BeginSave, Lock, Statement, NextStatement, tables, TypeOK
  <2>2. QED
    BY <1>1, <2>1 DEF InTx
<1>6. ASSUME NEW r \in Requests,
             Answer(r) \/ OutOfRange(r) \/ DeadlockVictim(r) \/ StatementError(r)
      PROVE  ReviewInv'
  <2>1. /\ UNCHANGED reviews
        /\ \A q \in Requests \ {r} : pc'[q] = pc[q]
    BY <1>0, <1>6
    DEF Answer, OutOfRange, DeadlockVictim, StatementError, End, tables, TypeOK
  <2>2. CASE Answer(r)
    BY <1>0, <1>1, <2>1, <2>2 DEF Answer, End, TypeOK
  <2>3. CASE OutOfRange(r) \/ DeadlockVictim(r)
    BY <1>1, <2>1, <2>3, RollbacksAreInTx DEF InTx
  <2>4. CASE StatementError(r)
    BY <1>1, <2>1, <2>4 DEF StatementError, InTx
  <2>5. QED
    BY <1>6, <2>2, <2>3, <2>4
<1>7. CASE Crash
  <2>1. reviews' = reviews
    BY <1>7 DEF Crash, tables
  <2>2. \A q \in Requests : pc[q] \in {"answer", "done", "cutOff"}
                              => pc'[q] \in {"answer", "done", "cutOff"}
    BY <1>0, <1>7 DEF Crash, TypeOK, AfterCrash, InTx
  <2>3. QED
    BY <1>0, <2>1, <2>2 DEF ReviewInv
<1>8. CASE UNCHANGED vars
  BY <1>8 DEF vars, tables, ReviewInv
<1>9. QED
  BY <1>2, <1>3, <1>4, <1>5, <1>6, <1>7, <1>8 DEF Next, Continue, Committing, Terminating

HistoryInv == TypeInv /\ MoneyInv /\ RecordInv /\ ApprovalInv /\ ReviewInv

LEMMA AlwaysHistory == Spec => []HistoryInv
<1>1. Init => HistoryInv
  BY InitTypes, InitRecords, InitMoney
  DEF HistoryInv, Init, ApprovalInv, Approved, ReviewInv, InTx
<1>2. HistoryInv /\ [Next]_vars => HistoryInv'
  BY StepTypes, StepMoney, StepRecords, StepApproval, StepReviews DEF HistoryInv
<1>3. QED
  BY <1>1, <1>2, PTL DEF Spec

\* LedgerPromise sums and rounds as DonationLedger does.
LEMMA SameMoney ==
  /\ \A x : Promise!Dec(x) = Dec(x)
  /\ \A c, a : Promise!Plus(c, a) = Near(c + Dec(a), Slack(a))
  /\ \A p : Promise!Raised(p) =
       Credits(InitialProjects[p].currentAmount, GiftsTo(p), GiftsTo(p))
  /\ \A u : Promise!Given(u) = Credits(InitialUsers[u].totalDonation, GiftsBy(u), GiftsBy(u))
<1>1. \A S : Promise!Sum(S) = Sum(S)
  BY DEF Promise!Sum, Sum, Promise!Total, Total, Promise!MapThenSumSet, MapThenSumSet,
         Promise!MapThenFoldSet, MapThenFoldSet
<1>2. \A x, k : Promise!Near(x, k) = Near(x, k)
  BY DEF Promise!Near, Near
<1>3. \A S : Promise!GiftsTo(S) = GiftsTo(S) /\ Promise!GiftsBy(S) = GiftsBy(S)
  BY DEF Promise!GiftsTo, GiftsTo, Promise!GiftsBy, GiftsBy
<1>4. \A n, S, R : Promise!Credits(n, S, R) = Credits(n, S, R)
  <2> TAKE n, S, R
  <2>1. \A T : Promise!Cardinality(T) = Cardinality(T)
    BY DEF Promise!Cardinality, Cardinality
  <2>2. \A T : Promise!Near(n + Promise!Sum(T), Promise!Cardinality(T \cap R)) =
                 Near(n + Sum(T), Cardinality(T \cap R))
    BY <1>1, <1>2, <2>1
  <2>3. {Promise!Near(n + Promise!Sum(T), Promise!Cardinality(T \cap R)) :
             T \in SUBSET S} =
          {Near(n + Sum(T), Cardinality(T \cap R)) : T \in SUBSET S}
    BY <2>2, Zenon
  <2>4. QED
    BY <2>3 DEF Promise!Credits, Credits
<1>5. /\ \A x : Promise!Dec(x) = Dec(x)
      /\ \A a : Promise!HalfCent(a) <=> HalfCent(a)
  BY DEF Promise!Dec, Dec, Promise!HalfCent, HalfCent
<1>6. QED
  BY <1>2, <1>3, <1>4, <1>5 DEF Promise!Raised, Promise!Given, Promise!Plus, Slack

\* What is earned is promised: the promise does not tell which gifts are rough.
LEMMA EarnedIsPromised ==
  ASSUME TypeInv, RecordInv
  PROVE  /\ \A row : \A p \in Projects :
              EarnedProject(row, p, GiftsTo(p), Rough) => row.currentAmount \in Promise!Raised(p)
         /\ \A row : \A u \in Users :
              EarnedUser(row, u, GiftsBy(u), Rough) => row.totalDonation \in Promise!Given(u)
<1>1. ASSUME NEW p \in Projects
      PROVE  Credits(InitialProjects[p].currentAmount, GiftsTo(p), Rough) \subseteq Promise!Raised(p)
  <2>1. IsFiniteSet(GiftsTo(p)) /\ \A g \in GiftsTo(p) : g.amount \in Nat
    BY GiftsFinite
  <2>2. InitialProjects[p].currentAmount \in Nat
    BY InitialProjectsAssumption DEF IsDec
  <2>3. Credits(InitialProjects[p].currentAmount, GiftsTo(p), Rough)
          \subseteq Credits(InitialProjects[p].currentAmount, GiftsTo(p), GiftsTo(p))
    BY <2>1, <2>2, CreditsGrow
  <2>4. QED
    BY <2>3, SameMoney
<1>2. ASSUME NEW u \in Users
      PROVE  Credits(InitialUsers[u].totalDonation, GiftsBy(u), Rough) \subseteq Promise!Given(u)
  <2>1. IsFiniteSet(GiftsBy(u)) /\ \A g \in GiftsBy(u) : g.amount \in Nat
    BY GiftsFinite
  <2>2. InitialUsers[u].totalDonation \in Nat
    BY InitialUsersAssumption DEF IsDec
  <2>3. Credits(InitialUsers[u].totalDonation, GiftsBy(u), Rough)
          \subseteq Credits(InitialUsers[u].totalDonation, GiftsBy(u), GiftsBy(u))
    BY <2>1, <2>2, CreditsGrow
  <2>4. QED
    BY <2>3, SameMoney
<1>3. QED
  BY <1>1, <1>2 DEF EarnedProject, EarnedUser

LEMMA DonationIsPromised ==
  ASSUME HistoryInv, NEW r \in Requests, CommitDonation(r)
  PROVE  \E u \in Users, p \in Projects, a \in Amounts : Promise!Donate(r, u, p, a)
<1> USE DEF HistoryInv
<1>1. PICK p, u, a, d : /\ p = input[r].project /\ u = input[r].user
                        /\ a = input[r].amount /\ d = DonationOf(r)
  OBVIOUS
<1>2. /\ pc[r] = "commit" /\ input[r].kind = "donate"
      /\ p \in Projects /\ u \in Users /\ a \in Amounts /\ a \in Nat
      /\ d.amount = Dec(a) /\ d.amount \in Nat /\ d \notin donations
  BY <1>1, NewGift
<1>3. /\ donations' = donations \cup
           {[request |-> r, userId |-> u, projectId |-> p, amount |-> Dec(a)]}
      /\ reviews' = reviews
  BY <1>1 DEF CommitDonation
<1> PICK x \in FloatSum(project[r].currentAmount, a), y \in FloatSum(user[r].totalDonation, a) :
      /\ projects' = [projects EXCEPT ![p] = Credited(project[r], x)]
      /\ users' = [users EXCEPT ![u] = WithGift(user[r], y)]
      /\ a > 0 /\ x \in Nat /\ y \in Nat
  BY <1>1, CommittedSums
<1>4. /\ project[r] \in ProjectRows /\ user[r] \in UserRows /\ projects[p] \in ProjectRows
      /\ EarnedProject(project[r], p, GiftsTo(p), Rough)
      /\ EarnedUser(user[r], u, GiftsBy(u), Rough)
      /\ project[r].status = "approved"
      /\ projects[p].targetAmount = InitialProjects[p].targetAmount
  BY <1>1, <1>2
  DEF TypeInv, TypeOK, MoneyInv, CopiesEarned, Holding, InTx, ApprovalInv, EarnedProject
<1>5. \A g \in donations : g.request # r
  BY <1>2 DEF RecordInv, Effective
<1> DEFINE c == project[r].currentAmount
           new == Credited(project[r], x)
           m == new.currentAmount
           t == user[r].totalDonation
           n == WithGift(user[r], y).totalDonation
<1>6. c \in Promise!Raised(p) /\ t \in Promise!Given(u)
  BY <1>2, <1>4, EarnedIsPromised
<1>7. /\ new.status = "completed" => m >= new.targetAmount
      /\ new.targetAmount = projects[p].targetAmount
      /\ m \in Promise!Plus(c, a) /\ n \in Promise!Plus(t, a)
  <2>1. d \notin GiftsTo(p) /\ d \notin GiftsBy(u)
    BY <1>2 DEF GiftsTo, GiftsBy
  <2>2. /\ IsFiniteSet(GiftsTo(p)) /\ \A g \in GiftsTo(p) \cup {d} : g.amount \in Nat
        /\ IsFiniteSet(GiftsBy(u)) /\ \A g \in GiftsBy(u) \cup {d} : g.amount \in Nat
    BY <1>2, GiftsFinite
  <2>3. PICK Q : Q = Rough \cup {d}
    OBVIOUS
  <2>8. /\ GiftsTo(p) \cap Rough \subseteq Q /\ GiftsBy(u) \cap Rough \subseteq Q
        /\ HalfCent(a) => d \in Q
    BY <2>3
  <2>4. EarnedProject(Credited(project[r], x), p, GiftsTo(p) \cup {d}, Q)
    BY <1>2, <1>4, <2>1, <2>2, <2>8, CreditIsEarned
  <2>5. /\ m \in Near(c + Dec(a), Slack(a))
        /\ n \in Near(t + Dec(a), Slack(a))
    BY <1>2, <1>4, CreditIsNear, GiftIsNear DEF EarnedProject, EarnedUser
  <2>6. QED
    BY <1>4, <2>4, <2>5, SameMoney DEF EarnedProject
<1>8. new \in ProjectRows /\ new.status \in {"approved", "completed"}
  <2>1. new \in ProjectRows
    BY <1>4, WrittenRows DEF Statuses
  <2>2. QED
    BY <1>4, <2>1 DEF Credited, ProjectRows
<1>9. /\ WithGift(user[r], y) = [totalDonation |-> n, realName |-> user[r].realName]
      /\ user[r].realName \in Names \cup {NoName}
  BY <1>4 DEF WithGift, UserRows
<1>10. new = [projects[p] EXCEPT !.currentAmount = m, !.status = new.status]
  <2> HIDE DEF new
  <2>1. QED
    BY <1>4, <1>7, <1>8 DEF ProjectRows
<1>11. /\ projects' = [projects EXCEPT ![p] =
                         [@ EXCEPT !.currentAmount = m, !.status = new.status]]
       /\ users' = [users EXCEPT ![u] = [totalDonation |-> n, realName |-> user[r].realName]]
  BY <1>9, <1>10
<1> HIDE DEF c, new, m, t, n
<1>12. Promise!Donate(r, u, p, a)
  <2>1. \E b \in Promise!Raised(p), s \in {"approved", "completed"} :
          \E z \in Promise!Plus(b, a) :
            /\ s = "completed" => z >= projects[p].targetAmount
            /\ projects' = [projects EXCEPT ![p] =
                              [@ EXCEPT !.currentAmount = z, !.status = s]]
    <3>1. \E z \in Promise!Plus(c, a) :
            /\ new.status = "completed" => z >= projects[p].targetAmount
            /\ projects' = [projects EXCEPT ![p] =
                              [@ EXCEPT !.currentAmount = z, !.status = new.status]]
      BY <1>7, <1>11, ZenonT(60)
    <3>2. QED
      BY <1>6, <1>8, <3>1, ZenonT(60)
  <2>2. \E b \in Promise!Given(u), name \in Names \cup {NoName} :
          \E z \in Promise!Plus(b, a) :
            users' = [users EXCEPT ![u] = [totalDonation |-> z, realName |-> name]]
    <3>1. \E z \in Promise!Plus(t, a) :
            users' = [users EXCEPT ![u] = [totalDonation |-> z, realName |-> user[r].realName]]
      BY <1>7, <1>11, ZenonT(60)
    <3>2. QED
      BY <1>6, <1>9, <3>1, ZenonT(60)
  <2>3. Promise!Dec(a) = Dec(a)
    BY SameMoney
  <2>4. QED
    BY <1>3, <1>5, <2>1, <2>2, <2>3 DEF Promise!Donate
<1>13. QED
  BY <1>2, <1>12

LEMMA ReviewIsPromised ==
  ASSUME HistoryInv, NEW r \in Requests, CommitReview(r)
  PROVE  \E p \in Projects : Promise!Review(p)
<1> USE DEF HistoryInv
<1>1. /\ pc[r] = "commit" /\ input[r].kind = "review"
      /\ input[r] \in Inputs \cup {NoInput}
  BY DEF CommitReview, TypeInv, TypeOK
<1>2. PICK p \in Projects : p = input[r].project
  BY <1>1, InputKinds
<1>3. PICK s \in Reviewed : s = input[r].status
  BY <1>1 DEF TypeInv, StageOK
<1>4. /\ projects' = [projects EXCEPT ![p] = Judged(project[r], s)]
      /\ UNCHANGED <<users, donations, reviews>>
  BY <1>2, <1>3 DEF CommitReview
<1>5. /\ project[r] \in ProjectRows /\ projects[p] \in ProjectRows
      /\ project[r].currentAmount \in Promise!Raised(p)
      /\ project[r].targetAmount = projects[p].targetAmount
  <2>1. EarnedProject(project[r], p, GiftsTo(p), Rough)
    BY <1>1, <1>2 DEF MoneyInv, CopiesEarned, Holding, InTx
  <2>2. QED
    BY <2>1, EarnedIsPromised DEF TypeInv, TypeOK, MoneyInv, EarnedProject
<1>6. Judged(project[r], s) =
        [projects[p] EXCEPT !.currentAmount = project[r].currentAmount, !.status = s]
  BY <1>5 DEF Judged, ProjectRows
<1>7. QED
  BY <1>4, <1>5, <1>6 DEF Promise!Review, Reviewed

LEMMA ProfileIsPromised ==
  ASSUME HistoryInv, NEW r \in Requests, CommitProfile(r)
  PROVE  \E u \in Users : Promise!Rename(u)
<1> USE DEF HistoryInv
<1>1. /\ pc[r] = "commit" /\ input[r].kind = "profile"
      /\ input[r] \in Inputs \cup {NoInput}
  BY DEF CommitProfile, TypeInv, TypeOK
<1>2. PICK u \in Users, n \in Names \cup {NoName} : u = input[r].user /\ n = input[r].realName
  BY <1>1, InputKinds
<1>3. /\ users' = [users EXCEPT ![u] = Renamed(user[r], n)]
      /\ UNCHANGED <<projects, donations, reviews>>
  BY <1>2 DEF CommitProfile
<1>4. user[r] \in UserRows /\ user[r].totalDonation \in Promise!Given(u)
  <2>1. EarnedUser(user[r], u, GiftsBy(u), Rough)
    BY <1>1, <1>2 DEF MoneyInv, CopiesEarned, Holding, InTx
  <2>2. QED
    BY <2>1, EarnedIsPromised DEF TypeInv, TypeOK
<1>5. PICK m \in Names \cup {NoName} :
        Renamed(user[r], n) = [totalDonation |-> user[r].totalDonation, realName |-> m]
  BY <1>2, <1>4 DEF Renamed, UserRows
<1>6. QED
  BY <1>3, <1>4, <1>5 DEF Promise!Rename

LEMMA RecordIsPromised ==
  ASSUME HistoryInv, NEW r \in Requests, InsertReview(r)
  PROVE  \E p \in Projects : Promise!Record(r, p)
<1> USE DEF HistoryInv
<1>1. /\ pc[r] = "audit" /\ input[r].kind = "review"
      /\ input[r] \in Inputs \cup {NoInput}
  BY DEF InsertReview, TypeInv, TypeOK, StageOK
<1>2. input[r].project \in Projects /\ input[r].status \in Reviewed
  BY <1>1, InputKinds DEF TypeInv, StageOK
<1>3. \A v \in reviews : v.request # r
  BY <1>1 DEF ReviewInv
<1>4. QED
  BY <1>2, <1>3 DEF InsertReview, Promise!Record, Reviewed

\* The three handlers, on top of InnoDB, implement the atomic ledger, which
\* credits a donation to within a cent if it is one of about half a cent.
THEOREM ImplementsPromise == Spec => KeepsPromise
<1>1. Init => Promise!Init
  BY DEF Init, Promise!Init
<1>2. HistoryInv /\ [Next]_vars => [Promise!Next]_(Promise!vars)
  <2> SUFFICES ASSUME HistoryInv, [Next]_vars PROVE [Promise!Next]_(Promise!vars)
    OBVIOUS
  <2>1. CASE \E r \in Requests : Committing(r)
    BY <2>1, DonationIsPromised, ReviewIsPromised, ProfileIsPromised
    DEF Committing, Promise!Next, Promise!vars
  <2>2. CASE \E r \in Requests : InsertReview(r)
    BY <2>2, RecordIsPromised DEF Promise!Next, Promise!vars
  <2>3. CASE UNCHANGED <<projects, users, donations, reviews>>
    BY <2>3 DEF Promise!vars
  <2>4. QED
    BY <2>1, <2>2, <2>3, RowWriters
<1>3. QED
  BY <1>1, <1>2, AlwaysHistory, PTL DEF Spec, KeepsPromise, Promise!Spec
=============================================================================
