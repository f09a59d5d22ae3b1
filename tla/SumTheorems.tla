----------------------------- MODULE SumTheorems -----------------------------
(***************************************************************************)
(* Facts about sums over finite sets.  Total folds the set, that is, it    *)
(* applies a recursive function, so its equation comes first.  Inductions  *)
(* look for a smallest subset of which the claim is false: the subsets of  *)
(* a finite set are well-founded.                                          *)
(***************************************************************************)
EXTENDS Sums, TLAPS, FiniteSetTheorems, WellFoundedInduction

\* Among some subsets of a finite set there is a smallest one.
LEMMA SmallestSubset ==
  ASSUME NEW S, IsFiniteSet(S), NEW B, B \subseteq SUBSET S, B # {}
  PROVE  \E T \in B : \A U \in B : U \subseteq T => U = T
<1> DEFINE R == StrictSubsetOrdering(S)
<1>1. IsWellFoundedOn(R, SUBSET S)
  BY FS_StrictSubsetOrderingWellFounded, FS_FiniteSubsetsOfFinite
<1> HIDE DEF R
<1>2. PICK T \in B : \A U \in B : <<U, T>> \notin R
  BY <1>1, WFMin
<1>3. QED
  BY <1>2 DEF R, StrictSubsetOrdering

-----------------------------------------------------------------------------
(* The equation of a sum.                                                  *)

\* One step of the fold, with g as the sums of smaller sets.
Step(g, f, s) ==
  IF s = {} THEN 0 ELSE LET x == CHOOSE x \in s : TRUE IN f[x] + g[s \ {x}]
IsFold(g, f, S) == g = [s \in SUBSET S |-> Step(g, f, s)]
Fold(f, S) == CHOOSE g : IsFold(g, f, S)

LEMMA TotalFolds == \A f, S : Total(f, S) = Fold(f, S)[S]
BY DEF Total, MapThenSumSet, MapThenFoldSet, Fold, IsFold, Step

\* A fold is determined on every set it is defined on.
LEMMA FoldsAgree ==
  ASSUME NEW S, IsFiniteSet(S), NEW f, NEW T \in SUBSET S, NEW g, NEW h,
         IsFold(g, f, T), IsFold(h, f, S)
  PROVE  \A s \in SUBSET T : g[s] = h[s]
<1> DEFINE B == {s \in SUBSET T : g[s] # h[s]}
<1> SUFFICES ASSUME B # {} PROVE FALSE
  OBVIOUS
<1>0. B \subseteq SUBSET S
  OBVIOUS
<1> HIDE DEF B
<1>1. PICK s \in B : \A u \in B : u \subseteq s => u = s
  BY <1>0, SmallestSubset
<1>2. s \in SUBSET T /\ g[s] = Step(g, f, s) /\ h[s] = Step(h, f, s) /\ g[s] # h[s]
  BY <1>1 DEF IsFold, B
<1>3. s # {}
  BY <1>2 DEF Step
<1>4. PICK x : x = (CHOOSE y \in s : TRUE) /\ x \in s
  BY <1>3
<1>5. g[s] = f[x] + g[s \ {x}] /\ h[s] = f[x] + h[s \ {x}]
  BY <1>2, <1>3, <1>4 DEF Step
<1>6. g[s \ {x}] = h[s \ {x}]
  BY <1>1, <1>2, <1>4 DEF B
<1>7. QED
  BY <1>2, <1>5, <1>6

\* There is a fold on every finite set: the folds on its proper subsets agree,
\* and one more step extends them.
LEMMA FoldExists ==
  ASSUME NEW S, IsFiniteSet(S), NEW f
  PROVE  \A T \in SUBSET S : \E g : IsFold(g, f, T)
<1> DEFINE B == {T \in SUBSET S : ~ \E g : IsFold(g, f, T)}
<1> SUFFICES ASSUME B # {} PROVE FALSE
  OBVIOUS
<1>0. B \subseteq SUBSET S
  OBVIOUS
<1> HIDE DEF B
<1>1. PICK T \in B : \A u \in B : u \subseteq T => u = T
  BY <1>0, SmallestSubset
<1>2. T \in SUBSET S /\ \A s \in SUBSET T : s # T => IsFold(Fold(f, s), f, s)
  BY <1>1 DEF Fold, B
<1> DEFINE h == [s \in SUBSET T |-> Step([u \in SUBSET T |-> Fold(f, u)[u]], f, s)]
<1>3. ASSUME NEW s \in SUBSET T, s # T PROVE h[s] = Fold(f, s)[s]
  <2>1. Fold(f, s)[s] = Step(Fold(f, s), f, s)
    BY <1>2, <1>3 DEF IsFold
  <2>2. CASE s = {}
    BY <2>1, <2>2 DEF Step
  <2>3. CASE s # {}
    <3>1. PICK x : x = (CHOOSE y \in s : TRUE) /\ x \in s
      BY <2>3
    <3> DEFINE u == s \ {x}
    <3>2. u = s \ {x} /\ u \in SUBSET s /\ u \in SUBSET T /\ u # T
      BY <3>1
    <3> HIDE DEF u
    <3>3. IsFold(Fold(f, u), f, u) /\ IsFold(Fold(f, s), f, s) /\ IsFiniteSet(s)
      BY <1>2, <1>3, <3>2, FS_Subset
    <3>4. Fold(f, u)[u] = Fold(f, s)[u]
      BY <3>2, <3>3, FoldsAgree
    <3>5. h[s] = f[x] + Fold(f, u)[u] /\ Fold(f, s)[s] = f[x] + Fold(f, s)[u]
      BY <2>1, <2>3, <3>1, <3>2 DEF Step
    <3>6. QED
      BY <3>4, <3>5
  <2>4. QED
    BY <2>2, <2>3
<1>4. ASSUME NEW s \in SUBSET T PROVE h[s] = Step(h, f, s)
  <2>1. CASE s = {}
    BY <2>1 DEF Step
  <2>2. CASE s # {}
    <3>1. PICK x : x = (CHOOSE y \in s : TRUE) /\ x \in s
      BY <2>2
    <3> DEFINE u == s \ {x}
    <3>2. u = s \ {x} /\ u \in SUBSET T /\ u # T
      BY <3>1
    <3> HIDE DEF u
    <3>3. h[s] = f[x] + Fold(f, u)[u]
      BY <2>2, <3>1, <3>2 DEF Step
    <3>4. h[u] = Fold(f, u)[u]
      BY <1>3, <3>2
    <3>5. Step(h, f, s) = f[x] + h[u]
      BY <2>2, <3>1, <3>2 DEF Step
    <3>6. QED
      BY <3>3, <3>4, <3>5
  <2>3. QED
    BY <2>1, <2>2
<1>5. IsFold(h, f, T)
  BY <1>4 DEF IsFold
<1>6. QED
  BY <1>1, <1>5 DEF B

\* A sum takes one member out of the set and adds the sum of the rest.
LEMMA TotalStep ==
  ASSUME NEW S, IsFiniteSet(S), NEW f
  PROVE  /\ Total(f, {}) = 0
         /\ S # {} => \E x \in S : Total(f, S) = f[x] + Total(f, S \ {x})
<1>1. \A T \in SUBSET S : IsFold(Fold(f, T), f, T) /\ Total(f, T) = Step(Fold(f, T), f, T)
  <2>1. ASSUME NEW T \in SUBSET S PROVE IsFold(Fold(f, T), f, T)
    BY FoldExists DEF Fold
  <2>2. ASSUME NEW T \in SUBSET S PROVE Fold(f, T)[T] = Step(Fold(f, T), f, T)
    BY <2>1 DEF IsFold
  <2>3. QED
    BY <2>1, <2>2, TotalFolds
<1>2. Total(f, {}) = 0
  BY <1>1 DEF Step
<1>3. ASSUME S # {} PROVE \E x \in S : Total(f, S) = f[x] + Total(f, S \ {x})
  <2>1. PICK x : x = (CHOOSE y \in S : TRUE) /\ x \in S
    BY <1>3
  <2>2. Total(f, S) = f[x] + Fold(f, S)[S \ {x}]
    BY <1>1, <1>3, <2>1 DEF Step
  <2>3. Fold(f, S \ {x})[S \ {x}] = Fold(f, S)[S \ {x}]
    <3>1. PICK u : u = S \ {x} /\ u \in SUBSET S
      OBVIOUS
    <3>2. Fold(f, u)[u] = Fold(f, S)[u]
      BY <1>1, <3>1, FoldsAgree
    <3>3. QED
      BY <3>1, <3>2
  <2>4. QED
    BY <2>1, <2>2, <2>3, TotalFolds
<1>4. QED
  BY <1>2, <1>3

-----------------------------------------------------------------------------
(* Sums of natural numbers.                                                *)

LEMMA TotalType ==
  ASSUME NEW S, IsFiniteSet(S), NEW f, \A x \in S : f[x] \in Nat
  PROVE  \A T \in SUBSET S : Total(f, T) \in Nat
<1> DEFINE B == {T \in SUBSET S : Total(f, T) \notin Nat}
<1> SUFFICES ASSUME B # {} PROVE FALSE
  OBVIOUS
<1>0. B \subseteq SUBSET S
  OBVIOUS
<1> HIDE DEF B
<1>1. PICK T \in B : \A u \in B : u \subseteq T => u = T
  BY <1>0, SmallestSubset
<1>2. T \in SUBSET S /\ Total(f, T) \notin Nat /\ IsFiniteSet(T)
  BY <1>1, FS_Subset DEF B
<1>3. T # {}
  BY <1>2, TotalStep
<1>4. PICK x \in T : Total(f, T) = f[x] + Total(f, T \ {x})
  BY <1>2, <1>3, TotalStep
<1>5. Total(f, T \ {x}) \in Nat
  BY <1>1, <1>2 DEF B
<1>6. QED
  BY <1>2, <1>4, <1>5

\* Any member may be taken out first.
LEMMA TotalRemoves ==
  ASSUME NEW S, IsFiniteSet(S), NEW f, \A x \in S : f[x] \in Nat
  PROVE  \A x \in S : Total(f, S) = f[x] + Total(f, S \ {x})
<1> DEFINE B == {T \in SUBSET S : \E x \in T : Total(f, T) # f[x] + Total(f, T \ {x})}
<1> SUFFICES ASSUME B # {} PROVE FALSE
  OBVIOUS
<1>0. B \subseteq SUBSET S
  OBVIOUS
<1> HIDE DEF B
<1>1. PICK T \in B : \A u \in B : u \subseteq T => u = T
  BY <1>0, SmallestSubset
<1>2. T \in SUBSET S /\ IsFiniteSet(T)
  BY <1>1, FS_Subset DEF B
<1>3. PICK x \in T : Total(f, T) # f[x] + Total(f, T \ {x})
  BY <1>1 DEF B
<1>4. PICK c \in T : Total(f, T) = f[c] + Total(f, T \ {c})
  BY <1>2, <1>3, TotalStep
<1>5. c # x
  BY <1>3, <1>4
<1>6. \A u \in SUBSET T : u # T => \A y \in u : Total(f, u) = f[y] + Total(f, u \ {y})
  BY <1>1, <1>2 DEF B
<1>7. /\ Total(f, T \ {c}) = f[x] + Total(f, (T \ {c}) \ {x})
      /\ Total(f, T \ {x}) = f[c] + Total(f, (T \ {x}) \ {c})
      /\ (T \ {c}) \ {x} = (T \ {x}) \ {c}
  BY <1>5, <1>6
<1>8. PICK n \in Nat : n = Total(f, (T \ {x}) \ {c})
  BY <1>2, TotalType
<1>9. f[x] \in Nat /\ f[c] \in Nat
  BY <1>2
<1>10. QED
  BY <1>3, <1>4, <1>7, <1>8, <1>9

LEMMA TotalAdds ==
  ASSUME NEW S, IsFiniteSet(S), NEW y, y \notin S, NEW f, \A x \in S \cup {y} : f[x] \in Nat
  PROVE  Total(f, S \cup {y}) = f[y] + Total(f, S)
<1>1. IsFiniteSet(S \cup {y}) /\ (S \cup {y}) \ {y} = S
  BY FS_AddElement
<1>2. QED
  BY <1>1, TotalRemoves

\* What is summed decides, member by member.
LEMMA TotalRises ==
  ASSUME NEW S, IsFiniteSet(S), NEW f, NEW g,
         \A x \in S : f[x] \in Nat /\ g[x] \in Nat /\ f[x] <= g[x]
  PROVE  Total(f, S) <= Total(g, S)
<1> DEFINE B == {T \in SUBSET S : ~(Total(f, T) <= Total(g, T))}
<1> SUFFICES ASSUME B # {} PROVE FALSE
  OBVIOUS
<1>0. B \subseteq SUBSET S
  OBVIOUS
<1> HIDE DEF B
<1>1. PICK T \in B : \A u \in B : u \subseteq T => u = T
  BY <1>0, SmallestSubset
<1>2. T \in SUBSET S /\ ~(Total(f, T) <= Total(g, T)) /\ IsFiniteSet(T)
  BY <1>1, FS_Subset DEF B
<1>3. T # {}
  BY <1>2, TotalStep
<1>4. PICK x \in T : TRUE
  BY <1>3
<1>5. /\ Total(f, T) = f[x] + Total(f, T \ {x})
      /\ Total(g, T) = g[x] + Total(g, T \ {x})
  BY <1>2, TotalRemoves
<1>6. PICK m \in Nat, n \in Nat : m = Total(f, T \ {x}) /\ n = Total(g, T \ {x})
  BY <1>2, TotalType
<1>7. Total(f, T \ {x}) <= Total(g, T \ {x})
  BY <1>1, <1>2 DEF B
<1>8. f[x] \in Nat /\ g[x] \in Nat /\ f[x] <= g[x]
  BY <1>2
<1>9. QED
  BY <1>2, <1>5, <1>6, <1>7, <1>8

LEMMA TotalAgrees ==
  ASSUME NEW S, IsFiniteSet(S), NEW f, NEW g,
         \A x \in S : f[x] \in Nat /\ f[x] = g[x]
  PROVE  Total(f, S) = Total(g, S)
<1>1. Total(f, S) <= Total(g, S) /\ Total(g, S) <= Total(f, S)
  BY TotalRises
<1>2. Total(f, S) \in Nat /\ Total(g, S) \in Nat
  BY TotalType
<1>3. QED
  BY <1>1, <1>2

\* One member's number changes, and no other.
LEMMA TotalChanges ==
  ASSUME NEW S, IsFiniteSet(S), NEW y \in S, NEW f, NEW g,
         \A x \in S : f[x] \in Nat /\ g[x] \in Nat,
         \A x \in S \ {y} : f[x] = g[x]
  PROVE  Total(g, S) = Total(f, S) + g[y] - f[y]
<1>1. /\ Total(f, S) = f[y] + Total(f, S \ {y})
      /\ Total(g, S) = g[y] + Total(g, S \ {y})
  BY TotalRemoves
<1>2. IsFiniteSet(S \ {y})
  BY FS_Subset
<1>3. Total(f, S \ {y}) = Total(g, S \ {y})
  BY <1>2, TotalAgrees
<1>4. Total(g, S \ {y}) \in Nat
  BY TotalType
<1>5. QED
  BY <1>1, <1>3, <1>4

\* A part sums up to no more than the whole, and to as much if the rest is
\* nothing.
LEMMA TotalOfPart ==
  ASSUME NEW S, IsFiniteSet(S), NEW A \in SUBSET S, NEW f, \A x \in S : f[x] \in Nat
  PROVE  /\ Total(f, A) <= Total(f, S)
         /\ (\A x \in S \ A : f[x] = 0) => Total(f, A) = Total(f, S)
<1> DEFINE Fits(T) == /\ Total(f, T \cap A) <= Total(f, T)
                      /\ (\A x \in S \ A : f[x] = 0) => Total(f, T \cap A) = Total(f, T)
           B == {T \in SUBSET S : ~Fits(T)}
<1>1. ASSUME B # {} PROVE FALSE
  <2>0. B \subseteq SUBSET S
    OBVIOUS
  <2> HIDE DEF B
  <2>1. PICK T \in B : \A u \in B : u \subseteq T => u = T
    BY <1>1, <2>0, SmallestSubset
  <2>2. T \in SUBSET S /\ ~Fits(T) /\ IsFiniteSet(T)
    BY <2>1, FS_Subset DEF B
  <2>3. T # {}
    <3>1. Total(f, {}) = 0 /\ {} \cap A = {}
      BY TotalStep
    <3>2. QED
      BY <2>2, <3>1
  <2>4. PICK x \in T : f[x] \in Nat
    BY <2>2, <2>3
  <2>5. Fits(T \ {x})
    BY <2>1, <2>2 DEF B
  <2>6. Total(f, T) = f[x] + Total(f, T \ {x})
    BY <2>2, TotalRemoves
  <2>7. PICK m \in Nat, n \in Nat : m = Total(f, T \ {x}) /\ n = Total(f, (T \ {x}) \cap A)
    BY <2>2, TotalType
  <2>8. CASE x \in A
    <3>1. IsFiniteSet(T \cap A) /\ (T \cap A) \ {x} = (T \ {x}) \cap A /\ x \in T \cap A
      BY <2>2, <2>8, FS_Subset
    <3>2. Total(f, T \cap A) = f[x] + Total(f, (T \cap A) \ {x})
      BY <2>2, <3>1, TotalRemoves
    <3>3. QED
      BY <2>2, <2>4, <2>5, <2>6, <2>7, <3>1, <3>2
  <2>9. CASE x \notin A
    <3>1. T \cap A = (T \ {x}) \cap A
      BY <2>9
    <3>2. QED
      BY <2>2, <2>4, <2>5, <2>6, <2>7, <2>9, <3>1
  <2>10. QED
    BY <2>8, <2>9
<1>2. Fits(S) /\ S \cap A = A
  BY <1>1
<1>3. QED
  BY <1>2
==============================================================================
