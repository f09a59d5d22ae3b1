------------------------------- MODULE Money -------------------------------
(***************************************************************************)
(* Money.  The program computes amounts as float64 and stores them in      *)
(* decimal(14,2) columns.  Here an amount is a natural number of mills, a  *)
(* tenth of a cent: a float64 is cut to whole mills, which is all that the *)
(* rounding to cents and the comparison with stored cents depend on.       *)
(***************************************************************************)
EXTENDS Sums

\* What a decimal(14,2) column keeps of an amount: the nearest cent.
Dec(x) == ((x + 5) \div 10) * 10

\* The amounts such a column can hold.
IsDec(x) == x \in Nat /\ x % 10 = 0

\* What some rows of the donations table give together.
Sum(gifts) == Total([d \in gifts |-> d.amount], gifts)

\* A sum of float64 is not exact.  Its error at the amounts such a column
\* holds is far below a mill, so cut to mills it may come out one off.
FloatSum(x, y) == (x + y - 1) .. (x + y + 1)

\* Amounts for which that mill may decide between two cents.
HalfCent(a) == a % 10 \in {4, 5}

\* The amounts at most k cents away from x.
Near(x, k) == {x + 10 * i : i \in -k .. k}

\* The amounts that credit some of the gifts to what was there before them:
\* none twice, and each in full but for a cent on each of the rough ones.
Credits(start, gifts, rough) ==
  UNION {Near(start + Sum(s), Cardinality(s \cap rough)) : s \in SUBSET gifts}
=============================================================================
