------------------------ MODULE MarketReport_proofs ------------------------
(***************************************************************************)
(* Theorems about the indicators, the strategies, the scan of several      *)
(* symbols and the words of the report, for every set of candles, every    *)
(* table and every choice of the periods, limits and widths, by TLAPS.     *)
(*                                                                         *)
(* What a loop over the candles computes is determined by its equations    *)
(* (Running), so the sections go from the loop to sums, powers and         *)
(* averages, and from there to one property after the other.               *)
(***************************************************************************)
EXTENDS MarketReport, SequenceTheorems, WellFoundedInduction, TLAPS

-----------------------------------------------------------------------------
(* Induction over an interval, as a fact about a set: a least number       *)
(* outside of it has no predecessor.                                       *)
Less == OpToRel(<, Nat)

LEMMA Counting ==
  ASSUME NEW n \in Nat, NEW S, 0 \in S, \A k \in 0..(n - 1) : k \in S => k + 1 \in S
  PROVE  \A k \in 0..n : k \in S
<1> SUFFICES ASSUME NEW k \in 0..n, k \notin S PROVE FALSE
  OBVIOUS
<1> DEFINE T == {i \in 0..n : i \notin S}
<1>1. T \subseteq Nat /\ k \in T
  OBVIOUS
<1>2. IsWellFoundedOn(Less, Nat)
  BY NatLessThanWellFounded DEF Less
<1>3. PICK x \in T : \A y \in T : ~(<<y, x>> \in Less)
  <2> HIDE DEF T
  <2> QED BY <1>1, <1>2, WFMin
<1>4. x - 1 \in T /\ x \in Nat /\ x - 1 \in Nat
  OBVIOUS
<1>5. <<x - 1, x>> \in Less
  BY <1>4 DEF Less, OpToRel
<1> QED BY <1>3, <1>4, <1>5

-----------------------------------------------------------------------------
(* The loop of the averages.                                               *)

(* The equations of the loop have a solution: one for n steps is continued *)
(* by a step.                                                              *)
LEMMA RunningExists ==
  ASSUME NEW first, NEW keep, NEW added, NEW n \in Nat
  PROVE  \E f : f = [k \in 0..n |-> IF k = 0 THEN first ELSE keep * f[k - 1] + added[k]]
<1> DEFINE S == {m \in Nat : \E f : f = [k \in 0..m |->
                   IF k = 0 THEN first ELSE keep * f[k - 1] + added[k]]}
<1>1. 0 \in S
  <2>1. [k \in 0..0 |-> first] =
          [k \in 0..0 |-> IF k = 0 THEN first
                          ELSE keep * [j \in 0..0 |-> first][k - 1] + added[k]]
    OBVIOUS
  <2> QED BY <2>1
<1>2. ASSUME NEW m \in Nat, m \in S PROVE m + 1 \in S
  <2>1. PICK f : f = [k \in 0..m |-> IF k = 0 THEN first ELSE keep * f[k - 1] + added[k]]
    BY <1>2
  <2> DEFINE g == [k \in 0..(m + 1) |-> IF k = m + 1 THEN keep * f[m] + added[k] ELSE f[k]]
  <2>2. g = [k \in 0..(m + 1) |-> IF k = 0 THEN first ELSE keep * g[k - 1] + added[k]]
    <3> SUFFICES ASSUME NEW k \in 0..(m + 1)
                 PROVE  g[k] = IF k = 0 THEN first ELSE keep * g[k - 1] + added[k]
      OBVIOUS
    <3>1. CASE k = m + 1
      <4>1. k - 1 = m /\ k # 0 /\ m \in 0..(m + 1) /\ m # m + 1
        BY <3>1
      <4> QED BY <4>1, <3>1
    <3>2. CASE k \in 0..m /\ k # 0
      <4>1. k - 1 \in 0..(m + 1) /\ k # m + 1 /\ k - 1 # m + 1
        BY <3>2
      <4>2. f[k] = keep * f[k - 1] + added[k]
        BY <2>1, <3>2
      <4> QED BY <4>1, <4>2, <3>2
    <3>3. CASE k = 0
      <4>1. k # m + 1 /\ k \in 0..m
        BY <3>3
      <4>2. f[k] = first
        BY <2>1, <3>3, <4>1
      <4> QED BY <4>1, <4>2, <3>3
    <3> QED BY <3>1, <3>2, <3>3
  <2>3. \E h : h = [k \in 0..(m + 1) |-> IF k = 0 THEN first ELSE keep * h[k - 1] + added[k]]
    <3> HIDE DEF g
    <3> WITNESS g
    <3> QED BY <2>2
  <2> QED BY <2>3
<1>3. n \in S
  <2>1. \A k \in 0..(n - 1) : k \in S => k + 1 \in S
    <3> HIDE DEF S
    <3> QED BY <1>2
  <2> HIDE DEF S
  <2>2. \A k \in 0..n : k \in S
    BY <2>1, <1>1, Counting
  <2> QED BY <2>2
<1> QED BY <1>3

(* So Running is one.                                                      *)
LEMMA RunningFixpoint ==
  ASSUME NEW first, NEW keep, NEW added, NEW n \in Nat
  PROVE  LET r == Running(first, keep, added, n)
         IN r = [k \in 0..n |-> IF k = 0 THEN first ELSE keep * r[k - 1] + added[k]]
BY RunningExists DEF Running

(* The equations of the loop; they determine its values.                   *)
LEMMA RunningEquations ==
  ASSUME NEW first, NEW keep, NEW added, NEW n \in Nat
  PROVE  LET r == Running(first, keep, added, n)
         IN /\ DOMAIN r = 0..n
            /\ r[0] = first
            /\ \A k \in 1..n : r[k] = keep * r[k - 1] + added[k]
<1> DEFINE r == Running(first, keep, added, n)
<1>1. r = [k \in 0..n |-> IF k = 0 THEN first ELSE keep * r[k - 1] + added[k]]
  BY RunningFixpoint
<1> HIDE DEF r
<1>2. DOMAIN r = 0..n
  BY <1>1
<1>3. r[0] = first
  <2>1. 0 \in 0..n
    OBVIOUS
  <2> QED BY <1>1, <2>1
<1>4. ASSUME NEW k \in 1..n PROVE r[k] = keep * r[k - 1] + added[k]
  <2>1. k \in 0..n /\ k # 0
    OBVIOUS
  <2> QED BY <1>1, <2>1
<1> QED BY <1>2, <1>3, <1>4 DEF r

LEMMA RunningIs ==
  ASSUME NEW first, NEW keep, NEW added, NEW n \in Nat, NEW g, g[0] = first,
         \A k \in 1..n : g[k] = keep * g[k - 1] + added[k]
  PROVE  \A k \in 0..n : Running(first, keep, added, n)[k] = g[k]
<1> DEFINE r == Running(first, keep, added, n)
<1>1. r[0] = first /\ \A k \in 1..n : r[k] = keep * r[k - 1] + added[k]
  BY RunningEquations
<1> HIDE DEF r
<1> DEFINE S == {k \in 0..n : r[k] = g[k]}
<1>2. 0 \in S
  BY <1>1
<1>3. ASSUME NEW k \in 0..(n - 1), k \in S PROVE k + 1 \in S
  <2>1. k + 1 \in 1..n /\ (k + 1) - 1 = k /\ k + 1 \in 0..n
    OBVIOUS
  <2>2. r[k + 1] = keep * r[k] + added[k + 1]
    BY <1>1, <2>1
  <2>3. g[k + 1] = keep * g[k] + added[k + 1]
    BY <2>1
  <2>4. r[k] = g[k]
    BY <1>3
  <2> QED BY <2>1, <2>2, <2>3, <2>4
<1>4. \A k \in 0..n : k \in S
  <2> HIDE DEF S
  <2> QED BY <1>2, <1>3, Counting
<1> QED BY <1>4 DEF r

(* Integers in, integers out.                                              *)
LEMMA RunningType ==
  ASSUME NEW first \in Int, NEW keep \in Int, NEW n \in Nat,
         NEW added, \A k \in 1..n : added[k] \in Int
  PROVE  Running(first, keep, added, n) \in [0..n -> Int]
<1> DEFINE r == Running(first, keep, added, n)
<1>1. /\ r = [k \in 0..n |-> IF k = 0 THEN first ELSE keep * r[k - 1] + added[k]]
      /\ r[0] = first
      /\ \A k \in 1..n : r[k] = keep * r[k - 1] + added[k]
  BY RunningEquations, RunningFixpoint
<1> HIDE DEF r
<1> DEFINE S == {k \in 0..n : r[k] \in Int}
<1>2. 0 \in S
  BY <1>1
<1>3. ASSUME NEW k \in 0..(n - 1), k \in S PROVE k + 1 \in S
  <2>1. k + 1 \in 1..n /\ (k + 1) - 1 = k /\ k + 1 \in 0..n
    OBVIOUS
  <2>2. r[k + 1] = keep * r[k] + added[k + 1]
    BY <1>1, <2>1
  <2>3. r[k] \in Int /\ added[k + 1] \in Int
    BY <1>3, <2>1
  <2> QED BY <2>1, <2>2, <2>3
<1>4. \A k \in 0..n : k \in S
  <2> HIDE DEF S
  <2> QED BY <1>2, <1>3, Counting
<1>5. \A k \in 0..n : r[k] \in Int
  BY <1>4
<1> HIDE DEF S
<1>6. r \in [0..n -> Int]
  <2> DEFINE body(k) == IF k = 0 THEN first ELSE keep * r[k - 1] + added[k]
  <2>1. r = [k \in 0..n |-> body(k)]
    BY <1>1
  <2> HIDE DEF body
  <2> QED BY <2>1, <1>5
<1> QED BY <1>6 DEF r

(* What starts below and grows no faster stays below.                      *)
LEMMA RunningAbove ==
  ASSUME NEW first \in Int, NEW keep \in Nat, NEW n \in Nat,
         NEW added, \A k \in 1..n : added[k] \in Int,
         NEW g, \A k \in 0..n : g[k] \in Int, g[0] <= first,
         \A k \in 1..n : g[k] <= keep * g[k - 1] + added[k]
  PROVE  \A k \in 0..n : g[k] <= Running(first, keep, added, n)[k]
<1> DEFINE r == Running(first, keep, added, n)
<1>1. r[0] = first /\ \A k \in 1..n : r[k] = keep * r[k - 1] + added[k]
  BY RunningEquations
<1>2. r \in [0..n -> Int]
  BY RunningType
<1> HIDE DEF r
<1> DEFINE S == {k \in 0..n : g[k] <= r[k]}
<1>3. 0 \in S
  BY <1>1
<1>4. ASSUME NEW x \in Int, NEW y \in Int, x <= y PROVE keep * x <= keep * y
  BY <1>4
<1>5. ASSUME NEW k \in 0..(n - 1), k \in S PROVE k + 1 \in S
  <2>1. k + 1 \in 1..n /\ (k + 1) - 1 = k /\ k + 1 \in 0..n
    OBVIOUS
  <2>2. r[k + 1] = keep * r[k] + added[k + 1]
    BY <1>1, <2>1
  <2>3. g[k + 1] <= keep * g[k] + added[k + 1]
    BY <2>1
  <2>4. r[k] \in Int /\ added[k + 1] \in Int /\ g[k] \in Int /\ g[k + 1] \in Int
    BY <1>2, <2>1
  <2>5. g[k] <= r[k]
    BY <1>5
  <2>6. keep * g[k] <= keep * r[k]
    BY <1>4, <2>4, <2>5
  <2>7. keep * g[k] \in Int /\ keep * r[k] \in Int
    BY <2>4
  <2>8. g[k + 1] <= r[k + 1]
    BY <2>2, <2>3, <2>4, <2>6, <2>7
  <2> QED BY <2>1, <2>8
<1>6. \A k \in 0..n : k \in S
  <2> HIDE DEF S
  <2> QED BY <1>3, <1>5, Counting
<1> QED BY <1>6 DEF r

-----------------------------------------------------------------------------
(* Sums.                                                                   *)

(* No term, no sum.                                                        *)
LEMMA SumEmpty ==
  ASSUME NEW xs, NEW from \in Int
  PROVE  SumOver(xs, from, from - 1) = 0
<1> DEFINE n == (from - 1) - from + 1
           added == [k \in 1..n |-> xs[from + k - 1]]
<1>1. n = 0
  OBVIOUS
<1>2. SumOver(xs, from, from - 1) = Running(0, 1, added, n)[n]
  BY DEF SumOver
<1> HIDE DEF n, added
<1>3. Running(0, 1, added, 0)[0] = 0
  BY RunningEquations
<1> QED BY <1>1, <1>2, <1>3

(* A sum of integers is an integer.                                        *)
LEMMA SumType ==
  ASSUME NEW xs, NEW from \in Int, NEW to \in Int, from <= to + 1,
         \A k \in from..to : xs[k] \in Int
  PROVE  SumOver(xs, from, to) \in Int
<1> DEFINE n == to - from + 1
           added == [k \in 1..n |-> xs[from + k - 1]]
<1>1. n \in Nat /\ n \in 0..n
  OBVIOUS
<1>2. \A k \in 1..n : added[k] \in Int
  <2> SUFFICES ASSUME NEW k \in 1..n PROVE added[k] \in Int
    OBVIOUS
  <2>1. from + k - 1 \in from..to
    OBVIOUS
  <2> QED BY <2>1
<1>3. SumOver(xs, from, to) = Running(0, 1, added, n)[n]
  BY DEF SumOver
<1> HIDE DEF n, added
<1>4. Running(0, 1, added, n) \in [0..n -> Int]
  BY <1>1, <1>2, RunningType
<1> QED BY <1>1, <1>3, <1>4

(* The loop over a prefix is a prefix of the loop.                         *)
LEMMA SumNext ==
  ASSUME NEW xs, NEW from \in Int, NEW to \in Int, from <= to + 1,
         \A k \in from..(to + 1) : xs[k] \in Int
  PROVE  SumOver(xs, from, to + 1) = SumOver(xs, from, to) + xs[to + 1]
<1> DEFINE n == to - from + 1
           m == (to + 1) - from + 1
           short == [k \in 1..n |-> xs[from + k - 1]]
           long == [k \in 1..m |-> xs[from + k - 1]]
           r == Running(0, 1, long, m)
<1>1. n \in Nat /\ m = n + 1 /\ m \in Nat /\ m \in 1..m /\ n \in 0..n /\ m - 1 = n
  OBVIOUS
<1>2. SumOver(xs, from, to) = Running(0, 1, short, n)[n]
  BY DEF SumOver
<1>3. SumOver(xs, from, to + 1) = r[m]
  BY DEF SumOver
<1>4. \A k \in 1..n : k \in 1..m /\ short[k] = long[k]
  OBVIOUS
<1>5. long[m] = xs[to + 1]
  <2>1. from + m - 1 = to + 1
    OBVIOUS
  <2> QED BY <1>1, <2>1
<1> HIDE DEF n, m, short, long
<1>6. /\ r[0] = 0
      /\ \A k \in 1..m : r[k] = 1 * r[k - 1] + long[k]
  BY <1>1, RunningEquations
<1> HIDE DEF r
<1>7. \A k \in 1..n : r[k] = 1 * r[k - 1] + short[k]
  BY <1>4, <1>6
<1>8. \A k \in 0..n : Running(0, 1, short, n)[k] = r[k]
  BY <1>1, <1>6, <1>7, RunningIs
<1>9. SumOver(xs, from, to) = r[n]
  BY <1>1, <1>2, <1>8
<1>10. SumOver(xs, from, to) \in Int
  BY SumType
<1>11. xs[to + 1] \in Int
  OBVIOUS
<1>12. r[m] = 1 * r[n] + long[m]
  BY <1>1, <1>6
<1> QED BY <1>3, <1>5, <1>9, <1>10, <1>11, <1>12

(* Equal terms have equal sums, wherever they stand.                       *)
Shifted(xs, ys, from, to, d) == \A k \in from..to : xs[k] = ys[k + d]

LEMMA SumShift ==
  ASSUME NEW xs, NEW ys, NEW from \in Int, NEW to \in Int, NEW d \in Int,
         Shifted(xs, ys, from, to, d)
  PROVE  SumOver(xs, from, to) = SumOver(ys, from + d, to + d)
<1> DEFINE n == to - from + 1
           m == (to + d) - (from + d) + 1
           one == [k \in 1..n |-> xs[from + k - 1]]
           other == [k \in 1..m |-> ys[from + d + k - 1]]
<1>1. n = m
  OBVIOUS
<1>2. one = other
  <2>1. \A k \in 1..n : one[k] = other[k]
    <3> SUFFICES ASSUME NEW k \in 1..n PROVE one[k] = other[k]
      OBVIOUS
    <3>1. from + k - 1 \in from..to /\ (from + k - 1) + d = from + d + k - 1
      OBVIOUS
    <3>2. xs[from + k - 1] = ys[(from + k - 1) + d]
      BY <3>1 DEF Shifted
    <3> QED BY <1>1, <3>1, <3>2
  <2> QED BY <1>1, <2>1
<1>3. SumOver(xs, from, to) = Running(0, 1, one, n)[n]
  BY DEF SumOver
<1>4. SumOver(ys, from + d, to + d) = Running(0, 1, other, m)[m]
  BY DEF SumOver
<1> HIDE DEF n, m, one, other
<1> QED BY <1>1, <1>2, <1>3, <1>4

LEMMA SumSame ==
  ASSUME NEW xs, NEW ys, NEW from \in Int, NEW to \in Int,
         \A k \in from..to : xs[k] = ys[k]
  PROVE  SumOver(xs, from, to) = SumOver(ys, from, to)
<1> DEFINE n == to - from + 1
           one == [k \in 1..n |-> xs[from + k - 1]]
           other == [k \in 1..n |-> ys[from + k - 1]]
<1>1. one = other
  <2>1. ASSUME NEW k \in 1..n PROVE xs[from + k - 1] = ys[from + k - 1]
    <3>1. from + k - 1 \in from..to
      OBVIOUS
    <3> QED BY <3>1
  <2> QED BY <2>1
<1>2. SumOver(xs, from, to) = Running(0, 1, one, n)[n]
  BY DEF SumOver
<1>3. SumOver(ys, from, to) = Running(0, 1, other, n)[n]
  BY DEF SumOver
<1> HIDE DEF n, one, other
<1> QED BY <1>1, <1>2, <1>3

(* One term more of a combination.                                         *)
LEMMA LinearStep ==
  ASSUME NEW a \in Int, NEW b \in Int, NEW c \in Int, NEW x \in Int, NEW y \in Int,
         NEW X \in Int, NEW Y \in Int, NEW n \in Int
  PROVE  (a * X + b * Y + c * n) + (a * x + b * y + c)
           = a * (X + x) + b * (Y + y) + c * (n + 1)
<1>1. /\ a * (X + x) = a * X + a * x
      /\ b * (Y + y) = b * Y + b * y
      /\ c * (n + 1) = c * n + c
  OBVIOUS
<1>2. a * X \in Int /\ a * x \in Int /\ b * Y \in Int /\ b * y \in Int /\ c * n \in Int
  OBVIOUS
<1> QED BY <1>1, <1>2

(* The values of zs are those of xs and ys stretched, added and moved.     *)
Combined(zs, a, xs, b, ys, c, from, to) ==
  \A k \in from..to : /\ xs[k] \in Int /\ ys[k] \in Int
                      /\ zs[k] = a * xs[k] + b * ys[k] + c

(* A sum of combined values is the combination of the sums ...             *)
LEMMA SumLinear ==
  ASSUME NEW a \in Int, NEW b \in Int, NEW c \in Int, NEW xs, NEW ys, NEW zs,
         NEW from \in Int, NEW to \in Int, from <= to + 1,
         Combined(zs, a, xs, b, ys, c, from, to)
  PROVE  SumOver(zs, from, to) =
           a * SumOver(xs, from, to) + b * SumOver(ys, from, to) + c * (to - from + 1)
<1> USE DEF Combined
<1> DEFINE n == to - from + 1
           At(k) == SumOver(zs, from, from + k - 1) =
                      a * SumOver(xs, from, from + k - 1)
                        + b * SumOver(ys, from, from + k - 1) + c * k
           S == {k \in 0..n : At(k)}
<1>1. n \in Nat
  OBVIOUS
<1>2. 0 \in S
  <2>1. from + 0 - 1 = from - 1
    OBVIOUS
  <2>2. SumOver(zs, from, from - 1) = 0 /\ SumOver(xs, from, from - 1) = 0
        /\ SumOver(ys, from, from - 1) = 0
    BY SumEmpty
  <2>3. 0 = a * 0 + b * 0 + c * 0
    OBVIOUS
  <2>4. At(0)
    BY <2>1, <2>2, <2>3
  <2> QED BY <1>1, <2>4
<1>3. ASSUME NEW k \in 0..(n - 1), k \in S PROVE k + 1 \in S
  <2> DEFINE last == from + k - 1
             X == SumOver(xs, from, last)
             Y == SumOver(ys, from, last)
  <2>1. /\ last \in Int /\ from <= last + 1 /\ last + 1 = from + (k + 1) - 1
        /\ last + 1 \in from..to /\ from..(last + 1) \subseteq from..to
        /\ from..last \subseteq from..to
    OBVIOUS
  <2> HIDE DEF last
  <2>2. \A i \in from..to : xs[i] \in Int /\ ys[i] \in Int /\ zs[i] \in Int
    OBVIOUS
  <2>3. X \in Int /\ Y \in Int /\ SumOver(zs, from, last) \in Int
    BY <2>1, <2>2, SumType
  <2>4. /\ SumOver(xs, from, last + 1) = X + xs[last + 1]
        /\ SumOver(ys, from, last + 1) = Y + ys[last + 1]
        /\ SumOver(zs, from, last + 1) = SumOver(zs, from, last) + zs[last + 1]
    <3>1. /\ \A i \in from..(last + 1) : xs[i] \in Int
          /\ \A i \in from..(last + 1) : ys[i] \in Int
          /\ \A i \in from..(last + 1) : zs[i] \in Int
      BY <2>1, <2>2
    <3> QED BY <2>1, <3>1, SumNext
  <2>5. SumOver(zs, from, last) = a * X + b * Y + c * k
    BY <1>3 DEF last
  <2>6. zs[last + 1] = a * xs[last + 1] + b * ys[last + 1] + c
    BY <2>1
  <2>7. xs[last + 1] \in Int /\ ys[last + 1] \in Int
    BY <2>1, <2>2
  <2> HIDE DEF X, Y
  <2>8. (a * X + b * Y + c * k) + (a * xs[last + 1] + b * ys[last + 1] + c)
          = a * (X + xs[last + 1]) + b * (Y + ys[last + 1]) + c * (k + 1)
    BY <2>3, <2>7, LinearStep
  <2>9. SumOver(zs, from, last + 1) =
          a * SumOver(xs, from, last + 1) + b * SumOver(ys, from, last + 1) + c * (k + 1)
    BY <2>4, <2>5, <2>6, <2>8
  <2>10. At(k + 1)
    BY <2>1, <2>9
  <2>11. k + 1 \in 0..n
    OBVIOUS
  <2> QED BY <2>10, <2>11
<1>4. \A k \in 0..n : k \in S
  <2> HIDE DEF S
  <2> QED BY <1>1, <1>2, <1>3, Counting
<1>5. At(n)
  <2>1. n \in 0..n
    BY <1>1
  <2> HIDE DEF n, At
  <2> QED BY <1>4, <2>1
<1>6. from + n - 1 = to
  OBVIOUS
<1> QED BY <1>5, <1>6

(* The values of zs are those of xs stretched and moved.                   *)
Stretched(zs, a, xs, c, from, to) ==
  \A k \in from..to : xs[k] \in Int /\ zs[k] = a * xs[k] + c

(* ... and of stretched values the stretched sum.                          *)
LEMMA SumStretched ==
  ASSUME NEW a \in Int, NEW c \in Int, NEW xs, NEW zs,
         NEW from \in Int, NEW to \in Int, from <= to + 1,
         Stretched(zs, a, xs, c, from, to)
  PROVE  SumOver(zs, from, to) = a * SumOver(xs, from, to) + c * (to - from + 1)
<1>1. \A k \in from..to : xs[k] \in Int /\ zs[k] = a * xs[k] + 0 * xs[k] + c
  BY DEF Stretched
<1> DEFINE none == 0
<1>2. Combined(zs, a, xs, none, xs, c, from, to) /\ none \in Int
  BY <1>1 DEF Combined
<1> HIDE DEF none
<1>3. SumOver(zs, from, to) =
        a * SumOver(xs, from, to) + none * SumOver(xs, from, to) + c * (to - from + 1)
  BY <1>2, SumLinear
<1>4. SumOver(xs, from, to) \in Int
  BY <1>1, SumType
<1> QED BY <1>3, <1>4 DEF none

(* A sum of values that are no greater is no greater ...                   *)
LEMMA SumMonotone ==
  ASSUME NEW xs, NEW ys, NEW from \in Int, NEW to \in Int, from <= to + 1,
         \A k \in from..to : xs[k] \in Int /\ ys[k] \in Int /\ xs[k] <= ys[k]
  PROVE  SumOver(xs, from, to) <= SumOver(ys, from, to)
<1> DEFINE n == to - from + 1
           At(k) == SumOver(xs, from, from + k - 1) <= SumOver(ys, from, from + k - 1)
           S == {k \in 0..n : At(k)}
<1>1. n \in Nat
  OBVIOUS
<1>2. 0 \in S
  <2>1. from + 0 - 1 = from - 1
    OBVIOUS
  <2>2. SumOver(xs, from, from - 1) = 0 /\ SumOver(ys, from, from - 1) = 0
    BY SumEmpty
  <2>3. At(0)
    BY <2>1, <2>2
  <2> QED BY <1>1, <2>3
<1>3. ASSUME NEW k \in 0..(n - 1), k \in S PROVE k + 1 \in S
  <2> DEFINE last == from + k - 1
  <2>1. /\ last \in Int /\ from <= last + 1 /\ last + 1 = from + (k + 1) - 1
        /\ last + 1 \in from..to /\ from..(last + 1) \subseteq from..to
        /\ from..last \subseteq from..to
    OBVIOUS
  <2> HIDE DEF last
  <2>2. \A i \in from..to : xs[i] \in Int /\ ys[i] \in Int
    OBVIOUS
  <2>3. SumOver(xs, from, last) \in Int /\ SumOver(ys, from, last) \in Int
    BY <2>1, <2>2, SumType
  <2>4. /\ SumOver(xs, from, last + 1) = SumOver(xs, from, last) + xs[last + 1]
        /\ SumOver(ys, from, last + 1) = SumOver(ys, from, last) + ys[last + 1]
    <3>1. /\ \A i \in from..(last + 1) : xs[i] \in Int
          /\ \A i \in from..(last + 1) : ys[i] \in Int
      BY <2>1, <2>2
    <3> QED BY <2>1, <3>1, SumNext
  <2>5. SumOver(xs, from, last) <= SumOver(ys, from, last)
    BY <1>3 DEF last
  <2>6. xs[last + 1] <= ys[last + 1] /\ xs[last + 1] \in Int /\ ys[last + 1] \in Int
    BY <2>1
  <2>7. At(k + 1)
    BY <2>1, <2>3, <2>4, <2>5, <2>6
  <2>8. k + 1 \in 0..n
    OBVIOUS
  <2> QED BY <2>7, <2>8
<1>4. \A k \in 0..n : k \in S
  <2> HIDE DEF S
  <2> QED BY <1>1, <1>2, <1>3, Counting
<1>5. At(n)
  <2>1. n \in 0..n
    BY <1>1
  <2> HIDE DEF n, At
  <2> QED BY <1>4, <2>1
<1>6. from + n - 1 = to
  OBVIOUS
<1> QED BY <1>5, <1>6

(* ... and one of values no less than zero is no less than zero.           *)
LEMMA SumOfNone ==
  ASSUME NEW xs, NEW from \in Int, NEW to \in Int, from <= to + 1,
         \A k \in from..to : xs[k] \in Int /\ 0 <= xs[k]
  PROVE  0 <= SumOver(xs, from, to)
<1> DEFINE zero == [k \in from..to |-> 0]
<1>1. \A k \in from..to : zero[k] \in Int /\ xs[k] \in Int /\ zero[k] <= xs[k]
  OBVIOUS
<1>2. Stretched(zero, 0, zero, 0, from, to)
  BY DEF Stretched
<1> HIDE DEF zero
<1>3. SumOver(zero, from, to) <= SumOver(xs, from, to)
  BY <1>1, SumMonotone
<1>4. SumOver(zero, from, to) = 0 * SumOver(zero, from, to) + 0 * (to - from + 1)
  BY <1>2, SumStretched
<1>5. SumOver(zero, from, to) \in Int
  BY <1>1, SumType
<1>6. SumOver(zero, from, to) = 0
  BY <1>4, <1>5
<1> QED BY <1>3, <1>6

-----------------------------------------------------------------------------
(* Powers.                                                                 *)

LEMMA PowerZero == ASSUME NEW b PROVE Power(b, 0) = 1
<1> DEFINE none == [k \in 1..0 |-> 0]
<1>1. Power(b, 0) = Running(1, b, none, 0)[0]
  BY DEF Power
<1> HIDE DEF none
<1> QED BY <1>1, RunningEquations

(* Integers have integer powers ...                                        *)
LEMMA PowerType ==
  ASSUME NEW b \in Int, NEW n \in Nat
  PROVE  Power(b, n) \in Int
<1> DEFINE none == [k \in 1..n |-> 0]
<1>1. Power(b, n) = Running(1, b, none, n)[n]
  BY DEF Power
<1>2. \A k \in 1..n : none[k] \in Int
  OBVIOUS
<1> HIDE DEF none
<1>3. Running(1, b, none, n) \in [0..n -> Int]
  BY <1>2, RunningType
<1> QED BY <1>1, <1>3

(* ... that grow by a factor per step ...                                  *)
LEMMA PowerNext ==
  ASSUME NEW b \in Int, NEW n \in Nat
  PROVE  Power(b, n + 1) = b * Power(b, n)
<1> DEFINE none == [k \in 1..n |-> 0]
           more == [k \in 1..(n + 1) |-> 0]
           r == Running(1, b, more, n + 1)
<1>1. Power(b, n) = Running(1, b, none, n)[n] /\ Power(b, n + 1) = r[n + 1]
  BY DEF Power
<1>2. \A k \in 1..n : none[k] = more[k] /\ k \in 1..(n + 1)
  OBVIOUS
<1>3. more[n + 1] = 0
  OBVIOUS
<1> HIDE DEF none, more
<1>4. r[0] = 1 /\ \A k \in 1..(n + 1) : r[k] = b * r[k - 1] + more[k]
  BY RunningEquations
<1> HIDE DEF r
<1>5. \A k \in 1..n : r[k] = b * r[k - 1] + none[k]
  BY <1>2, <1>4
<1>6. \A k \in 0..n : Running(1, b, none, n)[k] = r[k]
  BY <1>4, <1>5, RunningIs
<1>7. Power(b, n) = r[n]
  BY <1>1, <1>6
<1>8. n + 1 \in 1..(n + 1) /\ (n + 1) - 1 = n
  OBVIOUS
<1>9. r[n + 1] = b * r[n] + 0
  BY <1>3, <1>4, <1>8
<1>10. b * Power(b, n) \in Int
  BY PowerType
<1> QED BY <1>1, <1>7, <1>9, <1>10

(* ... stay positive ...                                                   *)
LEMMA PowerPositive ==
  ASSUME NEW b \in Nat, b >= 1, NEW n \in Nat
  PROVE  Power(b, n) >= 1
<1> DEFINE S == {k \in 0..n : Power(b, k) >= 1}
<1>1. 0 \in S
  BY PowerZero
<1>2. ASSUME NEW k \in 0..(n - 1), k \in S PROVE k + 1 \in S
  <2>1. Power(b, k) \in Int /\ Power(b, k + 1) = b * Power(b, k)
    BY PowerType, PowerNext
  <2>2. \A x \in Int : x >= 1 => b * x >= 1
    OBVIOUS
  <2>3. Power(b, k) >= 1 /\ k + 1 \in 0..n
    BY <1>2
  <2> QED BY <2>1, <2>2, <2>3
<1>3. \A k \in 0..n : k \in S
  <2> HIDE DEF S
  <2> QED BY <1>1, <1>2, Counting
<1> QED BY <1>3

(* ... and multiply as their exponents add.                                *)
LEMMA PowerSum ==
  ASSUME NEW b \in Int, NEW m \in Nat, NEW n \in Nat
  PROVE  Power(b, m) * Power(b, n) = Power(b, m + n)
<1> DEFINE S == {k \in 0..n : Power(b, m) * Power(b, k) = Power(b, m + k)}
<1>1. 0 \in S
  <2>1. Power(b, 0) = 1 /\ m + 0 = m /\ Power(b, m) \in Int
    BY PowerZero, PowerType
  <2>2. Power(b, m) * 1 = Power(b, m)
    BY <2>1
  <2> QED BY <2>1, <2>2
<1>2. ASSUME NEW k \in 0..(n - 1), k \in S PROVE k + 1 \in S
  <2>1. /\ m + (k + 1) = (m + k) + 1 /\ m + k \in Nat /\ k \in Nat
        /\ k + 1 \in 0..n
    OBVIOUS
  <2>2. /\ Power(b, k) \in Int /\ Power(b, m) \in Int
        /\ Power(b, k + 1) = b * Power(b, k)
        /\ Power(b, (m + k) + 1) = b * Power(b, m + k)
    BY <2>1, PowerType, PowerNext
  <2>3. \A x, y \in Int : x * (b * y) = b * (x * y)
    OBVIOUS
  <2>4. Power(b, m) * (b * Power(b, k)) = b * (Power(b, m) * Power(b, k))
    BY <2>2, <2>3
  <2>5. Power(b, m) * Power(b, k) = Power(b, m + k)
    BY <1>2
  <2>6. Power(b, m) * Power(b, k + 1) = Power(b, m + (k + 1))
    BY <2>1, <2>2, <2>4, <2>5
  <2> QED BY <2>1, <2>6
<1>3. \A k \in 0..n : k \in S
  <2> HIDE DEF S
  <2> QED BY <1>1, <1>2, Counting
<1> QED BY <1>3

-----------------------------------------------------------------------------
(* Exponential averages.                                                   *)

(* The running value of calculateEMA, before it is brought to the unit of  *)
(* the whole sequence.                                                     *)
EmaRun(xs, p) ==
  Running(SumOver(xs, 1, p), p - 1,
          [i \in 1..(Len(xs) - p) |-> 2 * EmaUnit(p + i - 1, p) * xs[p + i]],
          Len(xs) - p)

LEMMA EmaUnitFirst == ASSUME NEW p \in Int PROVE EmaUnit(p + 0, p) = p
<1>1. p + 0 - p = 0
  OBVIOUS
<1>2. EmaUnit(p + 0, p) = p * Power(p + 1, 0)
  BY <1>1 DEF EmaUnit
<1>3. Power(p + 1, 0) = 1
  BY PowerZero
<1> QED BY <1>2, <1>3

(* Every value more multiplies the unit by p + 1.                          *)
LEMMA EmaUnitNext ==
  ASSUME NEW p \in Nat, p >= 1, NEW j \in Nat
  PROVE  /\ EmaUnit(p + j, p) \in Int
         /\ EmaUnit(p + j, p) >= 1
         /\ EmaUnit(p + (j + 1), p) = (p + 1) * EmaUnit(p + j, p)
<1>1. p + j - p = j /\ p + (j + 1) - p = j + 1
  OBVIOUS
<1>2. /\ EmaUnit(p + j, p) = p * Power(p + 1, j)
      /\ EmaUnit(p + (j + 1), p) = p * Power(p + 1, j + 1)
  BY <1>1 DEF EmaUnit
<1>3. /\ Power(p + 1, j) \in Int /\ Power(p + 1, j) >= 1
      /\ Power(p + 1, j + 1) = (p + 1) * Power(p + 1, j)
  BY PowerType, PowerPositive, PowerNext
<1>4. \A x \in Int : x >= 1 => p * x >= 1
  OBVIOUS
<1>5. \A x \in Int : p * ((p + 1) * x) = (p + 1) * (p * x)
  OBVIOUS
<1>6. p * Power(p + 1, j) >= 1 /\ p * Power(p + 1, j) \in Int
  BY <1>3, <1>4
<1>7. p * ((p + 1) * Power(p + 1, j)) = (p + 1) * (p * Power(p + 1, j))
  BY <1>3, <1>5
<1> QED BY <1>2, <1>3, <1>6, <1>7

(* The unit of an average of p + j values, brought to that of n values.    *)
LEMMA EmaUnitWhole ==
  ASSUME NEW p \in Nat, p >= 1, NEW n \in Nat, NEW j \in 0..(n - p)
  PROVE  EmaUnit(p + j, p) * Power(p + 1, n - p - j) = EmaUnit(n, p)
<1>1. p + j - p = j /\ n - p - j \in Nat /\ j \in Nat /\ j + (n - p - j) = n - p
  OBVIOUS
<1>2. EmaUnit(p + j, p) = p * Power(p + 1, j)
  BY <1>1 DEF EmaUnit
<1>3. Power(p + 1, j) * Power(p + 1, n - p - j) = Power(p + 1, j + (n - p - j))
  BY <1>1, PowerSum
<1>4. Power(p + 1, j) \in Int /\ Power(p + 1, n - p - j) \in Int
  BY <1>1, PowerType
<1>5. \A x, y \in Int : (p * x) * y = p * (x * y)
  OBVIOUS
<1>6. (p * Power(p + 1, j)) * Power(p + 1, n - p - j)
        = p * (Power(p + 1, j) * Power(p + 1, n - p - j))
  BY <1>4, <1>5
<1> QED BY <1>1, <1>2, <1>3, <1>6 DEF EmaUnit

(* The equations of calculateEMA.                                          *)
LEMMA EmaRunning ==
  ASSUME NEW xs \in Seq(Int), NEW p \in Nat, p >= 1, p <= Len(xs)
  PROVE  /\ EmaRun(xs, p) \in [0..(Len(xs) - p) -> Int]
         /\ EmaRun(xs, p)[0] = SumOver(xs, 1, p)
         /\ \A j \in 1..(Len(xs) - p) :
              EmaRun(xs, p)[j] = (p - 1) * EmaRun(xs, p)[j - 1]
                                   + 2 * EmaUnit(p + j - 1, p) * xs[p + j]
<1> DEFINE n == Len(xs) - p
           added == [i \in 1..n |-> 2 * EmaUnit(p + i - 1, p) * xs[p + i]]
<1>1. n \in Nat /\ p - 1 \in Int
  OBVIOUS
<1>2. ASSUME NEW i \in 1..n PROVE added[i] \in Int
  <2>1. i - 1 \in Nat /\ p + (i - 1) = p + i - 1 /\ xs[p + i] \in Int
    OBVIOUS
  <2>2. EmaUnit(p + (i - 1), p) \in Int
    BY <2>1, EmaUnitNext
  <2>3. EmaUnit(p + i - 1, p) \in Int
    BY <2>1, <2>2
  <2>4. \A x, y \in Int : 2 * x * y \in Int
    OBVIOUS
  <2> QED BY <2>1, <2>3, <2>4
<1>3. \A i \in 1..n : added[i] = 2 * EmaUnit(p + i - 1, p) * xs[p + i]
  OBVIOUS
<1>4. SumOver(xs, 1, p) \in Int
  <2>1. \A k \in 1..p : xs[k] \in Int
    OBVIOUS
  <2> QED BY <2>1, SumType
<1>5. EmaRun(xs, p) = Running(SumOver(xs, 1, p), p - 1, added, n)
  BY DEF EmaRun
<1> HIDE DEF n, added
<1>6. EmaRun(xs, p) \in [0..n -> Int]
  BY <1>1, <1>2, <1>4, <1>5, RunningType
<1>7. /\ EmaRun(xs, p)[0] = SumOver(xs, 1, p)
      /\ \A j \in 1..n : EmaRun(xs, p)[j] = (p - 1) * EmaRun(xs, p)[j - 1] + added[j]
  BY <1>1, <1>5, RunningEquations
<1> QED BY <1>3, <1>6, <1>7 DEF n

(* The average of values moved and stretched is moved and stretched.       *)
LEMMA EmaRunAffine ==
  ASSUME NEW xs \in Seq(Int), NEW ys \in Seq(Int), Len(ys) = Len(xs),
         NEW a \in Int, NEW b \in Int, Stretched(ys, a, xs, b, 1, Len(xs)),
         NEW p \in Nat, p >= 1, p <= Len(xs)
  PROVE  \A j \in 0..(Len(xs) - p) :
           EmaRun(ys, p)[j] = a * EmaRun(xs, p)[j] + b * EmaUnit(p + j, p)
<1> DEFINE n == Len(xs) - p
           X == EmaRun(xs, p)
           Y == EmaRun(ys, p)
           U(j) == EmaUnit(p + j, p)
           S == {j \in 0..n : Y[j] = a * X[j] + b * U(j)}
<1>1. n \in Nat
  OBVIOUS
<1>2. /\ X \in [0..n -> Int] /\ X[0] = SumOver(xs, 1, p)
      /\ \A j \in 1..n : X[j] = (p - 1) * X[j - 1] + 2 * EmaUnit(p + j - 1, p) * xs[p + j]
  BY EmaRunning
<1>3. /\ Y \in [0..n -> Int] /\ Y[0] = SumOver(ys, 1, p)
      /\ \A j \in 1..n : Y[j] = (p - 1) * Y[j - 1] + 2 * EmaUnit(p + j - 1, p) * ys[p + j]
  BY EmaRunning
<1>4. 0 \in S
  <2>1. Stretched(ys, a, xs, b, 1, p)
    BY DEF Stretched
  <2>2. SumOver(ys, 1, p) = a * SumOver(xs, 1, p) + b * (p - 1 + 1)
    <3>1. 1 \in Int /\ p \in Int /\ 1 <= p + 1
      OBVIOUS
    <3> QED BY <2>1, <3>1, SumStretched
  <2>3. p - 1 + 1 = p
    OBVIOUS
  <2>4. U(0) = p
    BY EmaUnitFirst
  <2>5. Y[0] = a * X[0] + b * U(0)
    BY <1>2, <1>3, <2>2, <2>3, <2>4
  <2> QED BY <1>1, <2>5
<1>5. ASSUME NEW j \in 0..(n - 1), j \in S PROVE j + 1 \in S
  <2>1. /\ j + 1 \in 1..n /\ (j + 1) - 1 = j /\ p + (j + 1) - 1 = p + j /\ j \in Nat
        /\ j + 1 \in 0..n /\ p + (j + 1) \in 1..Len(xs) /\ j \in 0..n
    OBVIOUS
  <2> DEFINE x == xs[p + (j + 1)]
             u == EmaUnit(p + j, p)
  <2>2. x \in Int /\ ys[p + (j + 1)] = a * x + b
    BY <2>1 DEF Stretched
  <2>3. u \in Int /\ U(j + 1) = (p + 1) * u
    BY <2>1, EmaUnitNext
  <2>4. X[j] \in Int
    BY <1>2, <2>1
  <2>5. X[j + 1] = (p - 1) * X[j] + 2 * u * x
    BY <1>2, <2>1
  <2>6. Y[j + 1] = (p - 1) * Y[j] + 2 * u * (a * x + b)
    <3>1. Y[j + 1] = (p - 1) * Y[j] + 2 * u * ys[p + (j + 1)]
      BY <1>3, <2>1
    <3> QED BY <2>2, <3>1
  <2>7. Y[j] = a * X[j] + b * u
    BY <1>5
  <2> HIDE DEF x, u, X, Y
  <2>8. ASSUME NEW X0 \in Int, NEW v \in Int, NEW z \in Int
        PROVE  (p - 1) * (a * X0 + b * v) + 2 * v * (a * z + b)
                 = a * ((p - 1) * X0 + 2 * v * z) + b * ((p + 1) * v)
    <3>1. (p - 1) * (a * X0 + b * v) = a * ((p - 1) * X0) + b * ((p - 1) * v)
      OBVIOUS
    <3>2. 2 * v * (a * z + b) = a * (2 * v * z) + b * (2 * v)
      OBVIOUS
    <3>3. a * ((p - 1) * X0 + 2 * v * z) = a * ((p - 1) * X0) + a * (2 * v * z)
      OBVIOUS
    <3>4. b * ((p + 1) * v) = b * ((p - 1) * v) + b * (2 * v)
      OBVIOUS
    <3>5. /\ a * ((p - 1) * X0) \in Int /\ a * (2 * v * z) \in Int
          /\ b * ((p - 1) * v) \in Int /\ b * (2 * v) \in Int
      OBVIOUS
    <3> QED BY <3>1, <3>2, <3>3, <3>4, <3>5
  <2>9. (p - 1) * (a * X[j] + b * u) + 2 * u * (a * x + b)
          = a * ((p - 1) * X[j] + 2 * u * x) + b * ((p + 1) * u)
    BY <2>2, <2>3, <2>4, <2>8
  <2>10. Y[j + 1] = a * X[j + 1] + b * U(j + 1)
    BY <2>3, <2>5, <2>6, <2>7, <2>9
  <2> QED BY <2>1, <2>10
<1>6. \A j \in 0..n : j \in S
  <2> HIDE DEF S
  <2> QED BY <1>1, <1>4, <1>5, Counting
<1> QED BY <1>6

(* The average of values no less than lo is no less than lo.               *)
LEMMA EmaRunAbove ==
  ASSUME NEW xs \in Seq(Int), NEW lo \in Int, \A i \in 1..Len(xs) : lo <= xs[i],
         NEW p \in Nat, p >= 1, p <= Len(xs)
  PROVE  \A j \in 0..(Len(xs) - p) : lo * EmaUnit(p + j, p) <= EmaRun(xs, p)[j]
<1> DEFINE n == Len(xs) - p
           ys == [i \in 1..Len(xs) |-> xs[i] - lo]
           Y == EmaRun(ys, p)
           none == [j \in 0..n |-> 0]
           one == 1
           minus == -lo
<1>1. n \in Nat /\ minus \in Int /\ one \in Int /\ p - 1 \in Nat
  OBVIOUS
<1>2. /\ ys \in Seq(Int) /\ Len(ys) = Len(xs)
      /\ \A i \in 1..Len(xs) : ys[i] = one * xs[i] + minus /\ ys[i] >= 0 /\ ys[i] \in Int
  OBVIOUS
<1> HIDE DEF ys, one, minus
<1>7. Stretched(ys, one, xs, minus, 1, Len(xs))
  BY <1>2 DEF Stretched
<1>3. \A j \in 0..n : Y[j] = one * EmaRun(xs, p)[j] + minus * EmaUnit(p + j, p)
  BY <1>1, <1>2, <1>7, EmaRunAffine
<1>4. \A j \in 0..n : 0 <= Y[j]
  <2> DEFINE added == [i \in 1..n |-> 2 * EmaUnit(p + i - 1, p) * ys[p + i]]
  <2>1. Y = Running(SumOver(ys, 1, p), p - 1, added, n)
    BY <1>2 DEF EmaRun
  <2>2. SumOver(ys, 1, p) \in Int /\ 0 <= SumOver(ys, 1, p)
    <3>1. \A k \in 1..p : ys[k] \in Int /\ 0 <= ys[k]
      BY <1>2
    <3> QED BY <3>1, SumType, SumOfNone
  <2>3. ASSUME NEW i \in 1..n PROVE added[i] \in Int /\ 0 <= added[i]
    <3>1. i - 1 \in Nat /\ p + (i - 1) = p + i - 1 /\ p + i \in 1..Len(xs)
      OBVIOUS
    <3>2. EmaUnit(p + (i - 1), p) \in Int /\ EmaUnit(p + (i - 1), p) >= 1
      BY <3>1, EmaUnitNext
    <3>3. \A x, y \in Int : x >= 1 /\ y >= 0 => 2 * x * y \in Int /\ 2 * x * y >= 0
      OBVIOUS
    <3>4. ys[p + i] \in Int /\ ys[p + i] >= 0
      BY <1>2, <3>1
    <3>5. EmaUnit(p + i - 1, p) \in Int /\ EmaUnit(p + i - 1, p) >= 1
      BY <3>1, <3>2
    <3>6. added[i] = 2 * EmaUnit(p + i - 1, p) * ys[p + i]
      OBVIOUS
    <3> HIDE DEF added
    <3> QED BY <3>3, <3>4, <3>5, <3>6
  <2>4. /\ \A j \in 0..n : none[j] \in Int /\ none[j] = 0
        /\ \A j \in 1..n : none[j] = 0 /\ none[j - 1] = 0
    OBVIOUS
  <2> HIDE DEF added, none, n, Y
  <2>5. \A k \in 1..n : added[k] \in Int
    BY <2>3
  <2>6. \A j \in 0..n : none[j] \in Int
    BY <2>4
  <2>7. none[0] <= SumOver(ys, 1, p)
    BY <1>1, <2>2, <2>4
  <2>8. \A k \in 1..n : none[k] <= (p - 1) * none[k - 1] + added[k]
    <3>1. (p - 1) * 0 = 0
      OBVIOUS
    <3>2. \A x \in Int : 0 <= x => 0 <= 0 + x
      OBVIOUS
    <3> QED BY <2>3, <2>4, <3>1, <3>2
  <2>9. \A j \in 0..n : none[j] <= Running(SumOver(ys, 1, p), p - 1, added, n)[j]
    BY <1>1, <2>2, <2>5, <2>6, <2>7, <2>8, RunningAbove
  <2> QED BY <2>1, <2>4, <2>9
<1>5. ASSUME NEW j \in 0..n PROVE lo * EmaUnit(p + j, p) <= EmaRun(xs, p)[j]
  <2>1. EmaRun(xs, p)[j] \in Int
    BY EmaRunning
  <2>2. EmaUnit(p + j, p) \in Int
    <3>1. j \in Nat
      OBVIOUS
    <3> QED BY <3>1, EmaUnitNext
  <2>3. \A x, u \in Int : 0 <= one * x + minus * u => lo * u <= x
    BY DEF one, minus
  <2>4. 0 <= one * EmaRun(xs, p)[j] + minus * EmaUnit(p + j, p)
    BY <1>3, <1>4
  <2> QED BY <2>1, <2>2, <2>3, <2>4
<1> QED BY <1>5

(* The entries of calculateEMA over its running value.                     *)
LEMMA EmaEntry ==
  ASSUME NEW xs \in Seq(Int), NEW p \in Nat, p >= 1, p <= Len(xs)
  PROVE  /\ calculateEMA(xs, p) \in Seq(Int)
         /\ Len(calculateEMA(xs, p)) = Len(xs) - p + 1
         /\ \A k \in 1..(Len(xs) - p + 1) :
              /\ k - 1 \in 0..(Len(xs) - p)
              /\ EmaRun(xs, p)[k - 1] \in Int
              /\ Power(p + 1, Len(xs) - p - (k - 1)) \in Int
              /\ Power(p + 1, Len(xs) - p - (k - 1)) >= 1
              /\ calculateEMA(xs, p)[k] =
                   EmaRun(xs, p)[k - 1] * Power(p + 1, Len(xs) - p - (k - 1))
<1> DEFINE n == Len(xs) - p
           E(k) == EmaRun(xs, p)[k - 1] * Power(p + 1, n + 1 - k)
<1>1. n \in Nat
  OBVIOUS
<1>2. calculateEMA(xs, p) = [k \in 1..(n + 1) |-> E(k)]
  BY DEF calculateEMA, EmaRun
<1>3. ASSUME NEW k \in 1..(n + 1)
      PROVE  /\ EmaRun(xs, p)[k - 1] \in Int /\ Power(p + 1, n + 1 - k) \in Int
             /\ Power(p + 1, n + 1 - k) >= 1 /\ E(k) \in Int
  <2>1. k - 1 \in 0..n /\ n + 1 - k \in Nat /\ p + 1 \in Nat /\ p + 1 >= 1
    OBVIOUS
  <2>2. EmaRun(xs, p)[k - 1] \in Int
    BY <2>1, EmaRunning
  <2>3. Power(p + 1, n + 1 - k) \in Int /\ Power(p + 1, n + 1 - k) >= 1
    <3> DEFINE e == n + 1 - k
               b == p + 1
    <3>1. e \in Nat /\ b \in Nat /\ b \in Int /\ b >= 1
      OBVIOUS
    <3> HIDE DEF e, b
    <3>2. Power(b, e) \in Int /\ Power(b, e) >= 1
      BY <3>1, PowerType, PowerPositive
    <3> QED BY <3>2 DEF e, b
  <2>4. \A x, y \in Int : x * y \in Int
    OBVIOUS
  <2> QED BY <2>2, <2>3, <2>4
<1>4. calculateEMA(xs, p) \in Seq(Int) /\ Len(calculateEMA(xs, p)) = n + 1
  <2> HIDE DEF E, n
  <2> QED BY <1>1, <1>2, <1>3
<1>5. ASSUME NEW k \in 1..(n + 1)
      PROVE  calculateEMA(xs, p)[k] = EmaRun(xs, p)[k - 1] * Power(p + 1, n - (k - 1))
  <2>1. n + 1 - k = n - (k - 1)
    OBVIOUS
  <2>2. calculateEMA(xs, p)[k] = E(k)
    <3> HIDE DEF E
    <3> QED BY <1>2
  <2> QED BY <2>1, <2>2
<1>6. \A k \in 1..(n + 1) : k - 1 \in 0..n /\ n + 1 - k = n - (k - 1)
  OBVIOUS
<1> QED BY <1>3, <1>4, <1>5, <1>6

(* calculateEMA follows values that are moved and stretched ...            *)
LEMMA EmaStretched ==
  ASSUME NEW xs \in Seq(Int), NEW ys \in Seq(Int), Len(ys) = Len(xs),
         NEW a \in Int, NEW b \in Int, Stretched(ys, a, xs, b, 1, Len(xs)),
         NEW p \in Nat, p >= 1, p <= Len(xs)
  PROVE  \A k \in 1..(Len(xs) - p + 1) :
           calculateEMA(ys, p)[k] = a * calculateEMA(xs, p)[k] + b * EmaUnit(Len(xs), p)
<1> DEFINE n == Len(xs)
<1> SUFFICES ASSUME NEW k \in 1..(n - p + 1)
             PROVE  calculateEMA(ys, p)[k] = a * calculateEMA(xs, p)[k] + b * EmaUnit(n, p)
  OBVIOUS
<1> DEFINE j == k - 1
           x == EmaRun(xs, p)[j]
           y == EmaRun(ys, p)[j]
           u == EmaUnit(p + j, p)
           w == Power(p + 1, n - p - j)
<1>1. j \in 0..(n - p) /\ j \in Nat /\ n \in Nat
  OBVIOUS
<1>2. calculateEMA(xs, p)[k] = x * w /\ x \in Int /\ w \in Int
  BY EmaEntry
<1>3. calculateEMA(ys, p)[k] = y * w
  <2>1. p <= Len(ys) /\ k \in 1..(Len(ys) - p + 1)
    OBVIOUS
  <2>2. calculateEMA(ys, p)[k] = EmaRun(ys, p)[k - 1] * Power(p + 1, Len(ys) - p - (k - 1))
    BY <2>1, EmaEntry
  <2> QED BY <2>2
<1>4. y = a * x + b * u
  BY <1>1, EmaRunAffine
<1>5. u * w = EmaUnit(n, p)
  BY <1>1, EmaUnitWhole
<1>6. u \in Int
  BY <1>1, EmaUnitNext
<1> HIDE DEF x, y, u, w
<1>7. \A x0, u0, w0 \in Int : (a * x0 + b * u0) * w0 = a * (x0 * w0) + b * (u0 * w0)
  OBVIOUS
<1>8. (a * x + b * u) * w = a * (x * w) + b * (u * w)
  BY <1>2, <1>6, <1>7
<1> QED BY <1>2, <1>3, <1>4, <1>5, <1>8

(* ... stays above what they stay above ...                                *)
LEMMA EmaAbove ==
  ASSUME NEW xs \in Seq(Int), NEW lo \in Int, \A i \in 1..Len(xs) : lo <= xs[i],
         NEW p \in Nat, p >= 1, p <= Len(xs)
  PROVE  \A k \in 1..(Len(xs) - p + 1) : lo * EmaUnit(Len(xs), p) <= calculateEMA(xs, p)[k]
<1> DEFINE n == Len(xs)
<1> SUFFICES ASSUME NEW k \in 1..(n - p + 1)
             PROVE  lo * EmaUnit(n, p) <= calculateEMA(xs, p)[k]
  OBVIOUS
<1> DEFINE j == k - 1
           x == EmaRun(xs, p)[j]
           u == EmaUnit(p + j, p)
           w == Power(p + 1, n - p - j)
<1>1. j \in 0..(n - p) /\ j \in Nat /\ n \in Nat
  OBVIOUS
<1>2. calculateEMA(xs, p)[k] = x * w /\ x \in Int /\ w \in Int /\ w >= 1
  BY EmaEntry
<1>3. lo * u <= x
  BY <1>1, EmaRunAbove
<1>4. u * w = EmaUnit(n, p)
  BY <1>1, EmaUnitWhole
<1>5. u \in Int
  BY <1>1, EmaUnitNext
<1> HIDE DEF x, u, w
<1>6. \A v, x0, w0 \in Int : v <= x0 /\ w0 >= 1 => v * w0 <= x0 * w0
  OBVIOUS
<1>7. \A u0, w0 \in Int : (lo * u0) * w0 = lo * (u0 * w0) /\ lo * u0 \in Int
  OBVIOUS
<1>8. (lo * u) * w = lo * (u * w) /\ lo * u \in Int
  BY <1>2, <1>5, <1>7
<1>9. (lo * u) * w <= x * w
  BY <1>2, <1>3, <1>6, <1>8
<1> QED BY <1>2, <1>4, <1>8, <1>9

LEMMA EmaType ==
  ASSUME NEW xs \in Seq(Int), NEW p \in Nat, p >= 1, p <= Len(xs)
  PROVE  /\ DOMAIN calculateEMA(xs, p) = 1..(Len(xs) - p + 1)
         /\ \A k \in 1..(Len(xs) - p + 1) : calculateEMA(xs, p)[k] \in Int
<1> DEFINE e == calculateEMA(xs, p)
<1>1. e \in Seq(Int) /\ Len(e) = Len(xs) - p + 1
  BY EmaEntry
<1> HIDE DEF e
<1>2. DOMAIN e = 1..(Len(xs) - p + 1) /\ \A k \in 1..Len(e) : e[k] \in Int
  BY <1>1
<1> QED BY <1>1, <1>2 DEF e

(* The unit is a positive integer.                                         *)
LEMMA EmaWhole ==
  ASSUME NEW n \in Nat, NEW p \in Nat, p >= 1, p <= n
  PROVE  EmaUnit(n, p) \in Int /\ EmaUnit(n, p) >= 1
<1> DEFINE j == n - p
<1>1. j \in Nat /\ p + j = n
  OBVIOUS
<1> HIDE DEF j
<1>2. EmaUnit(p + j, p) \in Int /\ EmaUnit(p + j, p) >= 1
  BY <1>1, EmaUnitNext
<1> QED BY <1>1, <1>2

(* ... and below what they stay below.                                     *)
LEMMA EmaBelow ==
  ASSUME NEW xs \in Seq(Int), NEW hi \in Int, \A i \in 1..Len(xs) : xs[i] <= hi,
         NEW p \in Nat, p >= 1, p <= Len(xs)
  PROVE  \A k \in 1..(Len(xs) - p + 1) : calculateEMA(xs, p)[k] <= hi * EmaUnit(Len(xs), p)
<1> DEFINE ys == [i \in 1..Len(xs) |-> -xs[i]]
           lo == -hi
           minus == -1
           zero == 0
<1>1. /\ ys \in Seq(Int) /\ Len(ys) = Len(xs) /\ lo \in Int /\ minus \in Int /\ zero \in Int
      /\ \A i \in 1..Len(ys) : lo <= ys[i]
  OBVIOUS
<1>2. Stretched(ys, minus, xs, zero, 1, Len(xs))
  BY DEF Stretched
<1> HIDE DEF ys, lo, minus, zero
<1> SUFFICES ASSUME NEW k \in 1..(Len(xs) - p + 1)
             PROVE  calculateEMA(xs, p)[k] <= hi * EmaUnit(Len(xs), p)
  OBVIOUS
<1>3. lo * EmaUnit(Len(xs), p) <= calculateEMA(ys, p)[k]
  BY <1>1, EmaAbove
<1>4. calculateEMA(ys, p)[k] = minus * calculateEMA(xs, p)[k] + zero * EmaUnit(Len(xs), p)
  BY <1>1, <1>2, EmaStretched
<1>5. calculateEMA(xs, p)[k] \in Int /\ EmaUnit(Len(xs), p) \in Int
  BY EmaType, EmaWhole
<1>6. \A x, u \in Int : (-hi) * u <= (-1) * x + 0 * u => x <= hi * u
  OBVIOUS
<1> QED BY <1>3, <1>4, <1>5, <1>6 DEF lo, minus, zero

(* The closed form of the last average.                                    *)
LEMMA EmaIsWeighted ==
  ASSUME NEW xs \in Seq(Int), NEW p \in Nat, p >= 1, p <= Len(xs)
  PROVE  calculateEMA(xs, p)[Len(xs) - p + 1] = WeightedAverage(xs, p)
<1> DEFINE n == Len(xs) - p
           first == SumOver(xs, 1, p)
           term(j) == [i \in (p + 1)..(p + j) |->
                         2 * EmaUnit(i - 1, p) * Power(p - 1, p + j - i) * xs[i]]
           closed(j) == Power(p - 1, j) * first + SumOver(term(j), p + 1, p + j)
           X == EmaRun(xs, p)
           S == {j \in 0..n : X[j] = closed(j)}
<1>1. n \in Nat /\ p - 1 \in Nat /\ p - 1 \in Int
  OBVIOUS
<1>2. /\ X \in [0..n -> Int] /\ X[0] = first
      /\ \A j \in 1..n : X[j] = (p - 1) * X[j - 1] + 2 * EmaUnit(p + j - 1, p) * xs[p + j]
  BY EmaRunning
<1>3. first \in Int
  BY <1>1, <1>2
<1>4. ASSUME NEW j \in 0..n, NEW i \in (p + 1)..(p + j)
      PROVE  /\ term(j)[i] \in Int
             /\ term(j)[i] = 2 * EmaUnit(i - 1, p) * Power(p - 1, p + j - i) * xs[i]
             /\ EmaUnit(i - 1, p) \in Int /\ xs[i] \in Int
             /\ p + j - i \in Nat /\ Power(p - 1, p + j - i) \in Int
  <2>1. p + j - i \in Nat /\ i - 1 \in Nat /\ p <= i - 1 /\ i \in 1..Len(xs)
    OBVIOUS
  <2>2. EmaUnit(i - 1, p) \in Int
    BY <2>1, EmaWhole
  <2>3. Power(p - 1, p + j - i) \in Int
    BY <1>1, <2>1, PowerType
  <2>4. xs[i] \in Int
    BY <2>1
  <2>5. \A x, y, z \in Int : 2 * x * y * z \in Int
    OBVIOUS
  <2>6. term(j)[i] = 2 * EmaUnit(i - 1, p) * Power(p - 1, p + j - i) * xs[i]
    OBVIOUS
  <2> HIDE DEF term
  <2> QED BY <2>1, <2>2, <2>3, <2>4, <2>5, <2>6
<1>5. 0 \in S
  <2>1. SumOver(term(0), p + 1, p + 0) = 0
    <3>1. p + 0 = (p + 1) - 1 /\ p + 1 \in Int
      OBVIOUS
    <3> HIDE DEF term
    <3>2. SumOver(term(0), p + 1, (p + 1) - 1) = 0
      BY <3>1, SumEmpty
    <3> QED BY <3>1, <3>2
  <2>2. Power(p - 1, 0) = 1
    BY PowerZero
  <2>3. 1 * first + 0 = first
    BY <1>3
  <2>4. closed(0) = first
    <3> HIDE DEF term, first
    <3> QED BY <2>1, <2>2, <2>3
  <2>5. X[0] = closed(0)
    <3> HIDE DEF closed, first
    <3> QED BY <1>2, <2>4
  <2>6. 0 \in 0..n
    BY <1>1
  <2> HIDE DEF closed, X, n
  <2> QED BY <2>5, <2>6
<1>6. ASSUME NEW j \in 0..(n - 1), j \in S PROVE j + 1 \in S
  <2> DEFINE u == EmaUnit(p + j, p)
             x == xs[p + (j + 1)]
             old == SumOver(term(j), p + 1, p + j)
             new == term(j + 1)
             minus == p - 1
             zero == 0
  <2>1. /\ j \in Nat /\ j \in 0..n /\ j + 1 \in 0..n /\ j + 1 \in 1..n /\ (j + 1) - 1 = j
        /\ p + (j + 1) \in 1..Len(xs) /\ p + (j + 1) - 1 = p + j
        /\ p + (j + 1) = (p + j) + 1
        /\ p + (j + 1) \in (p + 1)..(p + (j + 1)) /\ p + (j + 1) - (p + (j + 1)) = 0
        /\ p + 1 \in Int /\ p + j \in Int /\ p + 1 <= (p + j) + 1
    OBVIOUS
  <2>2. u \in Int /\ x \in Int
    <3>1. u \in Int
      BY <2>1, EmaUnitNext
    <3>2. x \in Int
      BY <2>1
    <3> QED BY <3>1, <3>2
  <2>3. X[j + 1] = (p - 1) * X[j] + 2 * u * x
    BY <1>2, <2>1
  <2>4. X[j] = Power(p - 1, j) * first + old
    BY <1>6
  <2>5. Power(p - 1, j + 1) = (p - 1) * Power(p - 1, j) /\ Power(p - 1, j) \in Int
    BY <1>1, <2>1, PowerNext, PowerType
  <2>6. Stretched(new, minus, term(j), zero, p + 1, p + j)
    <3> SUFFICES ASSUME NEW i \in (p + 1)..(p + j)
                 PROVE  /\ term(j)[i] \in Int
                        /\ new[i] = minus * term(j)[i] + zero
      BY DEF Stretched
    <3> DEFINE w == Power(p - 1, p + j - i)
               v == EmaUnit(i - 1, p)
               z == xs[i]
    <3>1. /\ term(j)[i] \in Int /\ term(j)[i] = 2 * v * w * z
          /\ v \in Int /\ z \in Int /\ p + j - i \in Nat /\ w \in Int
      BY <1>4, <2>1
    <3>2. i \in (p + 1)..(p + (j + 1)) /\ p + (j + 1) - i = (p + j - i) + 1
      OBVIOUS
    <3>3. new[i] = 2 * v * Power(p - 1, p + (j + 1) - i) * z
      BY <1>4, <2>1, <3>2
    <3>4. Power(p - 1, (p + j - i) + 1) = (p - 1) * w
      BY <1>1, <3>1, PowerNext
    <3>5. new[i] = 2 * v * ((p - 1) * w) * z
      <4> HIDE DEF new, v, w, z
      <4> QED BY <3>2, <3>3, <3>4
    <3> HIDE DEF v, w, z, new, term
    <3>6. \A a, b, c \in Int : 2 * a * ((p - 1) * b) * c = (p - 1) * (2 * a * b * c) + 0
      <4> SUFFICES ASSUME NEW a \in Int, NEW b \in Int, NEW c \in Int
                   PROVE  2 * a * ((p - 1) * b) * c = (p - 1) * (2 * a * b * c) + 0
        OBVIOUS
      <4>1. 2 * a * ((p - 1) * b) * c = (p - 1) * (2 * a * b * c)
        OBVIOUS
      <4>2. (p - 1) * (2 * a * b * c) \in Int
        OBVIOUS
      <4> QED BY <4>1, <4>2
    <3> QED BY <3>1, <3>5, <3>6
  <2>7. SumOver(new, p + 1, p + j) = minus * old + zero * (p + j - (p + 1) + 1)
    <3>1. minus \in Int /\ zero \in Int
      OBVIOUS
    <3> HIDE DEF new, term, minus, zero
    <3> QED BY <2>1, <2>6, <3>1, SumStretched
  <2>8. \A i \in (p + 1)..(p + (j + 1)) : new[i] \in Int
    BY <1>4, <2>1
  <2>9. SumOver(new, p + 1, p + (j + 1)) = SumOver(new, p + 1, p + j) + new[p + (j + 1)]
    <3>1. \A i \in (p + 1)..((p + j) + 1) : new[i] \in Int
      BY <2>1, <2>8
    <3> HIDE DEF new
    <3>2. SumOver(new, p + 1, (p + j) + 1) = SumOver(new, p + 1, p + j) + new[(p + j) + 1]
      BY <2>1, <3>1, SumNext
    <3> QED BY <2>1, <3>2
  <2>10. new[p + (j + 1)] = 2 * u * x
    <3>1. new[p + (j + 1)] = 2 * EmaUnit(p + (j + 1) - 1, p)
                               * Power(p - 1, p + (j + 1) - (p + (j + 1))) * xs[p + (j + 1)]
      BY <1>4, <2>1
    <3>2. Power(p - 1, p + (j + 1) - (p + (j + 1))) = 1 /\ EmaUnit(p + (j + 1) - 1, p) = u
      BY <2>1, PowerZero
    <3> HIDE DEF new, u, x
    <3>3. \A a \in Int : 2 * a * 1 = 2 * a
      OBVIOUS
    <3> QED BY <2>2, <3>1, <3>2, <3>3 DEF x
  <2>11. old \in Int
    <3>1. \A i \in (p + 1)..(p + j) : term(j)[i] \in Int
      BY <1>4, <2>1
    <3> HIDE DEF term
    <3> QED BY <2>1, <3>1, SumType
  <2>12. closed(j + 1) = (p - 1) * Power(p - 1, j) * first + (((p - 1) * old + 0) + 2 * u * x)
    <3>1. closed(j + 1) = Power(p - 1, j + 1) * first + SumOver(new, p + 1, p + (j + 1))
      OBVIOUS
    <3>2. zero * (p + j - (p + 1) + 1) = 0
      BY <2>1
    <3> HIDE DEF closed, new, old, u, x, zero
    <3> QED BY <2>5, <2>7, <2>9, <2>10, <3>1, <3>2
  <2>13. \A a, b, c, d \in Int :
           (p - 1) * (a * b + c) + d = (p - 1) * a * b + (((p - 1) * c + 0) + d)
    OBVIOUS
  <2>14. 2 * u * x \in Int
    <3> HIDE DEF u, x
    <3> QED BY <2>2
  <2>15. X[j + 1] = closed(j + 1)
    <3> HIDE DEF X, closed, first, old, u, x, n
    <3>1. (p - 1) * (Power(p - 1, j) * first + old) + 2 * u * x
            = (p - 1) * Power(p - 1, j) * first + (((p - 1) * old + 0) + 2 * u * x)
      BY <1>3, <2>5, <2>11, <2>13, <2>14
    <3> QED BY <2>3, <2>4, <2>12, <3>1
  <2> HIDE DEF closed, X, n
  <2> QED BY <2>1, <2>15
<1>7. \A j \in 0..n : j \in S
  <2> HIDE DEF S, n
  <2> QED BY <1>1, <1>5, <1>6, Counting
<1>8. X[n] = closed(n)
  <2>1. n \in 0..n
    BY <1>1
  <2> HIDE DEF X, closed, n
  <2> QED BY <1>7, <2>1
<1>9. closed(n) = WeightedAverage(xs, p)
  <2> DEFINE weighted == [i \in (p + 1)..Len(xs) |->
                            2 * EmaUnit(i - 1, p) * Power(p - 1, Len(xs) - i) * xs[i]]
  <2>1. p + n = Len(xs) /\ p + 1 \in Int /\ Len(xs) \in Int
    OBVIOUS
  <2>2. WeightedAverage(xs, p) =
          Power(p - 1, Len(xs) - p) * first + SumOver(weighted, p + 1, Len(xs))
    BY DEF WeightedAverage
  <2>3. closed(n) = Power(p - 1, n) * first + SumOver(term(n), p + 1, p + n)
    OBVIOUS
  <2>4. ASSUME NEW i \in (p + 1)..Len(xs) PROVE term(n)[i] = weighted[i]
    <3>1. n \in 0..n /\ i \in (p + 1)..(p + n)
      BY <1>1
    <3>2. term(n)[i] = 2 * EmaUnit(i - 1, p) * Power(p - 1, p + n - i) * xs[i]
      BY <1>4, <3>1
    <3>3. weighted[i] = 2 * EmaUnit(i - 1, p) * Power(p - 1, Len(xs) - i) * xs[i]
      OBVIOUS
    <3>4. p + n - i = Len(xs) - i
      OBVIOUS
    <3> HIDE DEF term, weighted, n
    <3> QED BY <3>2, <3>3, <3>4
  <2> HIDE DEF term, weighted
  <2>5. SumOver(term(n), p + 1, Len(xs)) = SumOver(weighted, p + 1, Len(xs))
    <3> HIDE DEF n
    <3> QED BY <2>1, <2>4, SumSame
  <2> HIDE DEF closed, first
  <2>6. SumOver(term(n), p + 1, p + n) = SumOver(weighted, p + 1, Len(xs))
    <3> HIDE DEF n
    <3> QED BY <2>1, <2>5
  <2> QED BY <2>2, <2>3, <2>6
<1>10. calculateEMA(xs, p)[n + 1] = X[n]
  <2>1. /\ (n + 1) - 1 = n /\ n + 1 \in 1..(n + 1)
        /\ Len(xs) - p - ((n + 1) - 1) = 0
    BY <1>1
  <2>2. calculateEMA(xs, p)[n + 1] = X[n] * Power(p + 1, 0)
    <3>1. calculateEMA(xs, p)[n + 1] =
            X[(n + 1) - 1] * Power(p + 1, Len(xs) - p - ((n + 1) - 1))
      BY <2>1, EmaEntry
    <3> HIDE DEF X, n
    <3> QED BY <2>1, <3>1
  <2>3. Power(p + 1, 0) = 1
    BY PowerZero
  <2>4. X[n] \in Int
    <3>1. n \in 0..n
      BY <1>1
    <3> HIDE DEF X, n
    <3> QED BY <1>2, <3>1
  <2> HIDE DEF X, n
  <2>5. X[n] * 1 = X[n]
    BY <2>4
  <2> QED BY <2>2, <2>3, <2>5
<1> QED BY <1>8, <1>9, <1>10

-----------------------------------------------------------------------------
(* The table.                                                              *)

(* The rows that passed validateBeforeInsert.                              *)
Stored == {c \in Candles : validateBeforeInsert(c)}

(* The inductive invariant: the table holds nothing else.                  *)
TableInv == candles \in Seq(Stored)

LEMMA StoredType ==
  ASSUME NEW c \in Stored
  PROVE  /\ c.high \in Int /\ c.low \in Int /\ c.close \in Int /\ c.volume \in Int
         /\ 0 < c.low /\ c.low <= c.close /\ c.close <= c.high /\ c.volume >= 0
BY StrategyAssumption DEF Stored, validateBeforeInsert, Candle15M

(* saveCandle stores what was validated, so the table stays as it is.      *)
LEMMA TableKept == TableInv /\ [Next]_candles => TableInv'
BY DEF TableInv, Next, NewCandle, Stored

LEMMA TableAlways == Spec => []TableInv
<1>1. Init => TableInv
  BY DEF Init, TableInv
<1> QED BY <1>1, TableKept, PTL DEF Spec

(* What is read of the rows of such a table.                               *)
LEMMA ClosesType ==
  ASSUME NEW cs \in Seq(Stored)
  PROVE  /\ Closes(cs) \in Seq(Int) /\ Len(Closes(cs)) = Len(cs)
         /\ Volumes(cs) \in Seq(Int) /\ Len(Volumes(cs)) = Len(cs)
         /\ \A i \in 1..Len(cs) :
              /\ cs[i] \in Stored
              /\ Closes(cs)[i] = cs[i].close /\ Closes(cs)[i] \in Int
              /\ Volumes(cs)[i] = cs[i].volume /\ Volumes(cs)[i] \in Int
<1>1. DOMAIN cs = 1..Len(cs) /\ Len(cs) \in Nat /\ \A i \in 1..Len(cs) : cs[i] \in Stored
  OBVIOUS
<1>2. \A i \in 1..Len(cs) : cs[i].close \in Int /\ cs[i].volume \in Int
  BY <1>1, StoredType
<1>3. Closes(cs) \in Seq(Int) /\ Len(Closes(cs)) = Len(cs)
  BY <1>1, <1>2 DEF Closes
<1>4. Volumes(cs) \in Seq(Int) /\ Len(Volumes(cs)) = Len(cs)
  BY <1>1, <1>2 DEF Volumes
<1>5. \A i \in 1..Len(cs) : Closes(cs)[i] = cs[i].close /\ Volumes(cs)[i] = cs[i].volume
  BY <1>1 DEF Closes, Volumes
<1> QED BY <1>1, <1>2, <1>3, <1>4, <1>5

(* The periods as StrategyAssumption states them.                          *)
LEMMA PeriodTypes ==
  /\ DayPeriod \in Nat /\ DayPeriod >= 1 /\ ShortPeriod \in Nat /\ ShortPeriod >= DayPeriod
  /\ LongPeriod \in Nat /\ ShortPeriod < LongPeriod
  /\ FastPeriod \in Nat /\ FastPeriod >= 1 /\ SlowPeriod \in Nat /\ FastPeriod < SlowPeriod
  /\ SignalPeriod \in Nat /\ SignalPeriod >= 1 /\ BandPeriod \in Nat /\ BandPeriod >= 1
  /\ BandWidth \in Nat /\ BandWidth >= 1 /\ VolumePeriod \in Nat /\ VolumePeriod >= 1
  /\ RsiPeriod \in Nat /\ RsiPeriod >= 2
BY StrategyAssumption

(* The greatest and the least of a finite number of values.                *)
LEMMA GreatestExists ==
  ASSUME NEW n \in Nat, n >= 1, NEW f, \A i \in 1..n : f[i] \in Int
  PROVE  \E i \in 1..n : \A j \in 1..n : f[j] <= f[i]
<1> DEFINE S == {m \in 0..n : m = 0 \/ \E i \in 1..m : \A j \in 1..m : f[j] <= f[i]}
<1>1. 0 \in S
  OBVIOUS
<1>2. ASSUME NEW m \in 0..(n - 1), m \in S PROVE m + 1 \in S
  <2>1. /\ m + 1 \in 1..n /\ m + 1 \in 0..n /\ m + 1 \in 1..(m + 1) /\ m + 1 # 0
        /\ \A j \in 1..(m + 1) : j = m + 1 \/ j \in 1..m
        /\ \A j \in 1..m : j \in 1..n /\ j \in 1..(m + 1)
    OBVIOUS
  <2>2. f[m + 1] \in Int
    BY <2>1
  <2>3. CASE m = 0
    <3>1. \A j \in 1..(m + 1) : f[j] <= f[m + 1]
      BY <2>1, <2>2, <2>3
    <3> QED BY <2>1, <3>1
  <2>4. CASE m # 0
    <3>1. PICK i \in 1..m : \A j \in 1..m : f[j] <= f[i]
      BY <1>2, <2>4
    <3>2. CASE f[m + 1] <= f[i]
      <4>1. \A j \in 1..(m + 1) : f[j] <= f[i]
        BY <2>1, <3>1, <3>2
      <4> QED BY <2>1, <4>1
    <3>3. CASE ~(f[m + 1] <= f[i])
      <4>1. f[i] \in Int /\ \A j \in 1..m : f[j] \in Int
        BY <2>1
      <4>2. \A j \in 1..(m + 1) : f[j] <= f[m + 1]
        BY <2>1, <2>2, <3>1, <3>3, <4>1
      <4> QED BY <2>1, <4>2
    <3> QED BY <3>2, <3>3
  <2> QED BY <2>3, <2>4
<1>3. n \in S
  <2>1. \A k \in 0..n : k \in S
    <3> HIDE DEF S
    <3> QED BY <1>1, <1>2, Counting
  <2> HIDE DEF S
  <2> QED BY <2>1
<1> QED BY <1>3

(* Max and Min of the values of a sequence bound them.                     *)
LEMMA Greatest ==
  ASSUME NEW n \in Nat, n >= 1, NEW f, \A i \in 1..n : f[i] \in Int,
         NEW S, S = {f[i] : i \in 1..n}
  PROVE  Max(S) \in Int /\ \A i \in 1..n : f[i] <= Max(S)
<1>1. PICK i \in 1..n : \A j \in 1..n : f[j] <= f[i]
  BY GreatestExists
<1>2. S \subseteq Int
  OBVIOUS
<1>3. \E x \in S : \A y \in S : x >= y
  <2>1. f[i] \in S /\ \A y \in S : f[i] >= y
    BY <1>1
  <2> QED BY <2>1
<1>4. Max(S) \in S /\ \A y \in S : Max(S) >= y
  BY <1>3 DEF Max
<1>5. \A k \in 1..n : f[k] \in S
  OBVIOUS
<1> QED BY <1>2, <1>4, <1>5

LEMMA Least ==
  ASSUME NEW n \in Nat, n >= 1, NEW f, \A i \in 1..n : f[i] \in Int,
         NEW S, S = {f[i] : i \in 1..n}
  PROVE  Min(S) \in Int /\ \A i \in 1..n : Min(S) <= f[i]
<1> DEFINE g == [i \in 1..n |-> -f[i]]
<1>1. \A i \in 1..n : g[i] \in Int /\ g[i] = -f[i]
  OBVIOUS
<1> HIDE DEF g
<1>2. PICK i \in 1..n : \A j \in 1..n : g[j] <= g[i]
  BY <1>1, GreatestExists
<1>3. S \subseteq Int
  OBVIOUS
<1>4. \A j \in 1..n : f[i] <= f[j]
  BY <1>1, <1>2
<1>5. \E x \in S : \A y \in S : x <= y
  <2>1. f[i] \in S /\ \A y \in S : f[i] <= y
    BY <1>4
  <2> QED BY <2>1
<1>6. Min(S) \in S /\ \A y \in S : Min(S) <= y
  BY <1>5 DEF Min
<1>7. \A k \in 1..n : f[k] \in S
  OBVIOUS
<1> QED BY <1>3, <1>6, <1>7

-----------------------------------------------------------------------------
(* The MACD.                                                               *)

(* The MACD line: the fast average of a candle minus the slow one.         *)
MacdLine(xs, fast, slow) ==
  [k \in DOMAIN calculateEMA(xs, slow) |->
     calculateEMA(xs, fast)[k + slow - fast] * EmaUnit(Len(xs), slow)
       - calculateEMA(xs, slow)[k] * EmaUnit(Len(xs), fast)]

(* It has an entry for every slow average.                                 *)
LEMMA MacdLineType ==
  ASSUME NEW xs \in Seq(Int), NEW fast \in Nat, NEW slow \in Nat, fast >= 1, fast < slow,
         slow <= Len(xs)
  PROVE  /\ MacdLine(xs, fast, slow) \in Seq(Int)
         /\ Len(MacdLine(xs, fast, slow)) = Len(xs) - slow + 1
         /\ \A k \in 1..(Len(xs) - slow + 1) :
              MacdLine(xs, fast, slow)[k] =
                calculateEMA(xs, fast)[k + slow - fast] * EmaUnit(Len(xs), slow)
                  - calculateEMA(xs, slow)[k] * EmaUnit(Len(xs), fast)
<1> DEFINE m == Len(xs) - slow + 1
           E(k) == calculateEMA(xs, fast)[k + slow - fast] * EmaUnit(Len(xs), slow)
                     - calculateEMA(xs, slow)[k] * EmaUnit(Len(xs), fast)
<1>1. m \in Nat /\ fast <= Len(xs) /\ slow >= 1 /\ Len(xs) \in Nat
  OBVIOUS
<1>2. /\ DOMAIN calculateEMA(xs, slow) = 1..m
      /\ \A k \in 1..m : calculateEMA(xs, slow)[k] \in Int
  BY <1>1, EmaType
<1>3. EmaUnit(Len(xs), slow) \in Int /\ EmaUnit(Len(xs), fast) \in Int
  BY <1>1, EmaWhole
<1>4. ASSUME NEW k \in 1..m PROVE E(k) \in Int
  <2>1. k + slow - fast \in 1..(Len(xs) - fast + 1)
    OBVIOUS
  <2>2. calculateEMA(xs, fast)[k + slow - fast] \in Int
    BY <1>1, <2>1, EmaType
  <2>3. \A a, b, c, d \in Int : a * b - c * d \in Int
    OBVIOUS
  <2>4. calculateEMA(xs, slow)[k] \in Int
    BY <1>2
  <2> QED BY <1>3, <2>2, <2>3, <2>4
<1>5. MacdLine(xs, fast, slow) = [k \in 1..m |-> E(k)]
  BY <1>2 DEF MacdLine
<1> HIDE DEF E, m
<1>6. /\ MacdLine(xs, fast, slow) \in Seq(Int) /\ Len(MacdLine(xs, fast, slow)) = m
      /\ \A k \in 1..m : MacdLine(xs, fast, slow)[k] = E(k)
  BY <1>1, <1>4, <1>5
<1> QED BY <1>6 DEF E, m

(* What calculateMACD answers, over the line it is made from.              *)
IsMacd(macd, line, signal, m) ==
  /\ m \in Nat /\ m >= 2 /\ Len(macd) = m
  /\ \A k \in 1..m :
       /\ macd[k].macdLine = line[k + signal - 1] * EmaUnit(Len(line), signal)
       /\ macd[k].signalLine = calculateEMA(line, signal)[k]
       /\ line[k + signal - 1] \in Int
       /\ EmaUnit(Len(line), signal) \in Int
       /\ macd[k].macdLine \in Int /\ macd[k].signalLine \in Int

(* It answers at least two entries.                                        *)
LEMMA MacdEntries ==
  ASSUME NEW xs \in Seq(Int), NEW fast \in Nat, NEW slow \in Nat, fast >= 1, fast < slow,
         NEW signal \in Nat, signal >= 1, slow + signal <= Len(xs)
  PROVE  IsMacd(calculateMACD(xs, fast, slow, signal), MacdLine(xs, fast, slow), signal,
                Len(xs) - slow - signal + 2)
<1> DEFINE macd == calculateMACD(xs, fast, slow, signal)
           line == MacdLine(xs, fast, slow)
           m == Len(xs) - slow - signal + 2
           E(k) == [macdLine |-> line[k + signal - 1] * EmaUnit(Len(line), signal),
                    signalLine |-> calculateEMA(line, signal)[k]]
           R == [macdLine : Int, signalLine : Int]
<1>1. m \in Nat /\ m >= 2 /\ slow <= Len(xs)
  OBVIOUS
<1>2. line \in Seq(Int) /\ Len(line) = Len(xs) - slow + 1
  BY <1>1, MacdLineType
<1>3. macd = [k \in DOMAIN calculateEMA(line, signal) |-> E(k)]
  BY DEF calculateMACD, MacdLine
<1> HIDE DEF line
<1>4. signal <= Len(line) /\ Len(line) - signal + 1 = m /\ Len(line) \in Nat
  BY <1>2
<1>5. /\ DOMAIN calculateEMA(line, signal) = 1..m
      /\ \A k \in 1..m : calculateEMA(line, signal)[k] \in Int
  BY <1>2, <1>4, EmaType
<1>6. EmaUnit(Len(line), signal) \in Int
  BY <1>4, EmaWhole
<1>7. ASSUME NEW k \in 1..m
      PROVE  line[k + signal - 1] \in Int /\ E(k) \in R
             /\ line[k + signal - 1] * EmaUnit(Len(line), signal) \in Int
  <2>1. k + signal - 1 \in 1..Len(line)
    BY <1>2
  <2>2. line[k + signal - 1] \in Int
    BY <1>2, <2>1
  <2>3. \A a, b \in Int : a * b \in Int
    OBVIOUS
  <2>4. calculateEMA(line, signal)[k] \in Int
    BY <1>5
  <2>5. line[k + signal - 1] * EmaUnit(Len(line), signal) \in Int
    BY <1>6, <2>2, <2>3
  <2> QED BY <2>2, <2>4, <2>5
<1>8. macd = [k \in 1..m |-> E(k)]
  <2> HIDE DEF E, m, macd
  <2> QED BY <1>3, <1>5
<1>9. Len(macd) = m /\ \A k \in 1..m : macd[k] = E(k)
  <2>1. macd \in Seq(R)
    <3> HIDE DEF E, m, macd, R
    <3> QED BY <1>1, <1>7, <1>8
  <2> HIDE DEF E, m, macd, R
  <2> QED BY <1>1, <1>8, <2>1
<1> HIDE DEF macd, m
<1>10. \A k \in 1..m : /\ macd[k].macdLine = line[k + signal - 1] * EmaUnit(Len(line), signal)
                       /\ macd[k].signalLine = calculateEMA(line, signal)[k]
  BY <1>9
<1>11. \A k \in 1..m : macd[k].macdLine \in Int /\ macd[k].signalLine \in Int
  BY <1>5, <1>7, <1>10
<1>12. IsMacd(macd, line, signal, m)
  BY <1>1, <1>6, <1>7, <1>9, <1>10, <1>11 DEF IsMacd
<1> QED BY <1>12 DEF macd, m, line

(* The last line of the MACD is the difference of the closed forms.        *)
LEMMA MacdOfTheSameCandle ==
  ASSUME TableInv
  PROVE  MacdComparesTheSameCandle
<1> DEFINE xs == Closes(candles)
           n == Len(xs)
           macd == calculateMACD(xs, FastPeriod, SlowPeriod, SignalPeriod)
           line == MacdLine(xs, FastPeriod, SlowPeriod)
           m == n - SlowPeriod - SignalPeriod + 2
<1>1. xs \in Seq(Int)
  BY ClosesType DEF TableInv
<1> SUFFICES ASSUME n >= SlowPeriod + SignalPeriod
             PROVE  macd[Len(macd)].macdLine =
                      EmaUnit(n - SlowPeriod + 1, SignalPeriod)
                        * (WeightedAverage(xs, FastPeriod) * EmaUnit(n, SlowPeriod)
                             - WeightedAverage(xs, SlowPeriod) * EmaUnit(n, FastPeriod))
  BY DEF MacdComparesTheSameCandle, Last
<1> HIDE DEF xs
<1>2. /\ FastPeriod \in Nat /\ SlowPeriod \in Nat /\ SignalPeriod \in Nat
      /\ FastPeriod >= 1 /\ FastPeriod < SlowPeriod /\ SignalPeriod >= 1 /\ SlowPeriod >= 1
  BY PeriodTypes
<1>3. /\ SlowPeriod <= n /\ FastPeriod <= n /\ n \in Nat /\ SlowPeriod + SignalPeriod <= n
      /\ m + SignalPeriod - 1 = n - SlowPeriod + 1
      /\ n - SlowPeriod + 1 \in 1..(n - SlowPeriod + 1)
      /\ n - SlowPeriod + 1 + SlowPeriod - FastPeriod = n - FastPeriod + 1
      /\ m \in 1..m
  BY <1>1, <1>2
<1>4. /\ Len(macd) = m
      /\ macd[m].macdLine = line[m + SignalPeriod - 1] * EmaUnit(Len(line), SignalPeriod)
      /\ line[m + SignalPeriod - 1] \in Int /\ EmaUnit(Len(line), SignalPeriod) \in Int
  <2>1. IsMacd(macd, line, SignalPeriod, m)
    BY <1>1, <1>2, <1>3, MacdEntries
  <2> HIDE DEF macd, line, m
  <2> QED BY <1>3, <2>1 DEF IsMacd
<1>5. /\ Len(line) = n - SlowPeriod + 1
      /\ line[n - SlowPeriod + 1] =
           calculateEMA(xs, FastPeriod)[n - SlowPeriod + 1 + SlowPeriod - FastPeriod]
             * EmaUnit(n, SlowPeriod)
           - calculateEMA(xs, SlowPeriod)[n - SlowPeriod + 1] * EmaUnit(n, FastPeriod)
  BY <1>1, <1>2, <1>3, MacdLineType
<1>6. /\ calculateEMA(xs, FastPeriod)[n - FastPeriod + 1] = WeightedAverage(xs, FastPeriod)
      /\ calculateEMA(xs, SlowPeriod)[n - SlowPeriod + 1] = WeightedAverage(xs, SlowPeriod)
  BY <1>1, <1>2, <1>3, EmaIsWeighted
<1>7. \A a, b \in Int : a * b = b * a
  OBVIOUS
<1> DEFINE value == WeightedAverage(xs, FastPeriod) * EmaUnit(n, SlowPeriod)
                      - WeightedAverage(xs, SlowPeriod) * EmaUnit(n, FastPeriod)
           unit == EmaUnit(n - SlowPeriod + 1, SignalPeriod)
<1>8. line[m + SignalPeriod - 1] = value
  <2> HIDE DEF line, m, n
  <2> QED BY <1>3, <1>5, <1>6
<1>9. EmaUnit(Len(line), SignalPeriod) = unit
  <2> HIDE DEF line, n
  <2> QED BY <1>5
<1> HIDE DEF line, m, n, value, unit, macd
<1>10. macd[Len(macd)].macdLine = value * unit /\ value \in Int /\ unit \in Int
  BY <1>4, <1>8, <1>9
<1>11. macd[Len(macd)].macdLine = unit * value
  BY <1>7, <1>10
<1> QED BY <1>11 DEF value, unit

(* calculateMACD subtracts the slow average from the fast average of the   *)
(* same candle: the last line of the MACD is the difference of the two     *)
(* weighted averages of all closes in closed form.                         *)
THEOREM MacdSameCandle == Spec => []MacdComparesTheSameCandle
BY TableAlways, MacdOfTheSameCandle, PTL

-----------------------------------------------------------------------------
(* Ranges.                                                                 *)

(* calculateEMA stays between the lowest and the highest value.            *)
LEMMA EmaInRange ==
  ASSUME NEW xs \in Seq(Int), NEW p \in Nat, p >= 1, p <= Len(xs)
  PROVE  \A k \in DOMAIN calculateEMA(xs, p) :
           /\ Min({xs[i] : i \in DOMAIN xs}) * EmaUnit(Len(xs), p) <= calculateEMA(xs, p)[k]
           /\ calculateEMA(xs, p)[k] <= Max({xs[i] : i \in DOMAIN xs}) * EmaUnit(Len(xs), p)
<1> DEFINE lowest == Min({xs[i] : i \in DOMAIN xs})
           highest == Max({xs[i] : i \in DOMAIN xs})
           n == Len(xs)
<1>1. n \in Nat /\ n >= 1 /\ DOMAIN xs = 1..n /\ \A i \in 1..n : xs[i] \in Int
  OBVIOUS
<1>2. {xs[i] : i \in DOMAIN xs} = {xs[i] : i \in 1..n}
  BY <1>1
<1>3. lowest \in Int /\ \A i \in 1..n : lowest <= xs[i]
  BY <1>1, <1>2, Least
<1>4. highest \in Int /\ \A i \in 1..n : xs[i] <= highest
  BY <1>1, <1>2, Greatest
<1> HIDE DEF lowest, highest
<1>5. DOMAIN calculateEMA(xs, p) = 1..(n - p + 1)
  BY EmaType
<1>6. \A k \in 1..(n - p + 1) : lowest * EmaUnit(n, p) <= calculateEMA(xs, p)[k]
  BY <1>3, EmaAbove
<1>7. \A k \in 1..(n - p + 1) : calculateEMA(xs, p)[k] <= highest * EmaUnit(n, p)
  BY <1>4, EmaBelow
<1> QED BY <1>5, <1>6, <1>7 DEF lowest, highest

(* The volume-weighted price stays between the lowest low and the highest  *)
(* high, as the typical price of every row does.                           *)
LEMMA VwapInRange ==
  ASSUME NEW cs \in Seq(Stored), NEW k \in 1..Len(cs), SumOver(Volumes(cs), 1, k) > 0
  PROVE  /\ Min({cs[i].low : i \in 1..k}) * calculateVWAP(cs)[k].den <= calculateVWAP(cs)[k].num
         /\ calculateVWAP(cs)[k].num <= Max({cs[i].high : i \in 1..k}) * calculateVWAP(cs)[k].den
<1> DEFINE lows == [i \in 1..k |-> cs[i].low]
           highs == [i \in 1..k |-> cs[i].high]
           lowest == Min({cs[i].low : i \in 1..k})
           highest == Max({cs[i].high : i \in 1..k})
           amount == [i \in DOMAIN cs |->
                        (cs[i].high + cs[i].low + cs[i].close) * cs[i].volume]
           vs == Volumes(cs)
           volume == SumOver(vs, 1, k)
           below == [i \in 1..k |-> (3 * lowest) * vs[i] + 0]
           above == [i \in 1..k |-> (3 * highest) * vs[i] + 0]
           zero == 0
           one == 1
<1>1. /\ k \in Nat /\ k >= 1 /\ k \in Int /\ one \in Int /\ one <= k + 1 /\ zero \in Int
      /\ \A i \in 1..k : i \in 1..Len(cs) /\ i \in DOMAIN cs /\ cs[i] \in Stored
  OBVIOUS
<1>2. /\ \A i \in 1..k : lows[i] \in Int /\ lows[i] = cs[i].low
      /\ \A i \in 1..k : highs[i] \in Int /\ highs[i] = cs[i].high
  BY <1>1, StoredType
<1>3. lowest \in Int /\ \A i \in 1..k : lowest <= cs[i].low
  <2> DEFINE values == {cs[i].low : i \in 1..k}
  <2>1. values = {lows[i] : i \in 1..k}
    BY <1>2
  <2> HIDE DEF lows, values
  <2>2. Min(values) \in Int /\ \A i \in 1..k : Min(values) <= lows[i]
    BY <1>1, <1>2, <2>1, Least
  <2>3. lowest = Min(values)
    BY DEF values
  <2> HIDE DEF lowest
  <2> QED BY <1>2, <2>2, <2>3
<1>4. highest \in Int /\ \A i \in 1..k : cs[i].high <= highest
  <2> DEFINE values == {cs[i].high : i \in 1..k}
  <2>1. values = {highs[i] : i \in 1..k}
    BY <1>2
  <2> HIDE DEF highs, values
  <2>2. Max(values) \in Int /\ \A i \in 1..k : highs[i] <= Max(values)
    BY <1>1, <1>2, <2>1, Greatest
  <2>3. highest = Max(values)
    BY DEF values
  <2> HIDE DEF highest
  <2> QED BY <1>2, <2>2, <2>3
<1> HIDE DEF lowest, highest, lows, highs
<1>5. \A i \in 1..k : vs[i] \in Int /\ vs[i] = cs[i].volume
  BY <1>1, ClosesType
<1>6. ASSUME NEW i \in 1..k
      PROVE  /\ amount[i] \in Int /\ below[i] \in Int /\ above[i] \in Int
             /\ below[i] <= amount[i] /\ amount[i] <= above[i]
             /\ below[i] = (3 * lowest) * vs[i] + 0 /\ above[i] = (3 * highest) * vs[i] + 0
  <2> DEFINE h == cs[i].high
             l == cs[i].low
             c == cs[i].close
             v == cs[i].volume
  <2>1. /\ h \in Int /\ l \in Int /\ c \in Int /\ v \in Int /\ v >= 0
        /\ l <= c /\ c <= h /\ lowest <= l /\ h <= highest /\ vs[i] = v
    BY <1>1, <1>3, <1>4, <1>5, StoredType
  <2>2. amount[i] = (h + l + c) * v /\ below[i] = (3 * lowest) * vs[i] + 0
        /\ above[i] = (3 * highest) * vs[i] + 0
    BY <1>1
  <2>3. /\ 3 * lowest <= h + l + c /\ h + l + c <= 3 * highest
        /\ 3 * lowest \in Int /\ 3 * highest \in Int /\ h + l + c \in Int
    <3>1. lowest \in Int /\ highest \in Int
      BY <1>3, <1>4
    <3> HIDE DEF h, l, c, v
    <3> QED BY <2>1, <3>1
  <2>4. \A x, y, z \in Int : x <= y /\ z >= 0 => x * z + 0 <= y * z
    OBVIOUS
  <2>5. \A x, y, z \in Int : x <= y /\ z >= 0 => x * z <= y * z + 0
    OBVIOUS
  <2>6. \A x, y \in Int : x * y \in Int /\ x * y + 0 \in Int
    OBVIOUS
  <2> HIDE DEF h, l, c, v, amount, below, above
  <2>7. (3 * lowest) * v + 0 <= (h + l + c) * v /\ (h + l + c) * v <= (3 * highest) * v + 0
    BY <2>1, <2>3, <2>4, <2>5
  <2>8. (3 * lowest) * v + 0 \in Int /\ (h + l + c) * v \in Int /\ (3 * highest) * v + 0 \in Int
    BY <2>1, <2>3, <2>6
  <2> QED BY <2>1, <2>2, <2>7, <2>8
<1>7. calculateVWAP(cs)[k] = [num |-> SumOver(amount, 1, k), den |-> 3 * volume]
  BY <1>1 DEF calculateVWAP
<1>8. Stretched(below, 3 * lowest, vs, zero, one, k)
  BY <1>5, <1>6 DEF Stretched
<1>9. Stretched(above, 3 * highest, vs, zero, one, k)
  BY <1>5, <1>6 DEF Stretched
<1>10. \A i \in one..k : /\ amount[i] \in Int /\ below[i] \in Int /\ above[i] \in Int
                         /\ below[i] <= amount[i] /\ amount[i] <= above[i]
  BY <1>6
<1>11. \A i \in one..k : vs[i] \in Int
  BY <1>5
<1>12. 3 * lowest \in Int /\ 3 * highest \in Int
  BY <1>3, <1>4
<1> HIDE DEF amount, below, above, vs, zero, one
<1>13. SumOver(below, one, k) = (3 * lowest) * SumOver(vs, one, k) + zero * (k - one + 1)
  BY <1>1, <1>8, <1>12, SumStretched
<1>14. SumOver(above, one, k) = (3 * highest) * SumOver(vs, one, k) + zero * (k - one + 1)
  BY <1>1, <1>9, <1>12, SumStretched
<1>15. SumOver(below, one, k) <= SumOver(amount, one, k)
  BY <1>1, <1>10, SumMonotone
<1>16. SumOver(amount, one, k) <= SumOver(above, one, k)
  BY <1>1, <1>10, SumMonotone
<1>17. SumOver(vs, one, k) \in Int /\ SumOver(amount, one, k) \in Int
  BY <1>1, <1>10, <1>11, SumType
<1>18. \A x, y, a \in Int : (3 * x) * y + 0 * (k - 1 + 1) <= a => x * (3 * y) <= a
  BY <1>1
<1>19. \A x, y, a \in Int : a <= (3 * x) * y + 0 * (k - 1 + 1) => a <= x * (3 * y)
  BY <1>1
<1>20. /\ (3 * lowest) * volume + 0 * (k - 1 + 1) <= SumOver(amount, 1, k)
       /\ SumOver(amount, 1, k) <= (3 * highest) * volume + 0 * (k - 1 + 1)
       /\ volume \in Int /\ SumOver(amount, 1, k) \in Int
  <2>1. (3 * lowest) * SumOver(vs, one, k) + zero * (k - one + 1) <= SumOver(amount, one, k)
    BY <1>13, <1>15
  <2>2. SumOver(amount, one, k) <= (3 * highest) * SumOver(vs, one, k) + zero * (k - one + 1)
    BY <1>14, <1>16
  <2> QED BY <2>1, <2>2, <1>17 DEF one, zero
<1> HIDE DEF volume
<1>21. /\ lowest * (3 * volume) <= SumOver(amount, 1, k)
       /\ SumOver(amount, 1, k) <= highest * (3 * volume)
  BY <1>3, <1>4, <1>18, <1>19, <1>20
<1> QED BY <1>7, <1>21 DEF lowest, highest

(* Every candle's true range bridges the gap between the closes.           *)
LEMMA AtrCountsGaps ==
  ASSUME NEW cs \in Seq(Stored), NEW p \in 1..(Len(cs) - 1)
  PROVE  Distance(cs[Len(cs)].close, cs[Len(cs) - p].close) <= calculateATR(cs, p)
<1> DEFINE n == Len(cs)
           ranges == [i \in 2..n |-> trueRange(cs[i], cs[i - 1].close)]
           close(i) == cs[i].close
           At(m) == Distance(close(n - p + m), close(n - p)) <= SumOver(ranges, n - p + 1, n - p + m)
           S == {m \in 0..p : At(m)}
<1>1. n \in Nat /\ p \in Nat /\ n - p >= 1
  OBVIOUS
<1>2. ASSUME NEW i \in 2..n
      PROVE  ranges[i] \in Int /\ Distance(close(i), close(i - 1)) <= ranges[i]
             /\ close(i) \in Int /\ close(i - 1) \in Int
  <2>1. cs[i] \in Stored /\ cs[i - 1] \in Stored
    OBVIOUS
  <2>2. /\ cs[i].high \in Int /\ cs[i].low \in Int /\ close(i) \in Int /\ close(i - 1) \in Int
        /\ cs[i].low <= close(i) /\ close(i) <= cs[i].high
    BY <2>1, StoredType
  <2>3. ranges[i] = trueRange(cs[i], close(i - 1))
    OBVIOUS
  <2>4. \A h, l, c, q \in Int : l <= c /\ c <= h =>
          /\ LargestOf(h - l, Distance(h, q), Distance(l, q)) \in Int
          /\ Distance(c, q) <= LargestOf(h - l, Distance(h, q), Distance(l, q))
    BY DEF LargestOf, Distance
  <2>5. trueRange(cs[i], close(i - 1)) =
          LargestOf(cs[i].high - cs[i].low, Distance(cs[i].high, close(i - 1)),
                    Distance(cs[i].low, close(i - 1)))
    BY DEF trueRange
  <2> DEFINE h == cs[i].high
             l == cs[i].low
             c == close(i)
             q == close(i - 1)
  <2>6. h \in Int /\ l \in Int /\ c \in Int /\ q \in Int /\ l <= c /\ c <= h
    BY <2>2
  <2>7. ranges[i] = LargestOf(h - l, Distance(h, q), Distance(l, q))
    BY <2>3, <2>5
  <2> HIDE DEF h, l, c, q, ranges
  <2>8. ranges[i] \in Int /\ Distance(c, q) <= ranges[i]
    BY <2>4, <2>6, <2>7
  <2> QED BY <2>6, <2>8 DEF c, q
<1>3. \A i \in 1..n : close(i) \in Int
  BY StoredType
<1>4. calculateATR(cs, p) = SumOver(ranges, n - p + 1, n)
  BY DEF calculateATR
<1> HIDE DEF ranges, close
<1>5. 0 \in S
  <2>1. n - p + 0 = n - p /\ n - p + 1 \in Int /\ n - p + 0 = (n - p + 1) - 1 /\ n - p \in 1..n
    BY <1>1
  <2>2. SumOver(ranges, n - p + 1, (n - p + 1) - 1) = 0
    BY <2>1, SumEmpty
  <2>3. \A x \in Int : Distance(x, x) = 0
    BY DEF Distance
  <2>4. Distance(close(n - p), close(n - p)) = 0
    BY <1>3, <2>1, <2>3
  <2>5. SumOver(ranges, n - p + 1, n - p + 0) = 0
    BY <2>1, <2>2
  <2>6. At(0)
    BY <2>1, <2>4, <2>5
  <2>7. 0 \in 0..p
    BY <1>1
  <2> HIDE DEF At
  <2> QED BY <2>6, <2>7
<1>6. ASSUME NEW m \in 0..(p - 1), m \in S PROVE m + 1 \in S
  <2> DEFINE from == n - p + 1
             to == n - p + m
  <2>1. /\ from \in Int /\ to \in Int /\ from <= to + 1 /\ to + 1 = n - p + (m + 1)
        /\ to + 1 \in 2..n /\ (to + 1) - 1 = to /\ from >= 2 /\ to + 1 <= n
        /\ to \in 1..n /\ n - p \in 1..n /\ to + 1 \in 1..n /\ m + 1 \in 0..p
    BY <1>1
  <2>2. \A i \in from..(to + 1) : i \in 2..n
    BY <2>1
  <2>3. Distance(close(to), close(n - p)) <= SumOver(ranges, from, to)
    BY <1>6
  <2> HIDE DEF from, to
  <2>4. \A i \in from..(to + 1) : ranges[i] \in Int
    BY <1>2, <2>2
  <2>5. SumOver(ranges, from, to + 1) = SumOver(ranges, from, to) + ranges[to + 1]
    BY <2>1, <2>4, SumNext
  <2>6. SumOver(ranges, from, to) \in Int
    <3>1. \A i \in from..to : ranges[i] \in Int
      BY <2>1, <2>4
    <3> QED BY <2>1, <3>1, SumType
  <2>7. Distance(close(to + 1), close(to)) <= ranges[to + 1] /\ ranges[to + 1] \in Int
    BY <1>2, <2>1
  <2>8. close(to + 1) \in Int /\ close(to) \in Int /\ close(n - p) \in Int
    BY <1>3, <2>1
  <2>9. \A x, y, z, s, r \in Int :
          Distance(y, z) <= s /\ Distance(x, y) <= r => Distance(x, z) <= s + r
    BY DEF Distance
  <2>10. Distance(close(to + 1), close(n - p)) <= SumOver(ranges, from, to + 1)
    BY <2>3, <2>5, <2>6, <2>7, <2>8, <2>9
  <2>11. At(m + 1)
    BY <2>1, <2>10 DEF from
  <2> HIDE DEF At
  <2> QED BY <2>1, <2>11
<1>7. \A m \in 0..p : m \in S
  <2> HIDE DEF S
  <2> QED BY <1>1, <1>5, <1>6, Counting
<1>8. At(p)
  <2>1. p \in 0..p
    BY <1>1
  <2> HIDE DEF At
  <2> QED BY <1>7, <2>1
<1>9. n - p + p = n
  BY <1>1
<1>10. Distance(close(n), close(n - p)) <= SumOver(ranges, n - p + 1, n)
  <2> HIDE DEF n
  <2> QED BY <1>8, <1>9
<1> QED BY <1>4, <1>10 DEF close

(* All ranges of such a table.                                             *)
LEMMA RangesHold ==
  ASSUME TableInv
  PROVE  IndicatorsStayInRange
<1> DEFINE xs == Closes(candles)
<1>1. /\ candles \in Seq(Stored) /\ xs \in Seq(Int)
      /\ DOMAIN candles = 1..Len(candles) /\ Len(candles) \in Nat
  BY ClosesType DEF TableInv
<1>2. ASSUME NEW p \in {FastPeriod, SlowPeriod}, Len(xs) >= p,
             NEW k \in DOMAIN calculateEMA(xs, p)
      PROVE  /\ Min({xs[i] : i \in DOMAIN xs}) * EmaUnit(Len(xs), p) <= calculateEMA(xs, p)[k]
             /\ calculateEMA(xs, p)[k] <= Max({xs[i] : i \in DOMAIN xs}) * EmaUnit(Len(xs), p)
  <2> HIDE DEF xs
  <2>1. p \in Nat /\ p >= 1 /\ p <= Len(xs)
    BY <1>1, <1>2, PeriodTypes
  <2> QED BY <1>1, <2>1, EmaInRange
<1>3. ASSUME NEW k \in DOMAIN candles, SumOver(Volumes(candles), 1, k) > 0
      PROVE  /\ Min({candles[i].low : i \in 1..k}) * calculateVWAP(candles)[k].den
                  <= calculateVWAP(candles)[k].num
             /\ calculateVWAP(candles)[k].num
                  <= Max({candles[i].high : i \in 1..k}) * calculateVWAP(candles)[k].den
  BY <1>1, <1>3, VwapInRange
<1>4. ASSUME NEW p \in 1..(Len(candles) - 1)
      PROVE  Distance(Last(candles).close, candles[Len(candles) - p].close)
               <= calculateATR(candles, p)
  BY <1>1, AtrCountsGaps DEF Last
<1> QED BY <1>2, <1>3, <1>4 DEF IndicatorsStayInRange

(* An exponential average stays between the lowest and the highest close,  *)
(* the volume-weighted price between the lowest low and the highest high,  *)
(* and p average true ranges cover the distance of closes p candles apart  *)
(* (calculateEMA, calculateVWAP, calculateATR).                            *)
THEOREM RangesKept == Spec => []IndicatorsStayInRange
BY TableAlways, RangesHold, PTL

-----------------------------------------------------------------------------
(* The rows a strategy reads, and averages over them.                      *)

(* findLatestCandles gives the end of the table.                           *)
LEMMA LatestRows ==
  ASSUME NEW Row, NEW cs \in Seq(Row), NEW limit \in Nat
  PROVE  LET t == findLatestCandles(cs, limit)
         IN /\ t \in Seq(Row) /\ Len(t) \in Nat /\ Len(cs) \in Nat
            /\ Len(t) = IF Len(cs) < limit THEN Len(cs) ELSE limit
            /\ Len(t) <= Len(cs)
            /\ \A i \in 1..Len(t) : i + (Len(cs) - Len(t)) \in 1..Len(cs)
                                    /\ t[i] = cs[i + (Len(cs) - Len(t))]
<1> DEFINE n == Len(cs)
           m == IF n < limit THEN n ELSE limit
           t == findLatestCandles(cs, limit)
<1>1. n \in Nat /\ m \in Nat /\ m <= n /\ n - m + 1 \in Int /\ n - m + 1 >= 1
      /\ n - (n - m + 1) + 1 = m
  OBVIOUS
<1>2. t = SubSeq(cs, n - m + 1, n)
  BY DEF findLatestCandles
<1>3. \A k \in (n - m + 1)..n : k \in 1..n /\ cs[k] \in Row
  BY <1>1
<1> HIDE DEF t, m
<1>4. t = [i \in 1..m |-> cs[i + (n - m + 1) - 1]]
  BY <1>1, <1>2
<1>5. \A i \in 1..m : /\ i + (n - m + 1) - 1 = i + (n - m) /\ i + (n - m) \in 1..n
  BY <1>1
<1>6. \A i \in 1..m : cs[i + (n - m + 1) - 1] \in Row
  BY <1>1, <1>5
<1>7. t \in Seq(Row) /\ Len(t) = m
  BY <1>1, <1>4, <1>6
<1>8. \A i \in 1..m : t[i] = cs[i + (n - m)]
  BY <1>4, <1>5
<1> QED BY <1>1, <1>5, <1>7, <1>8 DEF t, m

(* calculateSMA has an entry for each full window.                         *)
LEMMA AveragesType ==
  ASSUME NEW xs \in Seq(Int), NEW p \in Nat, p >= 1, p <= Len(xs)
  PROVE  /\ calculateSMA(xs, p) \in Seq(Int) /\ Len(calculateSMA(xs, p)) = Len(xs) - p + 1
         /\ DOMAIN calculateSMA(xs, p) = 1..(Len(xs) - p + 1)
         /\ \A k \in 1..(Len(xs) - p + 1) :
              calculateSMA(xs, p)[k] = SumOver(xs, k, k + p - 1)
              /\ calculateSMA(xs, p)[k] \in Int
<1> DEFINE m == Len(xs) - p + 1
           E(k) == SumOver(xs, k, k + p - 1)
<1>1. m \in Nat
  OBVIOUS
<1>2. ASSUME NEW k \in 1..m PROVE E(k) \in Int
  <2>1. /\ k \in Int /\ k + p - 1 \in Int /\ k <= k + p - 1 + 1
        /\ \A i \in k..(k + p - 1) : xs[i] \in Int
    OBVIOUS
  <2> QED BY <2>1, SumType
<1>3. calculateSMA(xs, p) = [k \in 1..m |-> E(k)]
  BY DEF calculateSMA
<1> HIDE DEF m, E
<1>4. /\ calculateSMA(xs, p) \in Seq(Int) /\ Len(calculateSMA(xs, p)) = m
      /\ DOMAIN calculateSMA(xs, p) = 1..m
      /\ \A k \in 1..m : calculateSMA(xs, p)[k] = E(k) /\ calculateSMA(xs, p)[k] \in Int
  BY <1>1, <1>2, <1>3
<1> QED BY <1>4 DEF m, E

(* An average back values ago is over the p values before.                 *)
LEMMA AverageAt ==
  ASSUME NEW xs \in Seq(Int), NEW p \in Nat, p >= 1, NEW back \in Nat, p + back <= Len(xs)
  PROVE  LET sums == calculateSMA(xs, p)
             last == Len(xs) - back
         IN /\ sums[Len(sums) - back] = SumOver(xs, last - p + 1, last)
            /\ SumOver(xs, last - p + 1, last) \in Int
<1> DEFINE sums == calculateSMA(xs, p)
           last == Len(xs) - back
           k == last - p + 1
<1>1. p <= Len(xs) /\ k \in 1..(Len(xs) - p + 1) /\ k + p - 1 = last
      /\ Len(xs) - p + 1 - back = k
  OBVIOUS
<1>2. /\ Len(sums) = Len(xs) - p + 1
      /\ sums[k] = SumOver(xs, k, k + p - 1) /\ sums[k] \in Int
  BY <1>1, AveragesType
<1> HIDE DEF sums
<1>3. Len(sums) - back = k
  BY <1>1, <1>2
<1> HIDE DEF k, last
<1>4. sums[Len(sums) - back] = SumOver(xs, k, last) /\ SumOver(xs, k, last) \in Int
  BY <1>1, <1>2, <1>3
<1> QED BY <1>4 DEF sums, last, k

(* The gap of the averages, over two sums.                                 *)
LEMMA GapIs ==
  ASSUME NEW xs \in Seq(Int), NEW short \in Nat, NEW long \in Nat, short >= 1, short <= long,
         NEW back \in Nat, long + back <= Len(xs)
  PROVE  LET last == Len(xs) - back
         IN /\ AverageGap(xs, short, long, back) =
                 SumOver(xs, last - short + 1, last) * long
                   - SumOver(xs, last - long + 1, last) * short
            /\ SumOver(xs, last - short + 1, last) \in Int
            /\ SumOver(xs, last - long + 1, last) \in Int
            /\ AverageGap(xs, short, long, back) \in Int
<1> DEFINE last == Len(xs) - back
           quick == calculateSMA(xs, short)
           calm == calculateSMA(xs, long)
<1>1. short + back <= Len(xs) /\ long >= 1
  OBVIOUS
<1>2. /\ quick[Len(quick) - back] = SumOver(xs, last - short + 1, last)
      /\ SumOver(xs, last - short + 1, last) \in Int
  BY <1>1, AverageAt
<1>3. /\ calm[Len(calm) - back] = SumOver(xs, last - long + 1, last)
      /\ SumOver(xs, last - long + 1, last) \in Int
  BY <1>1, AverageAt
<1>4. AverageGap(xs, short, long, back) =
        quick[Len(quick) - back] * long - calm[Len(calm) - back] * short
  BY DEF AverageGap
<1> HIDE DEF last, quick, calm
<1>5. \A x, y \in Int : x * long - y * short \in Int
  OBVIOUS
<1> QED BY <1>2, <1>3, <1>4, <1>5 DEF last

(* Averages of the newest values need no others.                           *)
Latest(xs, ys) ==
  Len(xs) <= Len(ys) /\ Shifted(xs, ys, 1, Len(xs), Len(ys) - Len(xs))

(* The gap does not depend on how far back the rows go.                    *)
LEMMA GapOfLatest ==
  ASSUME NEW xs \in Seq(Int), NEW ys \in Seq(Int), Latest(xs, ys),
         NEW short \in Nat, NEW long \in Nat, short >= 1, short <= long,
         NEW back \in Nat, long + back <= Len(xs)
  PROVE  AverageGap(xs, short, long, back) = AverageGap(ys, short, long, back)
<1> DEFINE d == Len(ys) - Len(xs)
           x == Len(xs) - back
           y == Len(ys) - back
<1>1. /\ d \in Int /\ x \in Int /\ y \in Int /\ x + d = y /\ long + back <= Len(ys)
      /\ (x - short + 1) + d = y - short + 1 /\ (x - long + 1) + d = y - long + 1
      /\ x - short + 1 \in Int /\ x - long + 1 \in Int
      /\ (x - short + 1)..x \subseteq 1..Len(xs) /\ (x - long + 1)..x \subseteq 1..Len(xs)
  BY DEF Latest
<1>2. /\ Shifted(xs, ys, x - short + 1, x, d)
      /\ Shifted(xs, ys, x - long + 1, x, d)
  <2>1. \A k \in 1..Len(xs) : xs[k] = ys[k + d]
    BY DEF Latest, Shifted
  <2> HIDE DEF d, x
  <2> QED BY <1>1, <2>1 DEF Shifted
<1>3. AverageGap(xs, short, long, back) =
        SumOver(xs, x - short + 1, x) * long - SumOver(xs, x - long + 1, x) * short
  BY GapIs
<1>4. AverageGap(ys, short, long, back) =
        SumOver(ys, y - short + 1, y) * long - SumOver(ys, y - long + 1, y) * short
  BY <1>1, GapIs
<1> HIDE DEF d, x, y
<1>5. SumOver(xs, x - short + 1, x) = SumOver(ys, (x - short + 1) + d, x + d)
  BY <1>1, <1>2, SumShift
<1>6. SumOver(xs, x - long + 1, x) = SumOver(ys, (x - long + 1) + d, x + d)
  BY <1>1, <1>2, SumShift
<1> QED BY <1>1, <1>3, <1>4, <1>5, <1>6

(* One value later, the averages before are those of one value ago.        *)
LEMMA GapBefore ==
  ASSUME NEW xs \in Seq(Int), NEW ys \in Seq(Int), Len(ys) = Len(xs) + 1,
         \A i \in 1..Len(xs) : ys[i] = xs[i],
         NEW short \in Nat, NEW long \in Nat, short >= 1, short <= long, long <= Len(xs)
  PROVE  AverageGap(ys, short, long, 1) = AverageGap(xs, short, long, 0)
<1> DEFINE x == Len(xs) - 0
           y == Len(ys) - 1
<1>1. x = y /\ x \in Int /\ x - short + 1 \in Int /\ x - long + 1 \in Int
  OBVIOUS
<1>2. /\ \A k \in (x - short + 1)..x : ys[k] = xs[k]
      /\ \A k \in (x - long + 1)..x : ys[k] = xs[k]
  OBVIOUS
<1>3. AverageGap(xs, short, long, 0) =
        SumOver(xs, x - short + 1, x) * long - SumOver(xs, x - long + 1, x) * short
  <2>1. 0 \in Nat /\ long + 0 <= Len(xs)
    OBVIOUS
  <2> QED BY <2>1, GapIs
<1>4. AverageGap(ys, short, long, 1) =
        SumOver(ys, y - short + 1, y) * long - SumOver(ys, y - long + 1, y) * short
  <2>1. 1 \in Nat /\ long + 1 <= Len(ys)
    OBVIOUS
  <2> QED BY <2>1, GapIs
<1> HIDE DEF x, y
<1>5. ASSUME NEW from \in Int, \A k \in from..x : ys[k] = xs[k]
      PROVE  SumOver(ys, from, x) = SumOver(xs, from, x)
  BY <1>1, <1>5, SumSame
<1>6. /\ SumOver(ys, x - short + 1, x) = SumOver(xs, x - short + 1, x)
      /\ SumOver(ys, x - long + 1, x) = SumOver(xs, x - long + 1, x)
  BY <1>1, <1>2, <1>5, Zenon
<1> QED BY <1>1, <1>3, <1>4, <1>6

(* What the crossover strategy answers, over the averages of the table.    *)
LEMMA CrossoverReads ==
  ASSUME NEW cs \in Seq(Stored)
  PROVE  LET t == findLatestCandles(cs, LongLimit)
             xs == Closes(t)
             now == AverageGap(Closes(cs), ShortPeriod, LongPeriod, 0)
             before == AverageGap(Closes(cs), ShortPeriod, LongPeriod, 1)
         IN /\ xs \in Seq(Int) /\ Len(xs) <= Len(cs)
            /\ Len(xs) < LongPeriod <=> Len(cs) < LongPeriod
            /\ Len(xs) > LongPeriod <=> Len(cs) > LongPeriod
            /\ Len(cs) >= LongPeriod =>
                 /\ AverageGap(xs, ShortPeriod, LongPeriod, 0) = now
                 /\ now \in Int
            /\ Len(cs) > LongPeriod =>
                 /\ AverageGap(xs, ShortPeriod, LongPeriod, 1) = before
                 /\ before \in Int
<1> DEFINE t == findLatestCandles(cs, LongLimit)
           xs == Closes(t)
           ys == Closes(cs)
<1>1. /\ LongLimit \in Nat /\ LongLimit > LongPeriod
      /\ ShortPeriod \in Nat /\ LongPeriod \in Nat /\ ShortPeriod >= 1 /\ ShortPeriod <= LongPeriod
  BY PeriodTypes, StrategyAssumption
<1>2. /\ t \in Seq(Stored) /\ Len(t) \in Nat /\ Len(cs) \in Nat
      /\ Len(t) = IF Len(cs) < LongLimit THEN Len(cs) ELSE LongLimit
      /\ \A i \in 1..Len(t) : i + (Len(cs) - Len(t)) \in 1..Len(cs)
                              /\ t[i] = cs[i + (Len(cs) - Len(t))]
  BY <1>1, LatestRows
<1>3. xs \in Seq(Int) /\ Len(xs) = Len(t) /\ \A i \in 1..Len(t) : xs[i] = t[i].close
  BY <1>2, ClosesType
<1>4. ys \in Seq(Int) /\ Len(ys) = Len(cs) /\ \A i \in 1..Len(cs) : ys[i] = cs[i].close
  BY ClosesType
<1> HIDE DEF t, xs, ys
<1>5. Latest(xs, ys)
  <2>1. Len(xs) <= Len(ys)
    BY <1>1, <1>2, <1>3, <1>4
  <2>2. ASSUME NEW i \in 1..Len(xs) PROVE xs[i] = ys[i + (Len(ys) - Len(xs))]
    <3>1. i \in 1..Len(t) /\ Len(ys) - Len(xs) = Len(cs) - Len(t)
      BY <1>3, <1>4
    <3>2. /\ xs[i] = t[i].close
          /\ t[i] = cs[i + (Len(cs) - Len(t))]
          /\ ys[i + (Len(cs) - Len(t))] = cs[i + (Len(cs) - Len(t))].close
      BY <1>2, <1>3, <1>4, <3>1
    <3> QED BY <3>1, <3>2
  <2> QED BY <2>1, <2>2 DEF Latest, Shifted
<1>6. /\ Len(xs) <= Len(cs) /\ (Len(xs) < LongPeriod <=> Len(cs) < LongPeriod)
      /\ (Len(xs) > LongPeriod <=> Len(cs) > LongPeriod)
  BY <1>1, <1>2, <1>3
<1>7. ASSUME NEW back \in Nat, LongPeriod + back <= Len(xs)
      PROVE  /\ AverageGap(xs, ShortPeriod, LongPeriod, back)
                  = AverageGap(ys, ShortPeriod, LongPeriod, back)
             /\ AverageGap(ys, ShortPeriod, LongPeriod, back) \in Int
  <2>1. LongPeriod + back <= Len(ys)
    BY <1>1, <1>2, <1>3, <1>4, <1>7
  <2>2. AverageGap(xs, ShortPeriod, LongPeriod, back) = AverageGap(ys, ShortPeriod, LongPeriod, back)
    BY <1>1, <1>3, <1>4, <1>5, <1>7, GapOfLatest
  <2>3. AverageGap(ys, ShortPeriod, LongPeriod, back) \in Int
    BY <1>1, <1>4, <2>1, GapIs
  <2> QED BY <2>2, <2>3
<1>8. /\ 0 \in Nat /\ 1 \in Nat
      /\ Len(cs) >= LongPeriod => LongPeriod + 0 <= Len(xs)
      /\ Len(cs) > LongPeriod => LongPeriod + 1 <= Len(xs)
  BY <1>1, <1>2, <1>3
<1>9. /\ Len(cs) >= LongPeriod =>
           /\ AverageGap(xs, ShortPeriod, LongPeriod, 0) = AverageGap(ys, ShortPeriod, LongPeriod, 0)
           /\ AverageGap(ys, ShortPeriod, LongPeriod, 0) \in Int
      /\ Len(cs) > LongPeriod =>
           /\ AverageGap(xs, ShortPeriod, LongPeriod, 1) = AverageGap(ys, ShortPeriod, LongPeriod, 1)
           /\ AverageGap(ys, ShortPeriod, LongPeriod, 1) \in Int
  BY <1>7, <1>8, Zenon
<1> QED BY <1>3, <1>6, <1>9 DEF xs, ys, t

(* What CrossingIsSignalled says of a step.                                *)
CrossingStep ==
  Len(candles) >= LongPeriod =>
    LET before == AverageGap(Closes(candles), ShortPeriod, LongPeriod, 0)
        now == AverageGap(Closes(candles'), ShortPeriod, LongPeriod, 0)
        signal == executeMovingAverageCrossoverStrategy(candles')
    IN /\ signal = "STRONG_BUY" <=> before < 0 /\ now > 0
       /\ signal = "STRONG_SELL" <=> before > 0 /\ now < 0

(* A step appends one row, and one close.                                  *)
LEMMA NewCandleAppends ==
  ASSUME TableInv, Next
  PROVE  /\ candles \in Seq(Stored) /\ candles' \in Seq(Stored)
         /\ Len(candles') = Len(candles) + 1 /\ Len(candles) \in Nat
         /\ \A i \in 1..Len(candles) : candles'[i] = candles[i]
         /\ Closes(candles) \in Seq(Int) /\ Closes(candles') \in Seq(Int)
         /\ Len(Closes(candles)) = Len(candles) /\ Len(Closes(candles')) = Len(candles')
         /\ \A i \in 1..Len(candles) : Closes(candles')[i] = Closes(candles)[i]
<1>1. PICK c \in Candles : NewCandle(c)
  BY DEF Next
<1>2. c \in Stored /\ candles' = Append(candles, c)
  BY <1>1 DEF NewCandle, Stored
<1>3. /\ candles \in Seq(Stored) /\ candles' \in Seq(Stored)
      /\ Len(candles') = Len(candles) + 1 /\ Len(candles) \in Nat
      /\ \A i \in 1..Len(candles) : candles'[i] = candles[i]
  BY <1>2 DEF TableInv
<1>4. /\ Closes(candles) \in Seq(Int) /\ Len(Closes(candles)) = Len(candles)
      /\ \A i \in 1..Len(candles) : Closes(candles)[i] = candles[i].close
  BY <1>3, ClosesType
<1>5. /\ Closes(candles') \in Seq(Int) /\ Len(Closes(candles')) = Len(candles')
      /\ \A i \in 1..Len(candles') : Closes(candles')[i] = candles'[i].close
  BY <1>3, ClosesType
<1>6. \A i \in 1..Len(candles) : Closes(candles')[i] = Closes(candles)[i]
  BY <1>3, <1>4, <1>5
<1> QED BY <1>3, <1>4, <1>5, <1>6

(* The strategy's previous gap is the last gap before the new candle.      *)
LEMMA CrossingHolds == TableInv /\ [Next]_candles => [CrossingStep]_candles
<1> SUFFICES ASSUME TableInv, Next, Len(candles) >= LongPeriod
             PROVE  LET before == AverageGap(Closes(candles), ShortPeriod, LongPeriod, 0)
                        now == AverageGap(Closes(candles'), ShortPeriod, LongPeriod, 0)
                        signal == executeMovingAverageCrossoverStrategy(candles')
                    IN /\ signal = "STRONG_BUY" <=> before < 0 /\ now > 0
                       /\ signal = "STRONG_SELL" <=> before > 0 /\ now < 0
  BY DEF CrossingStep
<1> DEFINE before == AverageGap(Closes(candles), ShortPeriod, LongPeriod, 0)
           now == AverageGap(Closes(candles'), ShortPeriod, LongPeriod, 0)
           previous == AverageGap(Closes(candles'), ShortPeriod, LongPeriod, 1)
           xs == Closes(findLatestCandles(candles', LongLimit))
           signal == executeMovingAverageCrossoverStrategy(candles')
<1>1. /\ candles' \in Seq(Stored) /\ Len(candles') = Len(candles) + 1 /\ Len(candles) \in Nat
      /\ Closes(candles) \in Seq(Int) /\ Closes(candles') \in Seq(Int)
      /\ Len(Closes(candles)) = Len(candles) /\ Len(Closes(candles')) = Len(candles')
      /\ \A i \in 1..Len(candles) : Closes(candles')[i] = Closes(candles)[i]
  BY NewCandleAppends
<1>2. /\ LongPeriod \in Nat /\ ShortPeriod \in Nat /\ ShortPeriod >= 1
      /\ ShortPeriod <= LongPeriod
  BY PeriodTypes
<1>3. Len(candles') > LongPeriod /\ Len(candles') >= LongPeriod /\ ~(Len(candles') < LongPeriod)
  BY <1>1, <1>2
<1>4. /\ ~(Len(xs) < LongPeriod) /\ Len(xs) > LongPeriod
      /\ AverageGap(xs, ShortPeriod, LongPeriod, 0) = now
      /\ AverageGap(xs, ShortPeriod, LongPeriod, 1) = previous
      /\ now \in Int /\ previous \in Int
  BY <1>1, <1>3, CrossoverReads
<1>5. previous = before
  BY <1>1, <1>2, GapBefore
<1>6. signal = IF CrossesUp(previous, now) THEN "STRONG_BUY"
               ELSE IF CrossesDown(previous, now) THEN "STRONG_SELL"
               ELSE IF now > 0 THEN "WEAK_BUY"
               ELSE "WEAK_SELL"
  <2>1. signal =
          IF Len(xs) < LongPeriod THEN Threw
          ELSE IF CrossesUp(IF Len(xs) > LongPeriod
                              THEN AverageGap(xs, ShortPeriod, LongPeriod, 1) ELSE 0,
                            AverageGap(xs, ShortPeriod, LongPeriod, 0)) THEN "STRONG_BUY"
          ELSE IF CrossesDown(IF Len(xs) > LongPeriod
                                THEN AverageGap(xs, ShortPeriod, LongPeriod, 1) ELSE 0,
                              AverageGap(xs, ShortPeriod, LongPeriod, 0)) THEN "STRONG_SELL"
          ELSE IF AverageGap(xs, ShortPeriod, LongPeriod, 0) > 0 THEN "WEAK_BUY"
          ELSE "WEAK_SELL"
    BY DEF executeMovingAverageCrossoverStrategy
  <2> HIDE DEF xs, now, previous, signal
  <2> QED BY <1>4, <2>1
<1> HIDE DEF now, previous, before, signal
<1>7. /\ signal = "STRONG_BUY" <=> before < 0 /\ now > 0
      /\ signal = "STRONG_SELL" <=> before > 0 /\ now < 0
  BY <1>4, <1>5, <1>6 DEF CrossesUp, CrossesDown
<1> QED BY <1>7 DEF signal, before, now

(* executeMovingAverageCrossoverStrategy gives a strong signal exactly on  *)
(* the candle with which the averages of the whole table change sides,     *)
(* though it sees only the rows it reads and none of the answers it gave   *)
(* before.                                                                 *)
THEOREM CrossingSignalled == Spec => CrossingIsSignalled
<1>1. Spec => [][CrossingStep]_candles
  BY TableAlways, CrossingHolds, PTL DEF Spec
<1> QED BY <1>1 DEF CrossingStep, CrossingIsSignalled

-----------------------------------------------------------------------------
(* The RSI.                                                                *)

(* A loop that starts at no less than zero and only adds stays there.      *)
LEMMA RunningNonNegative ==
  ASSUME NEW first \in Nat, NEW keep \in Nat, NEW n \in Nat,
         NEW added, \A k \in 1..n : added[k] \in Nat
  PROVE  \A k \in 0..n : Running(first, keep, added, n)[k] \in Nat
<1> DEFINE none == [k \in 0..n |-> 0]
           r == Running(first, keep, added, n)
<1>1. /\ \A k \in 0..n : none[k] = 0
      /\ \A k \in 1..n : none[k - 1] = 0 /\ none[k] = 0
  OBVIOUS
<1> HIDE DEF none
<1>2. keep * 0 = 0
  OBVIOUS
<1>3. /\ \A k \in 0..n : none[k] \in Int
      /\ none[0] <= first
      /\ \A k \in 1..n : none[k] <= keep * none[k - 1] + added[k]
      /\ \A k \in 1..n : added[k] \in Int
      /\ first \in Int /\ keep \in Int
  BY <1>1, <1>2
<1>4. \A k \in 0..n : none[k] <= r[k]
  BY <1>3, RunningAbove
<1>5. r \in [0..n -> Int]
  BY <1>3, RunningType
<1> HIDE DEF r
<1>6. ASSUME NEW k \in 0..n PROVE r[k] \in Nat
  <2>1. none[k] = 0 /\ none[k] <= r[k] /\ r[k] \in Int
    BY <1>1, <1>4, <1>5
  <2> QED BY <2>1
<1> QED BY <1>6 DEF r

(* A sum of changes is no less than any one of them.                       *)
LEMMA SumReaches ==
  ASSUME NEW xs, NEW from \in Int, NEW to \in Int, from <= to + 1,
         \A k \in from..to : xs[k] \in Nat
  PROVE  SumOver(xs, from, to) \in Nat /\ \A k \in from..to : xs[k] <= SumOver(xs, from, to)
<1> DEFINE n == to - from + 1
           At(k) == \A i \in from..(from + k - 1) : xs[i] <= SumOver(xs, from, from + k - 1)
           S == {k \in 0..n : At(k)}
<1>1. n \in Nat /\ from + n - 1 = to
  OBVIOUS
<1>2. ASSUME NEW last \in (from - 1)..to PROVE SumOver(xs, from, last) \in Nat
  <2>1. /\ last \in Int /\ from <= last + 1
        /\ \A k \in from..last : xs[k] \in Int /\ 0 <= xs[k]
    OBVIOUS
  <2>2. SumOver(xs, from, last) \in Int
    BY <2>1, SumType
  <2>3. 0 <= SumOver(xs, from, last)
    BY <2>1, SumOfNone
  <2> QED BY <2>2, <2>3
<1>3. 0 \in S
  <2>1. \A i \in from..(from + 0 - 1) : FALSE
    OBVIOUS
  <2>2. 0 \in 0..n
    BY <1>1
  <2> QED BY <2>1, <2>2
<1>4. ASSUME NEW k \in 0..(n - 1), k \in S PROVE k + 1 \in S
  <2> DEFINE last == from + k - 1
  <2>1. /\ last \in Int /\ from <= last + 1 /\ last + 1 = from + (k + 1) - 1
        /\ last \in (from - 1)..to /\ last + 1 \in (from - 1)..to /\ last + 1 \in from..to
        /\ \A i \in from..(last + 1) : i \in from..to /\ (i \in from..last \/ i = last + 1)
        /\ k + 1 \in 0..n
    OBVIOUS
  <2>2. \A i \in from..last : xs[i] <= SumOver(xs, from, last)
    BY <1>4
  <2> HIDE DEF last
  <2>3. \A i \in from..(last + 1) : xs[i] \in Int
    BY <2>1
  <2>4. SumOver(xs, from, last + 1) = SumOver(xs, from, last) + xs[last + 1]
    BY <2>1, <2>3, SumNext
  <2>5. SumOver(xs, from, last) \in Nat /\ xs[last + 1] \in Nat
    BY <1>2, <2>1
  <2>6. \A i \in from..(last + 1) : xs[i] <= SumOver(xs, from, last + 1)
    BY <2>1, <2>2, <2>3, <2>4, <2>5
  <2>7. At(k + 1)
    BY <2>1, <2>6
  <2> HIDE DEF At
  <2> QED BY <2>1, <2>7
<1>5. \A k \in 0..n : k \in S
  <2> HIDE DEF S
  <2> QED BY <1>1, <1>3, <1>4, Counting
<1>6. At(n)
  <2>1. n \in 0..n
    BY <1>1
  <2> HIDE DEF At, n
  <2> QED BY <1>5, <2>1
<1>7. \A k \in from..to : xs[k] <= SumOver(xs, from, to)
  <2> HIDE DEF n
  <2> QED BY <1>1, <1>6
<1>8. to \in (from - 1)..to
  OBVIOUS
<1> QED BY <1>2, <1>7, <1>8

(* The changes of a sequence of n + 1 values, one sign of them.            *)
IsChanges(changes, n) == \A i \in 2..(n + 1) : changes[i] \in Nat

(* The equations of the smoothing.                                         *)
LEMMA WilderRunning ==
  ASSUME NEW changes, NEW n \in Nat, NEW p \in Nat, p >= 1, p <= n, IsChanges(changes, n)
  PROVE  LET w == Wilder(changes, p, n)
         IN /\ \A j \in 0..(n - p) : w[j] \in Nat
            /\ w[0] = SumOver(changes, 2, p + 1)
            /\ \A j \in 1..(n - p) :
                 /\ w[j] = (p - 1) * w[j - 1] + changes[p + 1 + j] * Power(p, j)
                 /\ changes[p + 1 + j] \in Nat /\ Power(p, j) \in Nat /\ Power(p, j) >= 1
                 /\ changes[p + 1 + j] * Power(p, j) \in Nat
<1> DEFINE m == n - p
           first == SumOver(changes, 2, p + 1)
           added == [j \in 1..m |-> changes[p + 1 + j] * Power(p, j)]
           w == Wilder(changes, p, n)
<1>1. m \in Nat /\ p - 1 \in Nat
  OBVIOUS
<1>2. first \in Nat
  <2>1. /\ 2 \in Int /\ p + 1 \in Int /\ 2 <= p + 1 + 1
        /\ \A k \in 2..(p + 1) : changes[k] \in Nat
    BY DEF IsChanges
  <2> QED BY <2>1, SumReaches
<1>3. ASSUME NEW j \in 1..m
      PROVE  /\ changes[p + 1 + j] \in Nat /\ Power(p, j) \in Nat /\ Power(p, j) >= 1
             /\ added[j] \in Nat /\ added[j] = changes[p + 1 + j] * Power(p, j)
  <2>1. p + 1 + j \in 2..(n + 1) /\ j \in Nat
    OBVIOUS
  <2>2. Power(p, j) \in Int /\ Power(p, j) >= 1
    BY <2>1, PowerType, PowerPositive
  <2>3. \A x, y \in Nat : x * y \in Nat
    OBVIOUS
  <2>4. changes[p + 1 + j] \in Nat
    BY <2>1 DEF IsChanges
  <2> QED BY <2>2, <2>3, <2>4
<1>4. w = Running(first, p - 1, added, m)
  BY DEF Wilder
<1> HIDE DEF m, first, added, w
<1>5. \A j \in 1..m : added[j] \in Nat
  BY <1>3
<1>6. \A j \in 0..m : w[j] \in Nat
  BY <1>1, <1>2, <1>4, <1>5, RunningNonNegative
<1>7. w[0] = first /\ \A j \in 1..m : w[j] = (p - 1) * w[j - 1] + added[j]
  BY <1>1, <1>4, RunningEquations
<1>8. /\ \A j \in 0..m : w[j] \in Nat
      /\ w[0] = first
      /\ \A j \in 1..m :
           /\ w[j] = (p - 1) * w[j - 1] + changes[p + 1 + j] * Power(p, j)
           /\ changes[p + 1 + j] \in Nat /\ Power(p, j) \in Nat /\ Power(p, j) >= 1
           /\ changes[p + 1 + j] * Power(p, j) \in Nat
  BY <1>3, <1>6, <1>7
<1> QED BY <1>8 DEF w, m, first

(* A change that was seen is never forgotten, from two changes on.         *)
LEMMA WilderPositive ==
  ASSUME NEW changes, NEW n \in Nat, NEW p \in Nat, p >= 2, p <= n, IsChanges(changes, n),
         NEW seen \in 2..(n + 1), changes[seen] > 0
  PROVE  Wilder(changes, p, n)[n - p] > 0
<1> DEFINE m == n - p
           w == Wilder(changes, p, n)
           At(j) == seen <= p + 1 + j => w[j] > 0
           S == {j \in 0..m : At(j)}
<1>1. m \in Nat /\ p - 1 \in Nat /\ p - 1 >= 1
  OBVIOUS
<1>2. /\ \A j \in 0..m : w[j] \in Nat
      /\ w[0] = SumOver(changes, 2, p + 1)
      /\ \A j \in 1..m :
           /\ w[j] = (p - 1) * w[j - 1] + changes[p + 1 + j] * Power(p, j)
           /\ changes[p + 1 + j] \in Nat /\ Power(p, j) \in Nat /\ Power(p, j) >= 1
           /\ changes[p + 1 + j] * Power(p, j) \in Nat
  BY WilderRunning
<1>3. 0 \in S
  <2> SUFFICES ASSUME seen <= p + 1 PROVE w[0] > 0
    BY <1>1
  <2>1. /\ 2 \in Int /\ p + 1 \in Int /\ 2 <= p + 1 + 1 /\ seen \in 2..(p + 1)
        /\ \A k \in 2..(p + 1) : changes[k] \in Nat
    BY DEF IsChanges
  <2>2. SumOver(changes, 2, p + 1) \in Nat
        /\ changes[seen] <= SumOver(changes, 2, p + 1) /\ changes[seen] \in Nat
    BY <2>1, SumReaches
  <2> HIDE DEF w
  <2> QED BY <1>2, <2>2
<1>4. ASSUME NEW j \in 0..(m - 1), j \in S PROVE j + 1 \in S
  <2>1. /\ j + 1 \in 1..m /\ (j + 1) - 1 = j /\ j + 1 \in 0..m /\ j \in 0..m
    OBVIOUS
  <2> DEFINE c == changes[p + 1 + (j + 1)]
             u == Power(p, j + 1)
  <2>2. /\ w[j + 1] = (p - 1) * w[j] + c * u /\ c \in Nat /\ u \in Nat /\ u >= 1
        /\ w[j] \in Nat /\ c * u \in Nat
    BY <1>2, <2>1
  <2>3. \A x \in Nat : (p - 1) * x \in Nat /\ (x > 0 => (p - 1) * x > 0)
    BY <1>1
  <2>4. \A x, y \in Nat : x > 0 /\ y >= 1 => x * y > 0
    OBVIOUS
  <2>5. (p - 1) * w[j] \in Nat
    BY <2>2, <2>3
  <2>6. CASE seen <= p + 1 + j
    <3>1. w[j] > 0
      BY <1>4, <2>6
    <3> HIDE DEF w, c, u
    <3>2. (p - 1) * w[j] > 0
      BY <2>2, <2>3, <3>1
    <3>3. w[j + 1] > 0
      BY <2>2, <2>5, <3>2
    <3> QED BY <2>1, <3>3
  <2>7. CASE seen = p + 1 + (j + 1)
    <3>1. c > 0
      BY <2>7
    <3> HIDE DEF w, c, u
    <3>2. c * u > 0
      BY <2>2, <2>4, <3>1
    <3>3. w[j + 1] > 0
      BY <2>2, <2>5, <3>2
    <3> QED BY <2>1, <3>3
  <2>8. CASE seen > p + 1 + (j + 1)
    <3> HIDE DEF w
    <3> QED BY <2>1, <2>8
  <2> HIDE DEF S
  <2> QED BY <2>6, <2>7, <2>8
<1>5. \A j \in 0..m : j \in S
  <2> HIDE DEF S
  <2> QED BY <1>1, <1>3, <1>4, Counting
<1>6. At(m) /\ seen <= p + 1 + m
  <2>1. m \in 0..m /\ seen <= p + 1 + m
    BY <1>1
  <2> HIDE DEF At, m
  <2> QED BY <1>5, <2>1
<1> QED BY <1>6

(* One change more.                                                        *)
SameChanges(old, new, n) == \A i \in 2..(n + 1) : new[i] = old[i]

(* The average after one change more.                                      *)
LEMMA WilderNext ==
  ASSUME NEW old, NEW new, NEW n \in Nat, NEW p \in Nat, p >= 1, p <= n,
         IsChanges(old, n), IsChanges(new, n + 1), SameChanges(old, new, n)
  PROVE  /\ Wilder(new, p, n + 1)[n + 1 - p] =
              (p - 1) * Wilder(old, p, n)[n - p] + new[n + 2] * Power(p, n + 1 - p)
         /\ new[n + 2] \in Nat /\ Power(p, n + 1 - p) \in Nat /\ Power(p, n + 1 - p) >= 1
         /\ new[n + 2] * Power(p, n + 1 - p) \in Nat
         /\ Wilder(old, p, n)[n - p] \in Nat
<1> DEFINE m == n - p
           w == Wilder(new, p, n + 1)
           first == SumOver(old, 2, p + 1)
           added == [j \in 1..m |-> old[p + 1 + j] * Power(p, j)]
<1>1. /\ m \in Nat /\ n + 1 \in Nat /\ p <= n + 1 /\ n + 1 - p = m + 1
      /\ m + 1 \in 1..(n + 1 - p) /\ (m + 1) - 1 = m /\ p + 1 + (m + 1) = n + 2
      /\ m \in 0..m
  OBVIOUS
<1>2. /\ w[0] = SumOver(new, 2, p + 1)
      /\ \A j \in 1..(n + 1 - p) :
           /\ w[j] = (p - 1) * w[j - 1] + new[p + 1 + j] * Power(p, j)
           /\ new[p + 1 + j] \in Nat /\ Power(p, j) \in Nat /\ Power(p, j) >= 1
           /\ new[p + 1 + j] * Power(p, j) \in Nat
  BY <1>1, WilderRunning
<1>3. SumOver(new, 2, p + 1) = first
  <2>1. 2 \in Int /\ p + 1 \in Int /\ \A k \in 2..(p + 1) : new[k] = old[k]
    BY DEF SameChanges
  <2> QED BY <2>1, SumSame
<1>4. \A j \in 1..m : w[j] = (p - 1) * w[j - 1] + added[j]
  <2> SUFFICES ASSUME NEW j \in 1..m PROVE w[j] = (p - 1) * w[j - 1] + added[j]
    OBVIOUS
  <2>1. j \in 1..(n + 1 - p) /\ p + 1 + j \in 2..(n + 1)
    OBVIOUS
  <2>2. added[j] = old[p + 1 + j] * Power(p, j) /\ new[p + 1 + j] = old[p + 1 + j]
    BY <2>1 DEF SameChanges
  <2>3. w[j] = (p - 1) * w[j - 1] + new[p + 1 + j] * Power(p, j)
    BY <1>2, <2>1
  <2> HIDE DEF w, added
  <2> QED BY <2>2, <2>3
<1>5. Wilder(old, p, n) = Running(first, p - 1, added, m)
  BY DEF Wilder
<1>6. \A j \in 0..m : Wilder(old, p, n)[j] \in Nat
  BY WilderRunning
<1> HIDE DEF m, w, first, added
<1>7. \A j \in 0..m : Running(first, p - 1, added, m)[j] = w[j]
  BY <1>1, <1>2, <1>3, <1>4, RunningIs
<1>8. Wilder(old, p, n)[m] = w[m] /\ Wilder(old, p, n)[m] \in Nat
  BY <1>1, <1>5, <1>6, <1>7
<1>9. /\ w[m + 1] = (p - 1) * w[m] + new[n + 2] * Power(p, m + 1)
      /\ new[n + 2] \in Nat /\ Power(p, m + 1) \in Nat /\ Power(p, m + 1) >= 1
      /\ new[n + 2] * Power(p, m + 1) \in Nat
  BY <1>1, <1>2
<1>10. /\ w[n + 1 - p] = (p - 1) * Wilder(old, p, n)[m] + new[n + 2] * Power(p, n + 1 - p)
       /\ new[n + 2] \in Nat /\ Power(p, n + 1 - p) \in Nat /\ Power(p, n + 1 - p) >= 1
       /\ new[n + 2] * Power(p, n + 1 - p) \in Nat
  BY <1>1, <1>8, <1>9
<1> QED BY <1>8, <1>10 DEF w, m

(* Rises and falls are such changes.                                       *)
LEMMA ChangesType ==
  ASSUME NEW xs \in Seq(Int), Len(xs) >= 1
  PROVE  /\ IsChanges(Rises(xs), Len(xs) - 1) /\ IsChanges(Falls(xs), Len(xs) - 1)
         /\ \A i \in 2..Len(xs) :
              /\ Rises(xs)[i] = AtLeastZero(xs[i] - xs[i - 1])
              /\ Falls(xs)[i] = AtLeastZero(xs[i - 1] - xs[i])
<1>1. Len(xs) - 1 + 1 = Len(xs)
  OBVIOUS
<1>2. ASSUME NEW i \in 2..Len(xs)
      PROVE  /\ Rises(xs)[i] = AtLeastZero(xs[i] - xs[i - 1])
             /\ Falls(xs)[i] = AtLeastZero(xs[i - 1] - xs[i])
             /\ Rises(xs)[i] \in Nat /\ Falls(xs)[i] \in Nat
  <2>1. xs[i] \in Int /\ xs[i - 1] \in Int
    OBVIOUS
  <2> QED BY <2>1 DEF Rises, Falls, AtLeastZero
<1> QED BY <1>1, <1>2 DEF IsChanges

(* The last averages of the rises and of the falls.                        *)
Gain(xs, p) == Wilder(Rises(xs), p, Len(xs) - 1)[Len(xs) - 1 - p]
Loss(xs, p) == Wilder(Falls(xs), p, Len(xs) - 1)[Len(xs) - 1 - p]

(* The last RSI is made of them.                                           *)
LEMMA LastRsi ==
  ASSUME NEW xs \in Seq(Int), NEW p \in Nat, p >= 1, p < Len(xs)
  PROVE  /\ Last(calculateRSI(xs, p)) = RelativeStrength(Gain(xs, p), Loss(xs, p))
         /\ Gain(xs, p) \in Nat /\ Loss(xs, p) \in Nat
<1> DEFINE n == Len(xs) - 1
           m == Len(xs) - p
           gains == Wilder(Rises(xs), p, n)
           losses == Wilder(Falls(xs), p, n)
           E(k) == RelativeStrength(gains[k - 1], losses[k - 1])
           rsi == calculateRSI(xs, p)
           R == {E(k) : k \in 1..m}
<1>1. n \in Nat /\ p <= n /\ m \in Nat /\ m \in 1..m /\ m - 1 = n - p /\ n - p \in 0..(n - p)
      /\ Len(xs) >= 1
  OBVIOUS
<1>2. IsChanges(Rises(xs), n) /\ IsChanges(Falls(xs), n)
  BY <1>1, ChangesType
<1>3. /\ \A j \in 0..(n - p) : gains[j] \in Nat
      /\ \A j \in 0..(n - p) : losses[j] \in Nat
  BY <1>1, <1>2, WilderRunning
<1>4. rsi = [k \in 1..m |-> E(k)]
  BY DEF calculateRSI
<1>5. Len(rsi) = m /\ rsi[m] = E(m)
  <2>1. rsi \in Seq(R)
    <3> HIDE DEF rsi, E, m
    <3>1. \A k \in 1..m : E(k) \in R
      OBVIOUS
    <3> HIDE DEF R
    <3> QED BY <1>1, <1>4, <3>1
  <2> HIDE DEF rsi, E, m, R
  <2> QED BY <1>1, <1>4, <2>1
<1>6. Last(rsi) = E(m)
  <2> HIDE DEF rsi, E, m
  <2> QED BY <1>5 DEF Last
<1>7. E(m) = RelativeStrength(Gain(xs, p), Loss(xs, p))
  BY <1>1 DEF Gain, Loss
<1>8. Gain(xs, p) \in Nat /\ Loss(xs, p) \in Nat
  <2>1. Gain(xs, p) = gains[n - p] /\ Loss(xs, p) = losses[n - p]
    BY DEF Gain, Loss
  <2> HIDE DEF gains, losses, n
  <2> QED BY <1>1, <1>3, <2>1
<1> QED BY <1>6, <1>7, <1>8

(* The RSI after one value more.                                           *)
OneMore(xs, ys) == Len(ys) = Len(xs) + 1 /\ \A i \in 1..Len(xs) : ys[i] = xs[i]

(* Gain and loss are scaled alike; a close that is no higher adds no gain, *)
(* and one that is no lower adds no loss.                                  *)
LEMMA RsiNext ==
  ASSUME NEW xs \in Seq(Int), NEW ys \in Seq(Int), OneMore(xs, ys),
         NEW p \in Nat, p >= 1, p < Len(xs)
  PROVE  \E rise, fall \in Nat :
           /\ Gain(ys, p) = (p - 1) * Gain(xs, p) + rise
           /\ Loss(ys, p) = (p - 1) * Loss(xs, p) + fall
           /\ ys[Len(ys)] <= xs[Len(xs)] => rise = 0
           /\ ys[Len(ys)] >= xs[Len(xs)] => fall = 0
<1> DEFINE n == Len(xs) - 1
           U == Power(p, n + 1 - p)
           r == Rises(ys)[n + 2]
           f == Falls(ys)[n + 2]
<1>1. /\ n \in Nat /\ p <= n /\ Len(ys) - 1 = n + 1 /\ Len(ys) = n + 2 /\ Len(xs) = n + 1
      /\ Len(xs) >= 1 /\ Len(ys) >= 1 /\ n + 2 \in 2..Len(ys) /\ (n + 2) - 1 = n + 1
      /\ xs[n + 1] \in Int /\ ys[n + 2] \in Int /\ ys[n + 1] = xs[n + 1]
  BY DEF OneMore
<1>2. /\ IsChanges(Rises(xs), n) /\ IsChanges(Falls(xs), n)
      /\ \A i \in 2..Len(xs) : /\ Rises(xs)[i] = AtLeastZero(xs[i] - xs[i - 1])
                               /\ Falls(xs)[i] = AtLeastZero(xs[i - 1] - xs[i])
  BY <1>1, ChangesType
<1>3. /\ IsChanges(Rises(ys), n + 1) /\ IsChanges(Falls(ys), n + 1)
      /\ \A i \in 2..Len(ys) : /\ Rises(ys)[i] = AtLeastZero(ys[i] - ys[i - 1])
                               /\ Falls(ys)[i] = AtLeastZero(ys[i - 1] - ys[i])
  <2>1. IsChanges(Rises(ys), Len(ys) - 1) /\ IsChanges(Falls(ys), Len(ys) - 1)
    BY <1>1, ChangesType
  <2>2. \A i \in 2..Len(ys) : /\ Rises(ys)[i] = AtLeastZero(ys[i] - ys[i - 1])
                              /\ Falls(ys)[i] = AtLeastZero(ys[i - 1] - ys[i])
    BY <1>1, ChangesType
  <2> HIDE DEF n
  <2> QED BY <1>1, <2>1, <2>2
<1>4. SameChanges(Rises(xs), Rises(ys), n) /\ SameChanges(Falls(xs), Falls(ys), n)
  <2> SUFFICES ASSUME NEW i \in 2..(n + 1)
               PROVE  Rises(ys)[i] = Rises(xs)[i] /\ Falls(ys)[i] = Falls(xs)[i]
    BY DEF SameChanges
  <2>1. i \in 2..Len(xs) /\ i \in 2..Len(ys) /\ i \in 1..Len(xs) /\ i - 1 \in 1..Len(xs)
    BY <1>1
  <2>2. ys[i] = xs[i] /\ ys[i - 1] = xs[i - 1]
    BY <2>1 DEF OneMore
  <2> QED BY <1>2, <1>3, <2>1, <2>2
<1>5. /\ Wilder(Rises(ys), p, n + 1)[n + 1 - p] =
           (p - 1) * Wilder(Rises(xs), p, n)[n - p] + r * U
      /\ r \in Nat /\ U \in Nat /\ r * U \in Nat
  <2> DEFINE old == Rises(xs)
             new == Rises(ys)
  <2>1. /\ n \in Nat /\ p <= n /\ IsChanges(old, n) /\ IsChanges(new, n + 1)
        /\ SameChanges(old, new, n)
    BY <1>1, <1>2, <1>3, <1>4
  <2> HIDE DEF n, old, new
  <2>2. /\ Wilder(new, p, n + 1)[n + 1 - p] =
             (p - 1) * Wilder(old, p, n)[n - p] + new[n + 2] * U
        /\ new[n + 2] \in Nat /\ U \in Nat /\ new[n + 2] * U \in Nat
    BY <2>1, WilderNext
  <2> QED BY <2>2 DEF old, new
<1>6. /\ Wilder(Falls(ys), p, n + 1)[n + 1 - p] =
           (p - 1) * Wilder(Falls(xs), p, n)[n - p] + f * U
      /\ f \in Nat /\ f * U \in Nat
  <2> DEFINE old == Falls(xs)
             new == Falls(ys)
  <2>1. /\ n \in Nat /\ p <= n /\ IsChanges(old, n) /\ IsChanges(new, n + 1)
        /\ SameChanges(old, new, n)
    BY <1>1, <1>2, <1>3, <1>4
  <2> HIDE DEF n, old, new
  <2>2. /\ Wilder(new, p, n + 1)[n + 1 - p] =
             (p - 1) * Wilder(old, p, n)[n - p] + new[n + 2] * U
        /\ new[n + 2] \in Nat /\ new[n + 2] * U \in Nat
    BY <2>1, WilderNext
  <2> QED BY <2>2 DEF old, new
<1>7. /\ Gain(xs, p) = Wilder(Rises(xs), p, n)[n - p]
      /\ Loss(xs, p) = Wilder(Falls(xs), p, n)[n - p]
      /\ Gain(ys, p) = Wilder(Rises(ys), p, n + 1)[n + 1 - p]
      /\ Loss(ys, p) = Wilder(Falls(ys), p, n + 1)[n + 1 - p]
  <2>1. /\ Gain(xs, p) = Wilder(Rises(xs), p, n)[n - p]
        /\ Loss(xs, p) = Wilder(Falls(xs), p, n)[n - p]
    BY DEF Gain, Loss
  <2>2. /\ Gain(ys, p) = Wilder(Rises(ys), p, Len(ys) - 1)[Len(ys) - 1 - p]
        /\ Loss(ys, p) = Wilder(Falls(ys), p, Len(ys) - 1)[Len(ys) - 1 - p]
    BY DEF Gain, Loss
  <2> HIDE DEF n
  <2> QED BY <1>1, <2>1, <2>2
<1>8. /\ ys[Len(ys)] <= xs[Len(xs)] => r = 0
      /\ ys[Len(ys)] >= xs[Len(xs)] => f = 0
  <2>1. r = AtLeastZero(ys[n + 2] - ys[n + 1]) /\ f = AtLeastZero(ys[n + 1] - ys[n + 2])
    BY <1>1, <1>3
  <2>2. r = AtLeastZero(ys[Len(ys)] - xs[Len(xs)]) /\ f = AtLeastZero(xs[Len(xs)] - ys[Len(ys)])
    <3> HIDE DEF n, r, f
    <3> QED BY <1>1, <2>1
  <2>3. xs[Len(xs)] \in Int /\ ys[Len(ys)] \in Int
    <3> HIDE DEF n, r, f
    <3> QED BY <1>1
  <2> HIDE DEF r, f
  <2> QED BY <2>2, <2>3 DEF AtLeastZero
<1> HIDE DEF r, f, U, n
<1>9. 0 * U = 0
  BY <1>5
<1>10. /\ ys[Len(ys)] <= xs[Len(xs)] => r * U = 0
       /\ ys[Len(ys)] >= xs[Len(xs)] => f * U = 0
  BY <1>8, <1>9
<1>11. /\ Gain(ys, p) = (p - 1) * Gain(xs, p) + r * U
       /\ Loss(ys, p) = (p - 1) * Loss(xs, p) + f * U
  BY <1>5, <1>6, <1>7
<1> QED BY <1>5, <1>6, <1>10, <1>11

(* The two thresholds over gain and loss.                                  *)
LEMMA Overbought ==
  ASSUME NEW g \in Nat, NEW l \in Nat
  PROVE  ~RsiBelow(RelativeStrength(g, l), 70) <=> l = 0 \/ 300 * g >= 700 * l
BY DEF RsiBelow, IsBelow, RelativeStrength

LEMMA Oversold ==
  ASSUME NEW g \in Nat, NEW l \in Nat
  PROVE  ~RsiAbove(RelativeStrength(g, l), 30) <=> l # 0 /\ 700 * g <= 300 * l
BY DEF RsiAbove, IsAbove, RelativeStrength

(* What FallNeverTurnsOverbought says of a step.                           *)
FallStep ==
  Len(candles) > RsiPeriod =>
    LET rsi == Last(calculateRSI(Closes(candles), RsiPeriod))
        next == Last(calculateRSI(Closes(candles'), RsiPeriod))
    IN /\ Last(candles').close <= Last(candles).close =>
            (~RsiBelow(next, 70) => ~RsiBelow(rsi, 70))
       /\ Last(candles').close >= Last(candles).close =>
            (~RsiAbove(next, 30) => ~RsiAbove(rsi, 30))

(* The ratio of gain and loss moves with the candle.                       *)
LEMMA FallHolds == TableInv /\ [Next]_candles => [FallStep]_candles
<1> SUFFICES ASSUME TableInv, Next, Len(candles) > RsiPeriod
             PROVE  LET rsi == Last(calculateRSI(Closes(candles), RsiPeriod))
                        next == Last(calculateRSI(Closes(candles'), RsiPeriod))
                    IN /\ Last(candles').close <= Last(candles).close =>
                            (~RsiBelow(next, 70) => ~RsiBelow(rsi, 70))
                       /\ Last(candles').close >= Last(candles).close =>
                            (~RsiAbove(next, 30) => ~RsiAbove(rsi, 30))
  BY DEF FallStep
<1> DEFINE xs == Closes(candles)
           ys == Closes(candles')
           p == RsiPeriod
           rsi == Last(calculateRSI(xs, p))
           next == Last(calculateRSI(ys, p))
<1>1. /\ candles \in Seq(Stored) /\ candles' \in Seq(Stored)
      /\ Len(candles') = Len(candles) + 1 /\ Len(candles) \in Nat
      /\ xs \in Seq(Int) /\ ys \in Seq(Int)
      /\ Len(xs) = Len(candles) /\ Len(ys) = Len(candles')
      /\ \A i \in 1..Len(candles) : ys[i] = xs[i]
  BY NewCandleAppends
<1>2. p \in Nat /\ p >= 2 /\ p >= 1
  BY PeriodTypes
<1>3. Last(candles).close = xs[Len(xs)] /\ Last(candles').close = ys[Len(ys)]
  <2>1. Len(candles) \in 1..Len(candles) /\ Len(candles') \in 1..Len(candles')
    BY <1>1, <1>2
  <2>2. xs[Len(candles)] = candles[Len(candles)].close
    BY <1>1, <2>1, ClosesType
  <2>3. ys[Len(candles')] = candles'[Len(candles')].close
    BY <1>1, <2>1, ClosesType
  <2> HIDE DEF xs, ys
  <2> QED BY <1>1, <2>2, <2>3 DEF Last
<1> HIDE DEF xs, ys, p
<1>4. p < Len(xs) /\ p < Len(ys)
  BY <1>1, <1>2 DEF p
<1>5. /\ rsi = RelativeStrength(Gain(xs, p), Loss(xs, p))
      /\ Gain(xs, p) \in Nat /\ Loss(xs, p) \in Nat
  BY <1>1, <1>2, <1>4, LastRsi
<1>6. /\ next = RelativeStrength(Gain(ys, p), Loss(ys, p))
      /\ Gain(ys, p) \in Nat /\ Loss(ys, p) \in Nat
  BY <1>1, <1>2, <1>4, LastRsi
<1>7. PICK rise \in Nat, fall \in Nat :
        /\ Gain(ys, p) = (p - 1) * Gain(xs, p) + rise
        /\ Loss(ys, p) = (p - 1) * Loss(xs, p) + fall
        /\ ys[Len(ys)] <= xs[Len(xs)] => rise = 0
        /\ ys[Len(ys)] >= xs[Len(xs)] => fall = 0
  <2>1. OneMore(xs, ys)
    BY <1>1 DEF OneMore
  <2> QED BY <1>1, <1>2, <1>4, <2>1, RsiNext
<1> DEFINE g == Gain(xs, p)
           l == Loss(xs, p)
           q == p - 1
<1> HIDE DEF g, l, q, rsi, next
<1>8. /\ q \in Nat /\ q >= 1 /\ g \in Nat /\ l \in Nat /\ q * g \in Nat /\ q * l \in Nat
      /\ Gain(ys, p) = q * g + rise /\ Loss(ys, p) = q * l + fall
      /\ rsi = RelativeStrength(g, l)
  <2>1. q \in Nat /\ q >= 1
    BY <1>2 DEF q
  <2>2. \A x, y \in Nat : x * y \in Nat
    OBVIOUS
  <2> QED BY <1>5, <1>7, <2>1, <2>2 DEF g, l, q
<1>9. l # 0 => q * l # 0
  <2>1. \A x, y \in Nat : x >= 1 /\ y # 0 => x * y # 0
    OBVIOUS
  <2> QED BY <1>8, <2>1
<1>10. l = 0 => q * l = 0
  <2>1. q * 0 = 0
    BY <1>8
  <2> QED BY <2>1
<1>11. \A x, y \in Nat : x >= 1 /\ 300 * (x * g) >= 700 * (x * y) => 300 * g >= 700 * y
  <2> SUFFICES ASSUME NEW x \in Nat, NEW y \in Nat, x >= 1, 300 * (x * g) >= 700 * (x * y)
               PROVE  300 * g >= 700 * y
    OBVIOUS
  <2>1. x * (300 * g - 700 * y) = 300 * (x * g) - 700 * (x * y)
    BY <1>8
  <2>2. \A z \in Int : x * z >= 0 => z >= 0
    OBVIOUS
  <2>3. 300 * (x * g) \in Int /\ 700 * (x * y) \in Int /\ 300 * g - 700 * y \in Int
    BY <1>8
  <2>4. 300 * g - 700 * y >= 0
    BY <2>1, <2>2, <2>3
  <2> QED BY <1>8, <2>4
<1>12. \A x, y \in Nat : x >= 1 /\ 700 * (x * g) <= 300 * (x * y) => 700 * g <= 300 * y
  <2> SUFFICES ASSUME NEW x \in Nat, NEW y \in Nat, x >= 1, 700 * (x * g) <= 300 * (x * y)
               PROVE  700 * g <= 300 * y
    OBVIOUS
  <2>1. x * (300 * y - 700 * g) = 300 * (x * y) - 700 * (x * g)
    BY <1>8
  <2>2. \A z \in Int : x * z >= 0 => z >= 0
    OBVIOUS
  <2>3. 700 * (x * g) \in Int /\ 300 * (x * y) \in Int /\ 300 * y - 700 * g \in Int
    BY <1>8
  <2>4. 300 * y - 700 * g >= 0
    BY <2>1, <2>2, <2>3
  <2> QED BY <1>8, <2>4
<1>13. ASSUME ys[Len(ys)] <= xs[Len(xs)], ~RsiBelow(next, 70)
       PROVE  ~RsiBelow(rsi, 70)
  <2>1. rise = 0
    BY <1>7, <1>13
  <2>2. q * l + fall = 0 \/ 300 * (q * g + rise) >= 700 * (q * l + fall)
    BY <1>6, <1>8, <1>13, Overbought
  <2>3. l = 0 \/ 300 * (q * g) >= 700 * (q * l)
    BY <1>8, <1>9, <2>1, <2>2
  <2>4. l = 0 \/ 300 * g >= 700 * l
    BY <1>8, <1>11, <2>3
  <2> QED BY <1>8, <2>4, Overbought
<1>14. ASSUME ys[Len(ys)] >= xs[Len(xs)], ~RsiAbove(next, 30)
       PROVE  ~RsiAbove(rsi, 30)
  <2>1. fall = 0
    BY <1>7, <1>14
  <2>2. q * l + fall # 0 /\ 700 * (q * g + rise) <= 300 * (q * l + fall)
    BY <1>6, <1>8, <1>14, Oversold
  <2>3. l # 0 /\ 700 * (q * g) <= 300 * (q * l)
    BY <1>8, <1>10, <2>1, <2>2
  <2>4. l # 0 /\ 700 * g <= 300 * l
    BY <1>8, <1>12, <2>3
  <2> QED BY <1>8, <2>4, Oversold
<1>15. /\ Last(candles').close <= Last(candles).close => (~RsiBelow(next, 70) => ~RsiBelow(rsi, 70))
       /\ Last(candles').close >= Last(candles).close => (~RsiAbove(next, 30) => ~RsiAbove(rsi, 30))
  BY <1>3, <1>13, <1>14
<1> QED BY <1>15 DEF rsi, next, xs, ys, p

(* Through calculateRSI's smoothing, a candle that does not close higher   *)
(* never makes the RSI overbought, and one that does not close lower never *)
(* makes it oversold.                                                      *)
THEOREM FallsCoolTheRsi == Spec => FallNeverTurnsOverbought
<1>1. Spec => [][FallStep]_candles
  BY TableAlways, FallHolds, PTL DEF Spec
<1> QED BY <1>1 DEF FallStep, FallNeverTurnsOverbought

-----------------------------------------------------------------------------
(* The mirrored market.                                                    *)

(* What is read of any rows, also of mirrored ones.                        *)
LEMMA RowsType ==
  ASSUME NEW cs \in Seq(Candle15M)
  PROVE  /\ Closes(cs) \in Seq(Int) /\ Len(Closes(cs)) = Len(cs) /\ Len(cs) \in Nat
         /\ Volumes(cs) \in Seq(Int) /\ Len(Volumes(cs)) = Len(cs)
         /\ \A i \in 1..Len(cs) :
              /\ cs[i] \in Candle15M
              /\ Closes(cs)[i] = cs[i].close /\ Closes(cs)[i] \in Int
              /\ Volumes(cs)[i] = cs[i].volume /\ Volumes(cs)[i] \in Int
<1>1. DOMAIN cs = 1..Len(cs) /\ Len(cs) \in Nat /\ \A i \in 1..Len(cs) : cs[i] \in Candle15M
  OBVIOUS
<1>2. \A i \in 1..Len(cs) : cs[i].close \in Int /\ cs[i].volume \in Int
  BY <1>1 DEF Candle15M
<1> HIDE DEF Candle15M
<1>3. Closes(cs) \in Seq(Int) /\ Len(Closes(cs)) = Len(cs)
  BY <1>1, <1>2 DEF Closes
<1>4. Volumes(cs) \in Seq(Int) /\ Len(Volumes(cs)) = Len(cs)
  BY <1>1, <1>2 DEF Volumes
<1>5. \A i \in 1..Len(cs) : Closes(cs)[i] = cs[i].close /\ Volumes(cs)[i] = cs[i].volume
  BY <1>1 DEF Closes, Volumes
<1> QED BY <1>1, <1>2, <1>3, <1>4, <1>5

(* Rows whose closes are reflected and whose volumes are the same.         *)
FacingRows(cs, ms, top) ==
  /\ Len(ms) = Len(cs)
  /\ \A i \in 1..Len(cs) : /\ ms[i].close = top - cs[i].close
                           /\ ms[i].volume = cs[i].volume

(* Values reflected at the middle of top.                                  *)
Facing(xs, ys, top) == Len(ys) = Len(xs) /\ \A i \in 1..Len(xs) : ys[i] = top - xs[i]

(* Stored rows are rows.                                                   *)
LEMMA StoredRows == ASSUME NEW cs \in Seq(Stored) PROVE cs \in Seq(Candle15M)
<1>1. Stored \subseteq Candle15M
  BY StrategyAssumption DEF Stored
<1>2. \A i \in 1..Len(cs) : cs[i] \in Candle15M
  BY <1>1
<1> QED BY <1>2

(* The mirrored market is such a reflection.                               *)
LEMMA MirrorFaces ==
  ASSUME NEW cs \in Seq(Stored)
  PROVE  \E top \in Int : Mirrored(cs) \in Seq(Candle15M) /\ FacingRows(cs, Mirrored(cs), top)
<1> DEFINE n == Len(cs)
           top == Max({cs[i].high : i \in DOMAIN cs}) + Min({cs[i].low : i \in DOMAIN cs})
           row(i) == [high |-> top - cs[i].low, low |-> top - cs[i].high,
                      close |-> top - cs[i].close, volume |-> cs[i].volume]
<1>1. n \in Nat /\ DOMAIN cs = 1..n /\ \A i \in 1..n : cs[i] \in Stored
  OBVIOUS
<1>2. \A i \in 1..n : /\ cs[i].high \in Int /\ cs[i].low \in Int /\ cs[i].close \in Int
                      /\ cs[i].volume \in Int
  BY <1>1, StoredType
<1>3. Mirrored(cs) = [i \in 1..n |-> row(i)]
  BY <1>1 DEF Mirrored
<1>4. CASE n = 0
  <2>1. Mirrored(cs) = << >>
    <3> HIDE DEF row
    <3>1. Mirrored(cs) = [i \in 1..0 |-> row(i)]
      BY <1>3, <1>4
    <3> QED BY <3>1
  <2>2. Mirrored(cs) \in Seq(Candle15M) /\ Len(Mirrored(cs)) = 0
    BY <2>1
  <2>3. FacingRows(cs, Mirrored(cs), 0)
    BY <1>4, <2>2 DEF FacingRows
  <2> QED BY <2>2, <2>3
<1>5. CASE n >= 1
  <2> DEFINE highs == [i \in 1..n |-> cs[i].high]
             lows == [i \in 1..n |-> cs[i].low]
             H == {cs[i].high : i \in DOMAIN cs}
             L == {cs[i].low : i \in DOMAIN cs}
  <2>1. H = {highs[i] : i \in 1..n} /\ L = {lows[i] : i \in 1..n}
    BY <1>1
  <2>2. \A i \in 1..n : highs[i] \in Int /\ lows[i] \in Int
    BY <1>2
  <2>3. Max(H) \in Int
    <3>1. n \in Nat /\ n >= 1 /\ H = {highs[i] : i \in 1..n} /\ \A i \in 1..n : highs[i] \in Int
      BY <1>1, <1>5, <2>1, <2>2
    <3> HIDE DEF H, highs, n
    <3> QED BY <3>1, Greatest
  <2>4. Min(L) \in Int
    <3>1. n \in Nat /\ n >= 1 /\ L = {lows[i] : i \in 1..n} /\ \A i \in 1..n : lows[i] \in Int
      BY <1>1, <1>5, <2>1, <2>2
    <3> HIDE DEF L, lows, n
    <3> QED BY <3>1, Least
  <2>5. top \in Int
    BY <2>3, <2>4
  <2> HIDE DEF top, H, L
  <2>6. \A i \in 1..n : row(i) \in Candle15M
    BY <1>2, <2>5 DEF Candle15M
  <2>7. \A i \in 1..n : row(i).close = top - cs[i].close /\ row(i).volume = cs[i].volume
    OBVIOUS
  <2> HIDE DEF row, n, Candle15M
  <2>8. /\ Mirrored(cs) \in Seq(Candle15M) /\ Len(Mirrored(cs)) = n
        /\ \A i \in 1..n : Mirrored(cs)[i] = row(i)
    BY <1>1, <1>3, <2>6
  <2>9. FacingRows(cs, Mirrored(cs), top)
    BY <2>7, <2>8 DEF FacingRows, n
  <2> QED BY <2>5, <2>8, <2>9
<1> QED BY <1>1, <1>4, <1>5

(* So are the rows a strategy reads of it.                                 *)
LEMMA LatestFaces ==
  ASSUME NEW cs \in Seq(Candle15M), NEW ms \in Seq(Candle15M), NEW top \in Int,
         FacingRows(cs, ms, top), NEW limit \in Nat
  PROVE  LET xs == Closes(findLatestCandles(cs, limit))
             ys == Closes(findLatestCandles(ms, limit))
         IN xs \in Seq(Int) /\ ys \in Seq(Int) /\ Facing(xs, ys, top)
<1> DEFINE t == findLatestCandles(cs, limit)
           u == findLatestCandles(ms, limit)
           d == Len(cs) - Len(t)
<1>1. /\ t \in Seq(Candle15M) /\ Len(t) = IF Len(cs) < limit THEN Len(cs) ELSE limit
      /\ \A i \in 1..Len(t) : i + (Len(cs) - Len(t)) \in 1..Len(cs)
                              /\ t[i] = cs[i + (Len(cs) - Len(t))]
  BY LatestRows
<1>2. /\ u \in Seq(Candle15M) /\ Len(u) = IF Len(ms) < limit THEN Len(ms) ELSE limit
      /\ \A i \in 1..Len(u) : i + (Len(ms) - Len(u)) \in 1..Len(ms)
                              /\ u[i] = ms[i + (Len(ms) - Len(u))]
  BY LatestRows
<1> HIDE DEF t, u
<1>3. /\ Len(u) = Len(t) /\ Len(ms) = Len(cs)
      /\ \A i \in 1..Len(t) : /\ t[i] = cs[i + d] /\ u[i] = ms[i + d]
                              /\ ms[i + d].close = top - cs[i + d].close
  BY <1>1, <1>2 DEF FacingRows
<1>4. \A i \in 1..Len(t) : u[i].close = top - t[i].close
  BY <1>3
<1>5. /\ Closes(t) \in Seq(Int) /\ Len(Closes(t)) = Len(t)
      /\ \A i \in 1..Len(t) : Closes(t)[i] = t[i].close
  BY <1>1, RowsType
<1>6. /\ Closes(u) \in Seq(Int) /\ Len(Closes(u)) = Len(u)
      /\ \A i \in 1..Len(u) : Closes(u)[i] = u[i].close
  BY <1>2, RowsType
<1>7. Facing(Closes(t), Closes(u), top)
  BY <1>3, <1>4, <1>5, <1>6 DEF Facing
<1> QED BY <1>5, <1>6, <1>7 DEF t, u

(* The averages of the mirrored closes.                                    *)
LEMMA FacingSums ==
  ASSUME NEW xs \in Seq(Int), NEW ys \in Seq(Int), NEW top \in Int, Facing(xs, ys, top),
         NEW from \in Int, NEW to \in Int, 1 <= from, from <= to + 1, to <= Len(xs)
  PROVE  /\ SumOver(ys, from, to) = top * (to - from + 1) - SumOver(xs, from, to)
         /\ SumOver(xs, from, to) \in Int
<1> DEFINE minus == -1
<1>1. minus \in Int /\ \A k \in from..to : k \in 1..Len(xs) /\ xs[k] \in Int
  OBVIOUS
<1>2. Stretched(ys, minus, xs, top, from, to)
  BY <1>1 DEF Stretched, Facing
<1> HIDE DEF minus
<1>3. SumOver(ys, from, to) = minus * SumOver(xs, from, to) + top * (to - from + 1)
  BY <1>1, <1>2, SumStretched
<1>4. SumOver(xs, from, to) \in Int
  BY <1>1, SumType
<1>5. \A x, z \in Int : (-1) * x + z = z - x
  OBVIOUS
<1>6. top * (to - from + 1) \in Int
  OBVIOUS
<1> QED BY <1>3, <1>4, <1>5, <1>6 DEF minus

(* The gap of the averages changes its sign.                               *)
LEMMA FacingGap ==
  ASSUME NEW xs \in Seq(Int), NEW ys \in Seq(Int), NEW top \in Int, Facing(xs, ys, top),
         NEW short \in Nat, NEW long \in Nat, short >= 1, short <= long,
         NEW back \in Nat, long + back <= Len(xs)
  PROVE  /\ AverageGap(ys, short, long, back) = -AverageGap(xs, short, long, back)
         /\ AverageGap(xs, short, long, back) \in Int
<1> DEFINE last == Len(xs) - back
           a == last - short + 1
           b == last - long + 1
<1>1. /\ last \in Int /\ a \in Int /\ b \in Int /\ 1 <= a /\ 1 <= b /\ a <= last + 1
      /\ b <= last + 1 /\ last <= Len(xs) /\ last - a + 1 = short /\ last - b + 1 = long
      /\ long + back <= Len(ys) /\ Len(ys) = Len(xs)
  BY DEF Facing
<1>2. /\ AverageGap(xs, short, long, back) =
           SumOver(xs, a, last) * long - SumOver(xs, b, last) * short
      /\ AverageGap(xs, short, long, back) \in Int
  BY GapIs
<1>3. AverageGap(ys, short, long, back) =
        SumOver(ys, a, last) * long - SumOver(ys, b, last) * short
  <2>1. LET end == Len(ys) - back
        IN AverageGap(ys, short, long, back) =
             SumOver(ys, end - short + 1, end) * long - SumOver(ys, end - long + 1, end) * short
    BY <1>1, GapIs
  <2> QED BY <1>1, <2>1
<1> HIDE DEF last, a, b
<1>4. /\ SumOver(ys, a, last) = top * (last - a + 1) - SumOver(xs, a, last)
      /\ SumOver(xs, a, last) \in Int
  BY <1>1, FacingSums
<1>5. /\ SumOver(ys, b, last) = top * (last - b + 1) - SumOver(xs, b, last)
      /\ SumOver(xs, b, last) \in Int
  BY <1>1, FacingSums
<1>6. \A x, y \in Int : (top * short - x) * long - (top * long - y) * short
                          = -(x * long - y * short)
  OBVIOUS
<1> DEFINE x == SumOver(xs, a, last)
           y == SumOver(xs, b, last)
<1>7. AverageGap(ys, short, long, back) = (top * short - x) * long - (top * long - y) * short
  BY <1>1, <1>3, <1>4, <1>5
<1>8. x \in Int /\ y \in Int /\ AverageGap(xs, short, long, back) = x * long - y * short
  BY <1>2, <1>4, <1>5
<1> HIDE DEF x, y
<1>9. AverageGap(ys, short, long, back) = -(x * long - y * short)
  BY <1>6, <1>7, <1>8
<1> QED BY <1>2, <1>8, <1>9

(* The crossover strategy answers with the opposite signal.                *)
LEMMA CrossoverMirrors ==
  ASSUME NEW cs \in Seq(Candle15M), NEW ms \in Seq(Candle15M), NEW top \in Int,
         FacingRows(cs, ms, top),
         LET xs == Closes(findLatestCandles(cs, LongLimit))
         IN Len(xs) >= LongPeriod => AverageGap(xs, ShortPeriod, LongPeriod, 0) # 0
  PROVE  executeMovingAverageCrossoverStrategy(ms) =
           Opposite(executeMovingAverageCrossoverStrategy(cs))
<1> DEFINE xs == Closes(findLatestCandles(cs, LongLimit))
           ys == Closes(findLatestCandles(ms, LongLimit))
           gap(zs, back) == AverageGap(zs, ShortPeriod, LongPeriod, back)
           before(zs) == IF Len(zs) > LongPeriod THEN gap(zs, 1) ELSE 0
           given(zs) == IF Len(zs) < LongPeriod THEN Threw
                        ELSE IF CrossesUp(before(zs), gap(zs, 0)) THEN "STRONG_BUY"
                        ELSE IF CrossesDown(before(zs), gap(zs, 0)) THEN "STRONG_SELL"
                        ELSE IF gap(zs, 0) > 0 THEN "WEAK_BUY"
                        ELSE "WEAK_SELL"
<1>1. xs \in Seq(Int) /\ ys \in Seq(Int) /\ Facing(xs, ys, top)
  <2>1. LongLimit \in Nat
    BY StrategyAssumption
  <2> QED BY <2>1, LatestFaces
<1>2. /\ executeMovingAverageCrossoverStrategy(cs) = given(xs)
      /\ executeMovingAverageCrossoverStrategy(ms) = given(ys)
  BY DEF executeMovingAverageCrossoverStrategy
<1>3. Len(xs) >= LongPeriod => gap(xs, 0) # 0
  OBVIOUS
<1> HIDE DEF xs, ys
<1>4. Len(ys) = Len(xs) /\ Len(xs) \in Nat
  BY <1>1 DEF Facing
<1>5. CASE Len(xs) < LongPeriod
  BY <1>2, <1>4, <1>5 DEF Threw, Opposite
<1>6. CASE ~(Len(xs) < LongPeriod)
  <2>1. /\ LongPeriod \in Nat /\ ShortPeriod \in Nat /\ ShortPeriod >= 1 /\ ShortPeriod <= LongPeriod
        /\ Len(xs) >= LongPeriod
    BY <1>4, <1>6, PeriodTypes
  <2>2. gap(ys, 0) = -gap(xs, 0) /\ gap(xs, 0) \in Int
    <3>1. 0 \in Nat /\ LongPeriod + 0 <= Len(xs)
      BY <1>4, <2>1
    <3> QED BY <1>1, <2>1, <3>1, FacingGap
  <2>3. before(ys) = -before(xs) /\ before(xs) \in Int
    <3>1. CASE Len(xs) > LongPeriod
      <4>1. 1 \in Nat /\ LongPeriod + 1 <= Len(xs)
        BY <1>4, <2>1, <3>1
      <4>2. gap(ys, 1) = -gap(xs, 1) /\ gap(xs, 1) \in Int
        BY <1>1, <2>1, <4>1, FacingGap
      <4> HIDE DEF gap
      <4> QED BY <1>4, <3>1, <4>2
    <3>2. CASE ~(Len(xs) > LongPeriod)
      <4>1. before(xs) = 0 /\ before(ys) = 0
        BY <1>4, <3>2
      <4>2. \A x \in Int : x + x = 0 => x = -x
        OBVIOUS
      <4> DEFINE b == before(xs)
                 c == before(ys)
      <4>3. b \in Int /\ b + b = 0 /\ c = b
        BY <4>1
      <4> HIDE DEF b, c
      <4>4. c = -b /\ b \in Int
        BY <4>2, <4>3
      <4> QED BY <4>4 DEF b, c
    <3> QED BY <3>1, <3>2
  <2> DEFINE g == gap(xs, 0)
             b == before(xs)
  <2>3a. g # 0
    BY <1>3, <2>1
  <2> HIDE DEF gap, before
  <2>4. given(xs) = IF CrossesUp(b, g) THEN "STRONG_BUY"
                    ELSE IF CrossesDown(b, g) THEN "STRONG_SELL"
                    ELSE IF g > 0 THEN "WEAK_BUY" ELSE "WEAK_SELL"
    BY <1>6
  <2>5. given(ys) = IF CrossesUp(-b, -g) THEN "STRONG_BUY"
                    ELSE IF CrossesDown(-b, -g) THEN "STRONG_SELL"
                    ELSE IF -g > 0 THEN "WEAK_BUY" ELSE "WEAK_SELL"
    BY <1>4, <1>6, <2>2, <2>3
  <2>6. b \in Int /\ g \in Int
    BY <2>2, <2>3
  <2> HIDE DEF given, b, g
  <2>7. given(ys) = Opposite(given(xs))
    BY <2>3a, <2>4, <2>5, <2>6 DEF CrossesUp, CrossesDown, Opposite
  <2> QED BY <1>2, <2>7
<1> QED BY <1>5, <1>6

(* calculateEMA reflects with its values ...                               *)
LEMMA OpposedEma ==
  ASSUME NEW xs \in Seq(Int), NEW ys \in Seq(Int), NEW top \in Int, Facing(xs, ys, top),
         NEW p \in Nat, p >= 1, p <= Len(xs)
  PROVE  \A k \in 1..(Len(xs) - p + 1) :
           /\ calculateEMA(ys, p)[k] = top * EmaUnit(Len(xs), p) - calculateEMA(xs, p)[k]
           /\ calculateEMA(xs, p)[k] \in Int
<1> DEFINE minus == -1
<1>1. minus \in Int /\ Len(ys) = Len(xs) /\ Len(xs) \in Nat
  BY DEF Facing
<1>2. Stretched(ys, minus, xs, top, 1, Len(xs))
  BY DEF Stretched, Facing
<1> HIDE DEF minus
<1>3. \A k \in 1..(Len(xs) - p + 1) :
        calculateEMA(ys, p)[k] = minus * calculateEMA(xs, p)[k] + top * EmaUnit(Len(xs), p)
  BY <1>1, <1>2, EmaStretched
<1>4. \A k \in 1..(Len(xs) - p + 1) : calculateEMA(xs, p)[k] \in Int
  BY EmaType
<1>5. EmaUnit(Len(xs), p) \in Int
  BY <1>1, EmaWhole
<1>6. \A x, u \in Int : (-1) * x + top * u = top * u - x
  OBVIOUS
<1> QED BY <1>3, <1>4, <1>5, <1>6 DEF minus

(* ... the MACD line changes its sign ...                                  *)
LEMMA MacdLineOpposed ==
  ASSUME NEW xs \in Seq(Int), NEW ys \in Seq(Int), NEW top \in Int, Facing(xs, ys, top),
         NEW fast \in Nat, NEW slow \in Nat, fast >= 1, fast < slow, slow <= Len(xs)
  PROVE  Facing(MacdLine(xs, fast, slow), MacdLine(ys, fast, slow), 0)
<1> DEFINE n == Len(xs)
           m == n - slow + 1
           X == MacdLine(xs, fast, slow)
           Y == MacdLine(ys, fast, slow)
           eu == EmaUnit(n, slow)
           eq == EmaUnit(n, fast)
<1>1. /\ n \in Nat /\ m \in Nat /\ Len(ys) = n /\ slow >= 1 /\ fast <= n /\ slow <= Len(ys)
      /\ \A k \in 1..m : k + slow - fast \in 1..(n - fast + 1)
  BY DEF Facing
<1>2. /\ X \in Seq(Int) /\ Len(X) = m
      /\ \A k \in 1..m : X[k] = calculateEMA(xs, fast)[k + slow - fast] * eu
                                  - calculateEMA(xs, slow)[k] * eq
  BY MacdLineType
<1>3. /\ Y \in Seq(Int) /\ Len(Y) = m
      /\ \A k \in 1..m : Y[k] = calculateEMA(ys, fast)[k + slow - fast] * eu
                                  - calculateEMA(ys, slow)[k] * eq
  <2>1. /\ Y \in Seq(Int) /\ Len(Y) = Len(ys) - slow + 1
        /\ \A k \in 1..(Len(ys) - slow + 1) :
             Y[k] = calculateEMA(ys, fast)[k + slow - fast] * EmaUnit(Len(ys), slow)
                      - calculateEMA(ys, slow)[k] * EmaUnit(Len(ys), fast)
    BY <1>1, MacdLineType
  <2> HIDE DEF Y
  <2> QED BY <1>1, <2>1
<1>4. \A k \in 1..m :
        /\ calculateEMA(ys, slow)[k] = top * eu - calculateEMA(xs, slow)[k]
        /\ calculateEMA(xs, slow)[k] \in Int
  BY <1>1, OpposedEma
<1>5. \A j \in 1..(n - fast + 1) :
        /\ calculateEMA(ys, fast)[j] = top * eq - calculateEMA(xs, fast)[j]
        /\ calculateEMA(xs, fast)[j] \in Int
  BY <1>1, OpposedEma
<1>6. eu \in Int /\ eq \in Int
  BY <1>1, EmaWhole
<1> HIDE DEF X, Y, eu, eq, m, n
<1>7. \A x, y \in Int : (top * eq - x) * eu - (top * eu - y) * eq = 0 - (x * eu - y * eq)
  BY <1>6
<1>8. ASSUME NEW k \in 1..m PROVE Y[k] = 0 - X[k]
  <2> DEFINE j == k + slow - fast
  <2>1. j \in 1..(n - fast + 1)
    BY <1>1
  <2>2. /\ X[k] = calculateEMA(xs, fast)[j] * eu - calculateEMA(xs, slow)[k] * eq
        /\ Y[k] = calculateEMA(ys, fast)[j] * eu - calculateEMA(ys, slow)[k] * eq
    BY <1>2, <1>3
  <2>3. /\ calculateEMA(ys, slow)[k] = top * eu - calculateEMA(xs, slow)[k]
        /\ calculateEMA(xs, slow)[k] \in Int
    BY <1>4
  <2> HIDE DEF j
  <2>4. /\ calculateEMA(ys, fast)[j] = top * eq - calculateEMA(xs, fast)[j]
        /\ calculateEMA(xs, fast)[j] \in Int
    BY <1>5, <2>1
  <2> DEFINE x == calculateEMA(xs, fast)[j]
             y == calculateEMA(xs, slow)[k]
  <2>5. /\ X[k] = x * eu - y * eq /\ x \in Int /\ y \in Int
        /\ Y[k] = (top * eq - x) * eu - (top * eu - y) * eq
    BY <2>2, <2>3, <2>4
  <2> HIDE DEF x, y
  <2> QED BY <1>7, <2>5
<1>9. Facing(X, Y, 0)
  BY <1>2, <1>3, <1>8 DEF Facing
<1> QED BY <1>9 DEF X, Y

(* ... and so do both lines of every entry.                                *)
LEMMA MacdOpposed ==
  ASSUME NEW xs \in Seq(Int), NEW ys \in Seq(Int), NEW top \in Int, Facing(xs, ys, top),
         NEW fast \in Nat, NEW slow \in Nat, fast >= 1, fast < slow,
         NEW signal \in Nat, signal >= 1, slow + signal <= Len(xs)
  PROVE  LET macd == calculateMACD(xs, fast, slow, signal)
             mirrored == calculateMACD(ys, fast, slow, signal)
         IN /\ Len(macd) \in Nat /\ Len(macd) >= 2 /\ Len(mirrored) = Len(macd)
            /\ \A k \in 1..Len(macd) :
                 /\ macd[k].macdLine \in Int /\ macd[k].signalLine \in Int
                 /\ mirrored[k].macdLine = -macd[k].macdLine
                 /\ mirrored[k].signalLine = -macd[k].signalLine
<1> DEFINE macd == calculateMACD(xs, fast, slow, signal)
           mirrored == calculateMACD(ys, fast, slow, signal)
           X == MacdLine(xs, fast, slow)
           Y == MacdLine(ys, fast, slow)
           m == Len(xs) - slow - signal + 2
           u == EmaUnit(Len(X), signal)
           zero == 0
<1>1. Len(ys) = Len(xs) /\ slow + signal <= Len(ys) /\ slow <= Len(xs) /\ slow <= Len(ys)
      /\ Len(xs) \in Nat
  BY DEF Facing
<1>2. /\ X \in Seq(Int) /\ Len(X) = Len(xs) - slow + 1
      /\ Y \in Seq(Int) /\ Len(Y) = Len(ys) - slow + 1
  BY <1>1, MacdLineType
<1>3. Facing(X, Y, zero) /\ zero \in Int
  BY <1>1, MacdLineOpposed
<1>4. /\ m \in Nat /\ m >= 2 /\ Len(macd) = m
      /\ \A k \in 1..m :
           /\ macd[k].macdLine = X[k + signal - 1] * u
           /\ macd[k].signalLine = calculateEMA(X, signal)[k]
           /\ X[k + signal - 1] \in Int /\ u \in Int
           /\ macd[k].macdLine \in Int /\ macd[k].signalLine \in Int
  <2>1. IsMacd(macd, X, signal, m)
    BY MacdEntries
  <2> HIDE DEF macd, X, m
  <2> QED BY <2>1 DEF IsMacd
<1>5. /\ Len(mirrored) = m
      /\ \A k \in 1..m :
           /\ mirrored[k].macdLine = Y[k + signal - 1] * u
           /\ mirrored[k].signalLine = calculateEMA(Y, signal)[k]
  <2> DEFINE w == Len(ys) - slow - signal + 2
  <2>1. IsMacd(mirrored, Y, signal, w)
    BY <1>1, MacdEntries
  <2>2. Len(Y) = Len(X) /\ w = m
    BY <1>1, <1>2
  <2> HIDE DEF X, Y, m, w, mirrored
  <2> QED BY <2>1, <2>2 DEF IsMacd
<1> HIDE DEF X, Y, macd, mirrored, zero
<1>6. signal <= Len(X) /\ Len(X) - signal + 1 = m /\ Len(X) \in Nat
      /\ \A k \in 1..m : k + signal - 1 \in 1..Len(X)
  BY <1>1, <1>2
<1>7. \A k \in 1..(Len(X) - signal + 1) :
        /\ calculateEMA(Y, signal)[k] = zero * EmaUnit(Len(X), signal) - calculateEMA(X, signal)[k]
        /\ calculateEMA(X, signal)[k] \in Int
  BY <1>2, <1>3, <1>6, OpposedEma
<1>8. u \in Int
  BY <1>6, EmaWhole
<1> HIDE DEF u, m
<1>9. \A x, y \in Int : (0 - x) * u = -(x * u) /\ 0 * u - y = -y
  BY <1>8
<1>10. ASSUME NEW k \in 1..m
       PROVE  /\ mirrored[k].macdLine = -macd[k].macdLine
              /\ mirrored[k].signalLine = -macd[k].signalLine
  <2>1. /\ calculateEMA(Y, signal)[k] = 0 * u - calculateEMA(X, signal)[k]
        /\ calculateEMA(X, signal)[k] \in Int
    BY <1>6, <1>7 DEF zero, u
  <2>2. calculateEMA(Y, signal)[k] = -calculateEMA(X, signal)[k]
    BY <1>9, <2>1
  <2> DEFINE i == k + signal - 1
  <2>3. i \in 1..Len(X)
    BY <1>6
  <2>4. X[i] \in Int /\ macd[k].macdLine = X[i] * u /\ mirrored[k].macdLine = Y[i] * u
    BY <1>4, <1>5
  <2> HIDE DEF i
  <2>5. Y[i] = 0 - X[i]
    BY <1>3, <2>3 DEF Facing, zero
  <2>6. mirrored[k].macdLine = -macd[k].macdLine
    BY <1>9, <2>4, <2>5
  <2> QED BY <1>4, <1>5, <2>2, <2>6
<1>11. /\ Len(macd) \in Nat /\ Len(macd) >= 2 /\ Len(mirrored) = Len(macd)
       /\ \A k \in 1..Len(macd) :
                 /\ macd[k].macdLine \in Int /\ macd[k].signalLine \in Int
                 /\ mirrored[k].macdLine = -macd[k].macdLine
                 /\ mirrored[k].signalLine = -macd[k].signalLine
  BY <1>4, <1>5, <1>10
<1> QED BY <1>11 DEF macd, mirrored

(* The MACD strategy answers with the opposite signal.                     *)
LEMMA MacdMirrors ==
  ASSUME NEW cs \in Seq(Candle15M), NEW ms \in Seq(Candle15M), NEW top \in Int,
         FacingRows(cs, ms, top),
         LET xs == Closes(findLatestCandles(cs, LongLimit))
         IN Len(xs) >= SlowPeriod + SignalPeriod =>
              LET macd == Last(calculateMACD(xs, FastPeriod, SlowPeriod, SignalPeriod))
              IN macd.macdLine # macd.signalLine
  PROVE  executeMACDCrossoverStrategy(ms) = Opposite(executeMACDCrossoverStrategy(cs))
<1> DEFINE xs == Closes(findLatestCandles(cs, LongLimit))
           ys == Closes(findLatestCandles(ms, LongLimit))
           macd(zs) == calculateMACD(zs, FastPeriod, SlowPeriod, SignalPeriod)
<1>1. xs \in Seq(Int) /\ ys \in Seq(Int) /\ Facing(xs, ys, top)
  <2>1. LongLimit \in Nat
    BY StrategyAssumption
  <2> QED BY <2>1, LatestFaces
<1>2. /\ executeMACDCrossoverStrategy(cs) =
           IF Len(xs) < SlowPeriod + SignalPeriod THEN Threw ELSE MacdSignal(macd(xs))
      /\ executeMACDCrossoverStrategy(ms) =
           IF Len(ys) < SlowPeriod + SignalPeriod THEN Threw ELSE MacdSignal(macd(ys))
  BY DEF executeMACDCrossoverStrategy
<1>3. Len(xs) >= SlowPeriod + SignalPeriod =>
        macd(xs)[Len(macd(xs))].macdLine # macd(xs)[Len(macd(xs))].signalLine
  BY DEF Last
<1> HIDE DEF xs, ys
<1>4. Len(ys) = Len(xs) /\ Len(xs) \in Nat
  BY <1>1 DEF Facing
<1>5. CASE Len(xs) < SlowPeriod + SignalPeriod
  BY <1>2, <1>4, <1>5 DEF Threw, Opposite
<1>6. CASE ~(Len(xs) < SlowPeriod + SignalPeriod)
  <2>1. /\ SlowPeriod \in Nat /\ FastPeriod \in Nat /\ FastPeriod >= 1 /\ FastPeriod < SlowPeriod
        /\ SignalPeriod \in Nat /\ SignalPeriod >= 1 /\ SlowPeriod + SignalPeriod <= Len(xs)
    BY <1>4, <1>6, PeriodTypes
  <2> DEFINE X == macd(xs)
             Y == macd(ys)
             m == Len(X)
  <2>2. /\ m \in Nat /\ m >= 2 /\ Len(Y) = m
        /\ \A k \in 1..m :
             /\ X[k].macdLine \in Int /\ X[k].signalLine \in Int
             /\ Y[k].macdLine = -X[k].macdLine
             /\ Y[k].signalLine = -X[k].signalLine
    BY <1>1, <2>1, MacdOpposed
  <2>3. X[m].macdLine # X[m].signalLine
    BY <1>3, <2>1
  <2> DEFINE line == X[m].macdLine
             now == X[m].macdLine - X[m].signalLine
             before == X[m - 1].macdLine - X[m - 1].signalLine
             given(l, b, g) == IF CrossesUp(b, g) THEN IF l > 0 THEN "STRONG_BUY" ELSE "BUY"
                               ELSE IF CrossesDown(b, g)
                                 THEN IF l < 0 THEN "STRONG_SELL" ELSE "SELL"
                               ELSE IF g > 0 THEN "WEAK_BUY" ELSE "WEAK_SELL"
  <2> HIDE DEF X, Y
  <2>4. m - 0 = m /\ m \in 1..m /\ m - 1 \in 1..m
    BY <2>2
  <2>5. MacdSignal(X) = given(line, before, now)
    BY <2>4 DEF MacdSignal, Last
  <2>6. MacdSignal(Y) = given(Y[m].macdLine, Y[m - 1].macdLine - Y[m - 1].signalLine,
                              Y[m].macdLine - Y[m].signalLine)
    BY <2>2, <2>4 DEF MacdSignal, Last
  <2>7. /\ line \in Int /\ now \in Int /\ before \in Int
        /\ Y[m].macdLine = -line
        /\ Y[m].macdLine - Y[m].signalLine = -now
        /\ Y[m - 1].macdLine - Y[m - 1].signalLine = -before
    <3>1. \A x, y \in Int : (-x) - (-y) = -(x - y) /\ x - y \in Int
      OBVIOUS
    <3> HIDE DEF m
    <3>2. /\ X[m].macdLine \in Int /\ X[m].signalLine \in Int
          /\ Y[m].macdLine = -X[m].macdLine /\ Y[m].signalLine = -X[m].signalLine
      BY <2>2, <2>4
    <3>3. /\ X[m - 1].macdLine \in Int /\ X[m - 1].signalLine \in Int
          /\ Y[m - 1].macdLine = -X[m - 1].macdLine
          /\ Y[m - 1].signalLine = -X[m - 1].signalLine
      BY <2>2, <2>4
    <3>4. now \in Int /\ Y[m].macdLine - Y[m].signalLine = -now
      BY <3>1, <3>2
    <3>5. before \in Int /\ Y[m - 1].macdLine - Y[m - 1].signalLine = -before
      BY <3>1, <3>3
    <3> HIDE DEF now, before
    <3> QED BY <3>2, <3>4, <3>5
  <2>8. now # 0
    <3>1. X[m].macdLine \in Int /\ X[m].signalLine \in Int
      BY <2>2, <2>4
    <3> QED BY <2>3, <3>1
  <2>9. MacdSignal(Y) = given(-line, -before, -now)
    <3> HIDE DEF line, before, now, given
    <3> QED BY <2>6, <2>7
  <2> HIDE DEF line, before, now
  <2>10. MacdSignal(Y) = Opposite(MacdSignal(X))
    BY <2>5, <2>7, <2>8, <2>9 DEF CrossesUp, CrossesDown, Opposite
  <2>11. /\ executeMACDCrossoverStrategy(cs) = MacdSignal(X)
         /\ executeMACDCrossoverStrategy(ms) = MacdSignal(Y)
    BY <1>2, <1>4, <1>6 DEF X, Y
  <2> QED BY <2>10, <2>11
<1> QED BY <1>5, <1>6

(* A band in sums: the distance from the middle, and the spread.           *)
Spread(xs, p) ==
  LET n == Len(xs)
  IN p * SumOver([i \in DOMAIN xs |-> xs[i] * xs[i]], n - p + 1, n)
       - SumOver(xs, n - p + 1, n) * SumOver(xs, n - p + 1, n)

(* The last band over these sums.                                          *)
LEMMA LastBand ==
  ASSUME NEW xs \in Seq(Int), NEW p \in Nat, p >= 1, p <= Len(xs), NEW width \in Nat
  PROVE  LET n == Len(xs)
             band == Last(calculateBollingerBands(xs, p, width))
         IN /\ band.offset = p * xs[n] - SumOver(xs, n - p + 1, n)
            /\ band.reach = width * width * Spread(xs, p)
            /\ SumOver(xs, n - p + 1, n) \in Int /\ xs[n] \in Int
            /\ SumOver([i \in DOMAIN xs |-> xs[i] * xs[i]], n - p + 1, n) \in Int
<1> DEFINE n == Len(xs)
           m == n - p + 1
           qs == [i \in DOMAIN xs |-> xs[i] * xs[i]]
           sums == calculateSMA(xs, p)
           squares == calculateSMA(qs, p)
           E(k) == [offset |-> p * xs[k + p - 1] - sums[k],
                    reach |-> width * width * (p * squares[k] - sums[k] * sums[k])]
           bands == calculateBollingerBands(xs, p, width)
           R == [offset : Int, reach : Int]
<1>1. /\ n \in Nat /\ m \in Nat /\ m \in 1..m /\ m + p - 1 = n /\ DOMAIN xs = 1..n
      /\ n \in 1..n
      /\ \A i \in 1..n : xs[i] \in Int
  OBVIOUS
<1>2. qs \in Seq(Int) /\ Len(qs) = n
  <2>1. \A x \in Int : x * x \in Int
    OBVIOUS
  <2>2. \A i \in 1..n : xs[i] * xs[i] \in Int
    BY <1>1, <2>1
  <2> QED BY <1>1, <2>2
<1>3. bands = [k \in DOMAIN sums |-> E(k)]
  BY DEF calculateBollingerBands
<1> HIDE DEF qs
<1>4. /\ DOMAIN sums = 1..m
      /\ \A k \in 1..m : sums[k] = SumOver(xs, k, k + p - 1) /\ sums[k] \in Int
  BY AveragesType
<1>5. \A k \in 1..m : squares[k] = SumOver(qs, k, k + p - 1) /\ squares[k] \in Int
  <2>1. p <= Len(qs)
    BY <1>2
  <2>2. \A k \in 1..(Len(qs) - p + 1) :
          squares[k] = SumOver(qs, k, k + p - 1) /\ squares[k] \in Int
    BY <1>2, <2>1, AveragesType
  <2> HIDE DEF squares
  <2> QED BY <1>2, <2>2
<1> HIDE DEF sums, squares, bands
<1>6. \A k \in 1..m : E(k) \in R
  <2> SUFFICES ASSUME NEW k \in 1..m PROVE E(k) \in R
    OBVIOUS
  <2>1. k + p - 1 \in 1..n
    BY <1>1
  <2>2. xs[k + p - 1] \in Int /\ sums[k] \in Int /\ squares[k] \in Int
    BY <1>1, <1>4, <1>5, <2>1
  <2>3. \A x, y, z \in Int : p * x - y \in Int /\ width * width * (p * z - y * y) \in Int
    OBVIOUS
  <2> QED BY <2>2, <2>3
<1>7. bands = [k \in 1..m |-> E(k)]
  <2> HIDE DEF E
  <2> QED BY <1>3, <1>4
<1>8. Len(bands) = m /\ bands[m] = E(m)
  <2> HIDE DEF E, m, R
  <2>1. bands \in Seq(R)
    BY <1>1, <1>6, <1>7
  <2> QED BY <1>1, <1>7, <2>1
<1>9. Last(bands) = E(m)
  <2> HIDE DEF E, m
  <2> QED BY <1>8 DEF Last
<1>10. /\ E(m).offset = p * xs[m + p - 1] - sums[m]
       /\ E(m).reach = width * width * (p * squares[m] - sums[m] * sums[m])
  OBVIOUS
<1> HIDE DEF E, m
<1>11. /\ sums[m] = SumOver(xs, m, n) /\ sums[m] \in Int
       /\ squares[m] = SumOver(qs, m, n) /\ squares[m] \in Int
  BY <1>1, <1>4, <1>5
<1>12. Spread(xs, p) = p * squares[m] - sums[m] * sums[m]
  BY <1>11 DEF Spread, qs, m
<1>13. xs[n] \in Int
  BY <1>1
<1>14. /\ Last(bands).offset = p * xs[n] - SumOver(xs, m, n)
       /\ Last(bands).reach = width * width * Spread(xs, p)
  BY <1>1, <1>9, <1>10, <1>11, <1>12
<1> QED BY <1>11, <1>13, <1>14 DEF bands, m, qs

(* The spread is no less than zero: p times the sum of the squared         *)
(* distances from the middle.                                              *)
LEMMA SpreadType ==
  ASSUME NEW xs \in Seq(Int), NEW p \in Nat, p >= 1, p <= Len(xs)
  PROVE  Spread(xs, p) \in Int /\ Spread(xs, p) >= 0
<1> DEFINE n == Len(xs)
           a == n - p + 1
           qs == [i \in DOMAIN xs |-> xs[i] * xs[i]]
           S == SumOver(xs, a, n)
           Q == SumOver(qs, a, n)
           far == [i \in DOMAIN xs |-> (p * xs[i] - S) * (p * xs[i] - S)]
           c2 == p * p
           c1 == -(2 * p * S)
           c0 == S * S
<1>1. /\ n \in Nat /\ a \in Int /\ 1 <= a /\ a <= n + 1 /\ n - a + 1 = p
      /\ DOMAIN xs = 1..n /\ \A i \in a..n : i \in 1..n /\ xs[i] \in Int
  OBVIOUS
<1>2. S \in Int
  BY <1>1, SumType
<1>3. \A i \in a..n : qs[i] \in Int /\ qs[i] = xs[i] * xs[i]
  <2>1. \A x \in Int : x * x \in Int
    OBVIOUS
  <2> QED BY <1>1, <2>1
<1>4. \A i \in a..n : far[i] = (p * xs[i] - S) * (p * xs[i] - S)
  BY <1>1
<1> HIDE DEF S, qs, far, a, n
<1>5. Q \in Int
  BY <1>1, <1>3, SumType
<1>6. \A x \in Int : /\ (p * x - S) * (p * x - S) \in Int
                     /\ 0 <= (p * x - S) * (p * x - S)
                     /\ (p * x - S) * (p * x - S) = c2 * (x * x) + c1 * x + c0
  <2> SUFFICES ASSUME NEW x \in Int
               PROVE  /\ (p * x - S) * (p * x - S) \in Int
                      /\ 0 <= (p * x - S) * (p * x - S)
                      /\ (p * x - S) * (p * x - S) = c2 * (x * x) + c1 * x + c0
    OBVIOUS
  <2> DEFINE d == p * x - S
  <2>1. d \in Int
    BY <1>2
  <2>2. d * d = c2 * (x * x) + c1 * x + c0
    BY <1>2
  <2> HIDE DEF d
  <2>3. d * d \in Int /\ 0 <= d * d
    BY <2>1
  <2> QED BY <2>2, <2>3 DEF d
<1>7. c2 \in Int /\ c1 \in Int /\ c0 \in Int
  BY <1>2
<1> HIDE DEF c2, c1, c0
<1>8. Combined(far, c2, qs, c1, xs, c0, a, n)
  BY <1>1, <1>3, <1>4, <1>6 DEF Combined
<1>9. \A i \in a..n : far[i] \in Int /\ 0 <= far[i]
  BY <1>1, <1>4, <1>6
<1>10. SumOver(far, a, n) = c2 * Q + c1 * S + c0 * (n - a + 1)
  BY <1>1, <1>7, <1>8, SumLinear DEF S
<1>11. 0 <= SumOver(far, a, n)
  BY <1>1, <1>9, SumOfNone
<1> HIDE DEF Q
<1>12. 0 <= c2 * Q + c1 * S + c0 * p
  BY <1>1, <1>10, <1>11
<1>13. c2 * Q + c1 * S + c0 * p = p * (p * Q - S * S)
  BY <1>2, <1>5 DEF c2, c1, c0
<1>14. p * Q - S * S \in Int
  BY <1>2, <1>5
<1> DEFINE spread == p * Q - S * S
<1> HIDE DEF spread
<1>15. spread \in Int /\ 0 <= p * spread
  BY <1>12, <1>13, <1>14 DEF spread
<1>16. \A z \in Int : 0 <= p * z => z >= 0
  OBVIOUS
<1>17. spread >= 0
  BY <1>15, <1>16
<1>18. Spread(xs, p) = spread
  BY DEF Spread, spread, Q, S, qs, a, n
<1> QED BY <1>15, <1>17, <1>18

(* A reflected market is spread alike ...                                  *)
LEMMA FacingSpread ==
  ASSUME NEW xs \in Seq(Int), NEW ys \in Seq(Int), NEW top \in Int, Facing(xs, ys, top),
         NEW p \in Nat, p >= 1, p <= Len(xs)
  PROVE  Spread(ys, p) = Spread(xs, p)
<1> DEFINE n == Len(xs)
           a == n - p + 1
           qs == [i \in DOMAIN xs |-> xs[i] * xs[i]]
           rs == [i \in DOMAIN ys |-> ys[i] * ys[i]]
           S == SumOver(xs, a, n)
           Q == SumOver(qs, a, n)
           one == 1
           c1 == -(2 * top)
           c0 == top * top
<1>1. /\ n \in Nat /\ a \in Int /\ 1 <= a /\ a <= n + 1 /\ n - a + 1 = p /\ n <= Len(xs)
      /\ DOMAIN xs = 1..n /\ DOMAIN ys = 1..n /\ Len(ys) = n
      /\ \A i \in a..n : i \in 1..n /\ xs[i] \in Int
  BY DEF Facing
<1>2. S \in Int /\ SumOver(ys, a, n) = top * p - S
  <2> HIDE DEF a, n
  <2>1. SumOver(ys, a, n) = top * (n - a + 1) - S /\ S \in Int
    BY <1>1, FacingSums
  <2> QED BY <1>1, <2>1
<1>3. \A i \in a..n : qs[i] \in Int /\ qs[i] = xs[i] * xs[i]
  <2>1. \A x \in Int : x * x \in Int
    OBVIOUS
  <2> QED BY <1>1, <2>1
<1>4. \A i \in a..n : rs[i] = (top - xs[i]) * (top - xs[i])
  BY <1>1 DEF Facing
<1> HIDE DEF qs, rs, S
<1>5. one \in Int /\ c1 \in Int /\ c0 \in Int
  OBVIOUS
<1>6. \A x \in Int : (top - x) * (top - x) = one * (x * x) + c1 * x + c0
  OBVIOUS
<1> HIDE DEF one, c1, c0, n, a
<1>7. Combined(rs, one, qs, c1, xs, c0, a, n)
  BY <1>1, <1>3, <1>4, <1>6 DEF Combined
<1>8. SumOver(rs, a, n) = one * Q + c1 * S + c0 * (n - a + 1)
  BY <1>1, <1>5, <1>7, SumLinear DEF S
<1>9. Q \in Int
  BY <1>1, <1>3, SumType
<1> HIDE DEF Q
<1>10. p * (1 * Q + (-(2 * top)) * S + (top * top) * p) - (top * p - S) * (top * p - S)
         = p * Q - S * S
  BY <1>2, <1>9
<1>11. Spread(ys, p) = p * SumOver(rs, a, n) - SumOver(ys, a, n) * SumOver(ys, a, n)
  BY <1>1 DEF Spread, rs, a, n
<1>12. Spread(xs, p) = p * Q - S * S
  BY DEF Spread, Q, S, qs, a, n
<1>13. SumOver(rs, a, n) = 1 * Q + (-(2 * top)) * S + (top * top) * p
  BY <1>1, <1>8 DEF one, c1, c0
<1> QED BY <1>2, <1>10, <1>11, <1>12, <1>13

(* ... and lies on the other side of the middle line.                      *)
LEMMA FacingBand ==
  ASSUME NEW xs \in Seq(Int), NEW ys \in Seq(Int), NEW top \in Int, Facing(xs, ys, top),
         NEW p \in Nat, p >= 1, p <= Len(xs), NEW width \in Nat
  PROVE  LET band == Last(calculateBollingerBands(xs, p, width))
             mirrored == Last(calculateBollingerBands(ys, p, width))
         IN /\ band.offset \in Int /\ band.reach \in Int /\ band.reach >= 0
            /\ mirrored.offset = -band.offset /\ mirrored.reach = band.reach
<1> DEFINE n == Len(xs)
           a == n - p + 1
           band == Last(calculateBollingerBands(xs, p, width))
           mirrored == Last(calculateBollingerBands(ys, p, width))
           S == SumOver(xs, a, n)
           x == xs[n]
           w == width * width
           spread == Spread(xs, p)
<1>1. /\ n \in Nat /\ a \in Int /\ 1 <= a /\ a <= n + 1 /\ n - a + 1 = p /\ n <= Len(xs)
      /\ Len(ys) = n /\ p <= Len(ys) /\ n \in 1..Len(xs)
  BY DEF Facing
<1>2. band.offset = p * x - S /\ band.reach = w * spread /\ S \in Int /\ x \in Int
  BY LastBand
<1>3. /\ mirrored.offset = p * ys[n] - SumOver(ys, a, n)
      /\ mirrored.reach = w * Spread(ys, p)
  <2>1. LET m == Len(ys)
        IN /\ mirrored.offset = p * ys[m] - SumOver(ys, m - p + 1, m)
           /\ mirrored.reach = width * width * Spread(ys, p)
    BY <1>1, LastBand
  <2> HIDE DEF mirrored
  <2> QED BY <1>1, <2>1
<1>4. spread \in Int /\ spread >= 0 /\ Spread(ys, p) = spread
  BY SpreadType, FacingSpread
<1>5. SumOver(ys, a, n) = top * p - S
  <2> HIDE DEF a, n
  <2>1. SumOver(ys, a, n) = top * (n - a + 1) - S
    BY <1>1, FacingSums
  <2> QED BY <1>1, <2>1
<1>6. ys[n] = top - x
  BY <1>1 DEF Facing
<1> HIDE DEF band, mirrored, S, x, spread, n, a
<1>7. p * (top - x) - (top * p - S) = -(p * x - S)
  BY <1>2
<1>8. w \in Nat
  OBVIOUS
<1> HIDE DEF w
<1>9. w * spread \in Int /\ w * spread >= 0
  BY <1>4, <1>8
<1>10. p * x - S \in Int
  BY <1>2
<1>11. /\ band.offset \in Int /\ band.reach \in Int /\ band.reach >= 0
       /\ mirrored.offset = -band.offset /\ mirrored.reach = band.reach
  BY <1>2, <1>3, <1>4, <1>5, <1>6, <1>7, <1>9, <1>10
<1> QED BY <1>11 DEF band, mirrored

(* Rises become falls.                                                     *)
LEMMA FacingChanges ==
  ASSUME NEW xs \in Seq(Int), NEW ys \in Seq(Int), NEW top \in Int, Facing(xs, ys, top)
  PROVE  Rises(ys) = Falls(xs) /\ Falls(ys) = Rises(xs)
<1>1. Len(ys) = Len(xs) /\ Len(xs) \in Nat
  BY DEF Facing
<1>2. \A i \in 2..Len(xs) : ys[i] - ys[i - 1] = xs[i - 1] - xs[i]
                            /\ ys[i - 1] - ys[i] = xs[i] - xs[i - 1]
  <2> SUFFICES ASSUME NEW i \in 2..Len(xs)
               PROVE  ys[i] - ys[i - 1] = xs[i - 1] - xs[i]
                      /\ ys[i - 1] - ys[i] = xs[i] - xs[i - 1]
    OBVIOUS
  <2>1. i \in 1..Len(xs) /\ i - 1 \in 1..Len(xs)
    OBVIOUS
  <2>2. ys[i] = top - xs[i] /\ ys[i - 1] = top - xs[i - 1]
    BY <2>1 DEF Facing
  <2>3. xs[i] \in Int /\ xs[i - 1] \in Int
    BY <2>1
  <2> QED BY <2>2, <2>3
<1> QED BY <1>1, <1>2 DEF Rises, Falls

(* The thresholds 70 and 30 change places, once there was a rise and a     *)
(* fall: neither average is zero then.                                     *)
LEMMA FacingRsi ==
  ASSUME NEW xs \in Seq(Int), NEW ys \in Seq(Int), NEW top \in Int, Facing(xs, ys, top),
         NEW p \in Nat, p >= 2, p < Len(xs),
         NEW i \in 2..Len(xs), xs[i] > xs[i - 1], NEW j \in 2..Len(xs), xs[j] < xs[j - 1]
  PROVE  LET rsi == Last(calculateRSI(xs, p))
             mirrored == Last(calculateRSI(ys, p))
         IN /\ RsiAbove(mirrored, 70) <=> RsiBelow(rsi, 30)
            /\ RsiBelow(mirrored, 30) <=> RsiAbove(rsi, 70)
            /\ ~(RsiAbove(rsi, 70) /\ RsiBelow(rsi, 30))
<1> DEFINE n == Len(xs) - 1
           g == Gain(xs, p)
           l == Loss(xs, p)
<1>1. /\ n \in Nat /\ p <= n /\ n + 1 = Len(xs) /\ p >= 1 /\ Len(xs) >= 1
      /\ Len(ys) = Len(xs) /\ p < Len(ys) /\ i \in 2..(n + 1) /\ j \in 2..(n + 1)
  <2>1. Len(ys) = Len(xs)
    BY DEF Facing
  <2>2. Len(xs) \in Nat /\ p >= 1 /\ n \in Nat /\ p <= n /\ n + 1 = Len(xs) /\ Len(xs) >= 1
    OBVIOUS
  <2>3. i \in 2..(n + 1) /\ j \in 2..(n + 1)
    BY <2>2
  <2> QED BY <2>1, <2>2, <2>3
<1>2. /\ IsChanges(Rises(xs), n) /\ IsChanges(Falls(xs), n)
      /\ \A k \in 2..Len(xs) : /\ Rises(xs)[k] = AtLeastZero(xs[k] - xs[k - 1])
                               /\ Falls(xs)[k] = AtLeastZero(xs[k - 1] - xs[k])
  BY <1>1, ChangesType
<1>3. Rises(xs)[i] > 0 /\ Falls(xs)[j] > 0
  <2>1. xs[i] \in Int /\ xs[i - 1] \in Int /\ xs[j] \in Int /\ xs[j - 1] \in Int
    OBVIOUS
  <2>2. Rises(xs)[i] = AtLeastZero(xs[i] - xs[i - 1]) /\ Falls(xs)[j] = AtLeastZero(xs[j - 1] - xs[j])
    BY <1>2
  <2>3. \A a, b \in Int : a > b => AtLeastZero(a - b) > 0
    BY DEF AtLeastZero
  <2>4. AtLeastZero(xs[i] - xs[i - 1]) > 0
    BY <2>1, <2>3
  <2>5. AtLeastZero(xs[j - 1] - xs[j]) > 0
    BY <2>1, <2>3
  <2> QED BY <2>2, <2>4, <2>5
<1> HIDE DEF n
<1>4. Wilder(Rises(xs), p, n)[n - p] > 0 /\ Wilder(Falls(xs), p, n)[n - p] > 0
  BY <1>1, <1>2, <1>3, WilderPositive
<1>5. g > 0 /\ l > 0
  BY <1>4 DEF Gain, Loss, n
<1>6. /\ Last(calculateRSI(xs, p)) = RelativeStrength(g, l)
      /\ g \in Nat /\ l \in Nat
  BY <1>1, LastRsi
<1>7. Gain(ys, p) = l /\ Loss(ys, p) = g
  BY <1>1, FacingChanges DEF Gain, Loss
<1>8. Last(calculateRSI(ys, p)) = RelativeStrength(l, g)
  <2>1. Last(calculateRSI(ys, p)) = RelativeStrength(Gain(ys, p), Loss(ys, p))
    BY <1>1, LastRsi
  <2> QED BY <1>7, <2>1
<1> HIDE DEF g, l
<1>9. /\ RsiAbove(RelativeStrength(l, g), 70) <=> RsiBelow(RelativeStrength(g, l), 30)
      /\ RsiBelow(RelativeStrength(l, g), 30) <=> RsiAbove(RelativeStrength(g, l), 70)
      /\ ~(RsiAbove(RelativeStrength(g, l), 70) /\ RsiBelow(RelativeStrength(g, l), 30))
  BY <1>5, <1>6 DEF RsiAbove, RsiBelow, IsAbove, IsBelow, RelativeStrength
<1> QED BY <1>6, <1>8, <1>9

(* The square that keeps its sign.                                         *)
LEMMA SquareMirrors ==
  ASSUME NEW x \in Int
  PROVE  SignedSquare(-x) = -SignedSquare(x) /\ SignedSquare(x) \in Int
<1>1. (-x) * (-x) = x * x /\ x * x \in Int /\ (x = 0 => x * x = 0)
  OBVIOUS
<1> DEFINE q == x * x
<1>2. SignedSquare(x) = IF x < 0 THEN -q ELSE q
  BY DEF SignedSquare
<1>3. SignedSquare(-x) = IF -x < 0 THEN -q ELSE q
  BY <1>1 DEF SignedSquare
<1>4. q \in Int /\ (x = 0 => q = 0)
  BY <1>1
<1> HIDE DEF q
<1>5. CASE x < 0
  <2>1. SignedSquare(x) = -q /\ SignedSquare(-x) = q
    BY <1>2, <1>3, <1>5
  <2> QED BY <1>4, <2>1
<1>6. CASE x > 0
  <2>1. SignedSquare(x) = q /\ SignedSquare(-x) = -q
    BY <1>2, <1>3, <1>6
  <2> QED BY <1>4, <2>1
<1>7. CASE x = 0
  <2>1. SignedSquare(x) = q /\ SignedSquare(-x) = q /\ q = 0
    BY <1>2, <1>3, <1>4, <1>7
  <2>2. q = -q
    <3>1. \A z \in Int : z + z = 0 => z = -z
      OBVIOUS
    <3>2. q + q = 0
      BY <2>1
    <3> QED BY <1>4, <3>1, <3>2
  <2> QED BY <1>4, <2>1, <2>2
<1> QED BY <1>5, <1>6, <1>7

(* The four tests of the band change places.                               *)
LEMMA BandMirrors ==
  ASSUME NEW band, NEW mirrored, band.offset \in Int, band.reach \in Int, band.reach >= 0,
         mirrored.offset = -band.offset, mirrored.reach = band.reach
  PROVE  /\ TouchesUpper(mirrored) <=> TouchesLower(band)
         /\ TouchesLower(mirrored) <=> TouchesUpper(band)
         /\ PercentBAbove(mirrored, 8) <=> PercentBBelow(band, 2)
         /\ PercentBBelow(mirrored, 2) <=> PercentBAbove(band, 8)
         /\ ~(PercentBAbove(band, 8) /\ PercentBBelow(band, 2))
<1> DEFINE q == SignedSquare(band.offset)
           r == band.reach
<1>1. q \in Int /\ SignedSquare(mirrored.offset) = -q
  BY SquareMirrors
<1>2. r \in Int /\ r >= 0 /\ mirrored.reach = r
  OBVIOUS
<1>3. SignedSquare(8 - 5) = 9 /\ SignedSquare(2 - 5) = -9
  BY DEF SignedSquare
<1>4. /\ TouchesUpper(mirrored) <=> -q >= r
      /\ TouchesLower(mirrored) <=> -q <= -r
      /\ PercentBAbove(mirrored, 8) <=> 25 * (-q) > 9 * r
      /\ PercentBBelow(mirrored, 2) <=> 25 * (-q) < (-9) * r
  BY <1>1, <1>2, <1>3 DEF TouchesUpper, TouchesLower, PercentBAbove, PercentBBelow
<1>5. /\ TouchesUpper(band) <=> q >= r
      /\ TouchesLower(band) <=> q <= -r
      /\ PercentBAbove(band, 8) <=> 25 * q > 9 * r
      /\ PercentBBelow(band, 2) <=> 25 * q < (-9) * r
  BY <1>3 DEF TouchesUpper, TouchesLower, PercentBAbove, PercentBBelow
<1> HIDE DEF q, r
<1> QED BY <1>1, <1>2, <1>4, <1>5

(* The band strategy answers with the opposite signal.                     *)
LEMMA ReversalMirrors ==
  ASSUME NEW cs \in Seq(Candle15M), NEW ms \in Seq(Candle15M), NEW top \in Int,
         FacingRows(cs, ms, top),
         LET recent == Closes(findLatestCandles(cs, ShortLimit))
         IN \E i, j \in 2..Len(recent) : recent[i] > recent[i - 1] /\ recent[j] < recent[j - 1]
  PROVE  executeBollingerBandsReversalStrategy(ms) =
           Opposite(executeBollingerBandsReversalStrategy(cs))
<1> DEFINE xs == Closes(findLatestCandles(cs, ShortLimit))
           ys == Closes(findLatestCandles(ms, ShortLimit))
           given(band, rsi) ==
             IF TouchesUpper(band) /\ RsiAbove(rsi, 70) THEN "STRONG_SELL"
             ELSE IF TouchesLower(band) /\ RsiBelow(rsi, 30) THEN "STRONG_BUY"
             ELSE IF PercentBAbove(band, 8) THEN "WEAK_SELL"
             ELSE IF PercentBBelow(band, 2) THEN "WEAK_BUY"
             ELSE "NEUTRAL"
           short(zs) == Len(zs) < BandPeriod \/ Len(zs) < RsiPeriod + 1
           b(zs) == Last(calculateBollingerBands(zs, BandPeriod, BandWidth))
           r(zs) == Last(calculateRSI(zs, RsiPeriod))
<1>1. xs \in Seq(Int) /\ ys \in Seq(Int) /\ Facing(xs, ys, top)
  <2>1. ShortLimit \in Nat
    BY StrategyAssumption
  <2> QED BY <2>1, LatestFaces
<1>2. /\ executeBollingerBandsReversalStrategy(cs) =
           IF short(xs) THEN Threw ELSE given(b(xs), r(xs))
      /\ executeBollingerBandsReversalStrategy(ms) =
           IF short(ys) THEN Threw ELSE given(b(ys), r(ys))
  BY DEF executeBollingerBandsReversalStrategy
<1>3. \E i, j \in 2..Len(xs) : xs[i] > xs[i - 1] /\ xs[j] < xs[j - 1]
  OBVIOUS
<1> HIDE DEF xs, ys
<1>4. Len(ys) = Len(xs) /\ Len(xs) \in Nat
  BY <1>1 DEF Facing
<1>5. CASE short(xs)
  BY <1>2, <1>4, <1>5 DEF Threw, Opposite
<1>6. CASE ~short(xs)
  <2>1. /\ BandPeriod \in Nat /\ BandPeriod >= 1 /\ BandWidth \in Nat /\ BandPeriod <= Len(xs)
        /\ RsiPeriod \in Nat /\ RsiPeriod >= 2 /\ RsiPeriod < Len(xs)
    BY <1>4, <1>6, PeriodTypes
  <2>2. PICK i, j \in 2..Len(xs) : xs[i] > xs[i - 1] /\ xs[j] < xs[j - 1]
    BY <1>3
  <2> DEFINE band == b(xs)
             mband == b(ys)
             rsi == r(xs)
             mrsi == r(ys)
  <2>3. /\ band.offset \in Int /\ band.reach \in Int /\ band.reach >= 0
        /\ mband.offset = -band.offset /\ mband.reach = band.reach
    BY <1>1, <2>1, FacingBand
  <2>4. /\ RsiAbove(mrsi, 70) <=> RsiBelow(rsi, 30)
        /\ RsiBelow(mrsi, 30) <=> RsiAbove(rsi, 70)
        /\ ~(RsiAbove(rsi, 70) /\ RsiBelow(rsi, 30))
    BY <1>1, <2>1, <2>2, FacingRsi
  <2> HIDE DEF band, mband, rsi, mrsi
  <2>5. /\ TouchesUpper(mband) <=> TouchesLower(band)
        /\ TouchesLower(mband) <=> TouchesUpper(band)
        /\ PercentBAbove(mband, 8) <=> PercentBBelow(band, 2)
        /\ PercentBBelow(mband, 2) <=> PercentBAbove(band, 8)
        /\ ~(PercentBAbove(band, 8) /\ PercentBBelow(band, 2))
    BY <2>3, BandMirrors
  <2>6. given(mband, mrsi) = Opposite(given(band, rsi))
    BY <2>4, <2>5 DEF Opposite
  <2>7. /\ executeBollingerBandsReversalStrategy(cs) = given(band, rsi)
        /\ executeBollingerBandsReversalStrategy(ms) = given(mband, mrsi)
    BY <1>2, <1>4, <1>6 DEF band, mband, rsi, mrsi
  <2> QED BY <2>6, <2>7
<1> QED BY <1>5, <1>6

-----------------------------------------------------------------------------
(* The volume of every candle, signed by the direction of its close, and   *)
(* the last figures over it.                                               *)
Direction(cs) ==
  [i \in 2..Len(cs) |->
     IF cs[i].close > cs[i - 1].close THEN cs[i].volume
     ELSE IF cs[i].close < cs[i - 1].close THEN -cs[i].volume
     ELSE 0]

LEMMA DirectionType ==
  ASSUME NEW cs \in Seq(Candle15M)
  PROVE  \A i \in 2..Len(cs) : /\ cs[i].close \in Int /\ cs[i - 1].close \in Int
                               /\ cs[i].volume \in Int /\ Direction(cs)[i] \in Int
<1> SUFFICES ASSUME NEW i \in 2..Len(cs)
             PROVE  /\ cs[i].close \in Int /\ cs[i - 1].close \in Int
                    /\ cs[i].volume \in Int /\ Direction(cs)[i] \in Int
  OBVIOUS
<1>1. cs[i] \in Candle15M /\ cs[i - 1] \in Candle15M
  OBVIOUS
<1>2. cs[i].close \in Int /\ cs[i - 1].close \in Int /\ cs[i].volume \in Int
  BY <1>1 DEF Candle15M
<1>3. Direction(cs)[i] = IF cs[i].close > cs[i - 1].close THEN cs[i].volume
                         ELSE IF cs[i].close < cs[i - 1].close THEN -cs[i].volume
                         ELSE 0
  BY DEF Direction
<1> QED BY <1>2, <1>3

LEMMA LastVolume ==
  ASSUME NEW cs \in Seq(Candle15M), NEW p \in Nat, p >= 1, p <= Len(cs)
  PROVE  LET n == Len(cs)
             from == IF p = 1 THEN 2 ELSE p
             last == Last(calculateVolumeAnalysis(cs, p))
         IN /\ last.num = cs[n].volume * p
            /\ last.den = SumOver(Volumes(cs), n - p + 1, n)
            /\ last.obv = SumOver(Direction(cs), from, n)
            /\ SumOver(Direction(cs), from, n) \in Int
            /\ SumOver(Volumes(cs), n - p + 1, n) \in Int
            /\ cs[n].volume \in Int
            /\ from \in 2..(n + 1)
<1> DEFINE n == Len(cs)
           m == n - p + 1
           from == IF p = 1 THEN 2 ELSE p
           vs == Volumes(cs)
           sums == calculateSMA(vs, p)
           all == calculateVolumeAnalysis(cs, p)
           ds == Direction(cs)
           E(k) == [num |-> cs[k + p - 1].volume * p, den |-> sums[k],
                    obv |-> SumOver(ds, from, k + p - 1)]
           R == {E(k) : k \in 1..m}
<1>1. /\ n \in Nat /\ m \in Nat /\ m \in 1..m /\ m + p - 1 = n /\ n \in 1..n
      /\ from \in 2..(n + 1) /\ from \in Int /\ from <= n + 1 /\ n \in Int
  OBVIOUS
<1>2. vs \in Seq(Int) /\ Len(vs) = n
  BY RowsType
<1>3. all = [k \in DOMAIN sums |-> E(k)]
  BY DEF calculateVolumeAnalysis, Direction
<1> HIDE DEF vs, ds
<1>4. /\ DOMAIN sums = 1..m
      /\ \A k \in 1..m : sums[k] = SumOver(vs, k, k + p - 1) /\ sums[k] \in Int
  <2>1. p <= Len(vs)
    BY <1>2
  <2>2. /\ DOMAIN sums = 1..(Len(vs) - p + 1)
        /\ \A k \in 1..(Len(vs) - p + 1) : sums[k] = SumOver(vs, k, k + p - 1) /\ sums[k] \in Int
    BY <1>2, <2>1, AveragesType
  <2> HIDE DEF sums
  <2> QED BY <1>2, <2>2
<1> HIDE DEF sums, all
<1>5. all = [k \in 1..m |-> E(k)]
  <2> HIDE DEF E
  <2> QED BY <1>3, <1>4
<1>6. Len(all) = m /\ all[m] = E(m)
  <2>1. \A k \in 1..m : E(k) \in R
    OBVIOUS
  <2> HIDE DEF E, m, R
  <2>2. all \in Seq(R)
    BY <1>1, <1>5, <2>1
  <2> QED BY <1>1, <1>5, <2>2
<1>7. Last(all) = E(m)
  <2> HIDE DEF E, m
  <2> QED BY <1>6 DEF Last
<1>8. /\ E(m).num = cs[m + p - 1].volume * p /\ E(m).den = sums[m]
      /\ E(m).obv = SumOver(ds, from, m + p - 1)
  OBVIOUS
<1>9. cs[n].volume \in Int
  BY <1>1, RowsType
<1>10. SumOver(ds, from, n) \in Int
  <2>1. \A i \in 2..n : ds[i] \in Int
    BY DirectionType DEF ds
  <2>2. \A i \in from..n : ds[i] \in Int
    BY <1>1, <2>1
  <2> HIDE DEF from, n
  <2> QED BY <1>1, <2>2, SumType
<1> HIDE DEF E, m, from
<1>11. /\ Last(all).num = cs[n].volume * p
       /\ Last(all).den = SumOver(vs, m, n) /\ SumOver(vs, m, n) \in Int
       /\ Last(all).obv = SumOver(ds, from, n)
  BY <1>1, <1>4, <1>7, <1>8
<1> QED BY <1>1, <1>9, <1>10, <1>11 DEF all, m, from, vs, ds

(* The on-balance volume changes its sign.                                 *)
LEMMA BalanceMirrors ==
  ASSUME NEW cs \in Seq(Candle15M), NEW ms \in Seq(Candle15M), NEW top \in Int,
         FacingRows(cs, ms, top), NEW p \in Nat, p >= 1, p <= Len(cs)
  PROVE  Last(calculateVolumeAnalysis(cs, p)).obv = -Last(calculateVolumeAnalysis(ms, p)).obv
<1> DEFINE n == Len(cs)
           from == IF p = 1 THEN 2 ELSE p
           ds == Direction(cs)
           es == Direction(ms)
           minus == -1
           none == 0
           one == Last(calculateVolumeAnalysis(cs, p)).obv
           other == Last(calculateVolumeAnalysis(ms, p)).obv
<1>1. Len(ms) = n /\ p <= Len(ms) /\ n \in Nat
  BY DEF FacingRows
<1>2. one = SumOver(ds, from, n) /\ SumOver(ds, from, n) \in Int /\ from \in 2..(n + 1)
  BY LastVolume
<1>3. other = SumOver(es, from, n)
  <2>1. other = SumOver(es, from, Len(ms))
    BY <1>1, LastVolume
  <2> HIDE DEF other, es, from
  <2> QED BY <1>1, <2>1
<1>4. ASSUME NEW i \in 2..n PROVE ds[i] \in Int /\ es[i] = minus * ds[i] + none
  <2>1. i \in 1..n /\ i - 1 \in 1..n /\ i \in 2..Len(ms)
    BY <1>1
  <2>2. /\ ms[i].close = top - cs[i].close /\ ms[i - 1].close = top - cs[i - 1].close
        /\ ms[i].volume = cs[i].volume
    BY <2>1 DEF FacingRows
  <2>3. cs[i].close \in Int /\ cs[i - 1].close \in Int /\ cs[i].volume \in Int /\ ds[i] \in Int
    BY DirectionType
  <2>4. ds[i] = IF cs[i].close > cs[i - 1].close THEN cs[i].volume
                ELSE IF cs[i].close < cs[i - 1].close THEN -cs[i].volume
                ELSE 0
    BY DEF Direction
  <2>5. es[i] = IF ms[i].close > ms[i - 1].close THEN ms[i].volume
                ELSE IF ms[i].close < ms[i - 1].close THEN -ms[i].volume
                ELSE 0
    BY <2>1 DEF Direction
  <2> DEFINE x == cs[i].close
             y == cs[i - 1].close
             v == cs[i].volume
  <2> HIDE DEF ds, es, x, y, v
  <2>6. ds[i] = IF x > y THEN v ELSE IF x < y THEN -v ELSE 0
    BY <2>4 DEF x, y, v
  <2>7. es[i] = IF top - x > top - y THEN v ELSE IF top - x < top - y THEN -v ELSE 0
    BY <2>2, <2>5 DEF x, y, v
  <2>8. x \in Int /\ y \in Int /\ v \in Int
    BY <2>3 DEF x, y, v
  <2>9. es[i] = -ds[i]
    BY <2>6, <2>7, <2>8
  <2>10. \A z \in Int : -z = (-1) * z + 0
    OBVIOUS
  <2> QED BY <2>3, <2>9, <2>10
<1>5. Stretched(es, minus, ds, none, from, n)
  <2> HIDE DEF from, es, ds, minus, none, n
  <2>1. \A i \in from..n : i \in 2..n
    BY <1>1, <1>2
  <2> QED BY <1>4, <2>1 DEF Stretched
<1>6. minus \in Int /\ none \in Int /\ from \in Int /\ from <= n + 1
  BY <1>1, <1>2
<1> HIDE DEF from, es, ds, minus, none, n, one, other
<1>7. SumOver(es, from, n) = minus * SumOver(ds, from, n) + none * (n - from + 1)
  BY <1>1, <1>5, <1>6, SumStretched
<1>8. \A z, w \in Int : z = -((-1) * z + 0 * w)
  OBVIOUS
<1>9. n - from + 1 \in Int
  BY <1>1, <1>6
<1> QED BY <1>2, <1>3, <1>7, <1>8, <1>9 DEF minus, none, one, other

(* All of it for a stored table.                                           *)
LEMMA MirrorHolds ==
  ASSUME TableInv
  PROVE  MirroredMarketMirrorsSignals
<1> DEFINE mirror == Mirrored(candles)
<1>1. candles \in Seq(Candle15M)
  BY StoredRows DEF TableInv
<1>2. PICK top \in Int : mirror \in Seq(Candle15M) /\ FacingRows(candles, mirror, top)
  BY MirrorFaces DEF TableInv
<1> DEFINE xs == Closes(findLatestCandles(candles, LongLimit))
           recent == Closes(findLatestCandles(candles, ShortLimit))
           macd == Last(calculateMACD(xs, FastPeriod, SlowPeriod, SignalPeriod))
<1> HIDE DEF mirror
<1>3. (Len(xs) >= LongPeriod => AverageGap(xs, ShortPeriod, LongPeriod, 0) # 0) =>
        executeMovingAverageCrossoverStrategy(mirror) =
          Opposite(executeMovingAverageCrossoverStrategy(candles))
  BY <1>1, <1>2, CrossoverMirrors
<1>4. (\E i, j \in 2..Len(recent) : recent[i] > recent[i - 1] /\ recent[j] < recent[j - 1]) =>
        executeBollingerBandsReversalStrategy(mirror) =
          Opposite(executeBollingerBandsReversalStrategy(candles))
  BY <1>1, <1>2, ReversalMirrors
<1>5. Len(candles) >= VolumePeriod =>
        Last(calculateVolumeAnalysis(candles, VolumePeriod)).obv =
          -Last(calculateVolumeAnalysis(mirror, VolumePeriod)).obv
  <2>1. VolumePeriod \in Nat /\ VolumePeriod >= 1 /\ Len(candles) \in Nat
    BY <1>1, PeriodTypes
  <2> QED BY <1>1, <1>2, <2>1, BalanceMirrors
<1>6. (Len(xs) >= SlowPeriod + SignalPeriod => macd.macdLine # macd.signalLine) =>
        executeMACDCrossoverStrategy(mirror) = Opposite(executeMACDCrossoverStrategy(candles))
  BY <1>1, <1>2, MacdMirrors
<1> QED BY <1>3, <1>4, <1>5, <1>6 DEF MirroredMarketMirrorsSignals, mirror

(* The crossover, band and MACD strategies judge buying and selling alike: *)
(* they answer the market reflected upside down with the opposite signal,  *)
(* but for the ties and the RSI without a fall that the property names.    *)
THEOREM MirrorsSignals == Spec => []MirroredMarketMirrorsSignals
BY TableAlways, MirrorHolds, PTL

-----------------------------------------------------------------------------
(* The figures of the report.                                              *)

LEMMA Division ==
  ASSUME NEW a \in Int, NEW b \in Int, b > 0
  PROVE  /\ a \div b \in Int
         /\ b * (a \div b) <= a /\ a < b * (a \div b) + b
OBVIOUS

(* Rounding down keeps whole bounds.                                       *)
LEMMA DivisionBounds ==
  ASSUME NEW a \in Int, NEW b \in Int, b > 0, NEW k \in Int
  PROVE  /\ a \div b \in Int
         /\ k * b <= a => k <= a \div b
         /\ a < (k + 1) * b => a \div b <= k
<1> DEFINE q == a \div b
<1>1. q \in Int /\ b * q <= a /\ a < b * q + b
  BY Division
<1> HIDE DEF q
<1>2. \A x \in Int : b * x < b => x <= 0
  <2> SUFFICES ASSUME NEW x \in Int, b * x < b PROVE x <= 0
    OBVIOUS
  <2>1. CASE x >= 1
    <3>1. b * x >= b
      BY <2>1
    <3> QED BY <3>1
  <2> QED BY <2>1
<1>3. b * (k - q) = k * b - b * q /\ b * (q - k) = b * q - k * b /\ (k + 1) * b = k * b + b
      /\ k * b \in Int /\ b * q \in Int /\ k - q \in Int /\ q - k \in Int
  BY <1>1
<1>4. k * b <= a => k <= q
  <2> SUFFICES ASSUME k * b <= a PROVE k <= q
    OBVIOUS
  <2>1. b * (k - q) < b
    BY <1>1, <1>3
  <2>2. k - q <= 0
    BY <1>2, <1>3, <2>1
  <2> QED BY <1>1, <2>2
<1>5. a < (k + 1) * b => q <= k
  <2> SUFFICES ASSUME a < (k + 1) * b PROVE q <= k
    OBVIOUS
  <2>1. b * (q - k) < b
    BY <1>1, <1>3
  <2>2. q - k <= 0
    BY <1>2, <1>3, <2>1
  <2> QED BY <1>1, <2>2
<1> QED BY <1>1, <1>4, <1>5 DEF q

(* A figure is the rounded quotient, in hundredths.                        *)
Rounded(v) == (200 * v.num + v.den) \div (2 * v.den)

(* A figure stays on its side of every whole number of hundredths.         *)
LEMMA FigureIs ==
  ASSUME NEW v, v.num \in Int, v.den \in Int, v.den > 0
  PROVE  /\ Figure(v) = IF v.num = 0 THEN {} ELSE {Rounded(v)}
         /\ Rounded(v) \in Int
         /\ \A k \in Int : /\ k * v.den <= 100 * v.num => k <= Rounded(v)
                           /\ 100 * v.num <= k * v.den => Rounded(v) <= k
<1> DEFINE n == v.num
           d == v.den
           a == 200 * n + d
           b == 2 * d
<1>1. a \in Int /\ b \in Int /\ b > 0 /\ n \in Int /\ d \in Int /\ d > 0
  OBVIOUS
<1>2. Figure(v) = IF n = 0 THEN {} ELSE {Rounded(v)}
  BY <1>1 DEF Figure, Missing, Rounded
<1>3. Rounded(v) = a \div b
  BY DEF Rounded
<1> HIDE DEF a, b
<1>4. Rounded(v) \in Int
  BY <1>1, <1>3, DivisionBounds
<1>5. ASSUME NEW k \in Int PROVE /\ k * d <= 100 * n => k <= Rounded(v)
                                 /\ 100 * n <= k * d => Rounded(v) <= k
  <2>1. k * b <= a => k <= Rounded(v)
    BY <1>1, <1>3, DivisionBounds
  <2>2. a < (k + 1) * b => Rounded(v) <= k
    BY <1>1, <1>3, DivisionBounds
  <2>3. k * b = 2 * (k * d) /\ (k + 1) * b = 2 * (k * d) + 2 * d /\ k * d \in Int
        /\ a = 2 * (100 * n) + d
    <3>1. k * d \in Int /\ a = 2 * (100 * n) + d
      BY <1>1 DEF a
    <3>2. k * b = 2 * (k * d)
      BY <1>1 DEF b
    <3>3. (k + 1) * b = k * b + b /\ b = 2 * d
      BY <1>1 DEF b
    <3> QED BY <3>1, <3>2, <3>3
  <2>4. k * d <= 100 * n => k * b <= a
    BY <1>1, <2>3
  <2>5. 100 * n <= k * d => a < (k + 1) * b
    BY <1>1, <2>3
  <2> QED BY <2>1, <2>2, <2>4, <2>5
<1> QED BY <1>2, <1>4, <1>5

(* What || makes of a figure.                                              *)
LEMMA OrElseIs ==
  /\ \A default : OrElse({}, default) = default
  /\ \A x, default : OrElse({x}, default) = IF x = 0 THEN default ELSE x
BY DEF OrElse

(* The RSI the report reads is on its side of 70 and 30.                   *)
LEMMA RsiIsCalled ==
  ASSUME NEW rsi, rsi.num \in Int, rsi.num >= 0, rsi.den \in Int, rsi.den > 0
  PROVE  LET figure == OrElse(Figure(rsi), 5000)
         IN /\ figure \in Int
            /\ ~RsiBelow(rsi, 70) => figure >= 7000
            /\ ~RsiAbove(rsi, 30) =>
                 IF Figure(rsi) \subseteq {0} THEN figure = 5000 ELSE figure <= 3000
<1> DEFINE r == Rounded(rsi)
           n == rsi.num
           d == rsi.den
<1>1. /\ Figure(rsi) = IF n = 0 THEN {} ELSE {r}
      /\ r \in Int
      /\ \A k \in Int : /\ k * d <= 100 * n => k <= r
                        /\ 100 * n <= k * d => r <= k
  BY FigureIs
<1>2. /\ ~RsiBelow(rsi, 70) <=> ~(10 * n < 700 * d)
      /\ ~RsiAbove(rsi, 30) <=> ~(10 * n > 300 * d)
  BY DEF RsiBelow, RsiAbove, IsBelow, IsAbove
<1>3. n \in Int /\ n >= 0 /\ d \in Int /\ d > 0
  OBVIOUS
<1> HIDE DEF r, n, d
<1>4. ~RsiBelow(rsi, 70) => r >= 7000 /\ n # 0
  <2> SUFFICES ASSUME ~RsiBelow(rsi, 70) PROVE r >= 7000 /\ n # 0
    OBVIOUS
  <2>1. 7000 * d <= 100 * n /\ n # 0
    BY <1>2, <1>3
  <2>2. 7000 \in Int
    OBVIOUS
  <2>3. 7000 <= r
    BY <1>1, <2>1, <2>2
  <2> QED BY <1>1, <2>1, <2>3
<1>5. ~RsiAbove(rsi, 30) => r <= 3000
  <2> SUFFICES ASSUME ~RsiAbove(rsi, 30) PROVE r <= 3000
    OBVIOUS
  <2>1. 100 * n <= 3000 * d
    BY <1>2, <1>3
  <2>2. 3000 \in Int
    OBVIOUS
  <2> QED BY <1>1, <2>1, <2>2
<1> DEFINE figure == OrElse(Figure(rsi), 5000)
<1>6. figure = IF n = 0 \/ r = 0 THEN 5000 ELSE r
  <2>1. CASE n = 0
    <3>1. Figure(rsi) = {}
      BY <1>1, <2>1
    <3> QED BY <2>1, <3>1, OrElseIs
  <2>2. CASE n # 0
    <3>1. Figure(rsi) = {r}
      BY <1>1, <2>2
    <3>2. figure = IF r = 0 THEN 5000 ELSE r
      BY <3>1, OrElseIs
    <3> QED BY <2>2, <3>2
  <2> QED BY <2>1, <2>2
<1>7. Figure(rsi) \subseteq {0} <=> n = 0 \/ r = 0
  BY <1>1
<1> HIDE DEF figure
<1>8. /\ figure \in Int
      /\ ~RsiBelow(rsi, 70) => figure >= 7000
      /\ ~RsiAbove(rsi, 30) =>
           IF Figure(rsi) \subseteq {0} THEN figure = 5000 ELSE figure <= 3000
  BY <1>1, <1>4, <1>5, <1>6, <1>7
<1> QED BY <1>8 DEF figure

(* A volume of twice the average is read as one.                           *)
LEMMA SurgeIsCalled ==
  ASSUME NEW n \in Nat, NEW d \in Nat, NEW ratio, ratio = [num |-> n, den |-> d],
         AtLeast(ratio, 20)
  PROVE  OrElse(Figure(ratio), 0) >= 2 * OrElse({100}, 100)
<1> DEFINE r == Rounded(ratio)
<1>1. ratio.num = n /\ ratio.den = d
  OBVIOUS
<1>2. d > 0 /\ 10 * n >= 20 * d
  BY <1>1 DEF AtLeast, IsBelow
<1>3. /\ Figure(ratio) = IF n = 0 THEN {} ELSE {r}
      /\ r \in Int
      /\ \A k \in Int : k * d <= 100 * n => k <= r
  BY <1>1, <1>2, FigureIs
<1> HIDE DEF r
<1>4. 200 * d <= 100 * n /\ n # 0 /\ 200 \in Int
  BY <1>2
<1>5. 200 <= r
  BY <1>3, <1>4
<1>6. OrElse({100}, 100) = 100
  BY OrElseIs
<1>7. OrElse(Figure(ratio), 0) = r
  BY <1>3, <1>4, <1>5, OrElseIs
<1> QED BY <1>3, <1>5, <1>6, <1>7

(* A price that is read as greater than the average is greater.            *)
LEMMA PriceIsCalled ==
  ASSUME NEW price \in Int, NEW average \in Int, NEW p \in Int, p > 0,
         NEW of, of = [num |-> price, den |-> 1],
         NEW long, long = [num |-> average, den |-> p],
         LET figure == OrElse(Figure(of), 0)
         IN figure > OrElse(Figure(long), figure)
  PROVE  p * price > average
<1> DEFINE c == Rounded(of)
           m == Rounded(long)
           figure == OrElse(Figure(of), 0)
<1>1. of.num = price /\ of.den = 1 /\ long.num = average /\ long.den = p
  OBVIOUS
<1>2. /\ Figure(of) = IF price = 0 THEN {} ELSE {c}
      /\ c \in Int
      /\ \A k \in Int : 100 * price <= k * 1 => c <= k
  <2>1. of.num \in Int /\ of.den \in Int /\ of.den > 0
    BY <1>1
  <2>2. /\ Figure(of) = IF of.num = 0 THEN {} ELSE {c}
        /\ c \in Int
        /\ \A k \in Int : 100 * of.num <= k * of.den => c <= k
    BY <2>1, FigureIs
  <2> HIDE DEF c
  <2> QED BY <1>1, <2>2
<1>3. /\ Figure(long) = IF average = 0 THEN {} ELSE {m}
      /\ m \in Int
      /\ \A k \in Int : k * p <= 100 * average => k <= m
  BY <1>1, FigureIs
<1>4. figure > OrElse(Figure(long), figure)
  OBVIOUS
<1> HIDE DEF c, m
<1>5. figure = IF price = 0 \/ c = 0 THEN 0 ELSE c
  BY <1>2, OrElseIs
<1>6. OrElse(Figure(long), figure) = IF average = 0 \/ m = 0 THEN figure ELSE m
  BY <1>3, OrElseIs
<1> HIDE DEF figure
<1>7. figure \in Int
  BY <1>2, <1>5
<1>8. average # 0 /\ m # 0 /\ figure > m
  BY <1>4, <1>6, <1>7
<1>9. c <= 100 * price
  <2>1. 100 * price \in Int /\ 100 * price <= (100 * price) * 1
    OBVIOUS
  <2> QED BY <1>2, <2>1
<1> SUFFICES ASSUME ~(p * price > average) PROVE FALSE
  OBVIOUS
<1>10. (100 * price) * p <= 100 * average
  <2>1. p * price \in Int /\ p * price <= average
    OBVIOUS
  <2>2. (100 * price) * p = 100 * (p * price)
    OBVIOUS
  <2> QED BY <2>1, <2>2
<1>11. 100 * price <= m
  <2>1. 100 * price \in Int
    OBVIOUS
  <2> QED BY <1>3, <1>10, <2>1
<1>12. CASE price = 0 \/ c = 0
  <2>1. figure = 0
    BY <1>5, <1>12
  <2>2. m < 0
    BY <1>3, <1>8, <2>1
  <2>3. CASE price = 0
    BY <1>3, <1>11, <2>2, <2>3
  <2>4. CASE c = 0
    BY <1>2, <1>3, <1>9, <1>11, <2>2, <2>4
  <2> QED BY <1>12, <2>3, <2>4
<1>13. CASE ~(price = 0 \/ c = 0)
  <2>1. figure = c
    BY <1>5, <1>13
  <2> QED BY <1>2, <1>3, <1>8, <1>9, <1>11, <2>1
<1> QED BY <1>12, <1>13

(* An RSI has a positive denominator.                                      *)
LEMMA RsiIsRatio ==
  ASSUME NEW g \in Nat, NEW l \in Nat
  PROVE  LET rsi == RelativeStrength(g, l)
         IN rsi.num \in Int /\ rsi.num >= 0 /\ rsi.den \in Int /\ rsi.den > 0
BY DEF RelativeStrength

(* The judgements as functions of the figures.                             *)
LEMMA ReportIs ==
  ASSUME NEW result, NEW summary
  PROVE  LET report == Report(result, summary)
             price == OrElse(Figure(summary.price), 0)
             rsi == OrElse(Figure(summary.rsi), 5000)
         IN /\ report.rsiStatus = RsiStatus(rsi)
            /\ rsi >= 7000 => report.shortTerm = "overbought"
            /\ OrElse(Figure(summary.volumeRatio), 0) >= 2 * OrElse({100}, 100) =>
                 report.volume = "surge"
            /\ report.longTerm = "above" => price > OrElse(Figure(summary.ma200), price)
<1> DEFINE analysis == performComprehensiveAnalysis(result, summary)
           sent == sendTelegramNotification(analysis)
           price == OrElse(Figure(summary.price), 0)
           rsi == OrElse(Figure(summary.rsi), 5000)
<1>1. /\ sent.price = Figure(summary.price) /\ sent.SMA200 = Figure(summary.ma200)
      /\ sent.RSI = Figure(summary.rsi) /\ sent.Volume = Figure(summary.volumeRatio)
      /\ sent.AvgVolume = {100}
  BY DEF performComprehensiveAnalysis, sendTelegramNotification
<1>2. Report(result, summary) = sendObjectiveAnalysisResult(sent)
  BY DEF Report
<1> HIDE DEF analysis, sent
<1> DEFINE report == sendObjectiveAnalysisResult(sent)
<1>3. /\ report.rsiStatus = RsiStatus(OrElse(sent.RSI, 5000))
      /\ OrElse(sent.RSI, 5000) >= 7000 => report.shortTerm = "overbought"
      /\ OrElse(sent.Volume, 0) >= 2 * OrElse(sent.AvgVolume, 100) => report.volume = "surge"
      /\ report.longTerm = "above" =>
           OrElse(sent.price, 0) > OrElse(sent.SMA200, OrElse(sent.price, 0))
  BY DEF sendObjectiveAnalysisResult
<1> HIDE DEF report
<1> QED BY <1>1, <1>2, <1>3 DEF report

(* The figures and flags of the summary.                                   *)
LEMMA SummaryIs ==
  ASSUME NEW table \in Seq(Stored), CanSummarise(table)
  PROVE  LET summary == getIndicatorSummary(table)
         IN \E price, average \in Int, g, l \in Nat, num, den \in Nat :
              /\ summary.price = [num |-> price, den |-> 1]
              /\ summary.ma200 = [num |-> average, den |-> SummaryPeriod]
              /\ summary.above200MA <=> SummaryPeriod * price > average
              /\ summary.rsi = RelativeStrength(g, l)
              /\ summary.isOverbought <=> ~RsiBelow(summary.rsi, 70)
              /\ summary.isOversold <=> ~RsiAbove(summary.rsi, 30)
              /\ summary.volumeRatio = [num |-> num, den |-> den]
              /\ summary.isSurge <=> AtLeast([num |-> num, den |-> den], 20)
<1> DEFINE t == findLatestCandles(table, SummaryLimit)
           n == Len(t)
           xs == Closes(t)
           vs == Volumes(t)
           p == VolumePeriod
           price == Last(xs)
           average == Last(calculateSMA(xs, SummaryPeriod))
           g == Gain(xs, RsiPeriod)
           l == Loss(xs, RsiPeriod)
           volume == Last(calculateVolumeAnalysis(t, VolumePeriod))
           summary == getIndicatorSummary(table)
<1>1. /\ SummaryLimit \in Nat /\ SummaryPeriod \in Nat /\ SummaryPeriod >= 1
      /\ RsiPeriod \in Nat /\ RsiPeriod >= 1 /\ RsiPeriod < SummaryPeriod
      /\ p \in Nat /\ p >= 1 /\ p <= SummaryPeriod
  BY PeriodTypes, ReportAssumption
<1>2. t \in Seq(Stored) /\ n \in Nat /\ n >= SummaryPeriod
  <2>1. t \in Seq(Stored)
    BY <1>1, LatestRows
  <2>2. n >= SummaryPeriod
    BY DEF CanSummarise
  <2> HIDE DEF t
  <2> QED BY <2>1, <2>2
<1>3. /\ summary.price = [num |-> price, den |-> 1]
      /\ summary.ma200 = [num |-> average, den |-> SummaryPeriod]
      /\ summary.above200MA = (SummaryPeriod * price > average)
      /\ summary.rsi = Last(calculateRSI(xs, RsiPeriod))
      /\ summary.isOverbought = ~RsiBelow(summary.rsi, 70)
      /\ summary.isOversold = ~RsiAbove(summary.rsi, 30)
      /\ summary.volumeRatio = [num |-> volume.num, den |-> volume.den]
      /\ summary.isSurge = AtLeast(volume, 20)
  BY DEF getIndicatorSummary
<1> HIDE DEF t, summary
<1>4. /\ xs \in Seq(Int) /\ Len(xs) = n /\ vs \in Seq(Int) /\ Len(vs) = n
      /\ \A i \in 1..n : vs[i] = t[i].volume /\ vs[i] \in Int /\ t[i] \in Stored
  BY <1>2, ClosesType
<1>5. \A i \in 1..n : vs[i] \in Int /\ 0 <= vs[i]
  BY <1>4, StoredType
<1> HIDE DEF xs, vs
<1>6. price \in Int
  <2>1. n \in 1..Len(xs)
    BY <1>1, <1>2, <1>4
  <2> QED BY <1>4, <2>1 DEF Last
<1>7. average \in Int
  <2> DEFINE sums == calculateSMA(xs, SummaryPeriod)
             m == Len(xs) - SummaryPeriod + 1
  <2>1. /\ Len(sums) = m /\ \A k \in 1..m : sums[k] \in Int
        /\ m \in 1..m
    <3>1. SummaryPeriod <= Len(xs) /\ m \in 1..m
      BY <1>1, <1>2, <1>4
    <3> QED BY <1>1, <1>4, <3>1, AveragesType
  <2> HIDE DEF sums, m
  <2>2. Last(sums) \in Int
    BY <2>1 DEF Last
  <2> QED BY <2>2 DEF sums
<1>8. summary.rsi = RelativeStrength(g, l) /\ g \in Nat /\ l \in Nat
  <2>1. RsiPeriod < Len(xs)
    BY <1>1, <1>2, <1>4
  <2> QED BY <1>1, <1>3, <1>4, <2>1, LastRsi
<1>9. volume.num \in Int /\ volume.num >= 0 /\ volume.den \in Int /\ volume.den >= 0
  <2>1. p <= Len(t) /\ n - p + 1 \in Int /\ n - p + 1 <= n + 1 /\ n \in 1..n
        /\ \A i \in (n - p + 1)..n : i \in 1..n
    BY <1>1, <1>2
  <2>2. t \in Seq(Candle15M)
    BY <1>2, StoredRows
  <2>3. /\ volume.num = t[n].volume * p /\ volume.den = SumOver(vs, n - p + 1, n)
        /\ SumOver(vs, n - p + 1, n) \in Int
    BY <1>1, <2>1, <2>2, LastVolume DEF vs
  <2>4. \A i \in (n - p + 1)..n : vs[i] \in Int /\ 0 <= vs[i]
    BY <1>5, <2>1
  <2>5. 0 <= SumOver(vs, n - p + 1, n)
    <3> HIDE DEF n, p
    <3> QED BY <1>2, <2>1, <2>4, SumOfNone
  <2>6. t[n].volume \in Int /\ 0 <= t[n].volume
    BY <1>4, <1>5, <2>1
  <2>7. \A x \in Int : 0 <= x => x * p \in Int /\ x * p >= 0
    BY <1>1
  <2> HIDE DEF volume, n
  <2> QED BY <2>3, <2>5, <2>6, <2>7
<1> DEFINE num == volume.num
           den == volume.den
<1>10. AtLeast(volume, 20) <=> AtLeast([num |-> num, den |-> den], 20)
  <2> HIDE DEF volume
  <2> QED BY DEF AtLeast, IsBelow
<1>11. num \in Nat /\ den \in Nat
  BY <1>9
<1>12. /\ summary.volumeRatio = [num |-> num, den |-> den]
       /\ summary.isSurge <=> AtLeast([num |-> num, den |-> den], 20)
  BY <1>3, <1>10
<1> HIDE DEF price, average, g, l, volume, num, den
<1> QED BY <1>3, <1>6, <1>7, <1>8, <1>11, <1>12 DEF summary

(* From the summary's figures to the report's words.                       *)
LEMMA ReportHolds ==
  ASSUME TableInv
  PROVE  ReportAgreesWithTheSummary
<1> SUFFICES ASSUME CanSummarise(candles)
             PROVE  Agrees(getIndicatorSummary(candles),
                           Report(analyzeSymbol(candles), getIndicatorSummary(candles)))
  BY DEF ReportAgreesWithTheSummary
<1> DEFINE summary == getIndicatorSummary(candles)
           report == Report(analyzeSymbol(candles), summary)
           rsi == OrElse(Figure(summary.rsi), 5000)
<1>1. PICK price, average \in Int, g, l \in Nat, num, den \in Nat :
              /\ summary.price = [num |-> price, den |-> 1]
              /\ summary.ma200 = [num |-> average, den |-> SummaryPeriod]
              /\ summary.above200MA <=> SummaryPeriod * price > average
              /\ summary.rsi = RelativeStrength(g, l)
              /\ summary.isOverbought <=> ~RsiBelow(summary.rsi, 70)
              /\ summary.isOversold <=> ~RsiAbove(summary.rsi, 30)
              /\ summary.volumeRatio = [num |-> num, den |-> den]
              /\ summary.isSurge <=> AtLeast([num |-> num, den |-> den], 20)
  BY SummaryIs DEF TableInv
<1>2. LET figure == OrElse(Figure(summary.price), 0)
      IN /\ report.rsiStatus = RsiStatus(rsi)
         /\ rsi >= 7000 => report.shortTerm = "overbought"
         /\ OrElse(Figure(summary.volumeRatio), 0) >= 2 * OrElse({100}, 100) =>
              report.volume = "surge"
         /\ report.longTerm = "above" => figure > OrElse(Figure(summary.ma200), figure)
  BY ReportIs
<1> HIDE DEF summary, report
<1>3. /\ rsi \in Int
      /\ summary.isOverbought => rsi >= 7000
      /\ summary.isOversold =>
           IF Figure(summary.rsi) \subseteq {0} THEN rsi = 5000 ELSE rsi <= 3000
  <2>1. /\ summary.rsi.num \in Int /\ summary.rsi.num >= 0
        /\ summary.rsi.den \in Int /\ summary.rsi.den > 0
    BY <1>1, RsiIsRatio
  <2> QED BY <1>1, <2>1, RsiIsCalled
<1>4. summary.isSurge => report.volume = "surge"
  BY <1>1, <1>2, SurgeIsCalled
<1>5. report.longTerm = "above" => summary.above200MA
  <2> SUFFICES ASSUME report.longTerm = "above" PROVE SummaryPeriod * price > average
    BY <1>1
  <2>1. SummaryPeriod \in Int /\ SummaryPeriod > 0
    BY PeriodTypes, ReportAssumption
  <2>2. LET figure == OrElse(Figure(summary.price), 0)
        IN figure > OrElse(Figure(summary.ma200), figure)
    BY <1>2
  <2> QED BY <1>1, <2>1, <2>2, PriceIsCalled
<1> HIDE DEF rsi
<1>6. summary.isOverbought => report.rsiStatus = "overbought" /\ report.shortTerm = "overbought"
  BY <1>2, <1>3 DEF RsiStatus
<1>7. summary.isOversold =>
        report.rsiStatus = IF Figure(summary.rsi) \subseteq {0} THEN "neutral" ELSE "oversold"
  BY <1>2, <1>3 DEF RsiStatus
<1>8. Agrees(summary, report)
  BY <1>4, <1>5, <1>6, <1>7 DEF Agrees
<1> QED BY <1>8 DEF summary, report

(* Two roundings, three || and four hand-overs after getIndicatorSummary,  *)
(* the words of sendObjectiveAnalysisResult agree with the summary's flags *)
(* for overbought, oversold, a volume surge and a price above its long     *)
(* average.                                                                *)
THEOREM ReportAgrees == Spec => []ReportAgreesWithTheSummary
BY TableAlways, ReportHolds, PTL

-----------------------------------------------------------------------------
(* The list of results.                                                    *)

(* The result of strategy n, and the list made by adding the results that  *)
(* were not thrown.                                                        *)
Result(signals, n) == [strategy |-> StrategyTypes[n], signal |-> signals[n]]

Listing(f, signals, m) ==
  f = [n \in 0..m |-> IF n = 0 THEN << >>
                      ELSE IF signals[n] = Threw THEN f[n - 1]
                      ELSE Append(f[n - 1], Result(signals, n))]

LEMMA ListingExists == ASSUME NEW signals, NEW m \in Nat PROVE \E f : Listing(f, signals, m)
<1> DEFINE S == {n \in Nat : \E f : Listing(f, signals, n)}
           listed(old, n) == IF signals[n] = Threw THEN old ELSE Append(old, Result(signals, n))
<1>1. 0 \in S
  <2> DEFINE f == [n \in 0..0 |-> << >>]
  <2>1. Listing(f, signals, 0)
    BY DEF Listing
  <2> QED BY <2>1
<1>2. ASSUME NEW n \in Nat, n \in S PROVE n + 1 \in S
  <2>1. PICK f : Listing(f, signals, n)
    BY <1>2
  <2> DEFINE g == [k \in 0..(n + 1) |-> IF k = n + 1 THEN listed(f[n], k) ELSE f[k]]
  <2>2. ASSUME NEW k \in 0..(n + 1)
        PROVE  g[k] = IF k = 0 THEN << >> ELSE listed(g[k - 1], k)
    <3>1. CASE k = n + 1
      <4>1. k - 1 = n /\ k # 0 /\ n \in 0..(n + 1) /\ n # n + 1
        BY <3>1
      <4>2. g[k] = listed(f[n], k) /\ g[k - 1] = f[n]
        <5> HIDE DEF listed
        <5> QED BY <3>1, <4>1
      <4> HIDE DEF listed, g
      <4> QED BY <4>1, <4>2
    <3>2. CASE k \in 0..n /\ k # 0
      <4>1. k - 1 \in 0..(n + 1) /\ k # n + 1 /\ k - 1 # n + 1
        BY <3>2
      <4>2. f[k] = listed(f[k - 1], k)
        BY <2>1, <3>2 DEF Listing
      <4>3. g[k] = f[k] /\ g[k - 1] = f[k - 1]
        <5> HIDE DEF listed
        <5> QED BY <4>1
      <4> HIDE DEF listed, g
      <4> QED BY <3>2, <4>2, <4>3
    <3>3. CASE k = 0
      <4>1. k # n + 1 /\ k \in 0..n
        BY <3>3
      <4>2. f[k] = << >>
        BY <2>1, <3>3, <4>1 DEF Listing
      <4>3. g[k] = f[k]
        <5> HIDE DEF listed
        <5> QED BY <4>1
      <4> HIDE DEF listed, g
      <4> QED BY <3>3, <4>2, <4>3
    <3> QED BY <3>1, <3>2, <3>3
  <2>3. g = [k \in 0..(n + 1) |-> IF k = 0 THEN << >> ELSE listed(g[k - 1], k)]
    <3>1. DOMAIN g = 0..(n + 1) /\ g = [k \in 0..(n + 1) |-> g[k]]
      <4> HIDE DEF listed
      <4> QED OBVIOUS
    <3> HIDE DEF listed, g
    <3> QED BY <2>2, <3>1
  <2>4. Listing(g, signals, n + 1)
    <3> HIDE DEF g
    <3> QED BY <2>3 DEF Listing
  <2> HIDE DEF g
  <2>5. \E h : Listing(h, signals, n + 1)
    BY <2>4
  <2> QED BY <2>5
<1>3. m \in S
  <2> HIDE DEF S
  <2>1. \A k \in 0..(m - 1) : k \in S => k + 1 \in S
    BY <1>2
  <2>2. \A k \in 0..m : k \in S
    BY <1>1, <2>1, Counting
  <2> QED BY <2>2
<1> QED BY <1>3

(* AllResults is such a list.                                              *)
LEMMA ListingIs ==
  ASSUME NEW signals, Len(signals) \in Nat
  PROVE  \E f : Listing(f, signals, Len(signals)) /\ AllResults(signals) = f[Len(signals)]
<1> DEFINE m == Len(signals)
           f == CHOOSE upTo : upTo =
                  [n \in 0..m |-> IF n = 0 THEN << >>
                                  ELSE IF signals[n] = Threw THEN upTo[n - 1]
                                  ELSE Append(upTo[n - 1],
                                              [strategy |-> StrategyTypes[n], signal |-> signals[n]])]
<1>1. Listing(f, signals, m)
  BY ListingExists DEF Listing, Result
<1>2. AllResults(signals) = f[m]
  BY DEF AllResults
<1> HIDE DEF f
<1> QED BY <1>1, <1>2

(* Every entry is the result of some strategy, and every strategy that did *)
(* not throw has an entry.                                                 *)
LEMMA ResultsOfAll ==
  ASSUME NEW signals, Len(signals) \in Nat
  PROVE  LET results == AllResults(signals)
         IN /\ Len(results) \in Nat /\ DOMAIN results = 1..Len(results)
            /\ \A k \in 1..Len(results) :
                 \E j \in 1..Len(signals) : results[k] = Result(signals, j)
            /\ \A j \in 1..Len(signals) :
                 signals[j] # Threw => \E k \in 1..Len(results) : results[k] = Result(signals, j)
<1> DEFINE m == Len(signals)
           R == {Result(signals, j) : j \in 1..m}
<1>1. PICK f : Listing(f, signals, m) /\ AllResults(signals) = f[m]
  BY ListingIs
<1>2. /\ f[0] = << >>
      /\ \A n \in 1..m : f[n] = IF signals[n] = Threw THEN f[n - 1]
                                ELSE Append(f[n - 1], Result(signals, n))
  <2>1. 0 \in 0..m /\ \A n \in 1..m : n \in 0..m /\ n # 0
    OBVIOUS
  <2> QED BY <1>1, <2>1 DEF Listing
<1> DEFINE Has(n) == \A j \in 1..n : signals[j] # Threw =>
                       \E k \in 1..Len(f[n]) : f[n][k] = Result(signals, j)
           S == {n \in 0..m : f[n] \in Seq(R) /\ Has(n)}
<1> HIDE DEF R
<1>3. 0 \in S
  <2>1. f[0] \in Seq(R)
    BY <1>2
  <2>2. \A j \in 1..0 : FALSE
    OBVIOUS
  <2> QED BY <2>1, <2>2
<1>4. ASSUME NEW n \in 0..(m - 1), n \in S PROVE n + 1 \in S
  <2> DEFINE old == f[n]
             new == f[n + 1]
             r == Result(signals, n + 1)
  <2>1. /\ n + 1 \in 1..m /\ n + 1 \in 0..m /\ (n + 1) - 1 = n
        /\ \A j \in 1..(n + 1) : j \in 1..n \/ j = n + 1
    OBVIOUS
  <2>2. new = IF signals[n + 1] = Threw THEN old ELSE Append(old, r)
    BY <1>2, <2>1
  <2>3. old \in Seq(R)
    BY <1>4
  <2>4. \A j \in 1..n : signals[j] # Threw =>
          \E k \in 1..Len(old) : old[k] = Result(signals, j)
    BY <1>4
  <2>5. r \in R
    BY <2>1 DEF R
  <2> HIDE DEF old, new, r
  <2>6. CASE signals[n + 1] = Threw
    <3>1. new = old
      BY <2>2, <2>6
    <3>2. \A j \in 1..(n + 1) : signals[j] # Threw =>
            \E k \in 1..Len(new) : new[k] = Result(signals, j)
      BY <2>1, <2>4, <2>6, <3>1
    <3> QED BY <2>1, <2>3, <3>1, <3>2 DEF new
  <2>7. CASE signals[n + 1] # Threw
    <3>1. new = Append(old, r)
      BY <2>2, <2>7
    <3>2. /\ new \in Seq(R) /\ Len(new) = Len(old) + 1 /\ Len(old) \in Nat
          /\ new[Len(old) + 1] = r /\ \A k \in 1..Len(old) : new[k] = old[k]
      BY <2>3, <2>5, <3>1
    <3>3. ASSUME NEW j \in 1..(n + 1), signals[j] # Threw
          PROVE  \E k \in 1..Len(new) : new[k] = Result(signals, j)
      <4>1. CASE j = n + 1
        <5>1. Len(old) + 1 \in 1..Len(new) /\ new[Len(old) + 1] = Result(signals, j)
          BY <3>2, <4>1 DEF r
        <5> QED BY <5>1
      <4>2. CASE j \in 1..n
        <5>1. PICK k \in 1..Len(old) : old[k] = Result(signals, j)
          BY <2>4, <3>3, <4>2
        <5>2. k \in 1..Len(new) /\ new[k] = Result(signals, j)
          BY <3>2, <5>1
        <5> QED BY <5>2
      <4> QED BY <2>1, <4>1, <4>2
    <3> QED BY <2>1, <3>2, <3>3 DEF new
  <2> HIDE DEF S
  <2> QED BY <2>6, <2>7
<1>5. \A n \in 0..m : n \in S
  <2> HIDE DEF S, m
  <2>1. m \in Nat
    BY DEF m
  <2> QED BY <1>3, <1>4, <2>1, Counting
<1>6. f[m] \in Seq(R) /\ Has(m)
  <2>1. m \in 0..m
    OBVIOUS
  <2> HIDE DEF Has, m
  <2> QED BY <1>5, <2>1
<1> DEFINE results == f[m]
<1>7. /\ Len(results) \in Nat /\ DOMAIN results = 1..Len(results)
      /\ \A k \in 1..Len(results) : results[k] \in R
  BY <1>6
<1>8. \A j \in 1..m : signals[j] # Threw => \E k \in 1..Len(results) : results[k] = Result(signals, j)
  BY <1>6
<1>9. AllResults(signals) = results
  BY <1>1
<1> HIDE DEF results, m
<1>10. \A k \in 1..Len(results) : \E j \in 1..m : results[k] = Result(signals, j)
  BY <1>7 DEF R
<1> QED BY <1>7, <1>8, <1>9, <1>10 DEF m

(* find gives the first of the matching results.                           *)
LEMMA FirstOf ==
  ASSUME NEW S, S \subseteq Nat, NEW k \in S
  PROVE  Min(S) \in S
<1>1. IsWellFoundedOn(Less, Nat)
  BY NatLessThanWellFounded DEF Less
<1>2. PICK x \in S : \A y \in S : ~(<<y, x>> \in Less)
  BY <1>1, WFMin
<1>3. \A y \in S : x <= y
  <2> SUFFICES ASSUME NEW y \in S PROVE x <= y
    OBVIOUS
  <2>1. ~(<<y, x>> \in Less) /\ x \in Nat /\ y \in Nat
    BY <1>2
  <2>2. ~(y < x)
    BY <2>1 DEF Less, OpToRel
  <2> QED BY <2>1, <2>2
<1> QED BY <1>3 DEF Min

(* No two strategies have the same name.                                   *)
LEMMA TenNames ==
  /\ DOMAIN StrategyTypes = 1..10
  /\ \A i, j \in 1..10 : StrategyTypes[i] = StrategyTypes[j] => i = j
<1>1. DOMAIN StrategyTypes = 1..10
  BY DEF StrategyTypes
<1>2. ASSUME NEW i \in 1..10, NEW j \in 1..10, StrategyTypes[i] = StrategyTypes[j] PROVE i = j
  BY <1>2 DEF StrategyTypes
<1> QED BY <1>1, <1>2

(* So the scan gives the strategy's own signal.                            *)
LEMMA ScanFinds ==
  ASSUME NEW signals, Len(signals) = 10, NEW i \in 1..10, signals[i] # Threw,
         NEW resultsOf, NEW s \in DOMAIN resultsOf, resultsOf[s] = AllResults(signals)
  PROVE  scanStrategyAcrossSymbols(StrategyTypes[i], resultsOf)[s] = Result(signals, i)
<1> DEFINE results == AllResults(signals)
           matching == {k \in DOMAIN results : results[k].strategy = StrategyTypes[i]}
<1>1. /\ Len(results) \in Nat /\ DOMAIN results = 1..Len(results)
      /\ \A k \in 1..Len(results) : \E j \in 1..Len(signals) : results[k] = Result(signals, j)
      /\ \A j \in 1..Len(signals) :
           signals[j] # Threw => \E k \in 1..Len(results) : results[k] = Result(signals, j)
  <2>1. Len(signals) \in Nat
    OBVIOUS
  <2> HIDE DEF results
  <2>2. LET all == AllResults(signals)
        IN /\ Len(all) \in Nat /\ DOMAIN all = 1..Len(all)
           /\ \A k \in 1..Len(all) : \E j \in 1..Len(signals) : all[k] = Result(signals, j)
           /\ \A j \in 1..Len(signals) :
                signals[j] # Threw => \E k \in 1..Len(all) : all[k] = Result(signals, j)
    BY <2>1, ResultsOfAll
  <2> QED BY <2>2 DEF results
<1>2. scanStrategyAcrossSymbols(StrategyTypes[i], resultsOf)[s] =
        results[IF matching = {} THEN 1 ELSE Min(matching)]
  BY DEF scanStrategyAcrossSymbols
<1> HIDE DEF results
<1>3. PICK k \in 1..Len(results) : results[k] = Result(signals, i)
  BY <1>1
<1>4. k \in matching /\ matching \subseteq Nat
  BY <1>1, <1>3 DEF Result
<1>5. ASSUME NEW x \in matching PROVE results[x] = Result(signals, i)
  <2>1. PICK j \in 1..10 : results[x] = Result(signals, j)
    BY <1>1
  <2>2. results[x].strategy = StrategyTypes[i]
    OBVIOUS
  <2>3. StrategyTypes[j] = StrategyTypes[i]
    BY <2>1, <2>2 DEF Result
  <2>4. j = i
    BY <2>3, TenNames
  <2> QED BY <2>1, <2>4
<1> HIDE DEF matching
<1>6. matching # {} /\ Min(matching) \in matching
  BY <1>4, FirstOf
<1> QED BY <1>2, <1>5, <1>6

LEMMA TenSignals == ASSUME NEW table PROVE Len(AllSignals(table)) = 10
<1>1. \A a, b, c, d, e, f, g, h, i, j : Len(<<a, b, c, d, e>> \o <<f, g, h, i, j>>) = 10
  OBVIOUS
<1> QED BY <1>1 DEF AllSignals, executeAllBasicStrategies, executeAllAdvancedStrategies

(* The vote of analyzeSymbol is never strong, so that ...                  *)
LEMMA VoteIsNeverStrong ==
  ASSUME NEW results
  PROVE  Vote(results).overallSignal \in {"BUY", "SELL", "NEUTRAL"}
BY DEF Vote

(* ... monitorMarket alerts what findStrongBuySignals finds.               *)
LEMMA SameSymbolsFound ==
  ASSUME NEW market
  PROVE  SameSymbols(screenMultipleSymbols(market))
<1> DEFINE screening == screenMultipleSymbols(market)
<1>1. \A s \in DOMAIN screening : screening[s].overallSignal \in {"BUY", "SELL", "NEUTRAL"}
  BY VoteIsNeverStrong DEF screenMultipleSymbols, analyzeSymbol
<1> HIDE DEF screening
<1>2. monitorMarket(screening) = findStrongBuySignals(screening)
  BY <1>1 DEF monitorMarket, findStrongBuySignals
<1> QED BY <1>2 DEF SameSymbols, screening

(* Whatever the tables hold.                                               *)
LEMMA ScreeningHolds == ScreeningIsPerSymbol
<1> DEFINE listed == IF candles = <<>> THEN candles ELSE <<Last(candles)>>
           signals == <<AllSignals(candles), AllSignals(listed)>>
           resultsOf == [s \in DOMAIN signals |-> AllResults(signals[s])]
<1>1. DOMAIN signals = 1..2 /\ \A s \in 1..2 : Len(signals[s]) = 10
  <2> DEFINE a == AllSignals(candles)
             b == AllSignals(listed)
  <2>1. Len(a) = 10 /\ Len(b) = 10
    BY TenSignals
  <2> HIDE DEF a, b
  <2>2. /\ DOMAIN <<a, b>> = 1..2 /\ \A s \in 1..2 : Len(<<a, b>>[s]) = 10
    BY <2>1
  <2> QED BY <2>2 DEF a, b
<1> HIDE DEF signals
<1>2. DOMAIN resultsOf = DOMAIN signals /\ \A s \in DOMAIN signals : resultsOf[s] = AllResults(signals[s])
  OBVIOUS
<1>3. ScanTellsOwnSignals(signals)
  <2> SUFFICES ASSUME NEW i \in DOMAIN StrategyTypes, NEW s \in DOMAIN signals,
                      signals[s][i] # Threw
               PROVE  scanStrategyAcrossSymbols(StrategyTypes[i], resultsOf)[s] =
                        [strategy |-> StrategyTypes[i], signal |-> signals[s][i]]
    BY DEF ScanTellsOwnSignals
  <2> DEFINE own == signals[s]
  <2>1. Len(own) = 10 /\ i \in 1..10 /\ own[i] # Threw
    BY <1>1, TenNames
  <2>2. s \in DOMAIN resultsOf /\ resultsOf[s] = AllResults(own)
    BY <1>2
  <2> HIDE DEF own, resultsOf
  <2>3. scanStrategyAcrossSymbols(StrategyTypes[i], resultsOf)[s] = Result(own, i)
    BY <2>1, <2>2, ScanFinds
  <2> QED BY <2>3 DEF Result, own
<1>4. SameSymbols(screenMultipleSymbols(<<candles, listed>>))
  BY SameSymbolsFound
<1> QED BY <1>3, <1>4 DEF ScreeningIsPerSymbol, signals

(* scanStrategyAcrossSymbols tells of every symbol what the strategy       *)
(* itself gave there, unless it threw, and monitorMarket alerts exactly    *)
(* what findStrongBuySignals finds, whatever the tables hold.              *)
THEOREM ScreeningPerSymbol == Spec => []ScreeningIsPerSymbol
BY ScreeningHolds, PTL
=============================================================================
