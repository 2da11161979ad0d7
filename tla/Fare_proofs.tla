----------------------------- MODULE Fare_proofs -----------------------------
(***************************************************************************)
(* Proofs about the offer band, for every policy, route and amount.        *)
(***************************************************************************)
EXTENDS Fare, TLAPS

\* Both percentages, rounded hundreds and rest apart, round the exact one.
LEMMA BandRounds ==
  ASSUME NEW v \in Nat
  PROVE  /\ percentCeil(v, 90) \in Int /\ percentFloor(v, 130) \in Int
         /\ \A a \in Int : percentCeil(v, 90) <= a <=> 9 * v <= 10 * a
         /\ \A a \in Int : a <= percentFloor(v, 130) <=> 10 * a <= 13 * v
<1> DEFINE h == v \div 100
           m == v % 100
<1>1. h \in Int /\ m \in 0..99 /\ v = 100 * h + m
  OBVIOUS
<1> HIDE DEF h, m
<1>2. /\ (m * 90 + 99) \div 100 \in Int /\ (m * 130) \div 100 \in Int
      /\ 100 * ((m * 90 + 99) \div 100) \in (m * 90)..(m * 90 + 99)
      /\ 100 * ((m * 130) \div 100) \in (m * 130 - 99)..(m * 130)
  BY <1>1
<1> DEFINE c == (m * 90 + 99) \div 100
           f == (m * 130) \div 100
<1>3. percentCeil(v, 90) = 90 * h + c /\ percentFloor(v, 130) = 130 * h + f
  BY <1>1, <1>2 DEF percentCeil, percentFloor, h, m
<1> HIDE DEF c, f
<1>4. /\ c \in Int /\ f \in Int
      /\ 100 * c \in (m * 90)..(m * 90 + 99)
      /\ 100 * f \in (m * 130 - 99)..(m * 130)
  BY <1>2 DEF c, f
<1> QED
  BY <1>1, <1>3, <1>4

\* The band of a fare is what lies between 90% and 130% of it.
LEMMA BoundsExact ==
  ASSUME NEW v \in Nat
  PROVE  Bounds(v) = {a \in 0..(2 * v) : 9 * v <= 10 * a /\ 10 * a <= 13 * v}
<1>1. \A a \in Int : a \in Bounds(v) <=> 9 * v <= 10 * a /\ 10 * a <= 13 * v
  BY BandRounds DEF Bounds
<1>2. Bounds(v) \subseteq Int
  BY BandRounds DEF Bounds
<1>3. \A a \in Int : 9 * v <= 10 * a /\ 10 * a <= 13 * v => a \in 0..(2 * v)
  OBVIOUS
<1> QED
  BY <1>1, <1>2, <1>3

\* A fare is a whole amount, whatever the policy and the route.
LEMMA CalculateType ==
  ASSUME NEW p \in Policies, NEW m \in Distances, NEW s \in Durations
  PROVE  Calculate(p, m, s) \in Nat
<1>1. /\ p.base \in Nat /\ p.perKm \in Nat /\ p.perMinute \in Nat
      /\ p.minimum \in Nat /\ p.increment \in Nat \ {0}
      /\ m \in Nat /\ s \in Nat
  BY FareAssumption
<1>2. Raw(p, m, s) \in Nat
  <2>1. p.perKm * m \in Nat /\ p.perMinute * s \in Nat
    BY <1>1
  <2>2. 3 * p.perKm * m \in Nat /\ 50 * p.perMinute * s \in Nat
    BY <1>1, <2>1
  <2> QED
    BY <1>1, <2>2 DEF Raw
<1>3. Rounded(p, Raw(p, m, s)) \in Int
  <2> DEFINE unit == 3000 * p.increment
             raw == Raw(p, m, s)
  <2>1. raw \div unit \in Int
    BY <1>1, <1>2
  <2> QED
    BY <1>1, <2>1 DEF Rounded
<1> QED
  BY <1>1, <1>3 DEF Calculate

\* The amounts on record: an offer lies in the band of the fare it answers.
BandInv ==
  /\ policy \in Policies /\ metres \in Distances /\ seconds \in Durations
  /\ proposed \in Nat
  /\ proposed = 0 => offered = 0
  /\ offered # 0 => offered \in Bounds(proposed)

(***************************************************************************)
(* For every policy, route and fare a driver may offer exactly the whole   *)
(* amounts between 90% and 130% of the rider's fare.                       *)
(***************************************************************************)
THEOREM BandIsExactAlways == Spec => []BandIsExact
<1>1. Init => BandInv
  BY DEF Init, BandInv
<1>2. BandInv /\ [Next]_vars => BandInv'
  <2> SUFFICES ASSUME BandInv, [Next]_vars PROVE BandInv'
    OBVIOUS
  <2> USE DEF BandInv
  <2>1. CASE Create
    BY <2>1, CalculateType DEF Create
  <2>2. CASE \E amount \in Bounds(proposed) : Submit(amount)
    BY <2>2 DEF Submit
  <2>3. CASE UNCHANGED vars
    BY <2>3 DEF vars
  <2> QED
    BY <2>1, <2>2, <2>3 DEF Next
<1>3. BandInv => BandIsExact
  BY BoundsExact DEF BandInv, BandIsExact
<1> QED
  BY <1>1, <1>2, <1>3, PTL DEF Spec

\* An amount rounds to k increments when no other multiple is nearer.
RoundsTo(p, raw, k) ==
  /\ Rounded(p, raw) = k * p.increment
  /\ 6000 * k * p.increment <= 2 * raw + 3000 * p.increment
  /\ 2 * raw + 3000 * p.increment < 6000 * (k + 1) * p.increment

\* Rounding gives the multiple of the increment nearest to the exact amount.
LEMMA RoundedIsNearest ==
  ASSUME NEW p \in Policies, NEW raw \in Nat
  PROVE  \E k \in Nat : RoundsTo(p, raw, k)
<1> DEFINE i == p.increment
           unit == 3000 * i
           q == raw \div unit
           m == raw % unit
<1>1. i \in Nat /\ i > 0
  BY FareAssumption
<1>2. unit \in Nat /\ unit > 0
  BY <1>1
<1>3. q \in Nat /\ m \in 0..(unit - 1) /\ raw = unit * q + m
  <2> HIDE DEF unit
  <2> QED
    BY <1>2
<1>4. Rounded(p, raw) = (IF 2 * m >= unit THEN q + 1 ELSE q) * i
  BY DEF Rounded
<1> HIDE DEF i, q, m
<1>5. unit * q = 3000 * (q * i) /\ q * i \in Nat
  BY <1>1, <1>3
<1>6. \A k \in Nat : /\ 6000 * k * i = 6000 * (k * i) /\ k * i \in Nat
                    /\ 6000 * (k + 1) * i = 6000 * (k * i) + 6000 * i
                    /\ (k + 1) * i = k * i + i
  BY <1>1
<1>7. raw = 3000 * (q * i) + m /\ m \in 0..(3000 * i - 1)
  BY <1>3, <1>5
<1>8. CASE 2 * m >= unit
  <2>1. Rounded(p, raw) = (q + 1) * i /\ q + 1 \in Nat
    BY <1>3, <1>4, <1>8
  <2>2. /\ 6000 * (q + 1) * i = 6000 * (q * i) + 6000 * i
        /\ 6000 * ((q + 1) + 1) * i = 6000 * (q * i) + 12000 * i
    BY <1>1, <1>3, <1>6
  <2> DEFINE x == q * i
  <2>3. /\ 6000 * (q + 1) * i <= 2 * raw + 3000 * i
        /\ 2 * raw + 3000 * i < 6000 * ((q + 1) + 1) * i
    <3> HIDE DEF x
    <3>1. /\ x \in Nat /\ raw = 3000 * x + m /\ 2 * m >= 3000 * i
          /\ 6000 * (q + 1) * i = 6000 * x + 6000 * i
          /\ 6000 * ((q + 1) + 1) * i = 6000 * x + 12000 * i
      BY <1>5, <1>7, <1>8, <2>2 DEF x
    <3> QED
      BY <1>1, <1>7, <3>1
  <2>4. RoundsTo(p, raw, q + 1)
    BY <2>1, <2>3 DEF i, RoundsTo
  <2> QED
    BY <2>1, <2>4
<1>9. CASE 2 * m < unit
  <2>1. Rounded(p, raw) = q * i
    BY <1>2, <1>3, <1>4, <1>9
  <2> DEFINE x == q * i
  <2>2. /\ 6000 * q * i <= 2 * raw + 3000 * i
        /\ 2 * raw + 3000 * i < 6000 * (q + 1) * i
    <3>1. /\ x \in Nat /\ raw = 3000 * x + m /\ 2 * m < 3000 * i
          /\ 6000 * q * i = 6000 * x
          /\ 6000 * (q + 1) * i = 6000 * x + 6000 * i
      BY <1>3, <1>5, <1>6, <1>7, <1>9
    <3> HIDE DEF x
    <3> QED
      BY <1>1, <1>7, <3>1
  <2>3. RoundsTo(p, raw, q)
    BY <2>1, <2>2 DEF i, RoundsTo
  <2> QED
    BY <1>3, <2>3
<1> QED
  BY <1>2, <1>3, <1>8, <1>9

\* The fare on record is the one calculated, and in range.
FareInv ==
  /\ policy \in Policies /\ metres \in Distances /\ seconds \in Durations
  /\ proposed # 0 => /\ proposed = Calculate(policy, metres, seconds)
                     /\ proposed <= MaxAmount

\* Such a fare is the nearest multiple of the increment, or the minimum.
LEMMA FareInvNearest == FareInv => FareIsNearest
<1> SUFFICES ASSUME FareInv, proposed # 0 PROVE FareIsNearest
  BY DEF FareIsNearest
<1> DEFINE exact == Raw(policy, metres, seconds)
           step == policy.increment
<1>1. /\ step \in Nat /\ step > 0 /\ policy.minimum \in Nat /\ MaxAmount \in Nat
      /\ policy.base \in Nat /\ policy.perKm \in Nat /\ policy.perMinute \in Nat
      /\ metres \in Nat /\ seconds \in Nat
  BY FareAssumption DEF FareInv
<1>2. exact \in Nat
  <2>1. policy.perKm * metres \in Nat /\ policy.perMinute * seconds \in Nat
    BY <1>1
  <2>2. 3 * policy.perKm * metres \in Nat /\ 50 * policy.perMinute * seconds \in Nat
    BY <1>1, <2>1
  <2> QED
    BY <1>1, <2>2 DEF Raw
<1>3. PICK k \in Nat : RoundsTo(policy, exact, k)
  BY <1>2, RoundedIsNearest DEF FareInv
<1>n. /\ Rounded(policy, exact) = k * step
      /\ 6000 * k * step <= 2 * exact + 3000 * step
      /\ 2 * exact + 3000 * step < 6000 * (k + 1) * step
  BY <1>3 DEF RoundsTo
<1>4. proposed = IF k * step < policy.minimum THEN policy.minimum ELSE k * step
  BY <1>n DEF FareInv, Calculate
<1> HIDE DEF step, exact
<1>5. k * step \in Nat /\ k <= k * step
  BY <1>1
<1>6. k * step <= proposed /\ proposed \in Nat /\ proposed <= MaxAmount
  BY <1>1, <1>4, <1>5 DEF FareInv
<1>7. k \in 0..MaxAmount
  BY <1>1, <1>5, <1>6
<1> QED
  BY <1>n, <1>4, <1>7 DEF FareIsNearest, step, exact

(***************************************************************************)
(* The fare is the multiple of the increment nearest to the exact fare, or *)
(* the minimum, for every policy and route.                                *)
(***************************************************************************)
THEOREM FareIsNearestAlways == Spec => []FareIsNearest
<1>1. Init => FareInv
  BY DEF Init, FareInv
<1>2. FareInv /\ [Next]_vars => FareInv'
  <2> SUFFICES ASSUME FareInv, [Next]_vars PROVE FareInv'
    OBVIOUS
  <2>1. CASE Create
    BY <2>1 DEF Create, FareInv
  <2>2. CASE UNCHANGED <<policy, metres, seconds, proposed>>
    BY <2>2 DEF FareInv
  <2> QED
    BY <2>1, <2>2 DEF Next, Submit, vars
<1> QED
  BY <1>1, <1>2, FareInvNearest, PTL DEF Spec
==============================================================================
