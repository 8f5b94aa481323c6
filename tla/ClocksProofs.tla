---------------------------- MODULE ClocksProofs ----------------------------
(***************************************************************************)
(* Proofs about the searches for PLL coefficients, for every clock that a  *)
(* mode may ask for and every crystal: a search finds a setting, what the  *)
(* setting makes of the crystal is not above the clock and within 1/64 of  *)
(* it, and no setting of the ranges searched, with any multiplier, comes   *)
(* nearer from below.                                                      *)
(*                                                                         *)
(* The searches try one multiplier for each pair of dividers, the largest  *)
(* that does not exceed the clock.  They lose nothing by it: the frequency *)
(* grows with the multiplier, and where the largest does not fit its field *)
(* a smaller divider does better than the largest multiplier that fits.    *)
(***************************************************************************)
EXTENDS Clocks, WellFoundedInduction, TLAPS

-----------------------------------------------------------------------------
(* Division rounds down. *)
LEMMA DivFacts ==
    ASSUME NEW a \in Int, NEW k \in Nat \ {0}
    PROVE  /\ a \div k \in Int /\ k * (a \div k) <= a /\ a < k * (a \div k) + k
           /\ a >= 0 => a \div k \in Nat
<1>1. a \div k \in Int /\ k * (a \div k) <= a /\ a < k * (a \div k) + k
  BY SMT
<1>2. ASSUME a >= 0 PROVE a \div k >= 0
  <2> DEFINE q == a \div k
  <2>1. q \in Int /\ a < k * q + k
    BY <1>1
  <2> HIDE DEF q
  <2>2. k * (q + 1) > 0
    BY <1>2, <2>1, SMT
  <2>3. q + 1 > 0
    BY <2>1, <2>2, SMT
  <2>4. q >= 0
    BY <2>1, <2>3, SMT
  <2> QED BY <2>4 DEF q
<1> QED BY <1>1, <1>2, SMT

(* A quotient is compared by multiplying. *)
LEMMA DivAtLeast ==
    ASSUME NEW a \in Int, NEW k \in Nat \ {0}, NEW b \in Int, k * b <= a
    PROVE  b <= a \div k
<1> DEFINE q == a \div k
<1>1. q \in Int /\ a < k * q + k
  BY DivFacts
<1> HIDE DEF q
<1>2. k * b < k * (q + 1)
  BY <1>1, SMT
<1>3. b < q + 1
  BY <1>1, <1>2, SMT
<1> QED BY <1>1, <1>3, SMT DEF q

(* A quotient is at most b when the dividend is at most b divisors.        *)
LEMMA DivAtMost ==
    ASSUME NEW a \in Int, NEW k \in Nat \ {0}, NEW b \in Int, a <= k * b
    PROVE  a \div k <= b
<1> DEFINE q == a \div k
<1>1. q \in Int /\ k * q <= a
  BY DivFacts
<1> HIDE DEF q
<1>2. k * q <= k * b
  BY <1>1, SMT
<1>3. q <= b
  BY <1>1, <1>2, SMT
<1> QED BY <1>3 DEF q

(* Division by a fixed number keeps the order.                             *)
LEMMA DivMonotone ==
    ASSUME NEW a \in Int, NEW b \in Int, NEW k \in Nat \ {0}, a <= b
    PROVE  a \div k <= b \div k
<1>1. k * (a \div k) <= a /\ a \div k \in Int
  BY DivFacts
<1>2. k * (a \div k) <= b
  BY <1>1, SMT
<1> QED BY <1>1, <1>2, DivAtLeast

(* The larger of two fractions has the larger quotient. *)
LEMMA DivCross ==
    ASSUME NEW a \in Nat, NEW b \in Nat, NEW k \in Nat \ {0}, NEW l \in Nat \ {0},
           a * l <= b * k
    PROVE  a \div k <= b \div l
<1> DEFINE q == a \div k
<1>1. q \in Int /\ k * q <= a
  BY DivFacts
<1> HIDE DEF q
<1>2. (k * q) * l <= a * l
  BY <1>1, SMT
<1>3. k * (l * q) <= k * b
  BY <1>1, <1>2, SMT
<1>4. l * q <= b
  BY <1>1, <1>3, SMT
<1>5. q <= b \div l
  BY <1>1, <1>4, DivAtLeast
<1> QED BY <1>5 DEF q

(* Multiplication by a natural number keeps the order.                     *)
LEMMA ProductMonotone ==
    ASSUME NEW a \in Int, NEW b \in Int, NEW k \in Nat, a <= b
    PROVE  a * k <= b * k /\ k * a <= k * b
BY SMT

(* Products of natural numbers are natural numbers; stated once, since the *)
(* provers do not see it among other facts.                                *)
LEMMA ProductNat == ASSUME NEW a \in Nat, NEW b \in Nat PROVE a * b \in Nat
BY SMT

(* Products may be regrouped.                                              *)
LEMMA Associative ==
    ASSUME NEW a \in Nat, NEW b \in Nat, NEW c \in Nat
    PROVE  a * (b * c) = (a * b) * c
BY SMT

(* The powers of two that post dividers stand for.                         *)
LEMMA Powers ==
    ASSUME NEW P \in 0..6
    PROVE  2^P \in {1, 2, 4, 8, 16, 32, 64} /\ 2^P \in Nat \ {0}
<1>1. P = 0 \/ P = 1 \/ P = 2 \/ P = 3 \/ P = 4 \/ P = 5 \/ P = 6
  BY SMT
<1>2. 2^P \in {2^0, 2^1, 2^2, 2^3, 2^4, 2^5, 2^6}
  BY <1>1, Zenon
<1>3. 2^P \in {1, 2, 4, 8, 16, 32, 64}
  BY <1>2, SMT
<1> QED BY <1>3, SMT

(* A set of numbers has a least one. *)
LEMMA Least ==
    ASSUME NEW T, T \subseteq Nat, T # {}
    PROVE  \E x \in T : \A y \in T : x <= y
<1>1. IsWellFoundedOn(OpToRel(<, Nat), Nat)
  BY NatLessThanWellFounded
<1>2. PICK x \in T : \A y \in T : ~ (<<y, x>> \in OpToRel(<, Nat))
  BY <1>1, WFMin
<1>3. ASSUME NEW y \in T PROVE x <= y
  <2>1. ~ (<<y, x>> \in OpToRel(<, Nat))
    BY <1>2
  <2>2. <<y, x>> \in Nat \X Nat
    OBVIOUS
  <2>3. ~ (y < x)
    BY <2>1, <2>2 DEF OpToRel
  <2> QED BY <2>3
<1> QED BY <1>3

-----------------------------------------------------------------------------
(* Frequencies. *)
Coefficients1 == [P : 0..6, N : 0..255, M : 1..14]

(* The clock of a setting is a natural number.                             *)
LEMMA FrequencyType ==
    ASSUME NEW C \in Nat, NEW s \in Coefficients1
    PROVE  Frequency(C, s) \in Nat
<1> DEFINE g == (C * s.N) \div s.M
<1>0. s.P \in 0..6 /\ s.N \in 0..255 /\ s.M \in 1..14
  BY DEF Coefficients1
<1>1. C * s.N \in Nat /\ s.M \in Nat \ {0}
  BY <1>0, SMT
<1>2. g \in Nat
  BY <1>1, DivFacts, SMT
<1> HIDE DEF g
<1>3. 2^s.P \in Nat \ {0}
  BY <1>0, Powers
<1>4. g \div 2^s.P \in Nat
  BY <1>2, <1>3, DivFacts, SMT
<1> QED BY <1>4 DEF Frequency, g

(* A setting that is not above a clock makes a frequency that is not. *)
LEMMA FrequencyBelow ==
    ASSUME NEW C \in Nat, NEW s \in Coefficients1, NEW clock \in Nat,
           C * s.N <= clock * 2^s.P * s.M
    PROVE  Frequency(C, s) <= clock
<1> DEFINE g == (C * s.N) \div s.M
           p == 2^s.P
<1>0. s.P \in 0..6 /\ s.N \in 0..255 /\ s.M \in 1..14
  BY DEF Coefficients1
<1>1. p \in Nat \ {0}
  BY <1>0, Powers
<1>2. C * s.N <= (clock * p) * s.M
  OBVIOUS
<1> HIDE DEF p
<1>3. C * s.N \in Nat /\ s.M \in Nat \ {0} /\ clock * p \in Nat
  BY <1>0, <1>1, SMT
<1>4. C * s.N <= s.M * (clock * p)
  BY <1>0, <1>1, <1>2, <1>3, SMT
<1>5. g <= clock * p
  BY <1>3, <1>4, DivAtMost
<1>6. g \in Int
  BY <1>3, DivFacts, SMTT(30)
<1> HIDE DEF g
<1>7. g <= p * clock
  BY <1>1, <1>5, <1>6, SMT
<1>8. g \div p <= clock
  BY <1>1, <1>6, <1>7, DivAtMost
<1> QED BY <1>8 DEF Frequency, g, p

(* Settings with the same post divider compare as N / M does. *)
LEMMA FrequencyOrder ==
    ASSUME NEW C \in Nat, NEW s \in Coefficients1, NEW t \in Coefficients1,
           s.P = t.P, s.N * t.M <= t.N * s.M
    PROVE  Frequency(C, s) <= Frequency(C, t)
<1> DEFINE gs == (C * s.N) \div s.M
           gt == (C * t.N) \div t.M
           p == 2^s.P
<1>0. /\ s.P \in 0..6 /\ s.N \in 0..255 /\ s.M \in 1..14
      /\ t.P \in 0..6 /\ t.N \in 0..255 /\ t.M \in 1..14
  BY DEF Coefficients1
<1>1. p \in Nat \ {0}
  BY <1>0, Powers
<1>2. /\ C * s.N \in Nat /\ s.M \in Nat \ {0}
      /\ C * t.N \in Nat /\ t.M \in Nat \ {0}
  BY <1>0, SMT
<1>n. s.N \in Nat /\ s.M \in Nat /\ t.N \in Nat /\ t.M \in Nat
  BY <1>0, SMT
<1>3. s.N * t.M \in Nat /\ t.N * s.M \in Nat
  BY <1>n, ProductNat
<1>4. (C * s.N) * t.M <= (C * t.N) * s.M
  <2>1. C * (s.N * t.M) <= C * (t.N * s.M)
    BY <1>3, ProductMonotone
  <2>2. /\ C * (s.N * t.M) = (C * s.N) * t.M
        /\ C * (t.N * s.M) = (C * t.N) * s.M
    BY <1>n, Associative
  <2> QED BY <2>1, <2>2
<1>5. gs <= gt
  BY <1>2, <1>4, DivCross
<1>6. gs \in Int /\ gt \in Int
  BY <1>2, DivFacts
<1> HIDE DEF gs, gt
<1>7. gs \div p <= gt \div p
  BY <1>1, <1>5, <1>6, DivMonotone
<1> QED BY <1>7 DEF Frequency, gs, gt, p
-----------------------------------------------------------------------------
(* The search finds a setting, and where none that is tried is above the   *)
(* clock it finds one of the highest.                                      *)
LEMMA Nearest ==
    ASSUME NEW C \in Nat, NEW clock \in Nat,
           NEW tried, tried \subseteq Coefficients1, tried # {},
           \A s \in tried : Frequency(C, s) <= clock
    PROVE  /\ FirstNearest(clock, C, tried) \in tried
           /\ \A t \in tried : Frequency(C, t) <= Frequency(C, FirstNearest(clock, C, tried))
<1> DEFINE F(s) == Frequency(C, s)
           Before(s, t) == \/ Distance(F(s), clock) < Distance(F(t), clock)
                           \/ /\ Distance(F(s), clock) = Distance(F(t), clock)
                              /\ s.P < t.P \/ (s.P = t.P /\ s.M <= t.M)
           Weight(s) == (clock - F(s)) * 1000 + s.P * 100 + s.M
           Weights == {Weight(s) : s \in tried}
<1>1. ASSUME NEW s \in tried
      PROVE  /\ F(s) \in Nat /\ F(s) <= clock /\ s.P \in 0..6 /\ s.M \in 1..14
             /\ Distance(F(s), clock) = clock - F(s)
             /\ Weight(s) \in Nat
  <2>1. F(s) \in Nat /\ F(s) <= clock
    BY FrequencyType
  <2>2. s.P \in 0..6 /\ s.M \in 1..14
    BY DEF Coefficients1
  <2> HIDE DEF F
  <2>3. Distance(F(s), clock) = clock - F(s)
    BY <2>1, SMT DEF Distance
  <2>4. Weight(s) \in Nat
    BY <2>1, <2>2, SMT
  <2> QED BY <2>1, <2>2, <2>3, <2>4
<1>2. Weights \subseteq Nat
  BY <1>1
<1>3. Weights # {}
  OBVIOUS
<1>4. PICK w \in Weights : \A v \in Weights : w <= v
  BY <1>2, <1>3, Least
<1>5. PICK s \in tried : \A t \in tried : Weight(s) <= Weight(t)
  BY <1>4
<1>6. ASSUME NEW t \in tried PROVE Before(s, t)
  <2> DEFINE ds == clock - F(s)
             dt == clock - F(t)
             Ps == s.P
             Pt == t.P
             Ms == s.M
             Mt == t.M
  <2>1. ds \in Nat /\ dt \in Nat
    BY <1>1
  <2>2. ds * 1000 + Ps * 100 + Ms <= dt * 1000 + Pt * 100 + Mt
    BY <1>5
  <2>3. Ps \in 0..6 /\ Ms \in 1..14 /\ Pt \in 0..6 /\ Mt \in 1..14
    BY <1>1
  <2>4. Distance(F(s), clock) = ds /\ Distance(F(t), clock) = dt
    BY <1>1
  <2> HIDE DEF ds, dt, F, Ps, Pt, Ms, Mt
  <2>5. ds < dt \/ (ds = dt /\ (Ps < Pt \/ (Ps = Pt /\ Ms <= Mt)))
    BY <2>1, <2>2, <2>3, SMT
  <2> QED BY <2>4, <2>5 DEF Ps, Pt, Ms, Mt
<1>7. FirstNearest(clock, C, tried) = CHOOSE u \in tried : \A t \in tried : Before(u, t)
  BY DEF FirstNearest
<1> DEFINE best == FirstNearest(clock, C, tried)
<1>8. best \in tried /\ \A t \in tried : Before(best, t)
  BY <1>6, <1>7
<1> HIDE DEF best
<1>9. ASSUME NEW t \in tried PROVE F(t) <= F(best)
  <2>1. /\ F(t) \in Nat /\ F(best) \in Nat
        /\ Distance(F(t), clock) = clock - F(t)
        /\ Distance(F(best), clock) = clock - F(best)
    BY <1>1, <1>8
  <2>2. Distance(F(best), clock) <= Distance(F(t), clock)
    <3>1. Before(best, t)
      BY <1>8
    <3>2. Distance(F(best), clock) \in Int /\ Distance(F(t), clock) \in Int
      BY <2>1
    <3> QED BY <3>1, <3>2
  <2> HIDE DEF F
  <2> QED BY <2>1, <2>2, SMT
<1> QED BY <1>8, <1>9 DEF best
-----------------------------------------------------------------------------
(* The setting tried for a pair of dividers. *)
SettingFor(C, clock, P, M) == [P |-> P, N |-> (clock * 2^P * M) \div C, M |-> M]

(* The multiplier the searches try is the quotient: the oscillator does    *)
(* not exceed what is asked for and misses it by less than one step.       *)
LEMMA SettingFacts ==
    ASSUME NEW C \in Nat \ {0}, NEW clock \in Nat, NEW P \in 0..6, NEW M \in 1..14
    PROVE  LET N == SettingFor(C, clock, P, M).N
           IN  /\ N \in Nat /\ C * N <= clock * 2^P * M /\ clock * 2^P * M < C * N + C
               /\ clock * 2^P \in Nat /\ clock * 2^P * M \in Nat
<1>1. 2^P \in Nat
  BY Powers
<1>2. clock * 2^P \in Nat
  BY <1>1, ProductNat
<1>3. M \in Nat
  BY SMT
<1>4. clock * 2^P * M \in Nat
  BY <1>2, <1>3, ProductNat
<1> DEFINE a == clock * 2^P * M
<1> HIDE DEF a
<1>5. a \div C \in Nat /\ C * (a \div C) <= a /\ a < C * (a \div C) + C
  BY <1>4, DivFacts, SMT DEF a
<1>6. SettingFor(C, clock, P, M).N = a \div C
  BY DEF SettingFor, a
<1> QED BY <1>2, <1>4, <1>5, <1>6 DEF a

(* How far below the clock that setting stays. *)
LEMMA Gap ==
    ASSUME NEW C \in Nat \ {0}, NEW clock \in Nat, NEW P \in 0..6, NEW M \in 1..14
    PROVE  LET f == Frequency(C, SettingFor(C, clock, P, M))
           IN  /\ f \in Nat
               /\ (M * 2^P) * (clock - f) < M * 2^P + C
<1> DEFINE s == SettingFor(C, clock, P, M)
           N == s.N
           p == 2^P
           g == (C * N) \div M
           f == g \div p
<1>1. /\ N \in Nat /\ clock * p * M < C * N + C
  BY SettingFacts
<1>2. s.P = P /\ s.M = M
  BY DEF SettingFor
<1> HIDE DEF s, N
<1>3. C * N \in Nat /\ M \in Nat \ {0}
  BY <1>1, ProductNat, SMT
<1>4. g \in Nat /\ C * N < M * g + M
  BY <1>3, DivFacts, SMT
<1> HIDE DEF g
<1>5. p \in Nat \ {0}
  BY Powers
<1> HIDE DEF p
<1>6. f \in Nat /\ g < p * f + p
  BY <1>4, <1>5, DivFacts, SMT
<1>7. Frequency(C, s) = f
  BY <1>2 DEF Frequency, N, g, p
<1> HIDE DEF f
<1>8. g + 1 <= p * f + p
  BY <1>4, <1>5, <1>6, SMT
<1>9. M * (g + 1) <= M * (p * f + p)
  BY <1>3, <1>4, <1>5, <1>6, <1>8, SMT
<1>10. M * (g + 1) = M * g + M
  BY <1>3, <1>4, SMT
<1>11. clock * p * M < M * (p * f + p) + C
  BY <1>1, <1>3, <1>4, <1>5, <1>6, <1>9, <1>10, SMT
<1>12. /\ M * (p * f + p) = (M * p) * f + M * p
       /\ clock * p * M = (M * p) * clock
       /\ (M * p) * (clock - f) = (M * p) * clock - (M * p) * f
  BY <1>3, <1>5, <1>6, SMT
<1>13. (M * p) * (clock - f) < M * p + C
  BY <1>3, <1>5, <1>6, <1>11, <1>12, SMT
<1> QED BY <1>6, <1>7, <1>13 DEF p, s

(* An error of less than one step of the oscillator is within 1/64 of the  *)
(* clock when the oscillator is high enough.                               *)
LEMMA Close ==
    ASSUME NEW k \in Nat \ {0}, NEW e \in Int, NEW clock \in Nat, NEW C \in Nat,
           k * e < k + C, 63 * k + 64 * C <= k * clock
    PROVE  64 * e <= clock
<1> SUFFICES ASSUME clock + 1 <= 64 * e PROVE FALSE
  BY SMT
<1>1. k * (clock + 1) <= k * (64 * e)
  BY SMT
<1>2. k * (64 * e) = 64 * (k * e) /\ k * (clock + 1) = k * clock + k
  BY SMT
<1> DEFINE x == k * e
           y == k * clock
<1>3. x \in Int /\ y \in Int
  BY SMT
<1>4. x < k + C /\ 63 * k + 64 * C <= y /\ y + k <= 64 * x
  BY <1>1, <1>2
<1> HIDE DEF x, y
<1> QED BY <1>3, <1>4, SMT
-----------------------------------------------------------------------------
(* One stage. *)
Tried1(clock, crystal) ==
    {s \in {SettingFor(crystal, clock, P, M) : P \in 0..4, M \in Dividers(crystal)} :
        Oscillates(clock * 2^s.P) /\ s.N <= 255}

(* CalcVClock with the settings it tries by name.                          *)
LEMMA CalcVClockIs ==
    ASSUME NEW clock, NEW crystal
    PROVE  CalcVClock(clock, crystal) = FirstNearest(clock, crystal, Tried1(clock, crystal))
BY DEF CalcVClock, Tried1, SettingFor

(* The dividers of either crystal.                                         *)
LEMMA DividersType == ASSUME NEW crystal, NEW M \in Dividers(crystal) PROVE M \in 1..14
BY SMT DEF Dividers

(* What CalcVClock tries has the type of a setting and never exceeds the   *)
(* clock asked for.                                                        *)
LEMMA Tried1Facts ==
    ASSUME NEW clock \in Nat, NEW crystal \in Nat \ {0}
    PROVE  /\ Tried1(clock, crystal) \subseteq Coefficients1
           /\ \A s \in Tried1(clock, crystal) : Frequency(crystal, s) <= clock
<1> SUFFICES ASSUME NEW s \in Tried1(clock, crystal)
             PROVE  s \in Coefficients1 /\ Frequency(crystal, s) <= clock
  OBVIOUS
<1>1. PICK P \in 0..4, M \in Dividers(crystal) : s = SettingFor(crystal, clock, P, M)
  BY DEF Tried1
<1>2. P \in 0..6 /\ M \in 1..14
  BY DividersType, SMT
<1>3. /\ s.N \in Nat /\ crystal * s.N <= clock * 2^P * M
  BY <1>1, <1>2, SettingFacts
<1>4. s.N <= 255
  BY DEF Tried1
<1>5. s = [P |-> P, N |-> s.N, M |-> M]
  BY <1>1 DEF SettingFor
<1>6. s.N \in 0..255
  BY <1>3, <1>4, SMT
<1>7. s \in Coefficients1
  BY <1>2, <1>5, <1>6 DEF Coefficients1
<1>8. crystal * s.N <= clock * 2^s.P * s.M
  <2>1. s.P = P /\ s.M = M
    BY <1>5
  <2> QED BY <1>3, <2>1
<1> QED BY <1>7, <1>8, FrequencyBelow
(* A power of two brings a clock into a range of one octave. *)
LEMMA Octave ==
    ASSUME NEW clock \in Nat, NEW top \in Nat, clock <= top, top <= 128 * clock
    PROVE  \E P \in 0..6 : /\ clock * 2^P <= top /\ top <= 2 * (clock * 2^P)
                           /\ top <= 32 * clock => P \in 0..4
<1>0. /\ 2^0 = 1 /\ 2^1 = 2 /\ 2^2 = 4 /\ 2^3 = 8 /\ 2^4 = 16 /\ 2^5 = 32 /\ 2^6 = 64
  BY SMT
<1>1. \/ clock <= top /\ top <= 2 * clock
      \/ 2 * clock <= top /\ top <= 4 * clock
      \/ 4 * clock <= top /\ top <= 8 * clock
      \/ 8 * clock <= top /\ top <= 16 * clock
      \/ 16 * clock <= top /\ top <= 32 * clock
      \/ 32 * clock < top /\ top <= 64 * clock
      \/ 64 * clock < top /\ top <= 128 * clock
  BY SMT
<1>2. \E q \in {1, 2, 4, 8, 16, 32, 64} :
         /\ clock * q <= top /\ top <= 2 * (clock * q)
         /\ top <= 32 * clock => q \in {1, 2, 4, 8, 16}
  BY <1>1, SMT
<1>3. \A q \in {1, 2, 4, 8, 16, 32, 64} :
         \E P \in 0..6 : 2^P = q /\ (q \in {1, 2, 4, 8, 16} => P \in 0..4)
  BY <1>0
<1> QED BY <1>2, <1>3

(* The powers of two that the post dividers of CalcVClock stand for.       *)
LEMMA SmallPowers == ASSUME NEW P \in 0..4 PROVE 2^P \in {1, 2, 4, 8, 16}
<1>1. P = 0 \/ P = 1 \/ P = 2 \/ P = 3 \/ P = 4
  BY SMT
<1>2. 2^P \in {2^0, 2^1, 2^2, 2^3, 2^4}
  BY <1>1, Zenon
<1> QED BY <1>2, SMT

(* The clocks asked of one stage. *)
Asked1(clock) == 12000 <= clock /\ clock <= 350000

(* Crystals have positive frequencies.                                     *)
LEMMA CrystalType == ASSUME NEW crystal \in AllCrystals PROVE crystal \in Nat \ {0}
BY SMT DEF AllCrystals

(* A setting in reach of the search is within 1/64 of the clock. *)
LEMMA Close1 ==
    ASSUME NEW clock \in Nat, NEW crystal \in AllCrystals, Asked1(clock)
    PROVE  \E u \in Tried1(clock, crystal) : 64 * (clock - Frequency(crystal, u)) <= clock
<1> DEFINE M == IF crystal = 13500 THEN 7 ELSE IF crystal = 14318 THEN 8 ELSE 14
<1>0. M \in Dividers(crystal) /\ M \in 1..14 /\ crystal \in Nat \ {0}
  BY SMT DEF Dividers, AllCrystals
<1>m. \/ crystal = 13500 /\ M = 7
      \/ crystal = 14318 /\ M = 8
      \/ crystal = 27000 /\ M = 14
  <2>1. crystal = 13500 \/ crystal = 14318 \/ crystal = 27000
    BY SMT DEF AllCrystals
  <2> QED BY <2>1, SMT
<1> HIDE DEF M
<1>1. PICK P \in 0..6 : /\ clock * 2^P <= 350000 /\ 350000 <= 2 * (clock * 2^P)
                        /\ 350000 <= 32 * clock => P \in 0..4
  <2>1. 350000 \in Nat /\ 350000 <= 128 * clock
    BY SMT DEF Asked1
  <2>2. clock <= 350000
    BY SMT DEF Asked1
  <2> QED BY <2>1, <2>2, Octave, SMT
<1>2. P \in 0..4
  BY <1>1, SMT DEF Asked1
<1> DEFINE u == SettingFor(crystal, clock, P, M)
           N == u.N
           f == Frequency(crystal, u)
           p == 2^P
           V == clock * p
<1>3. p \in {1, 2, 4, 8, 16}
  BY <1>2, SmallPowers
<1>4. N \in Nat /\ crystal * N <= V * M
  BY <1>0, SettingFacts
<1>5. f \in Nat /\ (M * p) * (clock - f) < M * p + crystal
  BY <1>0, Gap
<1>6. u.P = P
  BY SMT DEF SettingFor
<1>8. u \in {SettingFor(crystal, clock, Q, L) : Q \in 0..4, L \in Dividers(crystal)}
  BY <1>0, <1>2, SMT
<1> HIDE DEF f, N
<1>7. V \in Nat /\ V <= 350000 /\ 175000 <= V
  BY <1>1, <1>3, SMT
<1> HIDE DEF V, u
<1>9. N <= 255
  BY <1>4, <1>7, <1>m, SMT
<1>10. u \in Tried1(clock, crystal)
  <2>1. Oscillates(clock * 2^u.P)
    BY <1>6, <1>7, SMT DEF V, Oscillates
  <2> QED BY <1>8, <1>9, <2>1, SMT DEF Tried1, N
<1> HIDE DEF p
<1>11. 64 * (clock - f) <= clock
  <2> DEFINE k == M * p
             e == clock - f
  <2>2. k \in Nat \ {0} /\ e \in Int /\ k * e < k + crystal
    BY <1>0, <1>3, <1>5, SMT
  <2>3. k * clock = M * V
    BY <1>0, <1>3, SMT DEF V
  <2>4. k <= 16 * M
    BY <1>0, <1>3, SMT
  <2>5. M * 175000 <= M * V
    BY <1>0, <1>7, SMT
  <2>6. 63 * k + 64 * crystal <= k * clock
    BY <2>2, <2>3, <2>4, <2>5, <1>m, <1>7, SMT
  <2> HIDE DEF k, e
  <2>7. crystal \in Nat
    BY <1>0
  <2>8. 64 * e <= clock
    BY <2>2, <2>6, <2>7, Close
  <2> QED BY <2>8 DEF e
<1> QED BY <1>10, <1>11, SMT DEF f

(* A positive factor may be dropped on both sides of a comparison.         *)
LEMMA Cancel ==
    ASSUME NEW k \in Nat \ {0}, NEW a \in Int, NEW b \in Int
    PROVE  /\ k * a <= k * b => a <= b
           /\ k * a < k * b => a < b
BY SMT

(* The largest multiplier for a pair of dividers is no smaller than any    *)
(* that does not exceed the clock.                                         *)
LEMMA LargestMultiplier ==
    ASSUME NEW C \in Nat \ {0}, NEW clock \in Nat, NEW P \in 0..6, NEW M \in 1..14,
           NEW N \in Nat, C * N <= clock * 2^P * M
    PROVE  N <= SettingFor(C, clock, P, M).N
<1> DEFINE N0 == SettingFor(C, clock, P, M).N
           a == clock * 2^P * M
<1>1. N0 \in Nat /\ a \in Nat /\ a < C * N0 + C
  BY SettingFacts
<1>2. C * N <= a
  OBVIOUS
<1> HIDE DEF N0, a
<1>3. C * N < C * (N0 + 1)
  BY <1>1, <1>2, SMT
<1>4. N < N0 + 1
  BY <1>1, <1>3, Cancel
<1> QED BY <1>1, <1>4 DEF N0

(* Where a multiplier does not fit its field for a divider m + 1, the      *)
(* multiplier for m does at least as well as the last that fits.           *)
LEMMA Carry ==
    ASSUME NEW V \in Nat, NEW C \in Nat \ {0}, NEW m \in Nat \ {0}, NEW N \in Nat,
           V * m < C * 256, C * 256 <= V * (m + 1),
           C * N <= V * m, V * m < C * N + C
    PROVE  N <= 255 /\ 255 * m <= N * (m + 1)
<1>1. C * N < C * 256
  BY SMT
<1>2. N < 256
  BY <1>1, Cancel
<1>3. (V * m) * (m + 1) < (C * (N + 1)) * (m + 1)
  <2> DEFINE a == V * m
             b == C * (N + 1)
  <2>1. a \in Nat /\ b \in Nat /\ a < b
    BY SMT
  <2> HIDE DEF a, b
  <2>2. a * (m + 1) < b * (m + 1)
    BY <2>1, SMT
  <2> QED BY <2>2 DEF a, b
<1>4. (C * 256) * m <= (V * (m + 1)) * m
  BY SMT
<1>5. (V * m) * (m + 1) = (V * (m + 1)) * m
  BY SMT
<1>6. (C * 256) * m < (C * (N + 1)) * (m + 1)
  <2> DEFINE a == (V * m) * (m + 1)
             b == (C * (N + 1)) * (m + 1)
             c == (C * 256) * m
  <2>1. a \in Int /\ b \in Int /\ c \in Int
    BY SMT
  <2>2. a < b /\ c <= a
    BY <1>3, <1>4, <1>5
  <2> HIDE DEF a, b, c
  <2>3. c < b
    BY <2>1, <2>2, SMT
  <2> QED BY <2>3 DEF b, c
<1>7. /\ (C * 256) * m = C * (256 * m)
      /\ (C * (N + 1)) * (m + 1) = C * ((N + 1) * (m + 1))
  BY SMT
<1>8. 256 * m < (N + 1) * (m + 1)
  <2>1. C * (256 * m) < C * ((N + 1) * (m + 1))
    BY <1>6, <1>7
  <2>2. 256 * m \in Int /\ (N + 1) * (m + 1) \in Int
    BY SMT
  <2> QED BY <2>1, <2>2, Cancel
<1>9. (N + 1) * (m + 1) = N * (m + 1) + m + 1
  BY SMT
<1> DEFINE x == N * (m + 1)
<1>10. x \in Int
  BY SMT
<1>11. 256 * m < x + m + 1
  BY <1>8, <1>9
<1> HIDE DEF x
<1>12. 255 * m <= x
  BY <1>10, <1>11, SMT
<1> QED BY <1>2, <1>12 DEF x
(* All settings of one stage that do not exceed the clock. *)
Allowed1(clock, crystal) ==
    {s \in [P : 0..4, N : 0..255, M : Dividers(crystal)] :
        Oscillates(clock * 2^s.P) /\ crystal * s.N <= clock * 2^s.P * s.M}

(* The multiplier that is tried for a divider. *)
LEMMA SettingTried1 ==
    ASSUME NEW clock \in Nat, NEW crystal \in Nat \ {0}, NEW P \in 0..4,
           NEW M \in Dividers(crystal), Oscillates(clock * 2^P),
           SettingFor(crystal, clock, P, M).N <= 255
    PROVE  SettingFor(crystal, clock, P, M) \in Tried1(clock, crystal)
<1> DEFINE u == SettingFor(crystal, clock, P, M)
<1>1. u.P = P
  BY DEF SettingFor
<1>2. u \in {SettingFor(crystal, clock, Q, L) : Q \in 0..4, L \in Dividers(crystal)}
  OBVIOUS
<1>3. u.N <= 255
  OBVIOUS
<1> HIDE DEF u
<1>4. u \in Tried1(clock, crystal)
  BY <1>1, <1>2, <1>3 DEF Tried1
<1> QED BY <1>4 DEF u

(* No setting does better than those tried. *)
LEMMA Best1 ==
    ASSUME NEW clock \in Nat, NEW crystal \in AllCrystals, NEW t \in Allowed1(clock, crystal)
    PROVE  \E u \in Tried1(clock, crystal) : Frequency(crystal, t) <= Frequency(crystal, u)
<1> DEFINE P == t.P
           M == t.M
           N == t.N
           V == clock * 2^P
<1>0. crystal \in Nat \ {0}
  BY CrystalType
<1>1. /\ P \in 0..4 /\ N \in 0..255 /\ M \in Dividers(crystal)
      /\ Oscillates(V) /\ crystal * N <= V * M
      /\ t = [P |-> P, N |-> N, M |-> M]
  BY DEF Allowed1
<1>2. P \in 0..6 /\ M \in 1..14 /\ N \in Nat
  BY <1>1, DividersType, SMT
<1>3. t \in Coefficients1
  BY <1>1, <1>2 DEF Coefficients1
<1>4. V \in Nat
  BY <1>2, Powers, ProductNat
<1>5. ASSUME NEW m \in Dividers(crystal), m <= M, SettingFor(crystal, clock, P, m).N <= 255,
             N * m <= SettingFor(crystal, clock, P, m).N * M
      PROVE  \E u \in Tried1(clock, crystal) : Frequency(crystal, t) <= Frequency(crystal, u)
  <2> DEFINE u == SettingFor(crystal, clock, P, m)
  <2>1. u \in Tried1(clock, crystal)
    BY <1>0, <1>1, <1>5, SettingTried1
  <2>2. u \in Coefficients1
    BY <1>0, <2>1, Tried1Facts
  <2>3. u.P = P /\ u.M = m
    BY DEF SettingFor
  <2>4. N * m <= u.N * M
    BY <1>5
  <2> HIDE DEF u
  <2>5. t.P = u.P /\ t.N * u.M <= u.N * t.M
    BY <2>3, <2>4
  <2>6. crystal \in Nat
    BY <1>0
  <2>7. Frequency(crystal, t) <= Frequency(crystal, u)
    BY <1>3, <2>2, <2>5, <2>6, FrequencyOrder
  <2> QED BY <2>1, <2>7
<1>6. CASE SettingFor(crystal, clock, P, M).N <= 255
  <2> DEFINE N0 == SettingFor(crystal, clock, P, M).N
  <2>1. N <= N0
    BY <1>0, <1>1, <1>2, LargestMultiplier
  <2>2. N0 \in Nat
    BY <1>0, <1>2, SettingFacts
  <2> HIDE DEF N0, N, M
  <2>3. N * M <= N0 * M /\ M <= M
    BY <1>2, <2>1, <2>2, SMT
  <2> QED BY <1>1, <1>5, <1>6, <2>3 DEF N0
<1>7. CASE ~ (SettingFor(crystal, clock, P, M).N <= 255)
  <2> DEFINE N0 == SettingFor(crystal, clock, P, M).N
  <2>1. N0 \in Nat /\ crystal * N0 <= V * M
    BY <1>0, <1>2, SettingFacts
  <2>2. ~ (N0 <= 255)
    BY <1>7
  <2> HIDE DEF N0, N, V
  <2>a. crystal * 256 <= crystal * N0
    BY <1>0, <2>1, <2>2, SMT
  <2>3. crystal * 256 <= V * M
    BY <1>0, <1>2, <1>4, <2>1, <2>a, SMT
  <2>4. V <= 350000
    BY <1>1, SMT DEF Oscillates
  <2> HIDE DEF M
  <2>5. PICK m \in 9..13 : V * m < crystal * 256 /\ crystal * 256 <= V * (m + 1)
    <3>1. crystal = 13500 \/ crystal = 14318 \/ crystal = 27000
      BY SMT DEF AllCrystals
    <3>2. V * 9 < crystal * 256
      BY <1>4, <2>4, <3>1, SMT
    <3>3. crystal * 256 <= V * 14
      <4>1. V * M <= V * 14
        BY <1>2, <1>4, SMT
      <4> QED BY <1>0, <1>2, <1>4, <2>3, <4>1, SMT
    <3>4. \/ V * 9 < crystal * 256 /\ crystal * 256 <= V * (9 + 1)
          \/ V * 10 < crystal * 256 /\ crystal * 256 <= V * (10 + 1)
          \/ V * 11 < crystal * 256 /\ crystal * 256 <= V * (11 + 1)
          \/ V * 12 < crystal * 256 /\ crystal * 256 <= V * (12 + 1)
          \/ V * 13 < crystal * 256 /\ crystal * 256 <= V * (13 + 1)
      BY <1>0, <1>4, <3>2, <3>3, SMT
    <3> QED BY <3>4, SMT
  <2>6. m + 1 <= M
    <3>1. V * m < V * M
      BY <1>0, <1>2, <1>4, <2>3, <2>5, SMT
    <3>2. m < M
      BY <1>2, <1>4, <3>1, SMT
    <3> QED BY <1>2, <3>2, SMT
  <2>7. m \in Dividers(crystal) /\ m \in 1..14 /\ m \in Nat \ {0} /\ m <= M
    <3>1. m \in 7..13 /\ m \in 8..14
      BY <2>5, SMT
    <3>2. m \in Dividers(crystal)
      BY <3>1 DEF Dividers
    <3> QED BY <1>2, <2>5, <2>6, <3>2, SMT
  <2> DEFINE Nm == SettingFor(crystal, clock, P, m).N
  <2>8. Nm \in Nat /\ crystal * Nm <= V * m /\ V * m < crystal * Nm + crystal
    BY <1>0, <1>2, <2>7, SettingFacts DEF V
  <2> HIDE DEF Nm
  <2>9. Nm <= 255 /\ 255 * m <= Nm * (m + 1)
    BY <1>0, <1>4, <2>5, <2>7, <2>8, Carry
  <2>10. N * m <= Nm * M
    <3>1. N * m <= 255 * m
      BY <1>1, <1>2, <2>7, SMT
    <3>2. Nm * (m + 1) <= Nm * M
      BY <1>2, <2>6, <2>7, <2>8, SMT
    <3> DEFINE a == N * m
               b == Nm * (m + 1)
               c == Nm * M
    <3>3. a \in Int /\ b \in Int /\ c \in Int
      BY <1>2, <2>7, <2>8, SMT
    <3>4. a <= 255 * m /\ 255 * m <= b /\ b <= c
      BY <2>9, <3>1, <3>2
    <3> HIDE DEF a, b, c
    <3>5. a <= c
      BY <2>7, <3>3, <3>4, SMT
    <3> QED BY <3>5 DEF a, c
  <2> QED BY <1>5, <2>7, <2>9, <2>10 DEF Nm
<1> QED BY <1>6, <1>7

(* What CalcVClock tries is allowed.                                       *)
LEMMA Tried1Allowed ==
    ASSUME NEW clock \in Nat, NEW crystal \in Nat \ {0}
    PROVE  Tried1(clock, crystal) \subseteq Allowed1(clock, crystal)
<1> SUFFICES ASSUME NEW s \in Tried1(clock, crystal) PROVE s \in Allowed1(clock, crystal)
  OBVIOUS
<1>1. PICK P \in 0..4, M \in Dividers(crystal) : s = SettingFor(crystal, clock, P, M)
  BY DEF Tried1
<1>2. P \in 0..6 /\ M \in 1..14
  BY DividersType, SMT
<1>3. /\ s.N \in Nat /\ crystal * s.N <= clock * 2^P * M
  BY <1>1, <1>2, SettingFacts
<1>4. s.N <= 255 /\ Oscillates(clock * 2^s.P)
  BY DEF Tried1
<1>5. s = [P |-> P, N |-> s.N, M |-> M] /\ s.P = P /\ s.M = M
  BY <1>1 DEF SettingFor
<1>6. s.N \in 0..255
  <2>1. s.N \in Nat /\ s.N <= 255
    BY <1>3, <1>4
  <2> QED BY <2>1, SMT
<1>7. s \in [P : 0..4, N : 0..255, M : Dividers(crystal)]
  BY <1>5, <1>6
<1> QED BY <1>3, <1>4, <1>5, <1>7 DEF Allowed1

(* What a search is for: a setting among those allowed whose clock is not  *)
(* above the one asked for, within 1/64 of it, and as high as that of any. *)
BestOf(clock, C, allowed, s) ==
    /\ s \in allowed
    /\ Frequency(C, s) \in Nat /\ Frequency(C, s) <= clock
    /\ 64 * (clock - Frequency(C, s)) <= clock
    /\ \A t \in allowed : Frequency(C, t) <= Frequency(C, s)

(* The first nearest setting is the best: nothing tried exceeds the clock, *)
(* so the nearest is the highest; and for every allowed setting one that   *)
(* is at least as high is tried.                                           *)
LEMMA SearchFinds ==
    ASSUME NEW clock \in Nat, NEW C \in Nat, NEW tried, NEW allowed,
           allowed \subseteq Coefficients1, tried \subseteq allowed,
           \A s \in tried : Frequency(C, s) <= clock,
           \E u \in tried : 64 * (clock - Frequency(C, u)) <= clock,
           \A t \in allowed : \E u \in tried : Frequency(C, t) <= Frequency(C, u)
    PROVE  BestOf(clock, C, allowed, FirstNearest(clock, C, tried))
<1> DEFINE s == FirstNearest(clock, C, tried)
<1>1. tried # {} /\ tried \subseteq Coefficients1
  OBVIOUS
<1>2. s \in tried /\ \A t \in tried : Frequency(C, t) <= Frequency(C, s)
  BY <1>1, Nearest
<1> HIDE DEF s
<1>3. \A t \in allowed : Frequency(C, t) \in Nat
  BY FrequencyType
<1>4. s \in allowed /\ Frequency(C, s) \in Nat /\ Frequency(C, s) <= clock
  BY <1>2, <1>3
<1>5. 64 * (clock - Frequency(C, s)) <= clock
  <2>1. PICK u \in tried : 64 * (clock - Frequency(C, u)) <= clock
    OBVIOUS
  <2>2. Frequency(C, u) \in Nat /\ Frequency(C, u) <= Frequency(C, s)
    BY <1>2, <1>3, <2>1
  <2> QED BY <1>4, <2>1, <2>2, SMT
<1>6. ASSUME NEW t \in allowed PROVE Frequency(C, t) <= Frequency(C, s)
  <2>1. PICK u \in tried : Frequency(C, t) <= Frequency(C, u)
    OBVIOUS
  <2>2. Frequency(C, u) <= Frequency(C, s)
    BY <1>2
  <2>3. Frequency(C, t) \in Nat /\ Frequency(C, u) \in Nat
    BY <1>3
  <2> QED BY <1>4, <2>1, <2>2, <2>3, SMT
<1> QED BY <1>4, <1>5, <1>6 DEF BestOf, s

(* What one stage allows has the type of a setting.                        *)
LEMMA Allowed1Type ==
    ASSUME NEW clock, NEW crystal
    PROVE  Allowed1(clock, crystal) \subseteq Coefficients1
<1>1. Dividers(crystal) \subseteq 1..14
  BY DividersType
<1>2. 0..4 \subseteq 0..6
  BY SMT
<1> QED BY <1>1, <1>2 DEF Allowed1, Coefficients1

(* The search of CalcVClock finds the best setting of one stage, for every *)
(* clock between MinVClockFreqKHz and MaxVClockFreqKHz (nv_hw.c, 749).     *)
THEOREM OneStageIsBest ==
    ASSUME NEW clock \in Nat, NEW crystal \in AllCrystals, Asked1(clock)
    PROVE  BestOf(clock, crystal, Allowed1(clock, crystal), CalcVClock(clock, crystal))
<1>1. crystal \in Nat \ {0}
  BY CrystalType
<1>2. \A s \in Tried1(clock, crystal) : Frequency(crystal, s) <= clock
  BY <1>1, Tried1Facts
<1>3. \E u \in Tried1(clock, crystal) : 64 * (clock - Frequency(crystal, u)) <= clock
  BY Close1
<1>4. \A t \in Allowed1(clock, crystal) :
         \E u \in Tried1(clock, crystal) : Frequency(crystal, t) <= Frequency(crystal, u)
  BY Best1
<1>5. Tried1(clock, crystal) \subseteq Allowed1(clock, crystal)
  BY <1>1, Tried1Allowed
<1>6. BestOf(clock, crystal, Allowed1(clock, crystal),
             FirstNearest(clock, crystal, Tried1(clock, crystal)))
  BY <1>1, <1>2, <1>3, <1>4, <1>5, Allowed1Type, SearchFinds
<1> QED BY <1>6, CalcVClockIs
-----------------------------------------------------------------------------
(* Two stages: C is four times the crystal. *)
Tried2(clock, C) ==
    {s \in {SettingFor(C, clock, P, M) : P \in 0..6, M \in 1..13} :
        Oscillates2Stage(clock * 2^s.P) /\ s.N \in 5..255}

Allowed2(clock, C) ==
    {s \in [P : 0..6, N : 5..255, M : 1..13] :
        Oscillates2Stage(clock * 2^s.P) /\ C * s.N <= clock * 2^s.P * s.M}

Asked2(clock) == 12000 <= clock /\ clock <= 400000

AllCrystals2 == {4 * 13500, 4 * 14318, 4 * 27000}

(* The second stage is driven by a positive frequency.                     *)
LEMMA Crystal2Type == ASSUME NEW C \in AllCrystals2 PROVE C \in Nat \ {0}
BY SMT DEF AllCrystals2

(* CalcVClock2Stage with the settings it tries by name.                    *)
LEMMA CalcVClock2StageIs ==
    ASSUME NEW clock, NEW crystal
    PROVE  CalcVClock2Stage(clock, crystal)
             = FirstNearest(clock, 4 * crystal, Tried2(clock, 4 * crystal))
BY DEF CalcVClock2Stage, Tried2, SettingFor

(* What two stages allow has the type of a setting.                        *)
LEMMA Allowed2Type ==
    ASSUME NEW clock, NEW C PROVE Allowed2(clock, C) \subseteq Coefficients1
<1>1. 1..13 \subseteq 1..14 /\ 5..255 \subseteq 0..255
  BY SMT
<1> QED BY <1>1 DEF Allowed2, Coefficients1

(* What CalcVClock2Stage tries is allowed and never exceeds the clock      *)
(* asked for.                                                              *)
LEMMA Tried2Facts ==
    ASSUME NEW clock \in Nat, NEW C \in Nat \ {0}
    PROVE  /\ Tried2(clock, C) \subseteq Allowed2(clock, C)
           /\ \A s \in Tried2(clock, C) : Frequency(C, s) <= clock
<1> SUFFICES ASSUME NEW s \in Tried2(clock, C)
             PROVE  s \in Allowed2(clock, C) /\ Frequency(C, s) <= clock
  OBVIOUS
<1>1. PICK P \in 0..6, M \in 1..13 : s = SettingFor(C, clock, P, M)
  BY DEF Tried2
<1>2. M \in 1..14
  BY SMT
<1>3. C * s.N <= clock * 2^P * M
  BY <1>1, <1>2, SettingFacts
<1>4. s.N \in 5..255 /\ Oscillates2Stage(clock * 2^s.P)
  BY DEF Tried2
<1>5. s = [P |-> P, N |-> s.N, M |-> M] /\ s.P = P /\ s.M = M
  BY <1>1 DEF SettingFor
<1>6. s \in [P : 0..6, N : 5..255, M : 1..13]
  BY <1>4, <1>5
<1>7. C * s.N <= clock * 2^s.P * s.M
  BY <1>3, <1>5
<1>8. s \in Allowed2(clock, C)
  BY <1>4, <1>6, <1>7 DEF Allowed2
<1>9. s \in Coefficients1
  BY <1>8, Allowed2Type
<1> QED BY <1>7, <1>8, <1>9, FrequencyBelow

(* CalcVClock2Stage tries every pair of dividers whose oscillator is in    *)
(* range and whose multiplier is.                                          *)
LEMMA SettingTried2 ==
    ASSUME NEW clock \in Nat, NEW C \in Nat \ {0}, NEW P \in 0..6,
           NEW M \in 1..13, Oscillates2Stage(clock * 2^P),
           SettingFor(C, clock, P, M).N \in 5..255
    PROVE  SettingFor(C, clock, P, M) \in Tried2(clock, C)
<1> DEFINE u == SettingFor(C, clock, P, M)
<1>1. u.P = P
  BY DEF SettingFor
<1>2. u \in {SettingFor(C, clock, Q, L) : Q \in 0..6, L \in 1..13}
  OBVIOUS
<1>3. u.N \in 5..255
  OBVIOUS
<1> HIDE DEF u
<1>4. u \in Tried2(clock, C)
  BY <1>1, <1>2, <1>3 DEF Tried2
<1> QED BY <1>4 DEF u

(* For every allowed setting of two stages CalcVClock2Stage tries one that *)
(* is at least as high.                                                    *)
LEMMA Best2 ==
    ASSUME NEW clock \in Nat, NEW C \in AllCrystals2, NEW t \in Allowed2(clock, C)
    PROVE  \E u \in Tried2(clock, C) : Frequency(C, t) <= Frequency(C, u)
<1> DEFINE P == t.P
           M == t.M
           N == t.N
           V == clock * 2^P
           u == SettingFor(C, clock, P, M)
           N0 == u.N
<1>0. C \in Nat \ {0}
  BY Crystal2Type
<1>1. /\ P \in 0..6 /\ N \in 5..255 /\ M \in 1..13
      /\ Oscillates2Stage(V) /\ C * N <= V * M
  BY DEF Allowed2
<1>2. M \in 1..14 /\ N \in Nat
  BY <1>1, SMT
<1>3. t \in Coefficients1
  BY Allowed2Type
<1>4. V \in Nat
  BY <1>1, Powers, ProductNat
<1>5. N0 \in Nat /\ C * N0 <= V * M
  BY <1>0, <1>1, <1>2, SettingFacts
<1>6. N <= N0
  BY <1>0, <1>1, <1>2, LargestMultiplier
<1>7. u.P = P /\ u.M = M
  BY DEF SettingFor
<1> HIDE DEF N0, V
<1>8. N0 \in 5..255
  <2>1. C * N0 < C * 256
    <3>1. V <= 1000000
      BY <1>1, SMT DEF Oscillates2Stage
    <3>2. V * M <= V * 13
      BY <1>1, <1>4, SMT
    <3>3. V * 13 < C * 256
      <4>1. C = 54000 \/ C = 57272 \/ C = 108000
        BY SMT DEF AllCrystals2
      <4> QED BY <1>4, <3>1, <4>1, SMT
    <3> QED BY <1>0, <1>1, <1>4, <1>5, <3>2, <3>3, SMT
  <2>2. N0 < 256
    BY <1>0, <1>5, <2>1, Cancel
  <2> HIDE DEF N
  <2> QED BY <1>1, <1>5, <1>6, <2>2, SMT
<1>9. u \in Tried2(clock, C)
  BY <1>0, <1>1, <1>8, SettingTried2 DEF V, N0
<1>10. u \in Coefficients1
  BY <1>0, <1>9, Tried2Facts, Allowed2Type
<1> HIDE DEF u
<1>11. t.N * u.M <= u.N * t.M
  <2>1. N * M <= N0 * M
    <3> HIDE DEF N, M
    <3> QED BY <1>2, <1>5, <1>6, SMT
  <2> QED BY <1>7, <2>1 DEF N0
<1>12. t.P = u.P /\ C \in Nat
  BY <1>0, <1>7
<1>13. Frequency(C, t) <= Frequency(C, u)
  BY <1>3, <1>10, <1>11, <1>12, FrequencyOrder
<1> QED BY <1>9, <1>13
(* A setting whose oscillator stays within d of V = clock * 2^P. *)
LEMMA CloseBy ==
    ASSUME NEW C \in Nat \ {0}, NEW clock \in Nat, NEW P \in 0..6, NEW M \in 1..14,
           NEW d \in Nat,
           M * (clock * 2^P - d) <= C * SettingFor(C, clock, P, M).N,
           64 * (d + 2^P) <= clock * 2^P
    PROVE  64 * (clock - Frequency(C, SettingFor(C, clock, P, M))) <= clock
<1> DEFINE s == SettingFor(C, clock, P, M)
           N == s.N
           p == 2^P
           V == clock * p
           g == (C * N) \div M
           f == g \div p
<1>1. N \in Nat /\ s.P = P /\ s.M = M
  BY SettingFacts DEF SettingFor
<1>2. M * (V - d) <= C * N /\ 64 * (d + p) <= V
  OBVIOUS
<1>3. p \in Nat \ {0}
  BY Powers
<1> HIDE DEF s, N, p
<1>4. C * N \in Nat /\ M \in Nat \ {0} /\ V \in Nat
  BY <1>1, <1>3, ProductNat, SMT
<1> HIDE DEF V
<1>5. V - d \in Int
  BY <1>4, SMT
<1>6. V - d <= g /\ g \in Nat
  <2>1. M * (V - d) <= C * N
    BY <1>2
  <2> DEFINE a == C * N
             b == V - d
  <2>2. a \in Int /\ M \in Nat \ {0} /\ b \in Int /\ M * b <= a
    BY <1>4, <1>5, <2>1
  <2>3. a >= 0
    BY <1>4
  <2> HIDE DEF a, b
  <2>4. b <= a \div M /\ a \div M \in Nat
    BY <2>2, <2>3, DivAtLeast, DivFacts
  <2> QED BY <2>4 DEF a, b, g
<1> HIDE DEF g
<1>7. f \in Nat /\ g < p * f + p
  BY <1>3, <1>6, DivFacts
<1>8. Frequency(C, s) = f
  BY <1>1 DEF Frequency, N, g, p
<1> HIDE DEF f
<1>9. V = p * clock
  BY <1>3, SMT DEF V
<1> DEFINE x == p * f
           y == p * clock
<1>10. x \in Nat /\ y \in Nat
  BY <1>3, <1>7, ProductNat
<1>11. 64 * (y - x) <= y
  <2>1. V = y /\ g < x + p
    BY <1>7, <1>9
  <2> HIDE DEF x, y
  <2> QED BY <1>2, <1>3, <1>4, <1>6, <1>10, <2>1, SMT
<1>12. p * (64 * (clock - f)) <= p * clock
  BY <1>3, <1>7, <1>11, SMT
<1>13. 64 * (clock - f) <= clock
  <2>1. 64 * (clock - f) \in Int /\ clock \in Int
    BY <1>7, SMT
  <2> QED BY <1>3, <1>12, <2>1, Cancel
<1> QED BY <1>8, <1>13 DEF s

(* With the 27 MHz crystal and the slowest oscillator the divider 13 alone *)
(* may be too coarse; then 12 is not.                                      *)
LEMMA TwelveOrThirteen ==
    ASSUME NEW V \in Nat, 500000 <= V, V <= 535808,
           NEW N13 \in Nat, 108000 * N13 <= V * 13, V * 13 < 108000 * N13 + 108000,
           NEW N12 \in Nat, 108000 * N12 <= V * 12, V * 12 < 108000 * N12 + 108000
    PROVE  13 * (V - 7740) <= 108000 * N13 \/ 12 * (V - 7740) <= 108000 * N12
<1>1. N13 = 60 \/ N13 = 61 \/ N13 = 62 \/ N13 = 63 \/ N13 = 64
  BY SMT
<1>2. N12 = 55 \/ N12 = 56 \/ N12 = 57 \/ N12 = 58 \/ N12 = 59
  BY SMT
<1> QED BY <1>1, <1>2, SMT

(* CalcVClock2Stage tries a setting within 1/64 of the clock.              *)
LEMMA Close2 ==
    ASSUME NEW clock \in Nat, NEW C \in AllCrystals2, Asked2(clock)
    PROVE  \E u \in Tried2(clock, C) : 64 * (clock - Frequency(C, u)) <= clock
<1>0. C \in Nat \ {0}
  BY Crystal2Type
<1>c. C = 54000 \/ C = 57272 \/ C = 108000
  BY SMT DEF AllCrystals2
<1>1. PICK P \in 0..6 : clock * 2^P <= 1000000 /\ 1000000 <= 2 * (clock * 2^P)
  <2>1. 1000000 \in Nat /\ 1000000 <= 128 * clock /\ clock <= 1000000
    BY SMT DEF Asked2
  <2> QED BY <2>1, Octave, SMT
<1> DEFINE p == 2^P
           V == clock * p
<1>2. p \in Nat \ {0} /\ p <= 64
  <2>1. p \in Nat \ {0} /\ p \in {1, 2, 4, 8, 16, 32, 64}
    BY Powers
  <2> HIDE DEF p
  <2> QED BY <2>1, SMT
<1>3. V \in Nat
  BY <1>2, ProductNat
<1>4. V <= 1000000 /\ 500000 <= V
  <2>1. V <= 1000000 /\ 1000000 <= 2 * V
    BY <1>1, SMT
  <2> HIDE DEF V
  <2> QED BY <1>3, <2>1, SMT
<1>5. Oscillates2Stage(V)
  <2> HIDE DEF V
  <2> QED BY <1>3, <1>4, SMT DEF Oscillates2Stage
<1>6. ASSUME NEW M \in 12..13, NEW d \in Nat,
             M * (V - d) <= C * SettingFor(C, clock, P, M).N, 64 * (d + p) <= V
      PROVE  \E u \in Tried2(clock, C) : 64 * (clock - Frequency(C, u)) <= clock
  <2> DEFINE N == SettingFor(C, clock, P, M).N
  <2>1. M \in 1..13 /\ M \in 1..14
    BY SMT
  <2>2. N \in Nat /\ C * N <= V * M /\ V * M < C * N + C
    BY <1>0, <2>1, SettingFacts
  <2> HIDE DEF N, V
  <2>3. N \in 5..255
    <3>1. V * M <= V * 13 /\ V * 12 <= V * M
      BY <1>3, SMT
    <3>2. C * N < C * 256
      BY <1>0, <1>3, <1>4, <1>c, <2>1, <2>2, <3>1, SMT
    <3>3. C * 4 < C * N
      BY <1>0, <1>3, <1>4, <1>c, <2>1, <2>2, <3>1, SMT
    <3>4. 4 < N /\ N < 256
      BY <1>0, <2>2, <3>2, <3>3, Cancel
    <3> QED BY <2>2, <3>4, SMT
  <2>4. SettingFor(C, clock, P, M) \in Tried2(clock, C)
    BY <1>0, <1>5, <2>1, <2>3, SettingTried2 DEF N, V
  <2>5. 64 * (clock - Frequency(C, SettingFor(C, clock, P, M))) <= clock
    BY <1>0, <1>6, <2>1, CloseBy DEF V
  <2> QED BY <2>4, <2>5
<1> DEFINE N13 == SettingFor(C, clock, P, 13).N
           N12 == SettingFor(C, clock, P, 12).N
<1>7. /\ N13 \in Nat /\ C * N13 <= V * 13 /\ V * 13 < C * N13 + C
      /\ N12 \in Nat /\ C * N12 <= V * 12 /\ V * 12 < C * N12 + C
  <2>1. 13 \in 1..14 /\ 12 \in 1..14
    BY SMT
  <2> QED BY <1>0, <2>1, SettingFacts
<1>8. 13 \in 12..13 /\ 12 \in 12..13 /\ 7740 \in Nat /\ 8308 \in Nat
  BY SMT
<1> HIDE DEF N13, N12, V
<1>9. 64 * (7740 + p) <= V
  BY <1>2, <1>3, <1>4, SMT
<1>10. CASE C # 108000
  <2>1. 13 * (V - 7740) <= C * N13
    BY <1>0, <1>3, <1>7, <1>c, <1>10, SMT
  <2> QED BY <1>6, <1>8, <1>9, <2>1 DEF N13
<1>11. CASE C = 108000 /\ V > 535808
  <2>1. 13 * (V - 8308) <= C * N13
    BY <1>0, <1>3, <1>7, <1>11, SMT
  <2>2. 64 * (8308 + p) <= V
    BY <1>2, <1>3, <1>11, SMT
  <2> QED BY <1>6, <1>8, <2>1, <2>2 DEF N13
<1>12. CASE C = 108000 /\ V <= 535808
  <2>1. 13 * (V - 7740) <= C * N13 \/ 12 * (V - 7740) <= C * N12
    BY <1>3, <1>4, <1>7, <1>12, TwelveOrThirteen, SMT
  <2>2. CASE 13 * (V - 7740) <= C * N13
    BY <1>6, <1>8, <1>9, <2>2 DEF N13
  <2>3. CASE 12 * (V - 7740) <= C * N12
    BY <1>6, <1>8, <1>9, <2>3 DEF N12
  <2> QED BY <2>1, <2>2, <2>3
<1> QED BY <1>3, <1>10, <1>11, <1>12, SMT

(* The search of CalcVClock2Stage finds the best setting of two stages,    *)
(* for every clock in the range of the chips that have them (nv_hw.c,      *)
(* 795).                                                                   *)
THEOREM TwoStageIsBest ==
    ASSUME NEW clock \in Nat, NEW crystal \in AllCrystals, Asked2(clock)
    PROVE  BestOf(clock, 4 * crystal, Allowed2(clock, 4 * crystal),
                  CalcVClock2Stage(clock, crystal))
<1> DEFINE C == 4 * crystal
<1>1. C \in AllCrystals2
  BY SMT DEF AllCrystals, AllCrystals2
<1> HIDE DEF C
<1>2. C \in Nat \ {0}
  BY <1>1, Crystal2Type
<1>3. /\ Tried2(clock, C) \subseteq Allowed2(clock, C)
      /\ \A s \in Tried2(clock, C) : Frequency(C, s) <= clock
  BY <1>2, Tried2Facts
<1>4. \E u \in Tried2(clock, C) : 64 * (clock - Frequency(C, u)) <= clock
  BY <1>1, Close2
<1>5. \A t \in Allowed2(clock, C) :
         \E u \in Tried2(clock, C) : Frequency(C, t) <= Frequency(C, u)
  BY <1>1, Best2
<1>6. BestOf(clock, C, Allowed2(clock, C), FirstNearest(clock, C, Tried2(clock, C)))
  BY <1>2, <1>3, <1>4, <1>5, Allowed2Type, SearchFinds
<1> QED BY <1>6, CalcVClock2StageIs DEF C
-----------------------------------------------------------------------------
(* A setting is read back from the register it is written to (nv_hw.c,     *)
(* 785).                                                                   *)
LEMMA RegisterHolds ==
    ASSUME NEW s \in Coefficients1
    PROVE  /\ Register(s) \in Nat /\ Register(s) < 7 * 65536
           /\ Decoded(Register(s)) = s
<1> DEFINE P == s.P
           N == s.N
           M == s.M
           r == P * 65536 + N * 256 + M
<1>1. P \in 0..6 /\ N \in 0..255 /\ M \in 1..14 /\ s = [P |-> P, N |-> N, M |-> M]
  BY DEF Coefficients1
<1>2. Register(s) = r
  BY SMT DEF Register
<1> HIDE DEF P, N, M
<1>3. r \in Nat /\ r < 7 * 65536
  BY <1>1, SMT
<1>4. r \div 65536 = P
  BY <1>1, SMT
<1>5. r \div 256 = P * 256 + N
  BY <1>1, SMT
<1>6. (P * 256 + N) % 256 = N
  BY <1>1, SMT
<1>7. r % 256 = M
  BY <1>1, SMT
<1> HIDE DEF r
<1>8. Decoded(r) = [P |-> P, N |-> N, M |-> M]
  BY <1>4, <1>5, <1>6, <1>7, SMT DEF Decoded
<1> QED BY <1>1, <1>2, <1>3, <1>8
=============================================================================
