---------------------------- MODULE NVFifoProofs ----------------------------
(***************************************************************************)
(* Proofs about NVCalcStateExt (NVFifo): for all chips, boards and modes   *)
(* the PLL register holds the best setting there is, and the settings of   *)
(* the FIFO that the loops find let it neither run dry nor overflow,       *)
(* whichever margins were given up on the way.                             *)
(***************************************************************************)
EXTENDS NVFifo, ClocksProofs

-----------------------------------------------------------------------------
(* Boards and modes. *)
LEMMA BoardType ==
    ASSUME NEW b \in Boards
    PROVE  /\ b.chip \in Chips /\ b.crystal \in AllCrystals
           /\ b.mclk \in Nat \ {0} /\ b.nvclk \in Nat \ {0}
           /\ b.width \in {64, 128} /\ b.ddr \in BOOLEAN
           /\ b.miss \in Nat /\ b.latency = 3
<1>1. /\ b.chip \in Chips
      /\ b.mclk \in MClks /\ b.nvclk \in NVClks
      /\ b.width \in Widths /\ b.ddr \in BOOLEAN
      /\ b.miss \in PageMisses \cup {10} /\ b.latency \in {3}
  BY SMT DEF Boards
<1>2. b.crystal \in AllCrystals
  BY SMT DEF Boards, AllCrystals
<1>3. /\ MClks \subseteq Nat \ {0} /\ NVClks \subseteq Nat \ {0}
      /\ Widths \subseteq {64, 128} /\ PageMisses \subseteq 0..16
  BY FifoAssumption, SMT DEF FifoAssumption
<1>4. b.miss \in 0..16
  <2>1. b.miss \in PageMisses \/ b.miss = 10
    BY <1>1
  <2>2. 10 \in 0..16
    BY SMT
  <2> QED BY <1>3, <2>1, <2>2
<1>5. b.miss \in Nat
  BY <1>4, SMT
<1> QED BY <1>1, <1>2, <1>3, <1>5

(* The fields of a mode.                                                   *)
LEMMA ModeType ==
    ASSUME NEW m \in ModeSet
    PROVE  m.clock \in PixelClocks /\ m.bpp \in {8, 15, 16, 32}
<1>1. m.clock \in PixelClocks /\ m.bpp \in Depths
  BY DEF ModeSet
<1>2. Depths \subseteq {8, 15, 16, 32}
  BY FifoAssumption, SMT DEF FifoAssumption
<1> QED BY <1>1, <1>2

(* The clocks of modes are in the range for which the searches are proved. *)
LEMMA ClockRange ==
    ASSUME NEW id \in Chips, NEW clock \in PixelClocks
    PROVE  /\ clock \in Nat /\ clock > 0
           /\ TwoStagePLL(id) => Asked2(clock)
           /\ ~ TwoStagePLL(id) => Asked1(clock)
<1>1. clock \in MinVClockFreqKHz..MaxVClockFreqKHz(id)
  BY FifoAssumption, SMT DEF FifoAssumption
<1>2. MinVClockFreqKHz = 12000
  BY SMT DEF MinVClockFreqKHz
<1>3. MaxVClockFreqKHz(id) = IF TwoStagePLL(id) THEN 400000 ELSE 350000
  BY SMT DEF MaxVClockFreqKHz
<1>4. MinVClockFreqKHz \in Int /\ MaxVClockFreqKHz(id) \in Int
  BY <1>2, <1>3, SMT
<1>5. clock \in Int /\ MinVClockFreqKHz <= clock /\ clock <= MaxVClockFreqKHz(id)
  BY <1>1, <1>4, SMT
<1> QED BY <1>2, <1>3, <1>5, SMT DEF Asked1, Asked2
-----------------------------------------------------------------------------
(* The coefficients of the PLL. *)
LEMMA SettingsOne ==
    ASSUME NEW crystal, NEW clock
    PROVE  Settings(FALSE, crystal, clock) = Allowed1(clock, crystal)
BY DEF Settings, Allowed1, Driving

(* The settings of two stages are those ClocksProofs speaks of.            *)
LEMMA SettingsTwo ==
    ASSUME NEW crystal, NEW clock
    PROVE  Settings(TRUE, crystal, clock) = Allowed2(clock, 4 * crystal)
BY DEF Settings, Allowed2, Driving

(* The highest of a set of clocks. *)
LEMMA HighestIs ==
    ASSUME NEW clocks, clocks \subseteq Nat, NEW f \in clocks, \A g \in clocks : g <= f
    PROVE  f = CHOOSE h \in clocks : \A g \in clocks : g <= h
<1> DEFINE h == CHOOSE h \in clocks : \A g \in clocks : g <= h
<1>1. h \in clocks /\ \A g \in clocks : g <= h
  OBVIOUS
<1> HIDE DEF h
<1>2. f <= h /\ h <= f /\ f \in Nat /\ h \in Nat
  BY <1>1
<1>3. f = h
  BY <1>2, SMT
<1> QED BY <1>3 DEF h

Best(two, crystal, asked) ==
    LET clocks == {Frequency(Driving(two, crystal), s) : s \in Settings(two, crystal, asked)}
    IN  CHOOSE f \in clocks : \A g \in clocks : g <= f

(* BestClock is the highest clock of the settings, by its definition.      *)
LEMMA BestClockIs ==
    ASSUME NEW two \in BOOLEAN, NEW crystal \in AllCrystals, NEW asked \in PixelClocks
    PROVE  BestClock[two][crystal][asked] = Best(two, crystal, asked)
BY Zenon DEF BestClock, Best

(* What the search finds is the best there is, for the board's PLL. *)
LEMMA CoefficientsBest ==
    ASSUME NEW clock \in PixelClocks, board \in Boards
    PROVE  BestOf(clock, Driving(TwoStagePLL(board.chip), board.crystal),
                  Settings(TwoStagePLL(board.chip), board.crystal, clock),
                  Coefficients(clock))
<1> DEFINE two == TwoStagePLL(board.chip)
<1>1. board.chip \in Chips /\ board.crystal \in AllCrystals
  BY BoardType
<1>2. clock \in Nat /\ (two => Asked2(clock)) /\ (~ two => Asked1(clock))
  BY <1>1, ClockRange
<1>3. CASE two
  <2>1. Coefficients(clock) = CalcVClock2Stage(clock, board.crystal)
    BY <1>3 DEF Coefficients
  <2>2. two = TRUE
    BY <1>3 DEF TwoStagePLL
  <2>3. Driving(two, board.crystal) = 4 * board.crystal
    BY <1>3 DEF Driving
  <2>4. Settings(two, board.crystal, clock) = Allowed2(clock, 4 * board.crystal)
    BY <2>2, SettingsTwo
  <2> HIDE DEF two
  <2> QED BY <1>1, <1>2, <1>3, <2>1, <2>3, <2>4, TwoStageIsBest DEF two
<1>4. CASE ~ two
  <2>1. Coefficients(clock) = CalcVClock(clock, board.crystal)
    BY <1>4 DEF Coefficients
  <2>2. two = FALSE
    BY <1>4 DEF TwoStagePLL
  <2>3. Driving(two, board.crystal) = board.crystal
    BY <1>4 DEF Driving
  <2>4. Settings(two, board.crystal, clock) = Allowed1(clock, board.crystal)
    BY <2>2, SettingsOne
  <2> QED BY <1>1, <1>2, <1>4, <2>1, <2>3, <2>4, OneStageIsBest
<1> QED BY <1>3, <1>4

(* All settings have the type of one.                                      *)
LEMMA CoefficientsType ==
    ASSUME NEW clock \in PixelClocks, board \in Boards
    PROVE  Settings(TwoStagePLL(board.chip), board.crystal, clock) \subseteq Coefficients1
<1> DEFINE two == TwoStagePLL(board.chip)
<1>1. CASE two = TRUE
  BY <1>1, SettingsTwo, Allowed2Type
<1>2. CASE two = FALSE
  BY <1>2, SettingsOne, Allowed1Type
<1> QED BY <1>1, <1>2, ZenonT(40) DEF TwoStagePLL

(* What NVCalcStateExt makes of a clock. *)
PllMade(clock, v, p) ==
    /\ v \in Nat /\ v <= clock /\ 64 * (clock - v) <= clock
    /\ p \in Nat /\ p < 7 * 65536
    /\ v = ClockOut(Decoded(p))
    /\ v = BestClock[TwoStagePLL(board.chip)][board.crystal][clock]

(* What PllIsBest says, of the setting the search finds and its register.  *)
LEMMA PllFacts ==
    ASSUME NEW clock \in PixelClocks, board \in Boards
    PROVE  PllMade(clock, ClockOut(Coefficients(clock)), Register(Coefficients(clock)))
<1> DEFINE two == TwoStagePLL(board.chip)
           C == Driving(two, board.crystal)
           S == Settings(two, board.crystal, clock)
           s == Coefficients(clock)
           f == Frequency(C, s)
           clocks == {Frequency(C, t) : t \in S}
<1>1. BestOf(clock, C, S, s)
  BY CoefficientsBest
<1>2. S \subseteq Coefficients1
  BY CoefficientsType
<1>3. board.crystal \in AllCrystals /\ two \in BOOLEAN
  BY BoardType DEF TwoStagePLL
<1>4. ClockOut(s) = f
  BY DEF ClockOut
<1>5. C \in Nat
  <2>1. board.crystal \in Nat
    BY <1>3, CrystalType
  <2> QED BY <2>1, SMT DEF Driving
<1>6. BestClock[two][board.crystal][clock] = Best(two, board.crystal, clock)
  BY <1>3, BestClockIs
<1>7. Best(two, board.crystal, clock) = CHOOSE h \in clocks : \A g \in clocks : g <= h
  BY DEF Best
<1> HIDE DEF C, S, s
<1>8. s \in S /\ f \in Nat /\ f <= clock /\ 64 * (clock - f) <= clock
      /\ \A t \in S : Frequency(C, t) <= f
  BY <1>1 DEF BestOf
<1>9. clocks \subseteq Nat /\ f \in clocks /\ \A g \in clocks : g <= f
  BY <1>2, <1>5, <1>8, FrequencyType
<1>10. f = BestClock[two][board.crystal][clock]
  <2> HIDE DEF f, clocks, two
  <2> QED BY <1>6, <1>7, <1>9, HighestIs
<1>11. s \in Coefficients1
  BY <1>2, <1>8
<1>12. Register(s) \in Nat /\ Register(s) < 7 * 65536 /\ Decoded(Register(s)) = s
  BY <1>11, RegisterHolds
<1> QED BY <1>4, <1>8, <1>10, <1>12 DEF PllMade, s
-----------------------------------------------------------------------------
(* Times and what the display takes in them. *)
Shown == board \in Boards /\ mode.bpp \in {8, 15, 16, 32} /\ VClk \in Nat \ {0}

(* A pixel has one, two or four bytes.                                     *)
LEMMA Depth ==
    ASSUME Shown
    PROVE  \E B \in {1, 2, 4} : bpp = 8 * B
<1>1. mode.bpp = 8 \/ mode.bpp = 15 \/ mode.bpp = 16 \/ mode.bpp = 32
  BY DEF Shown
<1>2. pixelDepth = 1 \/ pixelDepth = 2 \/ pixelDepth = 4
  BY <1>1, SMT DEF pixelDepth
<1> QED BY <1>2, SMT DEF bpp

(* The depth is a natural number.                                          *)
LEMMA DepthType == ASSUME Shown PROVE bpp \in Nat
BY Depth, SMT

(* The drain rate is a natural number.                                     *)
LEMMA RateType == ASSUME Shown PROVE CrtcDrainRate \in Nat
<1>1. VClk \in Nat /\ bpp \in Nat
  BY DepthType DEF Shown
<1> DEFINE a == VClk * bpp
<1>2. a \in Nat
  BY <1>1, ProductNat
<1>3. 8 \in Nat \ {0}
  OBVIOUS
<1> HIDE DEF a
<1>4. a \div 8 \in Nat
  BY <1>2, <1>3, DivFacts, SMT
<1> QED BY <1>4 DEF CrtcDrainRate, a

(* More clocks take no less time.                                          *)
LEMMA TimeFacts ==
    ASSUME NEW c \in Nat, NEW d \in Nat, c <= d, NEW freq \in Nat \ {0}
    PROVE  Time(c, freq) \in Nat /\ Time(d, freq) \in Nat /\ Time(c, freq) <= Time(d, freq)
<1> DEFINE k == 1000000
           a == c * k
           b == d * k
<1>1. k \in Nat
  BY SMT
<1> HIDE DEF k
<1>2. a \in Nat /\ b \in Nat /\ a <= b
  BY <1>1, SMT
<1> HIDE DEF a, b
<1>3. a \div freq \in Nat /\ b \div freq \in Nat
  BY <1>2, DivFacts, SMT
<1>4. a \div freq <= b \div freq
  BY <1>2, DivMonotone
<1> QED BY <1>3, <1>4, SMT DEF Time, a, b, k

(* Times are natural numbers.                                              *)
LEMMA TimeType ==
    ASSUME NEW c \in Nat, NEW freq \in Nat \ {0} PROVE Time(c, freq) \in Nat
<1>1. c <= c
  BY SMT
<1> QED BY <1>1, TimeFacts

(* The display drains no less in more time.                                *)
LEMMA BytesFacts ==
    ASSUME NEW s \in Nat, NEW t \in Nat, s <= t, Shown
    PROVE  Bytes(s) \in Nat /\ Bytes(t) \in Nat /\ Bytes(s) <= Bytes(t)
<1> DEFINE k == 1000000
           r == CrtcDrainRate
           a == s * r
           b == t * r
<1>1. k \in Nat \ {0} /\ r \in Nat
  BY RateType, SMT
<1> HIDE DEF k, r
<1>2. a \in Nat /\ b \in Nat /\ a <= b
  BY <1>1, SMT
<1> HIDE DEF a, b
<1>3. a \div k \in Nat /\ b \div k \in Nat
  BY <1>1, <1>2, DivFacts, SMT
<1>4. a \div k <= b \div k
  BY <1>1, <1>2, DivMonotone
<1> QED BY <1>3, <1>4, SMT DEF Bytes, a, b, k, r

(* The board and the clock while a mode is shown.                          *)
LEMMA ShownFacts ==
    ASSUME Shown
    PROVE  /\ board.mclk \in Nat \ {0} /\ board.nvclk \in Nat \ {0}
           /\ board.width \in {64, 128} /\ board.ddr \in BOOLEAN
           /\ board.miss \in Nat /\ board.latency = 3 /\ VClk \in Nat \ {0}
BY BoardType DEF Shown

(* A larger margin is a longer latency. *)
LEMMA Latency4Facts ==
    ASSUME NEW c \in Nat, NEW d \in Nat, c <= d, Shown
    PROVE  /\ Latency4(c) \in Nat /\ Latency4(d) \in Nat
           /\ Latency4(c) <= Latency4(d)
<1>1. MClks4 + c \in Nat /\ MClks4 + d \in Nat /\ MClks4 + c <= MClks4 + d
      /\ NVClks4 \in Nat /\ 3 * board.miss \in Nat
  BY ShownFacts, SMT DEF MClks4, NVClks4
<1> DEFINE m == Time(3 * board.miss, board.mclk)
           n == Time(NVClks4, board.nvclk)
           v == Time(NVClks4, VClk)
           x == Time(MClks4 + c, board.mclk)
           y == Time(MClks4 + d, board.mclk)
<1>2. m \in Nat /\ n \in Nat /\ v \in Nat
  BY <1>1, ShownFacts, TimeType
<1>3. x \in Nat /\ y \in Nat /\ x <= y
  BY <1>1, ShownFacts, TimeFacts
<1>4. Latency4(c) = m + x + n + v /\ Latency4(d) = m + y + n + v
  BY DEF Latency4
<1> HIDE DEF m, n, v, x, y
<1> QED BY <1>2, <1>3, <1>4, SMT

(* On the NV4 a larger margin asks for no lower a level.                   *)
LEMMA Bytes4Facts ==
    ASSUME NEW c \in Nat, NEW d \in Nat, c <= d, Shown
    PROVE  /\ Bytes(Latency4(c)) \in Nat /\ Bytes(Latency4(d)) \in Nat
           /\ Bytes(Latency4(c)) <= Bytes(Latency4(d))
BY Latency4Facts, BytesFacts

(* The clocks of the memory are a natural number.                          *)
LEMMA MClks10Type == ASSUME Shown PROVE MClks10 \in Nat
<1>1. board.width = 64 \/ board.width # 64
  OBVIOUS
<1>2. MClks10 \in {20, 22, 19, 20}
  BY SMT DEF MClks10
<1> QED BY <1>2, SMT

(* On the NV10 a larger margin makes for no shorter a latency.             *)
LEMMA Latency10Facts ==
    ASSUME NEW c \in Nat, NEW d \in Nat, c <= d, Shown
    PROVE  /\ Latency10(c) \in Nat /\ Latency10(d) \in Nat
           /\ Latency10(c) <= Latency10(d)
<1>1. MClks10 + c \in Nat /\ MClks10 + d \in Nat /\ MClks10 + c <= MClks10 + d
      /\ NVClks10 \in Nat /\ PClks10 \in Nat /\ 2 * board.miss \in Nat
  <2>1. board.miss \in Nat /\ MClks10 \in Nat
    BY ShownFacts, MClks10Type
  <2> QED BY <2>1, SMT DEF NVClks10, PClks10
<1> DEFINE m == Time(2 * board.miss, board.mclk)
           n == Time(NVClks10, board.nvclk)
           v == Time(PClks10, VClk)
           x == Time(MClks10 + c, board.mclk)
           y == Time(MClks10 + d, board.mclk)
           video == TakesVideo(board.chip)
<1>2. m \in Nat /\ n \in Nat /\ v \in Nat
  BY <1>1, ShownFacts, TimeType
<1>3. x \in Nat /\ y \in Nat /\ x <= y
  BY <1>1, ShownFacts, TimeFacts, ZenonT(40)
<1>4. /\ Latency10(c) = m + x + n + v + IF video THEN m + x ELSE 0
      /\ Latency10(d) = m + y + n + v + IF video THEN m + y ELSE 0
  BY DEF Latency10
<1> HIDE DEF m, n, v, x, y, video
<1>5. CASE video
  BY <1>2, <1>3, <1>4, <1>5, SMT
<1>6. CASE ~ video
  BY <1>2, <1>3, <1>4, <1>6, SMT
<1> QED BY <1>5, <1>6

(* On the NV10 a larger margin asks for no lower a level.                  *)
LEMMA Bytes10Facts ==
    ASSUME NEW c \in Nat, NEW d \in Nat, c <= d, Shown
    PROVE  /\ Bytes(Latency10(c)) \in Nat /\ Bytes(Latency10(d)) \in Nat
           /\ Bytes(Latency10(c)) <= Bytes(Latency10(d))
BY Latency10Facts, BytesFacts

(* What the display takes while the memory delivers. *)
LEMMA Drained10Facts ==
    ASSUME NEW c \in Nat, NEW d \in Nat, c <= d, Shown
    PROVE  /\ Drained10(c) \in Nat /\ Drained10(d) \in Nat
           /\ Drained10(c) <= Drained10(d)
<1> DEFINE k == 1000000
           x == Pipe10 + Time(c, board.mclk)
           y == Pipe10 + Time(d, board.mclk)
           V == VClk
           B == bpp
<1>1. k \in Nat \ {0} /\ V \in Nat /\ B \in Nat /\ 8 \in Nat \ {0}
  BY DepthType, ShownFacts, SMT
<1>2. Pipe10 \in Nat
  <2>1. MClks10 \in Nat /\ NVClks10 \in Nat /\ PClks10 \in Nat
    BY MClks10Type, SMT DEF NVClks10, PClks10
  <2> DEFINE p == Time(MClks10, board.mclk)
             q == Time(NVClks10, board.nvclk)
             r == Time(PClks10, VClk)
  <2>2. p \in Nat /\ q \in Nat /\ r \in Nat
    BY <2>1, ShownFacts, TimeType
  <2>3. Pipe10 = p + q + r
    BY DEF Pipe10
  <2> HIDE DEF p, q, r
  <2> QED BY <2>2, <2>3, SMT
<1>3. Time(c, board.mclk) \in Nat /\ Time(d, board.mclk) \in Nat
      /\ Time(c, board.mclk) <= Time(d, board.mclk)
  BY ShownFacts, TimeFacts
<1>4. x \in Nat /\ y \in Nat /\ x <= y
  BY <1>2, <1>3, SMT
<1> HIDE DEF k, x, y, V, B
<1> DEFINE a == (x * V) \div k
           b == (y * V) \div k
<1>5. x * V \in Nat /\ y * V \in Nat /\ x * V <= y * V
  BY <1>1, <1>4, ProductNat, ProductMonotone
<1>6. a \in Nat /\ b \in Nat /\ a <= b
  <2> DEFINE s == x * V
             t == y * V
  <2>1. s \in Nat /\ t \in Nat /\ s <= t
    BY <1>5
  <2> HIDE DEF s, t
  <2>2. s \div k \in Nat /\ t \div k \in Nat
    BY <1>1, <2>1, DivFacts, SMT
  <2>3. s \div k <= t \div k
    BY <1>1, <2>1, DivMonotone
  <2> QED BY <2>2, <2>3 DEF s, t
<1> HIDE DEF a, b
<1>7. a * B \in Nat /\ b * B \in Nat /\ a * B <= b * B
  BY <1>1, <1>6, ProductNat, ProductMonotone
<1>8. (a * B) \div 8 \in Nat /\ (b * B) \div 8 \in Nat
      /\ (a * B) \div 8 <= (b * B) \div 8
  <2> DEFINE s == a * B
             t == b * B
  <2>1. s \in Nat /\ t \in Nat /\ s <= t
    BY <1>7
  <2> HIDE DEF s, t
  <2>2. s \div 8 \in Nat /\ t \div 8 \in Nat
    BY <1>1, <2>1, DivFacts, SMT
  <2>3. s \div 8 <= t \div 8
    BY <1>1, <2>1, DivMonotone
  <2> QED BY <2>2, <2>3 DEF s, t
<1> QED BY <1>8, SMT DEF Drained10, a, b, x, y, V, B, k

(* The quotients of the check for overflow, with the depth in bytes.       *)
LEMMA Drained4Is ==
    ASSUME NEW m \in Nat, NEW B \in {1, 2, 4}, bpp = 8 * B, Shown
    PROVE  LET q == (m * VClk) \div board.mclk
           IN  /\ q \in Nat /\ board.mclk * q <= m * VClk
               /\ Drained4(m) = q * B
<1> DEFINE a == m * VClk
           k == board.mclk
           q == a \div k
<1>1. a \in Nat /\ k \in Nat \ {0}
  BY ShownFacts, ProductNat
<1> HIDE DEF a, k
<1>2. q \in Nat /\ k * q <= a
  BY <1>1, DivFacts, SMT
<1>3. Drained4(m) = (q * (8 * B)) \div 8
  BY DEF Drained4, a, k
<1> HIDE DEF q
<1>4. (q * (8 * B)) \div 8 = q * B
  <2>1. B = 1 \/ B = 2 \/ B = 4
    OBVIOUS
  <2> QED BY <1>2, <2>1, SMT
<1> QED BY <1>2, <1>3, <1>4 DEF q, a, k

(* If the display drains some excess while the memory delivers it, it      *)
(* drains every excess of whole units of 8 bytes.                          *)
LEMMA DrainsUnits ==
    ASSUME NEW m \in Nat, m > 0, m <= Drained4(m), NEW h \in Nat, Shown
    PROVE  8 * h <= Drained4(8 * h)
<1>1. PICK B \in {1, 2, 4} : bpp = 8 * B
  BY Depth
<1> DEFINE V == VClk
           k == board.mclk
           q == (m * V) \div k
           j == IF B = 1 THEN 8 * h ELSE IF B = 2 THEN 4 * h ELSE 2 * h
           z == (8 * h) * V
           r == z \div k
<1>2. V \in Nat /\ k \in Nat \ {0} /\ B \in Nat
  BY ShownFacts, SMT
<1>3. q \in Nat /\ k * q <= m * V /\ m <= q * B
  BY <1>1, Drained4Is
<1>4. 8 * h \in Nat
  BY SMT
<1>5. Drained4(8 * h) = r * B
  BY <1>1, <1>4, Drained4Is
<1>6. j \in Nat /\ 8 * h = j * B
  <2>1. B = 1 \/ B = 2 \/ B = 4
    OBVIOUS
  <2> QED BY <2>1, SMT
<1>7. z = (j * B) * V
  BY <1>6
<1> HIDE DEF V, k, q, j
<1>8. m * k <= m * (V * B)
  <2>1. k * m <= k * (q * B)
    BY <1>2, <1>3, SMT
  <2>2. k * (q * B) = (k * q) * B
    BY <1>2, <1>3, SMT
  <2>3. (k * q) * B <= (m * V) * B
    BY <1>2, <1>3, SMT
  <2>4. (m * V) * B = m * (V * B) /\ k * m = m * k
    BY <1>2, SMT
  <2> DEFINE a == k * (q * B)
             b == m * (V * B)
             c == m * k
  <2>5. a \in Nat /\ b \in Nat /\ c \in Nat
    BY <1>2, <1>3, SMT
  <2>6. c <= a /\ a <= b
    BY <2>1, <2>2, <2>3, <2>4
  <2> HIDE DEF a, b, c
  <2>7. c <= b
    BY <2>5, <2>6, SMT
  <2> QED BY <2>7 DEF b, c
<1>9. k <= V * B
  <2>1. m \in Nat \ {0} /\ k \in Int /\ V * B \in Int
    BY <1>2, SMT
  <2> QED BY <1>8, <2>1, Cancel
<1>10. k * j <= z
  <2>1. k * j <= (V * B) * j
    BY <1>2, <1>6, <1>9, SMT
  <2>2. (V * B) * j = (j * B) * V
    BY <1>2, <1>6, SMT
  <2> QED BY <1>7, <2>1, <2>2
<1>11. z \in Nat
  BY <1>2, <1>4, ProductNat
<1> HIDE DEF z
<1>12. j <= r /\ r \in Nat
  <2>1. j \in Int /\ z \in Int /\ z >= 0
    BY <1>6, <1>11, SMT
  <2> QED BY <1>2, <1>10, <2>1, DivAtLeast, DivFacts
<1> HIDE DEF r
<1>13. j * B <= r * B
  BY <1>2, <1>6, <1>12, ProductMonotone
<1> QED BY <1>5, <1>6, <1>13

(* The code of a burst is its logarithm. *)
LEMMA BurstIs ==
    ASSUME NEW c \in {32, 64, 128, 256, 512}
    PROVE  BurstCode(c) \in 1..5 /\ 16 * 2^BurstCode(c) = c
<1> DEFINE E(n) == 2^n
           Fits(s, n) == E(n) <= s /\ s < E(n + 1)
<1>1. /\ E(0) = 1 /\ E(1) = 2 /\ E(2) = 4 /\ E(3) = 8 /\ E(4) = 16 /\ E(5) = 32
      /\ E(6) = 64 /\ E(7) = 128 /\ E(8) = 256
  BY SMT
<1>2. BurstCode(c) = CHOOSE n \in 0..7 : Fits(c \div 16, n)
  BY DEF BurstCode
<1> HIDE DEF E
<1>3. \A n \in 0..7 : n = 0 \/ n = 1 \/ n = 2 \/ n = 3 \/ n = 4 \/ n = 5 \/ n = 6 \/ n = 7
  BY SMT
<1>4. /\ \A n \in 0..7 : Fits(2, n) <=> n = 1
      /\ \A n \in 0..7 : Fits(4, n) <=> n = 2
      /\ \A n \in 0..7 : Fits(8, n) <=> n = 3
      /\ \A n \in 0..7 : Fits(16, n) <=> n = 4
      /\ \A n \in 0..7 : Fits(32, n) <=> n = 5
  BY <1>1, <1>3, SMT
<1> HIDE DEF Fits
<1>5. /\ 32 \div 16 = 2 /\ 64 \div 16 = 4 /\ 128 \div 16 = 8 /\ 256 \div 16 = 16
      /\ 512 \div 16 = 32
  BY SMT
<1>6. 1 \in 0..7 /\ 2 \in 0..7 /\ 3 \in 0..7 /\ 4 \in 0..7 /\ 5 \in 0..7
  BY SMT
<1>7. \/ c = 32 /\ BurstCode(c) = 1
      \/ c = 64 /\ BurstCode(c) = 2
      \/ c = 128 /\ BurstCode(c) = 3
      \/ c = 256 /\ BurstCode(c) = 4
      \/ c = 512 /\ BurstCode(c) = 5
  BY <1>2, <1>4, <1>5, <1>6
<1>8. BurstCode(c) \in 1..5 /\ 16 * E(BurstCode(c)) = c
  BY <1>1, <1>7, SMT
<1> QED BY <1>8 DEF E
-----------------------------------------------------------------------------
(* What the rounds find. *)
Bursts == {32, 64, 128, 256, 512}

(* The level of the NV4 as it is programmed, rounded down.                 *)
LevelOf(lwm) == 8 * (lwm \div 8)

(* A level loses up to 7 bytes when it is programmed, and none if it is a  *)
(* multiple of 8.                                                          *)
LEMMA LevelFacts ==
    ASSUME NEW lwm \in Nat
    PROVE  /\ lwm \div 8 \in Nat /\ LevelOf(lwm) \in Nat
           /\ LevelOf(lwm) <= lwm /\ lwm <= LevelOf(lwm) + 7
           /\ lwm % 8 = 0 => LevelOf(lwm) = lwm
BY SMT DEF LevelOf

(* What a round of nv4CalcArbitration finds keeps the FIFO from both ends, *)
(* the level rounded down included: where the check passed for the level   *)
(* found it holds for a lower one, since what is drained is at least as    *)
(* many whole clocks.                                                      *)
LEMMA Round4Finds ==
    ASSUME Shown, extra \in 0..3, cbs = 128, Round4.valid
    PROVE  /\ Round4.lwm \in Nat /\ Round4.lwm <= 519
           /\ LevelOf(Round4.lwm) + 8 > Bytes(Latency4(0))
           /\ LET over == LevelOf(Round4.lwm) + 128 - 512
              IN  over <= 0 \/ over <= Drained4(over)
<1> DEFINE need == Bytes(Latency4(extra))
           least == Bytes(Latency4(0))
           clwm == need + 1
           m1 == clwm - 384
           lwm == Round4.lwm
           level == LevelOf(lwm)
           h == level \div 8 - 48
<1>1. need \in Nat /\ least \in Nat /\ least <= need
  <2>1. 0 \in Nat /\ extra \in Nat /\ 0 <= extra
    BY SMT
  <2> QED BY <2>1, Bytes4Facts
<1>2. clwm + cbs - 512 = m1
  <2> HIDE DEF need
  <2> QED BY <1>1, SMT
<1>3. /\ ~ (m1 > 0 /\ Drained4(m1) < m1) /\ clwm <= 519
      /\ lwm = IF clwm < 384 THEN 384 ELSE clwm
  BY <1>2, ZenonT(40) DEF Round4
<1> HIDE DEF need, least, lwm
<1>4. lwm \in Nat /\ lwm <= 519 /\ lwm >= 384 /\ need < lwm
  BY <1>1, <1>3, SMT
<1>5. level \in Nat /\ level <= lwm /\ lwm <= level + 7
  BY <1>4, LevelFacts
<1>6. level = 8 * (lwm \div 8) /\ lwm \div 8 \in Nat
  BY <1>4, LevelFacts DEF LevelOf
<1> HIDE DEF level
<1>7. level + 8 > least
  BY <1>1, <1>4, <1>5, SMT
<1> DEFINE over == level + 128 - 512
           g == lwm \div 8 - 48
<1>8. over = 8 * g /\ g \in Int /\ over \in Int
  <2> DEFINE w == lwm \div 8
  <2>1. w \in Nat /\ level = 8 * w
    BY <1>6
  <2> HIDE DEF w
  <2>2. 8 * w + 128 - 512 = 8 * (w - 48) /\ w - 48 \in Int
    BY <2>1, SMT
  <2> QED BY <2>1, <2>2, SMT DEF w
<1> HIDE DEF g
<1>9. ASSUME over > 0 PROVE over <= Drained4(over)
  <2>1. level > 384
    BY <1>5, <1>9, SMT
  <2>2. clwm > 384 /\ lwm = clwm
    BY <1>1, <1>3, <1>5, <2>1, SMT
  <2>3. m1 \in Nat /\ m1 > 0
    BY <1>1, <2>2, SMT
  <2> HIDE DEF m1
  <2>4. Drained4(m1) \in Int
    <3>1. PICK B \in {1, 2, 4} : bpp = 8 * B
      BY Depth
    <3> DEFINE q == (m1 * VClk) \div board.mclk
    <3>2. q \in Nat /\ Drained4(m1) = q * B
      BY <2>3, <3>1, Drained4Is
    <3> HIDE DEF q
    <3> QED BY <3>2, SMT
  <2>5. m1 <= Drained4(m1)
    BY <1>3, <2>3, <2>4, SMT
  <2> HIDE DEF over
  <2>6. g \in Nat
    BY <1>8, <1>9, SMT
  <2>7. 8 * g <= Drained4(8 * g)
    BY <2>3, <2>5, <2>6, DrainsUnits
  <2> QED BY <1>8, <2>7
<1>10. over <= 0 \/ over <= Drained4(over)
  <2>1. over <= 0 \/ over > 0
    BY <1>8, SMT
  <2> QED BY <1>9, <2>1
<1> QED BY <1>4, <1>7, <1>10 DEF lwm, level, least

(* A round of nv10CalcArbitration leaves one of the bursts.                *)
LEMMA Round10Bursts ==
    ASSUME cbs \in Bursts
    PROVE  Round10.burst \in Bursts
<1>1. Round10.burst = IF Narrow(98) /\ ~ Narrow(102) THEN 512 ELSE cbs
  BY SMT DEF Round10
<1>2. 512 \in Bursts
  BY SMT DEF Bursts
<1> QED BY <1>1, <1>2

(* A level and a burst that keep the FIFO of the NV10 safe.                *)
Keeps10(lwm, c) ==
    /\ lwm \in Nat /\ lwm <= 1023
    /\ LevelOf(lwm) >= Bytes(Latency10(0))
    /\ LET over == LevelOf(lwm) + c - 1024
       IN  over <= 8 \/ over <= Drained10(18)

(* What a round of nv10CalcArbitration finds keeps the FIFO from both      *)
(* ends.                                                                   *)
LEMMA Round10Finds ==
    ASSUME Shown, extra \in 0..18, cbs \in Bursts, ~ Round10.overfull, ~ Round10.toolate
    PROVE  Keeps10(Round10.lwm, Round10.burst)
<1> DEFINE need == Bytes(Latency10(MClkExtra10))
           least == Bytes(Latency10(0))
           needed == IF Narrow(102) THEN 4095
                     ELSE IF Narrow(98) THEN 1024
                     ELSE need + 1
           clwm == IF needed % 8 = 0 THEN needed ELSE needed + 8
           c == IF Narrow(98) /\ ~ Narrow(102) THEN 512 ELSE cbs
           m1 == clwm + c - 1024
           lwm == Round10.lwm
           level == LevelOf(lwm)
<1>0. Round10 = [overfull |-> Overfull(m1), toolate |-> clwm > 1023, burst |-> c,
                 lwm |-> IF clwm < 1024 - c + 8 THEN 1024 - c + 8 ELSE clwm]
  BY SMT DEF Round10
<1>1. need \in Nat /\ least \in Nat /\ least <= need
  <2>1. MClkExtra10 \in {4, 8}
    BY SMT DEF MClkExtra10
  <2>2. 0 \in Nat /\ MClkExtra10 \in Nat /\ 0 <= MClkExtra10
    BY <2>1, SMT
  <2> QED BY <2>2, Bytes10Facts
<1>2. c \in Bursts /\ Round10.burst = c
  <2> HIDE DEF c, clwm
  <2>1. Round10.burst = c
    BY <1>0, SMT
  <2> QED BY <2>1, Round10Bursts
<1>3. /\ ~ Overfull(m1) /\ ~ (clwm > 1023)
      /\ lwm = IF clwm < 1024 - c + 8 THEN 1024 - c + 8 ELSE clwm
  <2> DEFINE o == Overfull(m1)
             l == clwm > 1023
             w == IF clwm < 1024 - c + 8 THEN 1024 - c + 8 ELSE clwm
  <2>1. Round10 = [overfull |-> o, toolate |-> l, burst |-> c, lwm |-> w]
    BY <1>0
  <2> HIDE DEF o, l, w, c
  <2>2. Round10.overfull = o /\ Round10.toolate = l /\ Round10.lwm = w
    BY <2>1
  <2>3. ~ o /\ ~ l /\ lwm = w
    BY <2>2
  <2> QED BY <2>3 DEF o, l, w
<1>4. Drained10(extra) \in Nat /\ Drained10(18) \in Nat /\ Drained10(extra) <= Drained10(18)
  <2>1. extra \in Nat /\ 18 \in Nat /\ extra <= 18
    BY SMT
  <2> QED BY <2>1, Drained10Facts
<1>5. ~ (m1 > 0 /\ Drained10(extra) < m1)
  BY <1>3 DEF Overfull
<1> HIDE DEF need, least, lwm, c
<1>6. needed = need + 1
  BY <1>1, <1>3, SMT
<1> HIDE DEF needed
<1>7. clwm \in Nat /\ clwm <= 1023 /\ need + 1 <= LevelOf(clwm)
  <2>1. needed \in Nat
    BY <1>1, <1>6, SMT
  <2>2. CASE needed % 8 = 0
    <3>1. LevelOf(needed) = needed /\ clwm = needed
      BY <2>1, <2>2, LevelFacts
    <3> QED BY <1>1, <1>3, <1>6, <2>1, <3>1, SMT
  <2>3. CASE ~ (needed % 8 = 0)
    <3>1. clwm = needed + 8 /\ clwm \in Nat
      BY <2>1, <2>3, SMT
    <3> HIDE DEF clwm
    <3>2. LevelOf(clwm) \in Nat /\ clwm <= LevelOf(clwm) + 7
      BY <3>1, LevelFacts
    <3> QED BY <1>1, <1>3, <1>6, <2>1, <3>1, <3>2, SMT
  <2> QED BY <2>2, <2>3
<1> HIDE DEF clwm
<1> DEFINE d == 1024 - c + 8
<1>8. c = 32 \/ c = 64 \/ c = 128 \/ c = 256 \/ c = 512
  BY <1>2 DEF Bursts
<1>9. d \in Nat /\ d <= 1023 /\ d % 8 = 0 /\ d + c = 1032 /\ c \in Nat
  BY <1>8, SMT
<1>10. lwm = IF clwm < d THEN d ELSE clwm
  BY <1>3
<1> HIDE DEF d
<1>11. lwm \in Nat /\ lwm <= 1023
  BY <1>7, <1>9, <1>10, SMT
<1>12. LevelOf(clwm) \in Nat /\ LevelOf(clwm) <= clwm /\ LevelOf(d) = d
  BY <1>7, <1>9, LevelFacts
<1>13. CASE clwm < d
  <2>1. lwm = d /\ level = d
    BY <1>10, <1>12, <1>13
  <2>2. d >= least /\ d + c - 1024 <= 8
    BY <1>1, <1>7, <1>9, <1>12, <1>13, SMT
  <2> QED BY <1>2, <1>11, <2>1, <2>2 DEF lwm, least, Keeps10
<1>14. CASE ~ (clwm < d)
  <2>1. lwm = clwm /\ level = LevelOf(clwm)
    BY <1>10, <1>14
  <2> DEFINE e == LevelOf(clwm)
  <2>2. e \in Nat /\ e <= clwm /\ need + 1 <= e
    BY <1>7, <1>12
  <2> HIDE DEF e
  <2>3. e >= least
    BY <1>1, <2>2, SMT
  <2>4. e + c - 1024 <= 8 \/ e + c - 1024 <= Drained10(18)
    BY <1>4, <1>5, <1>7, <1>9, <2>2, SMT
  <2> QED BY <1>2, <1>11, <2>1, <2>3, <2>4 DEF lwm, least, e, Keeps10
<1> QED BY <1>13, <1>14
-----------------------------------------------------------------------------
(* A step that keeps board, mode and clock keeps the times. *)
LEMMA SameTimes ==
    ASSUME UNCHANGED <<board, mode, VClk>>
    PROVE  /\ Bytes(Latency4(0))' = Bytes(Latency4(0))
           /\ Bytes(Latency10(0))' = Bytes(Latency10(0))
           /\ Drained10(18)' = Drained10(18)
           /\ Drained4(Overfill)' = Drained4(Overfill')
<1>1. bpp' = bpp
  BY DEF bpp, pixelDepth
<1>2. CrtcDrainRate' = CrtcDrainRate
  BY <1>1, SMT DEF CrtcDrainRate
<1>3. Latency4(0)' = Latency4(0)
  BY SMT DEF Latency4, MClks4, NVClks4, Time
<1>4. Latency10(0)' = Latency10(0)
  BY SMT DEF Latency10, MClks10, NVClks10, PClks10, TakesVideo, Time
<1>5. Pipe10' = Pipe10
  BY SMT DEF Pipe10, MClks10, NVClks10, PClks10, Time
<1>6. Bytes(Latency4(0))' = Bytes(Latency4(0)) /\ Bytes(Latency10(0))' = Bytes(Latency10(0))
  BY <1>2, <1>3, <1>4, SMT DEF Bytes
<1>7. Drained10(18)' = Drained10(18)
  BY <1>1, <1>5, SMT DEF Drained10, Time
<1>8. Drained4(Overfill)' = Drained4(Overfill')
  BY <1>1, SMT DEF Drained4
<1> QED BY <1>6, <1>7, <1>8

(* The ways NVCalcStateExt takes, and which chips go the first.            *)
LEMMA LoopNames ==
    ASSUME NEW id
    PROVE  /\ Loop(id) \in {"nv4", "constant", "nForce", "nv10", "nv30"}
           /\ Loop(id) = "nv4" <=> Architecture(id) = 4
BY SMT DEF Loop

(* Settings that a round found, written. *)
LEMMA Written ==
    ASSUME NEW c \in Bursts, NEW lwm \in Nat, Found(c, lwm)
    PROVE  /\ Level' = LevelOf(lwm) /\ Burst' = c
           /\ arbitration0' \in 1..5 /\ arbitration1' = lwm \div 8
<1>1. arbitration0' = BurstCode(c) /\ arbitration1' = lwm \div 8
  BY DEF Found
<1>2. BurstCode(c) \in 1..5 /\ 16 * 2^BurstCode(c) = c
  BY BurstIs DEF Bursts
<1>3. Burst' = 16 * 2^arbitration0'
  BY DEF Burst
<1>4. Level' = 8 * arbitration1'
  BY DEF Level
<1> QED BY <1>1, <1>2, <1>3, <1>4 DEF LevelOf

(* Settings that nv4CalcArbitration finds are safe when they are           *)
(* programmed.                                                             *)
LEMMA Safe4 ==
    ASSUME UNCHANGED <<board, mode, VClk>>, Loop(board.chip) = "nv4",
           NEW lwm \in Nat, Found(128, lwm),
           LevelOf(lwm) + 8 > Bytes(Latency4(0)),
           LET over == LevelOf(lwm) + 128 - 512
           IN  over <= 0 \/ over <= Drained4(over)
    PROVE  FifoSafe'
<1>1. 128 \in Bursts
  BY DEF Bursts
<1>2. Level' = LevelOf(lwm) /\ Burst' = 128
  BY <1>1, Written
<1>3. Loop(board.chip)' = "nv4" /\ FifoBytes' = 512
  <2>1. Architecture(board.chip) = 4 /\ board' = board
    BY LoopNames
  <2>2. Loop(board.chip)' = "nv4"
    BY <2>1
  <2>3. Architecture(board.chip)' = 4
    BY <2>1
  <2> QED BY <2>2, <2>3 DEF FifoBytes
<1>4. Overfill' = LevelOf(lwm) + 128 - 512
  BY <1>2, <1>3 DEF Overfill
<1>5. Level' + 8 > Bytes(Latency4(0))'
  BY <1>2, SameTimes
<1>6. Overfill' <= 0 \/ Overfill' <= Drained4(Overfill)'
  BY <1>4, SameTimes
<1> QED BY <1>3, <1>5, <1>6 DEF FifoSafe

(* Settings that nv10CalcArbitration finds are safe when they are          *)
(* programmed.                                                             *)
LEMMA Safe10 ==
    ASSUME UNCHANGED <<board, mode, VClk>>, Loop(board.chip) \in {"nv10", "nForce"},
           NEW c \in Bursts, NEW lwm, Keeps10(lwm, c), Found(c, lwm)
    PROVE  FifoSafe'
<1>0. lwm \in Nat
  BY SMT DEF Keeps10
<1>1. Level' = LevelOf(lwm) /\ Burst' = c /\ arbitration1' = lwm \div 8
  BY <1>0, Written
<1>2. Loop(board.chip)' \in {"nv10", "nForce"} /\ FifoBytes' = 1024
  <2>1. Architecture(board.chip) # 4 /\ board' = board
    BY LoopNames
  <2>2. Loop(board.chip)' = Loop(board.chip)
    BY <2>1
  <2>3. Architecture(board.chip)' # 4
    BY <2>1
  <2> QED BY <2>2, <2>3 DEF FifoBytes
<1>3. Overfill' = LevelOf(lwm) + c - 1024
  BY <1>1, <1>2 DEF Overfill
<1>4. Level' >= Bytes(Latency10(0))'
  BY <1>1, SameTimes, SMT DEF Keeps10
<1>5. Overfill' <= 8 \/ Overfill' <= Drained10(18)'
  BY <1>3, SameTimes, SMT DEF Keeps10
<1>6. arbitration1' <= 255
  BY <1>1, SMT DEF Keeps10
<1> QED BY <1>2, <1>4, <1>5, <1>6 DEF FifoSafe

-----------------------------------------------------------------------------
(* The inductive invariant.  A loop runs for a mode, on a chip that it is  *)
(* for, with margins and bursts it knows, and marks no settings as found.  *)
LoopInv ==
    /\ pc # "idle" => Asked /\ Loop(board.chip) = pc /\ current = FALSE
    /\ pc = "nv4" => extra \in 0..3 /\ cbs = 128
    /\ pc \in {"nv10", "nForce"} => cbs \in Bursts

IInv == TypeOK /\ PllIsBest /\ LoopInv /\ FifoSafe

(* Once a mode was asked for, its clock is what PllIsBest says.            *)
LEMMA AskedFacts ==
    ASSUME TypeOK, PllIsBest, Asked
    PROVE  mode \in ModeSet /\ Shown
<1>1. mode \in ModeSet
  <2>1. mode \in ModeSet \/ mode.clock = 0
    BY DEF TypeOK
  <2>2. mode.clock # 0
    BY SMT DEF Asked
  <2> QED BY <2>1, <2>2
<1>2. mode.clock \in PixelClocks /\ mode.bpp \in {8, 15, 16, 32}
  BY <1>1, ModeType
<1>3. board \in Boards /\ board.chip \in Chips /\ VClk \in Nat
  BY BoardType DEF TypeOK
<1>4. mode.clock \in Nat /\ mode.clock > 0
  BY <1>2, <1>3, ClockRange
<1>5. 64 * (mode.clock - VClk) <= mode.clock
  BY SMT DEF PllIsBest
<1>6. VClk > 0
  BY <1>3, <1>4, <1>5, SMT
<1>7. VClk \in Nat \ {0}
  BY <1>3, <1>6, SMT
<1> QED BY <1>1, <1>2, <1>3, <1>7 DEF Shown

(* The initial states satisfy the invariant.                               *)
LEMMA InitInv == Init => IInv
<1> SUFFICES ASSUME Init PROVE IInv
  OBVIOUS
<1>1. mode.clock = 0 /\ pc = "idle" /\ current = FALSE
  BY DEF Init
<1>2. ~ Asked
  BY <1>1, SMT DEF Asked
<1>3. TypeOK
  <2>1. board \in Boards /\ mode \in ModeSet \cup {[clock |-> 0, bpp |-> 8]}
    BY DEF Init
  <2>2. /\ VClk = 0 /\ pll = 0 /\ arbitration0 = 0 /\ arbitration1 = 0
        /\ pc = "idle" /\ extra = 0 /\ cbs = 0
    BY DEF Init
  <2>3. pc \in {"idle", "nv4", "nv10", "nForce"} /\ current \in BOOLEAN
    BY <1>1
  <2> QED BY <2>1, <2>2, <2>3, SMT DEF TypeOK
<1> QED BY <1>1, <1>2, <1>3 DEF IInv, PllIsBest, LoopInv, FifoSafe

(* A mode is programmed: the PLL, and the settings where there is no loop. *)
LEMMA CalcStateExtInv ==
    ASSUME IInv, NEW m \in ModeSet, CalcStateExt(m)
    PROVE  IInv'
<1> DEFINE loop == Loop(board.chip)
           s == Coefficients(m.clock)
<1>0. board \in Boards /\ TypeOK
  BY DEF IInv, TypeOK
<1>1. /\ pc = "idle" /\ mode' = m /\ pll' = Register(s) /\ VClk' = ClockOut(s)
      /\ board' = board
  BY DEF CalcStateExt
<1>2. m.clock \in PixelClocks /\ board.chip \in Chips
  BY <1>0, ModeType, BoardType
<1>3. PllMade(m.clock, VClk', pll')
  BY <1>0, <1>1, <1>2, PllFacts
<1>4. m.clock \in Nat /\ m.clock > 0 /\ m.clock <= 400000
  <2>1. m.clock \in Nat /\ m.clock > 0 /\ (Asked2(m.clock) \/ Asked1(m.clock))
    BY <1>2, ClockRange
  <2> QED BY <2>1, SMT DEF Asked1, Asked2
<1>5. Asked'
  BY <1>1, <1>4 DEF Asked
<1>6. Loop(board.chip)' = loop /\ Loop(board.chip)' \in {"nv4", "constant", "nForce", "nv10", "nv30"}
  BY <1>1, LoopNames
<1>7. \/ loop = "nv4" /\ pc' = loop /\ extra' = 3 /\ cbs' = 128 /\ current' = FALSE
      \/ /\ loop \in {"nv10", "nForce"}
         /\ pc' = loop /\ extra' = 18 /\ cbs' = 512 /\ current' = FALSE
      \/ /\ loop \notin {"nv4", "nv10", "nForce"}
         /\ current' = TRUE /\ UNCHANGED <<pc, extra, cbs>>
  <2>1. CASE loop = "nv4"
    BY <2>1, SMT DEF CalcStateExt
  <2>2. CASE loop \in {"nv10", "nForce"}
    BY <2>2, SMT DEF CalcStateExt
  <2>3. CASE loop = "nv30"
    BY <2>3, SMT DEF CalcStateExt
  <2>4. CASE loop = "constant"
    BY <2>4, SMT DEF CalcStateExt
  <2> QED BY <1>6, <2>1, <2>2, <2>3, <2>4
<1>a. \/ UNCHANGED <<arbitration0, arbitration1>>
      \/ arbitration0' = BurstCode(512 \div 2) /\ arbitration1' = (2048 - 512) \div 8
      \/ arbitration0' = 128 /\ arbitration1' = \h480
  <2>1. CASE loop = "nv4"
    BY <2>1, SMT DEF CalcStateExt
  <2>2. CASE loop \in {"nv10", "nForce"}
    BY <2>2, SMT DEF CalcStateExt
  <2>3. CASE loop = "nv30"
    BY <2>3, SMT DEF CalcStateExt
  <2>4. CASE loop = "constant"
    BY <2>4, SMT DEF CalcStateExt
  <2> HIDE DEF loop
  <2>5. loop = "nv4" \/ loop \in {"nv10", "nForce"} \/ loop = "nv30" \/ loop = "constant"
    BY <1>6
  <2> QED BY <2>1, <2>2, <2>3, <2>4, <2>5, SMT
<1> HIDE DEF loop
<1>8. arbitration0' \in 0..128 /\ arbitration1' \in Nat /\ arbitration1' <= \h480
  <2>1. arbitration0 \in 0..128 /\ arbitration1 \in Nat /\ arbitration1 <= \h480
    BY <1>0, SMT DEF TypeOK
  <2>2. BurstCode(512 \div 2) \in 0..128
    <3>1. 256 \in {32, 64, 128, 256, 512} /\ 512 \div 2 = 256
      BY SMT
    <3>2. BurstCode(256) \in 1..5
      BY <3>1, BurstIs
    <3> QED BY <3>1, <3>2, SMT
  <2>3. CASE UNCHANGED <<arbitration0, arbitration1>>
    BY <2>1, <2>3, SMT
  <2>4. CASE arbitration0' = BurstCode(512 \div 2) /\ arbitration1' = (2048 - 512) \div 8
    BY <2>2, <2>4, SMT
  <2>5. CASE arbitration0' = 128 /\ arbitration1' = \h480
    BY <2>5, SMT
  <2> QED BY <1>a, <2>3, <2>4, <2>5, SMT
<1>9. /\ pc' \in {"idle", "nv4", "nv10", "nForce"} /\ current' \in BOOLEAN
      /\ extra' \in 0..18 /\ cbs' \in {0, 32, 64, 128, 256, 512}
  <2>1. extra \in 0..18 /\ cbs \in {0, 32, 64, 128, 256, 512}
    BY <1>0, SMT DEF TypeOK
  <2>2. 3 \in 0..18 /\ 18 \in 0..18
    BY SMT
  <2>3. CASE loop = "nv4" /\ pc' = loop /\ extra' = 3 /\ cbs' = 128 /\ current' = FALSE
    BY <2>2, <2>3
  <2>4. CASE /\ loop \in {"nv10", "nForce"}
             /\ pc' = loop /\ extra' = 18 /\ cbs' = 512 /\ current' = FALSE
    BY <2>2, <2>4
  <2>5. CASE /\ loop \notin {"nv4", "nv10", "nForce"}
             /\ current' = TRUE /\ UNCHANGED <<pc, extra, cbs>>
    BY <1>1, <2>1, <2>5
  <2> QED BY <1>7, <2>3, <2>4, <2>5
<1>10. TypeOK'
  <2>1. VClk' \in Nat /\ VClk' <= m.clock /\ pll' \in Nat /\ pll' < 7 * 65536
    BY <1>3, SMT DEF PllMade
  <2>2. VClk' \in Nat /\ VClk' <= 400000
    BY <1>4, <2>1, SMT
  <2> QED BY <1>0, <1>1, <1>8, <1>9, <2>1, <2>2, SMT DEF TypeOK
<1>11. PllIsBest'
  <2>1. /\ VClk' <= m.clock /\ 64 * (m.clock - VClk') <= m.clock
        /\ VClk' = ClockOut(Decoded(pll'))
        /\ VClk' = BestClock[TwoStagePLL(board.chip)][board.crystal][m.clock]
    BY <1>3, SMT DEF PllMade
  <2> QED BY <1>1, <2>1, Zenon DEF PllIsBest, ClockOut
<1>12. LoopInv'
  <2>1. 3 \in 0..3 /\ 512 \in Bursts
    BY SMT DEF Bursts
  <2> QED BY <1>1, <1>5, <1>6, <1>7, <2>1 DEF LoopInv
<1>13. FifoSafe'
  BY <1>1, <1>6, <1>7 DEF FifoSafe, loop
<1> QED BY <1>10, <1>11, <1>12, <1>13 DEF IInv

(* What no round of a loop touches. *)
LEMMA PllKept ==
    ASSUME PllIsBest, UNCHANGED <<board, mode, VClk, pll>>
    PROVE  PllIsBest' /\ Asked' = Asked
BY Zenon DEF PllIsBest, Asked, ClockOut

(* The type invariant, when only the variables of the loop change.         *)
LEMMA TypeKept ==
    ASSUME TypeOK, UNCHANGED <<board, mode, VClk, pll>>,
           arbitration0' \in 0..128, arbitration1' \in Nat, arbitration1' <= \h480,
           pc' \in {"idle", "nv4", "nv10", "nForce"},
           extra' \in 0..18, cbs' \in {0, 32, 64, 128, 256, 512}, current' \in BOOLEAN
    PROVE  TypeOK'
BY SMT DEF TypeOK

(* The loop ends without settings.                                         *)
LEMMA GivenUpInv ==
    ASSUME IInv, pc # "idle", GivenUp, UNCHANGED <<board, mode, VClk, pll>>
    PROVE  IInv'
<1>1. /\ pc' = "idle" /\ current' = FALSE /\ current = FALSE
      /\ UNCHANGED <<arbitration0, arbitration1, extra, cbs>>
  BY DEF IInv, LoopInv, TypeOK, GivenUp
<1>2. /\ arbitration0 \in 0..128 /\ arbitration1 \in Nat /\ arbitration1 <= \h480
      /\ extra \in 0..18 /\ cbs \in {0, 32, 64, 128, 256, 512}
  BY SMT DEF IInv, TypeOK
<1>3. TypeOK'
  <2>1. pc' \in {"idle", "nv4", "nv10", "nForce"} /\ current' \in BOOLEAN
    BY <1>1
  <2> QED BY <1>1, <1>2, <2>1, TypeKept, SMT DEF IInv
<1>4. PllIsBest'
  BY PllKept DEF IInv
<1>5. LoopInv' /\ FifoSafe'
  BY <1>1 DEF LoopInv, FifoSafe
<1> QED BY <1>3, <1>4, <1>5 DEF IInv

(* The loop goes on with another margin or burst.                          *)
LEMMA RetryInv ==
    ASSUME IInv, NEW e \in 0..18, NEW c \in Bursts, Retry(e, c),
           UNCHANGED <<board, mode, VClk, pll>>,
           pc # "idle", pc = "nv4" => e \in 0..3 /\ c = 128
    PROVE  IInv'
<1>1. /\ UNCHANGED <<arbitration0, arbitration1, current, pc>>
      /\ extra' = e /\ cbs' = c
  BY DEF Retry
<1>2. /\ arbitration0 \in 0..128 /\ arbitration1 \in Nat /\ arbitration1 <= \h480
      /\ pc \in {"idle", "nv4", "nv10", "nForce"} /\ current \in BOOLEAN
  BY SMT DEF IInv, TypeOK
<1>3. c \in {0, 32, 64, 128, 256, 512}
  BY DEF Bursts
<1>4. TypeOK'
  BY <1>1, <1>2, <1>3, TypeKept, SMT DEF IInv
<1>5. PllIsBest' /\ Asked' = Asked
  BY PllKept DEF IInv
<1>6. LoopInv'
  <2>1. Asked /\ Loop(board.chip) = pc /\ current = FALSE
    BY DEF IInv, LoopInv
  <2>2. Loop(board.chip)' = pc
    BY <2>1
  <2> QED BY <1>1, <1>5, <2>1, <2>2 DEF LoopInv
<1>7. FifoSafe'
  BY <1>1 DEF FifoSafe
<1> QED BY <1>4, <1>5, <1>6, <1>7 DEF IInv

(* The loop ends with settings.                                            *)
LEMMA FoundInv ==
    ASSUME IInv, NEW c \in Bursts, NEW lwm \in Nat, lwm <= 1023, Found(c, lwm),
           UNCHANGED <<board, mode, VClk, pll>>, FifoSafe'
    PROVE  IInv'
<1>1. /\ pc' = "idle" /\ current' = TRUE /\ UNCHANGED <<extra, cbs>>
  BY DEF Found
<1>2. arbitration0' \in 1..5 /\ arbitration1' = lwm \div 8
  BY Written
<1>3. /\ extra \in 0..18 /\ cbs \in {0, 32, 64, 128, 256, 512}
  BY SMT DEF IInv, TypeOK
<1>4. arbitration0' \in 0..128 /\ arbitration1' \in Nat /\ arbitration1' <= \h480
  BY <1>2, SMT
<1>5. TypeOK'
  BY <1>1, <1>3, <1>4, TypeKept, SMT DEF IInv
<1>6. PllIsBest'
  BY PllKept DEF IInv
<1>7. LoopInv'
  BY <1>1 DEF LoopInv
<1> QED BY <1>5, <1>6, <1>7 DEF IInv

(* A round of nv4CalcArbitration.                                          *)
LEMMA CalcArbitration4Inv == IInv /\ CalcArbitration4 => IInv'
<1> SUFFICES ASSUME IInv, CalcArbitration4 PROVE IInv'
  OBVIOUS
<1>1. pc = "nv4" /\ UNCHANGED <<board, mode, VClk, pll>>
  BY DEF CalcArbitration4
<1>2. Asked /\ Loop(board.chip) = "nv4" /\ extra \in 0..3 /\ cbs = 128
  BY <1>1 DEF IInv, LoopInv
<1>3. Shown
  BY <1>2, AskedFacts DEF IInv
<1>4. 128 \in Bursts
  BY DEF Bursts
<1>5. \/ Round4.valid /\ Found(cbs, Round4.lwm)
      \/ GivenUp
      \/ extra # 0 /\ Retry(extra - 1, cbs)
  BY DEF CalcArbitration4
<1>6. CASE Round4.valid /\ Found(cbs, Round4.lwm)
  <2> DEFINE lwm == Round4.lwm
  <2>1. /\ lwm \in Nat /\ lwm <= 519
        /\ LevelOf(lwm) + 8 > Bytes(Latency4(0))
        /\ LET over == LevelOf(lwm) + 128 - 512
           IN  over <= 0 \/ over <= Drained4(over)
    BY <1>2, <1>3, <1>6, Round4Finds
  <2>2. Found(128, lwm)
    BY <1>2, <1>6
  <2> HIDE DEF lwm
  <2>3. FifoSafe'
    BY <1>1, <1>2, <2>1, <2>2, Safe4
  <2>4. lwm <= 1023
    BY <2>1, SMT
  <2> QED BY <1>1, <1>4, <2>1, <2>2, <2>3, <2>4, FoundInv
<1>7. CASE GivenUp
  BY <1>1, <1>7, GivenUpInv
<1>8. CASE extra # 0 /\ Retry(extra - 1, cbs)
  <2>1. extra - 1 \in 0..3 /\ extra - 1 \in 0..18
    BY <1>2, <1>8, SMT
  <2> QED BY <1>1, <1>2, <1>4, <1>8, <2>1, RetryInv
<1> QED BY <1>5, <1>6, <1>7, <1>8

(* A round of nv10CalcArbitration.                                         *)
LEMMA CalcArbitration10Inv == IInv /\ CalcArbitration10 => IInv'
<1> SUFFICES ASSUME IInv, CalcArbitration10 PROVE IInv'
  OBVIOUS
<1> DEFINE r == Round10
<1>1. pc \in {"nv10", "nForce"} /\ UNCHANGED <<board, mode, VClk, pll>>
  BY DEF CalcArbitration10
<1>2. Asked /\ Loop(board.chip) = pc /\ extra \in 0..18 /\ cbs \in Bursts
  <2>1. extra \in 0..18
    BY SMT DEF IInv, TypeOK
  <2> QED BY <1>1, <2>1 DEF IInv, LoopInv
<1>3. Shown
  BY <1>2, AskedFacts DEF IInv
<1>4. r.burst \in Bursts
  BY <1>2, Round10Bursts
<1>5. \/ ~ r.overfull /\ ~ r.toolate /\ Found(r.burst, r.lwm)
      \/ extra > 0 /\ Retry(extra - 1, r.burst)
      \/ r.burst > 32 /\ Retry(0, r.burst \div 2)
      \/ GivenUp
  BY DEF CalcArbitration10
<1>6. CASE ~ r.overfull /\ ~ r.toolate /\ Found(r.burst, r.lwm)
  <2> DEFINE lwm == r.lwm
             c == r.burst
  <2>1. Keeps10(lwm, c)
    BY <1>2, <1>3, <1>6, Round10Finds
  <2>2. Found(c, lwm) /\ c \in Bursts
    BY <1>4, <1>6
  <2> HIDE DEF lwm, c
  <2>3. FifoSafe'
    BY <1>1, <1>2, <2>1, <2>2, Safe10
  <2>4. lwm \in Nat /\ lwm <= 1023
    BY <2>1, SMT DEF Keeps10
  <2> QED BY <1>1, <2>2, <2>3, <2>4, FoundInv
<1>7. CASE GivenUp
  BY <1>1, <1>7, GivenUpInv
<1>8. CASE extra > 0 /\ Retry(extra - 1, r.burst)
  <2>1. extra - 1 \in 0..18
    BY <1>2, <1>8, SMT
  <2> QED BY <1>1, <1>4, <1>8, <2>1, RetryInv
<1>9. CASE r.burst > 32 /\ Retry(0, r.burst \div 2)
  <2> DEFINE c == r.burst
  <2>1. c \in Bursts /\ c > 32
    BY <1>4, <1>9
  <2> HIDE DEF c
  <2>2. c \div 2 \in Bursts
    BY <2>1, SMT DEF Bursts
  <2>3. 0 \in 0..18
    BY SMT
  <2>4. Retry(0, c \div 2)
    BY <1>9 DEF c
  <2> QED BY <1>1, <2>2, <2>3, <2>4, RetryInv
<1> QED BY <1>5, <1>6, <1>7, <1>8, <1>9

(* Nothing changes.                                                        *)
LEMMA StutterInv == IInv /\ UNCHANGED vars => IInv'
<1> SUFFICES ASSUME IInv, UNCHANGED vars PROVE IInv'
  OBVIOUS
<1>1. /\ UNCHANGED <<board, mode, VClk, pll>> /\ UNCHANGED <<board, mode, VClk>>
      /\ UNCHANGED <<arbitration0, arbitration1, pc, extra, cbs, current>>
  BY DEF vars
<1>2. TypeOK'
  BY <1>1, SMT DEF IInv, TypeOK
<1>3. PllIsBest' /\ Asked' = Asked
  BY <1>1, PllKept DEF IInv
<1>4. Loop(board.chip)' = Loop(board.chip)
  BY <1>1
<1>5. LoopInv'
  BY <1>1, <1>3, <1>4 DEF IInv, LoopInv
<1>6. FifoSafe'
  <2>1. Architecture(board.chip)' = Architecture(board.chip)
    BY <1>1
  <2>2. Overfill' = Overfill /\ Level' = Level
    BY <1>1, <2>1 DEF Overfill, Level, Burst, FifoBytes
  <2>3. Drained4(Overfill)' = Drained4(Overfill)
    BY <1>1, <2>2, SameTimes
  <2> QED BY <1>1, <1>3, <1>4, <2>2, <2>3, SameTimes DEF IInv, FifoSafe
<1> QED BY <1>2, <1>3, <1>5, <1>6 DEF IInv

(* The invariant holds in every state the program reaches.                 *)
THEOREM Inductive == Spec => []IInv
<1>1. Init => IInv
  BY InitInv
<1>2. IInv /\ [Next]_vars => IInv'
  <2> SUFFICES ASSUME IInv, [Next]_vars PROVE IInv'
    OBVIOUS
  <2>1. CASE \E m \in ModeSet : CalcStateExt(m)
    BY <2>1, CalcStateExtInv
  <2>2. CASE CalcArbitration4
    BY <2>2, CalcArbitration4Inv
  <2>3. CASE CalcArbitration10
    BY <2>3, CalcArbitration10Inv
  <2>4. CASE UNCHANGED vars
    BY <2>4, StutterInv
  <2> QED BY <2>1, <2>2, <2>3, <2>4 DEF Next
<1> QED BY <1>1, <1>2, PTL DEF Spec

(* The coefficients fit the PLL register, the settings those of the FIFO,  *)
(* and the margins that NVCalcStateExt gives up stay margins.              *)
THEOREM TypeCorrect == Spec => []TypeOK
<1>1. IInv => TypeOK
  BY DEF IInv
<1> QED BY <1>1, Inductive, PTL

(* CalcVClock and CalcVClock2Stage program the best clock that the PLL of  *)
(* the board makes without exceeding the mode's, within 1/64 of it.        *)
THEOREM PllBest == Spec => []PllIsBest
<1>1. IInv => PllIsBest
  BY DEF IInv
<1> QED BY <1>1, Inductive, PTL

(* The settings that nv4CalcArbitration and nv10CalcArbitration find let   *)
(* the FIFO neither run dry nor overflow.                                  *)
THEOREM FifoNeverFails == Spec => []FifoSafe
<1>1. IInv => FifoSafe
  BY DEF IInv
<1> QED BY <1>1, Inductive, PTL
=============================================================================
