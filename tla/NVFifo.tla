------------------------------- MODULE NVFifo -------------------------------
(***************************************************************************)
(* NVCalcStateExt (nv_hw.c): from a mode, the coefficients of the PLL and  *)
(* the settings of the FIFO between the memory and the display.            *)
(*                                                                         *)
(* arbitration1 is the fill level, in units of 8 bytes, below which the    *)
(* FIFO asks for memory; arbitration0 names the size of a burst.  They are *)
(* found by a loop that gives up margins until the FIFO neither runs dry   *)
(* nor overflows; when it finds nothing the settings stay those of an      *)
(* earlier mode.  A round of the loop is an action, so that its end is     *)
(* something to check.                                                     *)
(*                                                                         *)
(* Times are in ns, clocks in kHz; "us" is the code's name for the times.  *)
(* TLC's integers are those of the code, of 32 bits and signed: a run that *)
(* ends met no product that overflows.                                     *)
(***************************************************************************)
EXTENDS Clocks, NVChip

CONSTANTS Chips,            \* PCI device ids
          PixelClocks,      \* of the modes, in kHz
          Depths,           \* of the modes: 8, 15, 16 or 32
          MClks, NVClks,    \* the BIOS's clocks of memory and engine
          Widths,           \* of the memory bus: 64, 128
          PageMisses        \* clocks a page miss takes

ASSUME FifoAssumption ==
    /\ \A id \in Chips : id \in Nat /\ 0 < id /\ id < \h1000
    /\ Depths \subseteq {8, 15, 16, 32}
    /\ Widths \subseteq {64, 128}
    /\ PageMisses \subseteq 0..16
    /\ MClks \subseteq Nat \ {0} /\ NVClks \subseteq Nat \ {0}
    /\ \A id \in Chips : PixelClocks \subseteq MinVClockFreqKHz..MaxVClockFreqKHz(id)

VARIABLES
    board,          \* the chip and its memory: never changes
    mode,           \* the mode NVCalcStateExt was last called for
    VClk, pll, arbitration0, arbitration1,
    pc,             \* the loop that is running, or "idle"
    extra, cbs,     \* of the loop: (min_)mclk_extra, and the burst in bytes
    current         \* auxiliary: the arbitration settings are the mode's

vars == <<board, mode, VClk, pll, arbitration0, arbitration1, pc, extra, cbs, current>>

-----------------------------------------------------------------------------
(* The way NVCalcStateExt takes for a chip.                                *)
Loop(id) ==
    IF Architecture(id) = 4 THEN "nv4"
    ELSE IF Implementation(id) \in {\h0240, \h03D0, \h0530} THEN "constant"
    ELSE IF id \in {\h01A0, \h01F0} THEN "nForce"
    ELSE IF Architecture(id) < 30 THEN "nv10"
    ELSE "nv30"

TakesVideo(id) == Loop(id) = "nv10"         \* sim_data.enable_video

pixelDepth == (mode.bpp + 1) \div 8
bpp == pixelDepth * 8
CrtcDrainRate == (VClk * bpp) \div 8

Time(clocks, freq) == (clocks * 1000000) \div freq
Bytes(time) == (time * CrtcDrainRate) \div 1000000

(* Log2 of the burst in units of 16 bytes, as the loop on b counts it.     *)
BurstCode(size) == CHOOSE n \in 0..7 : 2^n <= size \div 16 /\ size \div 16 < 2^(n + 1)

-----------------------------------------------------------------------------
(* One round of nv4CalcArbitration (video is never enabled there).         *)
NVClks4 == 10
MClks4 == 13 + board.latency

Latency4(margin) ==
    Time(3 * board.miss, board.mclk) + Time(MClks4 + margin, board.mclk)
      + Time(NVClks4, board.nvclk) + Time(NVClks4, VClk)

Drained4(clocks) == (((clocks * VClk) \div board.mclk) * bpp) \div 8

Round4 ==
    LET clwm == Bytes(Latency4(extra)) + 1
        m1 == clwm + cbs - 512
    IN  [valid |-> ~(m1 > 0 /\ Drained4(m1) < m1) /\ clwm <= 519,
         lwm |-> IF clwm < 384 THEN 384 ELSE clwm]

(* One round of nv10CalcArbitration: c is the burst, which the check for a *)
(* narrow memory sets anew in every round.                                 *)
NVClks10 == 9
PClks10 == 4
MClks10 == 18 + (IF board.width = 64 THEN 2 ELSE 1) * (IF board.ddr THEN 1 ELSE 2)
MClkExtra10 == IF bpp = 32 THEN 8 ELSE 4

Pipe10 == Time(MClks10, board.mclk) + Time(NVClks10, board.nvclk) + Time(PClks10, VClk)

Latency10(margin) ==
    LET m == Time(MClks10 + margin, board.mclk)
    IN  Time(2 * board.miss, board.mclk) + m
          + Time(NVClks10, board.nvclk) + Time(PClks10, VClk)
          + IF TakesVideo(board.chip) THEN Time(2 * board.miss, board.mclk) + m ELSE 0

(* nvclk_fill is 8 bytes a clock; the rates are compared in hundredths.    *)
Narrow(percent) ==
    /\ ~TakesVideo(board.chip) /\ board.width = 64
    /\ CrtcDrainRate * 100 >= board.nvclk * 8 * percent

Drained10(margin) ==
    ((((Pipe10 + Time(margin, board.mclk)) * VClk) \div 1000000) * bpp) \div 8

(* Mistake: an overflow is not looked for.                               *)
Overfull_Unchecked(m1) == FALSE

Overfull(m1) == m1 > 0 /\ Drained10(extra) < m1

Round10 ==
    LET needed == IF Narrow(102) THEN 4095
                  ELSE IF Narrow(98) THEN 1024
                  ELSE Bytes(Latency10(MClkExtra10)) + 1
        clwm == IF needed % 8 = 0 THEN needed ELSE needed + 8
        c == IF Narrow(98) /\ ~Narrow(102) THEN 512 ELSE cbs
        m1 == clwm + c - 1024
    IN  [overfull |-> Overfull(m1),
         toolate |-> clwm > 1023,
         burst |-> c,
         lwm |-> IF clwm < 1024 - c + 8 THEN 1024 - c + 8 ELSE clwm]

-----------------------------------------------------------------------------
Boards ==
    {b \in [chip : Chips, crystal : AllCrystals, mclk : MClks, nvclk : NVClks,
            width : Widths, ddr : BOOLEAN, miss : PageMisses \cup {10}, latency : {3}] :
        /\ b.crystal \in Crystals(b.chip)
        /\ IF Loop(b.chip) = "nForce" THEN b.width = 64 /\ b.miss = 10
                                      ELSE b.miss \in PageMisses}

ModeSet == [clock : PixelClocks, bpp : Depths]

(* ModeReg is cleared memory until the first mode.                         *)
Init ==
    /\ board \in Boards
    /\ mode = [clock |-> 0, bpp |-> 8]
    /\ VClk = 0 /\ pll = 0 /\ arbitration0 = 0 /\ arbitration1 = 0
    /\ pc = "idle" /\ extra = 0 /\ cbs = 0
    /\ current = FALSE

(* Mistake: the two stages of the PLL are not told from one.             *)
Coefficients_OneStage(clock) == CalcVClock(clock, board.crystal)

Coefficients(clock) ==
    IF TwoStagePLL(board.chip) THEN CalcVClock2Stage(clock, board.crystal)
                               ELSE CalcVClock(clock, board.crystal)

(* The crystal as the rest of a PLL of one or two stages sees it.          *)
Driving(two, crystal) == IF two THEN 4 * crystal ELSE crystal

(* The clock CalcVClock reports: what the setting makes of the crystal.    *)
ClockOut(s) ==
    Frequency(Driving(TwoStagePLL(board.chip), board.crystal), s)

(* NVCalcStateExt up to the loop, and to its end where there is none.      *)
CalcStateExt(m) ==
    LET s == Coefficients(m.clock)
        loop == Loop(board.chip)
    IN  /\ pc = "idle"
        /\ mode' = m /\ pll' = Register(s) /\ VClk' = ClockOut(s)
        /\ CASE loop = "nv4" ->
                  /\ pc' = loop /\ extra' = 3 /\ cbs' = 128 /\ current' = FALSE
                  /\ UNCHANGED <<arbitration0, arbitration1>>
             [] loop \in {"nv10", "nForce"} ->
                  /\ pc' = loop /\ extra' = 18 /\ cbs' = 512 /\ current' = FALSE
                  /\ UNCHANGED <<arbitration0, arbitration1>>
             [] loop = "nv30" ->
                  /\ arbitration0' = BurstCode(512 \div 2)
                  /\ arbitration1' = (2048 - 512) \div 8
                  /\ current' = TRUE /\ UNCHANGED <<pc, extra, cbs>>
             [] OTHER ->
                  /\ arbitration0' = 128 /\ arbitration1' = \h480
                  /\ current' = TRUE /\ UNCHANGED <<pc, extra, cbs>>
        /\ UNCHANGED board

Found(burst, lwm) ==
    /\ arbitration0' = BurstCode(burst) /\ arbitration1' = lwm \div 8
    /\ current' = TRUE /\ pc' = "idle" /\ UNCHANGED <<extra, cbs>>

(* fifo.valid is 0: *burst and *lwm are not written.                       *)
GivenUp ==
    /\ pc' = "idle" /\ UNCHANGED <<arbitration0, arbitration1, current, extra, cbs>>

(* Mistake: the margin is given up one time too often.                   *)
Retry_OneMore(e, c) ==
    /\ extra' = e - 1 /\ cbs' = c
    /\ UNCHANGED <<arbitration0, arbitration1, current, pc>>

Retry(e, c) ==
    /\ extra' = e /\ cbs' = c
    /\ UNCHANGED <<arbitration0, arbitration1, current, pc>>

(* Mistake: the loop has no last margin.                                 *)
CalcArbitration4_NoFloor ==
    /\ pc = "nv4"
    /\ IF Round4.valid THEN Found(cbs, Round4.lwm) ELSE Retry(extra, cbs)
    /\ UNCHANGED <<board, mode, VClk, pll>>

CalcArbitration4 ==
    /\ pc = "nv4"
    /\ IF Round4.valid THEN Found(cbs, Round4.lwm)
       ELSE IF extra = 0 THEN GivenUp
       ELSE Retry(extra - 1, cbs)
    /\ UNCHANGED <<board, mode, VClk, pll>>

CalcArbitration10 ==
    /\ pc \in {"nv10", "nForce"}
    /\ LET r == Round10
       IN  IF ~r.overfull /\ ~r.toolate THEN Found(r.burst, r.lwm)
           ELSE IF extra > 0 THEN Retry(extra - 1, r.burst)
           ELSE IF r.overfull /\ r.burst > 32 THEN Retry(0, r.burst \div 2)
           ELSE GivenUp
    /\ UNCHANGED <<board, mode, VClk, pll>>

Next == \/ \E m \in ModeSet : CalcStateExt(m)
        \/ CalcArbitration4
        \/ CalcArbitration10

Spec == Init /\ [][Next]_vars

(* The loops run on the server's thread, uninterrupted.                    *)
FairSpec == Spec /\ WF_vars(CalcArbitration4) /\ WF_vars(CalcArbitration10)

-----------------------------------------------------------------------------
(* Every variable has its type: the coefficients fit the fields of the PLL *)
(* register and the settings those of the FIFO, and the margins that are   *)
(* given up stay margins.                                                  *)
TypeOK ==
    /\ board \in Boards
    /\ mode \in ModeSet \cup {[clock |-> 0, bpp |-> 8]}
    /\ VClk \in Nat /\ VClk <= 400000
    /\ pll \in Nat /\ pll < 7 * 65536
    /\ arbitration0 \in 0..128 /\ arbitration1 \in Nat /\ arbitration1 <= \h480
    /\ pc \in {"idle", "nv4", "nv10", "nForce"}
    /\ extra \in 0..18 /\ cbs \in {0, 32, 64, 128, 256, 512}
    /\ current \in BOOLEAN

Asked == mode.clock > 0

(* All a PLL of one or two stages may be set to without exceeding a clock, *)
(* with the dividers and the range of the oscillator that the chip allows. *)
Settings(two, crystal, asked) ==
    {s \in IF two THEN [P : 0..6, N : 5..255, M : 1..13]
                  ELSE [P : 0..4, N : 0..255, M : Dividers(crystal)] :
        /\ IF two THEN Oscillates2Stage(asked * 2^s.P) ELSE Oscillates(asked * 2^s.P)
        /\ Driving(two, crystal) * s.N <= asked * 2^s.P * s.M}

(* The highest clock of those settings.                                    *)
BestClock ==
    [two \in BOOLEAN |-> [crystal \in AllCrystals |-> [asked \in PixelClocks |->
        LET clocks == {Frequency(Driving(two, crystal), s) :
                          s \in Settings(two, crystal, asked)}
        IN  CHOOSE f \in clocks : \A g \in clocks : g <= f]]]

(* The clock the PLL register makes is the best that any setting not above *)
(* the mode's clock makes, over all multipliers and not only those the     *)
(* search tries; it does not exceed the mode's clock and is within 1/64 of *)
(* it: monitors stay in sync and a DAC or panel at its limit is not        *)
(* overrun.  CalcVClock and CalcVClock2Stage.                              *)
PllIsBest ==
    Asked => /\ VClk = ClockOut(Decoded(pll))
             /\ VClk = BestClock[TwoStagePLL(board.chip)][board.crystal][mode.clock]
             /\ VClk <= mode.clock /\ 64 * (mode.clock - VClk) <= mode.clock

FifoBytes == IF Architecture(board.chip) = 4 THEN 512 ELSE 1024
Burst == 16 * 2^arbitration0
Level == 8 * arbitration1
Overfill == Level + Burst - FifoBytes

(* Where the loop found settings, the FIFO never runs dry (its level when  *)
(* it asks covers what the display takes until the data are there) and     *)
(* never overflows (what a burst brings beyond the FIFO's size is drained  *)
(* by then), although the margins change from round to round and the level *)
(* is rounded when it is programmed: on the NV4 down, where it may be      *)
(* short by less than a unit of 8 bytes if no margin was left, and on the  *)
(* NV10 up, where it may be a unit above the least.                        *)
(* nv4CalcArbitration, nv10CalcArbitration with the conversions of the     *)
(* functions that call them.                                               *)
FifoSafe ==
    pc = "idle" /\ current /\ Asked =>
      CASE Loop(board.chip) = "nv4" ->
             /\ Level + 8 > Bytes(Latency4(0))
             /\ Overfill <= 0 \/ Overfill <= Drained4(Overfill)
        [] Loop(board.chip) \in {"nv10", "nForce"} ->
             /\ Level >= Bytes(Latency10(0))
             /\ Overfill <= 8 \/ Overfill <= Drained10(18)
             /\ arbitration1 <= 255
        [] OTHER -> TRUE

(* The search for settings ends: the server does not hang in a mode set.   *)
(* nv_hw.c says of both ways out of the loop "Can't adjust anymore!".      *)
LoopEnds == (pc # "idle") ~> (pc = "idle")

=============================================================================
