------------------------------- MODULE Clocks -------------------------------
(***************************************************************************)
(* The searches for PLL coefficients of the chips before the G80           *)
(* (nv_hw.c).  A setting is a post divider P, a multiplier N and a divider *)
(* M; a PLL register holds them as (P << 16) | (N << 8) | M.               *)
(*                                                                         *)
(* Clocks are in kHz.  With clocks of at most 400 MHz and the coefficients *)
(* tried no product reaches 2^32: the unsigned arithmetic of the code does *)
(* not wrap.                                                               *)
(***************************************************************************)
EXTENDS Integers

(* The crystals of the boards, in kHz.                                     *)
AllCrystals == {13500, 14318, 27000}

(* What the PLL makes of a setting, for one stage or with the second stage *)
(* fixed at times four.                                                    *)
Frequency(crystal, s) == ((crystal * s.N) \div s.M) \div 2^s.P

Distance(a, b) == IF a > b THEN a - b ELSE b - a

(* The first setting in the order of the loops (P outside, M inside) whose *)
(* clock is nearest to the one asked for: later ones must be strictly      *)
(* nearer to replace it.                                                   *)
FirstNearest(clock, crystal, tried) ==
    CHOOSE s \in tried : \A t \in tried :
        LET ds == Distance(Frequency(crystal, s), clock)
            dt == Distance(Frequency(crystal, t), clock)
        IN  \/ ds < dt
            \/ ds = dt /\ (s.P < t.P \/ (s.P = t.P /\ s.M <= t.M))

(* One stage: the dividers the crystal allows and, in kHz, the range of   *)
(* the oscillator.                                                         *)
Dividers(crystal) == IF crystal = 13500 THEN 7..13 ELSE 8..14

Oscillates(freq) == 128000 <= freq /\ freq <= 350000

CalcVClock(clock, crystal) ==
    LET Setting(P, M) == [P |-> P, N |-> (clock * 2^P * M) \div crystal, M |-> M]
        tried == {s \in {Setting(P, M) : P \in 0..4, M \in Dividers(crystal)} :
                     Oscillates(clock * 2^s.P) /\ s.N <= 255}
    IN  FirstNearest(clock, crystal, tried)

Oscillates2Stage(freq) == 400000 <= freq /\ freq <= 1000000

CalcVClock2Stage(clock, crystal) ==
    LET Setting(P, M) ==
            [P |-> P, N |-> (clock * 2^P * M) \div (4 * crystal), M |-> M]
        tried == {s \in {Setting(P, M) : P \in 0..6, M \in 1..13} :
                     Oscillates2Stage(clock * 2^s.P) /\ s.N \in 5..255}
    IN  FirstNearest(clock, 4 * crystal, tried)

Register(s) == s.P * 65536 + s.N * 256 + s.M

Decoded(r) == [P |-> r \div 65536, N |-> (r \div 256) % 256, M |-> r % 256]
=============================================================================
