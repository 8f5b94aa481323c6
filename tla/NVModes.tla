------------------------------ MODULE NVModes ------------------------------
(***************************************************************************)
(* Modes and consoles of the chips before the G80: finding the output      *)
(* (NVCommonSetup, nv_setup.c), saving the console's registers, setting    *)
(* modes, VT switches, DPMS and the end of a generation (nv_driver.c,      *)
(* nv_dac.c, nv_hw.c), natively or with the BIOS's help (VBE, "dualhead"). *)
(*                                                                         *)
(* A register is a field of hw; the value is the mode it was computed for, *)
(* or Text, what the BIOS or the kernel had left there.                    *)
(* hw has the registers of the driver's head (PCIO, PCRTC, PRAMDAC), those *)
(* there is one of, and the PLL of the other head (otherVpll).  Registers  *)
(* the code always treats together are one field: "crtc" is CR19, 1B, 20,  *)
(* 25, 28, 2D, 2F, 30, 39 and bit 0 of CR47, "vga" the standard ones vgahw *)
(* handles, "routing" 0x860 and 0x2860, "vpll" also the second stage,      *)
(* "start" the start address and the pitch of 0x820, which VBE sets;       *)
(* "constants" are those every loaded state gets the same values in: CR21  *)
(* of a panel, 0x404, 0x1588, 0x8140, 0x8704, the overlay's 0x8908 to      *)
(* 0x8924, and the CRTC's interrupts, 0x100 and 0x140.  A register two     *)
(* writers share bits of is two fields: repaint1 and dpms (CR1A), cursor1  *)
(* and shown (CR31), scale and tmds (0x848), crtc and cr47high (bits 1 to  *)
(* 7).  Left out are the blanking bit of the sequencer, which every mode   *)
(* set clears, and CR46, written on big-endian machines only.              *)
(***************************************************************************)
EXTENDS NVChip

CONSTANTS Chips,            \* PCI device ids
          Modes,            \* the modes of the screen
          PanelTweaks,      \* values of the PanelTweak option
          MaxTweaks,        \* bound: how far the panel's sync is tweaked
          MaxFailures       \* bound: mode sets that fail

ASSUME ModesAssumption ==
    /\ Chips \subseteq 1..4095
    /\ Modes # {} /\ Modes \subseteq Nat \ {0}
    /\ PanelTweaks \subseteq Int
    /\ MaxTweaks \in Nat \ {0} /\ MaxFailures \in Nat

Heads == 0..1
Text == -1              \* what the console had there
Driver == 0             \* what the driver puts there whatever the mode
Unknown == -2           \* what a read of a locked register may give

VARIABLES
    card,           \* what PreInit found and chose, constant from then on
    hw, locked,     \* the registers; the extended CRs of the head are locked
    SavedReg, ModeReg,
    CurrentState,   \* "ModeReg", "SavedReg" or "none" for NULL
    mode,           \* pNv->CurrentLayout.mode
    vtSema,
    phase,          \* of the server: see TypeOK
    off,            \* the power level last asked for is not DPMSModeOn
    failures

vars == <<card, hw, locked, SavedReg, ModeReg, CurrentState, mode, vtSema, phase,
          off, failures>>

-----------------------------------------------------------------------------
(* Which registers are written from a state record, and which are read     *)
(* into one.                                                               *)

Arch == Architecture(card.chip)
Two == TwoHeads(card.chip)
Own == card.CRTCnumber
OwnerCode == 3 * card.CRTCnumber        \* CR44

When(condition, fields) == IF condition THEN fields ELSE {}

EveryChip == {"crtc", "fifo", "repaint1", "dpms", "cursor1", "shown", "general"}

Loaded ==
    EveryChip \cup When(Arch = 4, {"config"})
      \cup When(Arch >= 10, {"cursorConfig", "displayV", "extra"} \cup When(Two, {"routing"}))
      \cup When(Arch >= 30, {"cr47high"})
      \cup IF card.FlatPanel
           THEN {"scale", "tmds", "crtcSync", "crtcVSync"}
                \cup When(Arch >= 10, {"timing"} \cup When(Two, {"dither"}))
           ELSE {"pllsel", "vpll"} \cup When(Two, {"otherVpll"}) \cup When(Arch >= 40, {"control"})

(* Mistake: a flat panel's registers are not saved.                      *)
Unloaded_NoPanel ==
    EveryChip \cup {"vpll", "pllsel", "scale", "tmds", "config"} \cup When(Two, {"otherVpll"})
      \cup When(Arch >= 40 /\ ~card.FlatPanel, {"control"})
      \cup When(Arch >= 10, {"extra", "cursorConfig"}
                            \cup When(Two, {"routing", "crtcOwner", "dither"}))

Unloaded ==
    EveryChip \cup {"vpll", "pllsel", "scale", "tmds", "config"} \cup When(Two, {"otherVpll"})
      \cup When(Arch >= 40 /\ ~card.FlatPanel, {"control"})
      \cup When(Arch >= 10, {"extra", "cursorConfig"}
                            \cup When(Two, {"routing", "crtcOwner", "dither"})
                            \cup When(card.FlatPanel, {"timing"}))
      \cup When(card.FlatPanel, {"crtcSync", "crtcVSync"})

(* The part of vgahw: the mode, and on the primary card palette and fonts. *)
VgaMode == {"vga"}
VgaText == {"cmap", "fonts"}

(* Writes to these are lost while the head is locked.                      *)
Lockable == {"crtc", "cr47high", "fifo", "repaint1", "dpms", "cursor1", "shown", "extra",
             "timing"}

ConsoleHw(owner) ==
    [crtc |-> Text, cr47high |-> Text, fifo |-> Text, repaint1 |-> Text, cursor1 |-> Text, general |-> Text,
     config |-> Text, cursorConfig |-> Text, displayV |-> Text, extra |-> Text,
     routing |-> Text, scale |-> Text, crtcVSync |-> Text, timing |-> Text,
     constants |-> Text, start |-> Text, dither |-> Text, pllsel |-> Text, control |-> Text,
     vpll |-> Text, otherVpll |-> Text, vga |-> Text, cmap |-> Text, fonts |-> Text,
     crtcSync |-> 0,                        \* tweaks added to the BIOS's value
     crtcOwner |-> owner,
     dpms |-> FALSE, shown |-> FALSE, tmds |-> FALSE,       \* switched off, shown
     backlight |-> TRUE,
     engine |-> Text]                       \* the tables of the graphics engine

Written(h, isLocked, fields, values) ==
    [f \in DOMAIN h |->
        IF f \in fields /\ ~(isLocked /\ f \in Lockable) THEN values[f] ELSE h[f]]

(* RIVA_HW_STATE has no field for these.                                   *)
StateFields == DOMAIN ConsoleHw(0) \ {"constants", "start", "backlight", "engine"}

Cleared == [f \in StateFields |->
              IF f \in {"dpms", "tmds", "shown"} THEN FALSE ELSE 0]

-----------------------------------------------------------------------------
(* NVCommonSetup: which kind of display, on which head.  A display is      *)
(* "crt" or "dfp"; "none" is what an option or a probe that says nothing   *)
(* gives.                                                                  *)

Kinds == {"crt", "dfp"}
NoHead == 2

(* What the code looks at.  A head is slaved to a flat panel or, tv, to a  *)
(* television; outputs report an analog load and the head that feeds them; *)
(* monitors are those that answer on the two DDC buses.                    *)
Probes(id) ==
    {p \in [slaved : [Heads -> {"no", "panel", "tv"}], analog : [Heads -> BOOLEAN],
            feeds : [Heads -> Heads], monitor : [Heads -> Kinds \cup {"none"}]] :
        /\ IsNV11(id) => p.analog = [h \in Heads |-> FALSE] /\ p.feeds = [h \in Heads |-> h]
        /\ ~TwoHeads(id) => /\ p.slaved[1] = "no" /\ p.monitor[1] = "none"
                            /\ p.analog = [h \in Heads |-> FALSE]
                            /\ p.feeds = [h \in Heads |-> h]}

OneHeadKind(id, p) ==
    IF p.monitor[0] # "none"
    THEN IF id <= \h20 THEN "crt" ELSE p.monitor[0]
    ELSE IF p.slaved[0] = "no" THEN "crt" ELSE "dfp"

(* The order of preference with two heads.                                 *)
Found(p) ==
    IF p.slaved[0] = "panel" THEN [kind |-> "dfp", head |-> 0]
    ELSE IF p.slaved[1] = "panel" THEN [kind |-> "dfp", head |-> 1]
    ELSE IF p.analog[0] THEN [kind |-> "crt", head |-> p.feeds[0]]
    ELSE IF p.analog[1] THEN [kind |-> "crt", head |-> p.feeds[1]]
    ELSE IF p.slaved[0] = "tv" THEN [kind |-> "dfp", head |-> 0]
    ELSE IF p.slaved[1] = "tv" THEN [kind |-> "dfp", head |-> 1]
    ELSE IF p.monitor[0] # "none" THEN [kind |-> p.monitor[0], head |-> NoHead]
    ELSE [kind |-> p.monitor[1], head |-> NoHead]

(* FlatPanel and CRTCnumber, given the options that may force them.        *)
Output(id, p, forcedKind, forcedHead) ==
    LET kind == IF forcedKind # "none" THEN forcedKind
                ELSE IF ~TwoHeads(id) THEN OneHeadKind(id, p)
                ELSE IF Found(p).kind # "none" THEN Found(p).kind
                ELSE IF Mobile(id) THEN "dfp" ELSE "crt"
    IN  [kind |-> kind,
         head |-> IF ~TwoHeads(id) THEN 0
                  ELSE IF forcedHead # NoHead THEN forcedHead
                  ELSE IF Found(p).head # NoHead THEN Found(p).head
                  ELSE IF kind = "dfp" THEN 1 ELSE 0]

(* What NVDACPanelTweaks may return: the option's value, or what is known  *)
(* of the chip, and for one of them of the depth and of the board.         *)
Tweaks(id) ==
    PanelTweaks \cup IF id = \h0328 THEN -1..1
                     ELSE IF Implementation(id) = \h0310 THEN {1} ELSE {0}

(* What the detection may come to, given the options.                      *)
Outcomes == [id \in Chips |->
    {LET out == Output(id, p, kind, head)
     IN  [chip |-> id, FlatPanel |-> out.kind = "dfp", CRTCnumber |-> out.head] :
        p \in Probes(id), kind \in Kinds \cup {"none"}, head \in Heads \cup {NoHead}}]

NoCard == [chip |-> 1, FlatPanel |-> FALSE, CRTCnumber |-> 0, tweak |-> 0,
           LVDS |-> FALSE, Primary |-> FALSE, HWCursor |-> FALSE, VBEDualhead |-> FALSE]

Init ==
    /\ card = NoCard
    /\ \E owner \in {0, 3} : hw = ConsoleHw(owner)
    /\ locked = TRUE
    /\ SavedReg = Cleared /\ ModeReg = Cleared
    /\ CurrentState = "none"
    /\ mode \in Modes                       \* pScrn->modes, the first of the list
    /\ vtSema = FALSE
    /\ phase = "off"
    /\ off = FALSE
    /\ failures = 0

(* The detection goes through both heads and puts CR44 back, but on NV11   *)
(* it cannot be read.                                                      *)
NVCommonSetup ==
    /\ phase = "off"
    /\ \E id \in Chips : \E out \in Outcomes[id] :
       \E tweak \in IF out.FlatPanel THEN Tweaks(id) ELSE {0} :
       \E lvds, primary, hwCursor, vbe \in BOOLEAN :
         /\ lvds => out.FlatPanel /\ TwoHeads(id)
         /\ vbe => ~hwCursor
         /\ ~TwoHeads(id) => hw.crtcOwner = 0
         /\ card' = [chip |-> id, FlatPanel |-> out.FlatPanel, CRTCnumber |-> out.CRTCnumber,
                     tweak |-> tweak, LVDS |-> lvds, Primary |-> primary,
                     HWCursor |-> hwCursor, VBEDualhead |-> vbe]
         /\ hw' = [hw EXCEPT !.crtcOwner = IF IsNV11(id) THEN 3 * out.CRTCnumber ELSE @]
    /\ locked' = FALSE
    /\ phase' = "ready"
    /\ UNCHANGED <<SavedReg, ModeReg, CurrentState, mode, vtSema, off, failures>>

-----------------------------------------------------------------------------
(* Saving the console, and making and loading a mode.                      *)

Selected(h) == IF Two THEN [h EXCEPT !.crtcOwner = OwnerCode] ELSE h

NVSave(h) ==
    LET s == Selected(h)
        read == Unloaded \cup VgaMode \cup {"cmap"} \cup When(card.Primary, {"fonts"})
    IN  [f \in StateFields |->
            IF f = "crtcOwner" /\ IsNV11(card.chip) THEN card.CRTCnumber
            ELSE IF f \in read THEN s[f]
            ELSE SavedReg[f]]

(* What NVDACInit makes of CR1C, which it reads before NVModeInit unlocks  *)
(* the head: Driver is what was there with a bit cleared.                  *)
FifoRead(isLocked) == {Driver} \cup When(isLocked, {Unknown})

(* Mistake: the clock of the other head is not kept.                     *)
NVDACInit_BothPLLs(h, m, fifo) ==
    [f \in StateFields |->
        CASE f \in {"dpms", "shown"} -> FALSE
          [] f = "tmds" -> h.tmds
          [] f = "crtcSync" -> IF card.FlatPanel THEN h.crtcSync + card.tweak ELSE ModeReg.crtcSync
          [] f = "fifo" -> fifo
          [] f = "config" /\ Arch >= 10 -> h.config
          [] f = "crtcOwner" -> IF Two THEN OwnerCode ELSE ModeReg.crtcOwner
          [] f \in {"cmap", "fonts"} -> ModeReg[f]
          [] OTHER -> m]

NVDACInit(h, m, fifo) ==
    [f \in StateFields |->
        CASE f \in {"dpms", "shown"} -> FALSE
          [] f = "tmds" -> h.tmds
          [] f = "crtcSync" -> IF card.FlatPanel THEN h.crtcSync + card.tweak ELSE ModeReg.crtcSync
          [] f = "fifo" -> fifo
          [] f = "otherVpll" /\ Two -> h.otherVpll
          [] f = "config" /\ Arch >= 10 -> h.config
          [] f = "crtcOwner" -> IF Two THEN OwnerCode ELSE ModeReg.crtcOwner
          [] f \in {"cmap", "fonts"} -> ModeReg[f]
          [] OTHER -> m]

(* What NVLoadStateExt writes whatever the state, or without one: the      *)
(* tables of the engine.                                                   *)
EngineLoaded(h) == [h EXCEPT !.engine = Driver]

Loading(h, isLocked, fields, state) ==
    [Written(EngineLoaded(h), isLocked, fields, state) EXCEPT !.constants = Driver]

(* The fonts are in the framebuffer.  Every caller of a mode set goes on   *)
(* with NVAdjustFrame, or the server does.                                 *)
ScreenDrawn(h) == [h EXCEPT !.fonts = Driver, !.start = Driver]

(* Mistake: the head is not unlocked first.                              *)
NVModeInit_StillLocked(h, isLocked, m) ==
    /\ card.FlatPanel => h.crtcSync + card.tweak \in -MaxTweaks..MaxTweaks
    /\ \E fifo \in FifoRead(isLocked) : ModeReg' = NVDACInit(h, m, fifo)
    /\ hw' = ScreenDrawn(Loading(Selected(h), isLocked, Loaded \cup VgaMode, ModeReg'))
    /\ CurrentState' = "ModeReg"
    /\ locked' = FALSE
    /\ vtSema' = TRUE
    /\ mode' = m

(* NVModeInit on the registers as they stand in h, locked or not.          *)
NVModeInit(h, isLocked, m) ==
    /\ card.FlatPanel => h.crtcSync + card.tweak \in -MaxTweaks..MaxTweaks
    /\ \E fifo \in FifoRead(isLocked) : ModeReg' = NVDACInit(h, m, fifo)
    /\ hw' = ScreenDrawn(Loading(Selected(h), FALSE, Loaded \cup VgaMode, ModeReg'))
    /\ CurrentState' = "ModeReg"
    /\ locked' = FALSE
    /\ vtSema' = TRUE
    /\ mode' = m

(* The BIOS sets a mode on both heads; it may touch every register of      *)
(* theirs, and the fonts when the mode is not Text.                        *)
BiosSet(h, v) ==
    [f \in DOMAIN h |->
        CASE f \in {"constants", "crtcOwner", "backlight", "engine", "displayV"} -> h[f]
          [] f \in {"dpms", "shown", "tmds"} -> FALSE
          [] f = "crtcSync" -> 0
          [] f \in VgaText -> IF v = Text THEN h[f] ELSE Driver
          [] OTHER -> v]

(* Mistake: the engine is not loaded after the BIOS.                     *)
NVSetModeVBE_NoReload(h, m) ==
    /\ hw' = ScreenDrawn(BiosSet(h, m))
    /\ CurrentState' = "none"
    /\ vtSema' = TRUE
    /\ mode' = m
    /\ UNCHANGED <<ModeReg, locked>>

NVSetModeVBE(h, m) ==
    /\ hw' = ScreenDrawn(EngineLoaded(BiosSet(h, m)))
    /\ CurrentState' = "none"
    /\ vtSema' = TRUE
    /\ mode' = m
    /\ UNCHANGED <<ModeReg, locked>>

(* The registers after NVRestore, which hides the cursor before it unlocks *)
(* the head, and the state record it hides the cursor in.                  *)
Hidden(h) ==
    IF card.HWCursor /\ CurrentState = "ModeReg" /\ ~locked
    THEN [h EXCEPT !.cursor1 = ModeReg.cursor1, !.shown = FALSE]
    ELSE h

NVRestore(h) ==
    LET fields == Loaded \cup VgaMode \cup When(card.Primary, VgaText)
        loaded == Loading(Selected(Hidden(h)), FALSE, fields, SavedReg)
    IN  IF Two THEN [loaded EXCEPT !.crtcOwner = SavedReg.crtcOwner] ELSE loaded

(* What both ways of leaving do to the card.  VBE's leaves the head        *)
(* unlocked and ends with the BIOS's own mode set.                         *)
BackToConsole ==
    /\ hw' = IF card.VBEDualhead THEN BiosSet(NVRestore(hw), Text) ELSE NVRestore(hw)
    /\ locked' = ~card.VBEDualhead
    /\ ModeReg' = IF card.HWCursor /\ CurrentState = "ModeReg"
                  THEN [ModeReg EXCEPT !.shown = FALSE] ELSE ModeReg
    /\ CurrentState' = "SavedReg"

-----------------------------------------------------------------------------
(* The operations of the screen.                                           *)

Fail == failures < MaxFailures /\ failures' = failures + 1

(* A failure before vtSema is set leaves the console as NVSave left it.    *)
ScreenInitFails ==
    /\ phase = "ready" /\ Fail
    /\ SavedReg' = NVSave(hw) /\ hw' = Selected(hw) /\ locked' = FALSE
    /\ phase' = "dead"
    /\ UNCHANGED <<card, ModeReg, CurrentState, mode, vtSema, off>>

(* A failure after it: the server aborts.                                  *)
NVScreenInit ==
    /\ phase = "ready"
    /\ SavedReg' = NVSave(hw)
    /\ IF card.VBEDualhead
       THEN /\ hw' = ScreenDrawn(EngineLoaded(BiosSet(Selected(hw), mode)))
            /\ CurrentState' = "none" /\ vtSema' = TRUE /\ locked' = FALSE
            /\ UNCHANGED <<ModeReg, mode>>
       ELSE NVModeInit(Selected(hw), FALSE, mode)      \* NVSave has unlocked it
    /\ \/ phase' = "x" /\ UNCHANGED failures
       \/ phase' = "abort" /\ Fail
    /\ UNCHANGED <<card, off>>

(* Also the mode set of DGA, which is the native one even with VBE.        *)
NVSwitchMode ==
    /\ phase = "x"
    /\ \E m \in Modes : NVModeInit(hw, locked, m)
    /\ UNCHANGED <<card, SavedReg, phase, off, failures>>

NVSwitchModeVBE ==
    /\ phase = "x" /\ card.VBEDualhead
    /\ \/ (\E m \in Modes : NVSetModeVBE(hw, m)) /\ UNCHANGED failures
       \/ Fail /\ UNCHANGED <<hw, CurrentState, vtSema, mode, ModeReg, locked>>
    /\ UNCHANGED <<card, SavedReg, phase, off>>

(* The server turns the monitor on before it gives the terminal away.      *)
NVLeaveVT ==
    /\ phase = "x" /\ ~off
    /\ BackToConsole
    /\ vtSema' = FALSE
    /\ phase' = "away"
    /\ UNCHANGED <<card, SavedReg, mode, off, failures>>

(* Another owner of the card, while this server is away, uses the engine   *)
(* and moves the picture.                                                  *)
OtherServer ==
    /\ phase = "away"
    /\ hw' = [hw EXCEPT !.engine = Text, !.start = Text]
    /\ UNCHANGED <<card, locked, SavedReg, ModeReg, CurrentState, mode, vtSema, phase,
                   off, failures>>

(* The driver of the other head, where this one does not run both, sets a  *)
(* mode of its own there.                                                  *)
OtherDriver ==
    /\ phase \in {"ready", "x", "away"} /\ Two /\ ~card.VBEDualhead
    /\ \E m \in Modes : hw' = [hw EXCEPT !.otherVpll = m]
    /\ UNCHANGED <<card, locked, SavedReg, ModeReg, CurrentState, mode, vtSema, phase,
                   off, failures>>

(* The server sets vtSema before it calls it, and aborts when it fails.    *)
NVEnterVT ==
    /\ phase = "away" /\ ~card.VBEDualhead
    /\ NVModeInit(hw, locked, mode)
    /\ phase' = "x"
    /\ UNCHANGED <<card, SavedReg, off, failures>>

NVEnterVTVBE ==
    /\ phase = "away" /\ card.VBEDualhead
    /\ \/ NVSetModeVBE(hw, mode) /\ phase' = "x" /\ UNCHANGED failures
       \/ /\ Fail /\ vtSema' = TRUE /\ phase' = "abort"
          /\ UNCHANGED <<hw, CurrentState, mode, ModeReg, locked>>
    /\ UNCHANGED <<card, SavedReg, off>>

(* Mistake: vtSema stays set.                                            *)
NVCloseScreen_KeepsSema ==
    /\ phase \in {"x", "away"}
    /\ IF vtSema THEN BackToConsole ELSE UNCHANGED <<hw, locked, ModeReg, CurrentState>>
    /\ phase' \in {"ready", "dead"}
    /\ UNCHANGED <<card, SavedReg, mode, vtSema, off, failures>>

(* The end of a generation, also with the terminal given away.             *)
NVCloseScreen ==
    /\ phase \in {"x", "away"}
    /\ IF vtSema THEN BackToConsole ELSE UNCHANGED <<hw, locked, ModeReg, CurrentState>>
    /\ vtSema' = FALSE
    /\ phase' \in {"ready", "dead"}
    /\ UNCHANGED <<card, SavedReg, mode, off, failures>>

(* The server's AbortDDX.                                                  *)
AbortDDX ==
    /\ phase = "abort"
    /\ IF vtSema THEN BackToConsole ELSE UNCHANGED <<hw, locked, ModeReg, CurrentState>>
    /\ phase' = "dead"
    /\ UNCHANGED <<card, SavedReg, mode, vtSema, off, failures>>

(* Mistake: the copy in the state is not changed.                        *)
NVShowHideCursor_NoCopy(show) ==
    /\ phase = "x" /\ card.HWCursor
    /\ hw' = [hw EXCEPT !.cursor1 = ModeReg.cursor1, !.shown = show]
    /\ UNCHANGED <<card, locked, SavedReg, ModeReg, CurrentState, mode, vtSema, phase,
                   off, failures>>

NVShowHideCursor(show) ==
    /\ phase = "x" /\ card.HWCursor
    /\ ModeReg' = IF CurrentState = "ModeReg" THEN [ModeReg EXCEPT !.shown = show] ELSE ModeReg
    /\ SavedReg' = IF CurrentState = "SavedReg" THEN [SavedReg EXCEPT !.shown = show]
                   ELSE SavedReg
    /\ hw' = [hw EXCEPT !.cursor1 = IF CurrentState = "ModeReg" THEN ModeReg.cursor1
                                    ELSE SavedReg.cursor1,
                        !.shown = show]
    /\ UNCHANGED <<card, locked, CurrentState, mode, vtSema, phase, off, failures>>

NVDACLoadPalette ==
    /\ phase = "x"
    /\ hw' = [hw EXCEPT !.cmap = Driver]
    /\ UNCHANGED <<card, locked, SavedReg, ModeReg, CurrentState, mode, vtSema, phase,
                   off, failures>>

(* NVDPMSSet, NVDPMSSetLCD and NVBacklightEnable.  On NV11 the backlight   *)
(* of one laptop only is known.                                            *)
DPMSSet ==
    /\ phase = "x" /\ vtSema
    /\ off' = ~off
    /\ hw' = IF ~card.FlatPanel THEN [hw EXCEPT !.dpms = off']
             ELSE IF ~card.LVDS THEN [hw EXCEPT !.tmds = off']
             ELSE IF IsNV11(card.chip) THEN hw
             ELSE [hw EXCEPT !.backlight = ~off']
    /\ UNCHANGED <<card, locked, SavedReg, ModeReg, CurrentState, mode, vtSema, phase,
                   failures>>

Next ==
    \/ NVCommonSetup
    \/ ScreenInitFails \/ NVScreenInit
    \/ NVSwitchMode \/ NVSwitchModeVBE
    \/ NVLeaveVT \/ OtherServer \/ OtherDriver \/ NVEnterVT \/ NVEnterVTVBE
    \/ NVCloseScreen \/ AbortDDX
    \/ \E show \in BOOLEAN : NVShowHideCursor(show)
    \/ NVDACLoadPalette \/ DPMSSet

Spec == Init /\ [][Next]_vars

-----------------------------------------------------------------------------
(* Values have their types, and vtSema is set exactly while the server     *)
(* shows a mode, or is about to abort, and when it has aborted.            *)
TypeOK ==
    /\ card.CRTCnumber \in Heads
    /\ \A f \in DOMAIN hw :
         CASE f \in {"dpms", "shown", "tmds", "backlight"} -> hw[f] \in BOOLEAN
           [] f = "crtcSync" -> hw[f] \in -MaxTweaks..MaxTweaks
           [] f = "fifo" -> hw[f] \in {Text, Driver, Unknown} \cup Modes
           [] f = "crtcOwner" -> hw[f] \in {0, 1, 3}
           [] OTHER -> hw[f] \in {Text, Driver} \cup Modes
    /\ DOMAIN SavedReg = StateFields /\ DOMAIN ModeReg = StateFields
    /\ CurrentState \in {"none", "ModeReg", "SavedReg"}
    /\ mode \in Modes
    /\ phase \in {"off", "ready", "x", "away", "abort", "dead"}
    /\ phase \in {"x", "abort"} => vtSema
    /\ vtSema => phase \in {"x", "abort", "dead"}
    /\ failures \in 0..MaxFailures

(* "It restores the original (text) mode": away from the terminal, between *)
(* generations and after the end, the registers the driver writes to set a *)
(* mode hold what the console had there, whatever modes were set, on the   *)
(* primary card the palette and the fonts too.  All but these: of displayV,*)
(* cr47high, constants, start, the engine and the backlight the code keeps *)
(* no copy; CR44 is written before it is read; and the clock of the other  *)
(* head, which is saved and put back, is that head's driver's to change    *)
(* (OtherClockKept says what becomes of it).                               *)
Excepted == {"displayV", "cr47high", "constants", "start", "crtcOwner", "engine", "backlight",
             "otherVpll"}

ConsoleRestored ==
    phase \in {"away", "ready", "dead"} =>
        \A f \in DOMAIN hw \ (Excepted \cup When(~card.Primary, VgaText)) :
            hw[f] = ConsoleHw(0)[f]

(* While the server has the terminal without VBE, every register of the    *)
(* mode it believes to be set holds that mode, the panel's sync and CR1C   *)
(* what was worked out for them from what was read, none of the writes was *)
(* lost to a locked head, the start address is this server's, whoever had  *)
(* the terminal before, and the picture is on when the last level asked    *)
(* for was on.  That the tweaks of the panel's sync add up until the       *)
(* console is restored does not violate it.                                *)
Power == {"dpms", "shown", "tmds"}
ReadBack == {"crtcSync", "fifo", "otherVpll"}

ModeIsProgrammed ==
    phase = "x" /\ CurrentState = "ModeReg" =>
        /\ ~locked
        /\ \A f \in ((Loaded \cup VgaMode) \ Power) \ ReadBack : hw[f] = mode
        /\ hw.fifo = ModeReg.fifo
        /\ card.FlatPanel => hw.crtcSync = ModeReg.crtcSync
        /\ Two => hw.crtcOwner = OwnerCode
        /\ hw.start = Driver
        /\ ~off => /\ hw.backlight
                   /\ IF card.FlatPanel THEN ~hw.tmds ELSE ~hw.dpms

(* The other head may be another driver's: though the PLLs of both are     *)
(* always written together, no mode set here changes the clock of that     *)
(* head, which that driver changes at any time.  Giving the console back   *)
(* does: it puts back the clock of before ScreenInit.                      *)
OtherClockKept ==
    [][phase # "off" /\ ~card.VBEDualhead /\ hw'.otherVpll # hw.otherVpll =>
         \/ OtherDriver
         \/ phase' \in {"away", "ready", "dead"} /\ hw'.otherVpll = SavedReg.otherVpll]_vars

(* The cursor is shown and hidden through a copy of its register in the    *)
(* state loaded last: that copy is the register, and it is never that of   *)
(* the console, which would hide the cursor's place as well.               *)
CursorShadow ==
    phase = "x" /\ card.HWCursor =>
        /\ CurrentState = "ModeReg"
        /\ hw.cursor1 = ModeReg.cursor1 /\ hw.shown = ModeReg.shown

(* When the server has the terminal, whoever had it before, the engine has *)
(* the driver's tables, and they fit: every handle the driver puts in its  *)
(* command stream hashes to the object of a class it uses it for, and each *)
(* tile region of the memory controller has its copy in the engine.        *)
EngineReady ==
    phase = "x" =>
        /\ hw.engine = Driver
        /\ \A i \in Handles : ObjectOf(card.chip, i) \in ClassesOf(i)
        /\ TileRegions(card.chip) = TileCopies(card.chip)
=============================================================================
