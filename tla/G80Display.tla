----------------------------- MODULE G80Display -----------------------------
(***************************************************************************)
(* The RandR 1.2 display of the G80 family: heads (g80_display.c), their   *)
(* outputs (g80_sor.c, g80_dac.c, g80_output.c), and acquiring, releasing  *)
(* and resizing the display (g80_driver.c).                                *)
(*                                                                         *)
(* The display is programmed through methods.  C(mthd, data) changes the   *)
(* assembly state asm; C(0x80, 0) makes the hardware take it over (armed), *)
(* and during that it asks the driver for the clocks of the heads that     *)
(* change.  A mode set is a dozen calls of the server to CRTC and output   *)
(* functions, of which any of the server's own may fail; what each call    *)
(* needs of an earlier one is kept in fields of the driver (pclk,          *)
(* skipModeFixup, cursorVisible, dither, scale) and of the server          *)
(* (output->crtc, crtc->enabled, crtc->mode, crtc->desiredMode).           *)
(*                                                                         *)
(* A mode is a value; of its timings it matters whose they are (its own or *)
(* the panel's native mode's) and whether G80CrtcDoModeFixup has put them  *)
(* into the form the registers want.  possible_clones = 0: a head has one  *)
(* output.                                                                 *)
(***************************************************************************)
EXTENDS Naturals, FiniteSets

CONSTANTS Dac,            \* outputs by kind
          Tmds,
          Lvds,
          Modes,
          DualModes,      \* modes with a clock above 165 MHz
          NativeMode,     \* the native mode of the panels, or None
          AllowDualLink,
          Dither,         \* NVRec.Dither, the default
          Scales,         \* values of the property "scale" that are tried
          MaxFailures,    \* bound: mode sets that fail
          MaxChanges,     \* bound: changes of dithering, cursor, DPMS and size
          MaxEvents,      \* bound: such failures and changes together
          None

Sor == Tmds \cup Lvds
Outputs == Dac \cup Sor
Heads == 0..1             \* HEAD0, HEAD1; crtc[i] is head i

ASSUME DisplayAssumption ==
    /\ IsFiniteSet(Outputs)
    /\ Dac \cap Sor = {} /\ Tmds \cap Lvds = {}
    /\ DualModes \subseteq Modes
    /\ None \notin Modes \cup Heads
    /\ None \notin [backend : Modes \cup {None}, fixed : BOOLEAN]
    /\ None \notin [output : Outputs, scale : Scales]
    /\ NativeMode \in Modes \cup {None}
    /\ Lvds # {} => NativeMode # None
    /\ Tmds # {} /\ NativeMode \in DualModes => AllowDualLink
    /\ Scales \subseteq {"off", "aspect", "fill", "center"}
    /\ {"off", "aspect"} \subseteq Scales
    /\ MaxFailures \in Nat /\ MaxChanges \in Nat /\ MaxEvents \in Nat
    /\ AllowDualLink \in BOOLEAN /\ Dither \in BOOLEAN

VARIABLES
    crtcOf, enabled, mode, desiredMode,     \* the server
    vtSema,
    pitch,                                  \* of the screen: pScrn->displayWidth
    todo,            \* heads xf86SetDesiredModes or G80ResizeScreen has yet to set
    toDesired,       \* it is xf86SetDesiredModes
    retry,           \* the output whose old scale is to be restored, or None
    scale,           \* of the outputs: pPriv->scale
    pclk, dither, skipModeFixup, cursorVisible,     \* G80CrtcPrivRec
    asm, armed,      \* the display's state: sent, and taken over
    pll,             \* the clock programmed for a head
    link,            \* a TMDS output divides its clock for two links
    power,           \* the output is not in DPMS off
    crashed,         \* the server followed a null pointer
    failed,          \* auxiliary: heads whose last mode set failed
    redone,          \* auxiliary: heads set for the last time right after that
    failures, changes       \* counted for the bounds

serverVars == <<crtcOf, enabled, mode, desiredMode>>
callVars == <<todo, toDesired, retry>>
driverVars == <<pclk, dither, skipModeFixup, cursorVisible>>
hwVars == <<asm, armed, pll, link>>
vars == <<serverVars, vtSema, pitch, callVars, scale, driverVars, hwVars, power,
          crashed, failed, redone, failures, changes>>

DarkHead == [timing |-> None, view |-> None, out |-> None, pitch |-> None,
             dither |-> FALSE, cursor |-> FALSE, lit |-> FALSE]
Dark == [head |-> [h \in Heads |-> DarkHead], or |-> [o \in Outputs |-> None]]

UsedBy(c, h) == {o \in Outputs : c[o] = h}

-----------------------------------------------------------------------------
(* Adjusting a mode.  G80SorModeFixup, G80SorTMDSModeFixup, G80DacModeFixup:
   the timings of the native mode, already fixed, or those of the mode. *)

UsesNative(o, sc) == o \in Sor /\ NativeMode # None /\ sc[o] # "off"

(* G80CrtcModeFixup, which comes after it. *)
Timing(o, sc, h, m) ==
    IF UsesNative(o, sc)
    THEN [backend |-> NativeMode, fixed |-> TRUE]
    ELSE [backend |-> m, fixed |-> ~skipModeFixup[h]]

(* ComputeAspectScale and G80CrtcSetScale: the size of the image on the panel. *)
Out(s, m, backend) ==
    CASE s = "aspect" -> <<"aspect", m, backend>>
      [] s = "center" -> <<"size of", m>>
      [] OTHER -> <<"size of", backend>>

OutputScale(o, sc) == IF o \in Dac THEN "off" ELSE sc[o]

-----------------------------------------------------------------------------
(* What the functions of CRTCs and outputs do to the assembly state s.  c is
   output->crtc. *)

(* Mistake: an output that lost its CRTC stays connected. *)
Prepare_Connected(s, c) == s

(* G80CrtcPrepare *)
Prepare(s, c) ==
    [s EXCEPT !.or = [o \in Outputs |-> IF c[o] = None THEN None ELSE s.or[o]]]

(* G80CrtcBlankScreen.  What else a dark head was programmed with is forgotten:
   G80CrtcModeSet writes all of it before it lights the head. *)
Blank(s, h) == [s EXCEPT !.head[h] = DarkHead]

(* and with blank = FALSE *)
Unblank(s, h) ==
    [s EXCEPT !.head[h].cursor = (s.head[h].cursor \/ cursorVisible[h]),
              !.head[h].lit = TRUE]

(* G80CrtcModeSet *)
CrtcModeSet(s, h, m, timing) ==
    Unblank([s EXCEPT !.head[h].timing = timing,
                      !.head[h].view = m,
                      !.head[h].pitch = pitch,
                      !.head[h].dither = dither[h]], h)

(* G80SorModeSet, G80DacModeSet *)
OutputModeSet(s, o, sc, h, m, timing) ==
    [s EXCEPT !.or[o] = h,
              !.head[h].out = Out(OutputScale(o, sc), m, timing.backend)]

(* G80CrtcCommit: blank the heads nobody uses. *)
BlankUnused(s, c) ==
    [s EXCEPT !.head = [h \in Heads |->
        IF UsedBy(c, h) = {} THEN Blank(s, h).head[h] ELSE s.head[h]]]

-----------------------------------------------------------------------------
(* C(0x80, 0).  In the second supervisor interrupt the driver programs the PLL
   of each head that asks, and the clock of the outputs the server has on it.
   A lit head asks when its timings or its outputs change. *)

Changed(s) ==
    {h \in Heads : \/ s.head[h].timing # armed.head[h].timing
                   \/ \E o \in Outputs : (s.or[o] = h) # (armed.or[o] = h)}

(* Mistake: the outputs of the other head get the clock too. *)
SetPClk_AllOutputs(c, clocks, asking) ==
    LET served == {h \in asking : clocks[h] # None}
    IN  /\ pll' = [h \in Heads |-> IF h \in served THEN clocks[h] ELSE pll[h]]
        /\ link' = [o \in Tmds |->
                      IF served # {}
                      THEN clocks[CHOOSE h \in served : TRUE] \in DualModes
                      ELSE link[o]]

SetPClk(c, clocks, asking) ==
    LET served == {h \in asking : clocks[h] # None}
    IN  /\ pll' = [h \in Heads |-> IF h \in served THEN clocks[h] ELSE pll[h]]
        /\ link' = [o \in Tmds |-> IF c[o] \in served
                                    THEN clocks[c[o]] \in DualModes
                                    ELSE link[o]]

Update(s, c, clocks) ==
    /\ asm' = s
    /\ armed' = s
    /\ SetPClk(c, clocks, {h \in Changed(s) : s.head[h].lit})

-----------------------------------------------------------------------------
(* xf86CrtcSetMode of head h to m, with outputs assigned by c and scaled by
   sc, as far as it calls the driver.  Its output leaves DPMS off. *)

UserOf(c, h) == CHOOSE o \in Outputs : c[o] = h

Programmed(c, sc, h, m, timing) ==
    LET o == UserOf(c, h)
    IN  BlankUnused(OutputModeSet(CrtcModeSet(Prepare(asm, c), h, m, timing),
                                  o, sc, h, m, timing), c)

(* Mistake: the mark that the timings were fixed is not taken back. *)
SetMode_KeepsSkip(c, sc, h, m) ==
    LET timing == Timing(UserOf(c, h), sc, h, m)
    IN  /\ pclk' = [pclk EXCEPT ![h] = timing.backend]
        /\ skipModeFixup' =
             [skipModeFixup EXCEPT ![h] = @ \/ UsesNative(UserOf(c, h), sc)]
        /\ Update(Programmed(c, sc, h, m, timing), c, pclk')
        /\ failed' = failed \ {h}
        /\ redone' = (redone \ {h}) \cup (failed \cap {h})
        /\ UNCHANGED <<dither, cursorVisible, failures>>

SetMode(c, sc, h, m) ==
    LET timing == Timing(UserOf(c, h), sc, h, m)
    IN  /\ pclk' = [pclk EXCEPT ![h] = timing.backend]
        /\ skipModeFixup' = [skipModeFixup EXCEPT ![h] = FALSE]
        /\ Update(Programmed(c, sc, h, m, timing), c, pclk')
        /\ failed' = failed \ {h}
        /\ redone' = (redone \ {h}) \cup (failed \cap {h})
        /\ UNCHANGED <<dither, cursorVisible, failures>>

Powered(c, h) == [power EXCEPT ![UserOf(c, h)] = TRUE]

(* It fails, before or after the mode was fixed up, and the caller gives up the
   heads in rest as well. *)
SetModeFails(c, sc, h, rest) ==
    /\ failures < MaxFailures /\ failures + changes < MaxEvents
    /\ failures' = failures + 1
    /\ \/ UNCHANGED skipModeFixup
       \/ /\ UsesNative(UserOf(c, h), sc)
          /\ skipModeFixup' = [skipModeFixup EXCEPT ![h] = TRUE]
    /\ failed' = failed \cup {h} \cup rest
    /\ UNCHANGED <<pclk, dither, cursorVisible, hwVars, power, redone>>

Busy == todo # {} \/ retry # None
Idle == vtSema /\ ~Busy /\ ~crashed

-----------------------------------------------------------------------------
(* RandR *)

(* The modes it offers: G80TMDSModeValid, and G80LVDSModeValid if the larger
   modes are those with the higher clocks. *)
ModeValid(o, m) ==
    /\ o \in Tmds /\ m \in DualModes => AllowDualLink
    /\ o \in Lvds /\ m \in DualModes => NativeMode \in DualModes

(* xf86DisableUnusedFunctions *)
DisableUnused(c, on) == [o \in Outputs |-> on[o] /\ c[o] # None]
ModesInUse(on, modes) == [h \in Heads |-> IF on[h] THEN modes[h] ELSE None]

Assigned(h, o) ==
    [x \in Outputs |-> IF x = o THEN h
                       ELSE IF crtcOf[x] = h THEN None ELSE crtcOf[x]]

(* An output is put on a head, and taken from another if it was there. *)
CrtcSet(h, o, m) ==
    /\ Idle
    /\ ModeValid(o, m)
    /\ LET c == Assigned(h, o)
       IN  \/ /\ SetMode(c, scale, h, m)
              /\ crtcOf' = c
              /\ enabled' = [enabled EXCEPT ![h] = TRUE]
              /\ mode' = ModesInUse(enabled', [mode EXCEPT ![h] = m])
              /\ desiredMode' = [desiredMode EXCEPT ![h] = m]
              /\ power' = DisableUnused(c, Powered(c, h))
           \/ SetModeFails(c, scale, h, {}) /\ UNCHANGED serverVars
    /\ UNCHANGED <<vtSema, pitch, callVars, scale, crashed, changes>>

(* A head is switched off: the hardware hears of it with the next commit. *)
CrtcOff(h) ==
    /\ Idle
    /\ enabled[h]
    /\ crtcOf' = [o \in Outputs |-> IF crtcOf[o] = h THEN None ELSE crtcOf[o]]
    /\ enabled' = [enabled EXCEPT ![h] = FALSE]
    /\ mode' = ModesInUse(enabled', mode)
    /\ desiredMode' = [desiredMode EXCEPT ![h] = None]
    /\ power' = DisableUnused(crtcOf', power)
    /\ UNCHANGED <<vtSema, pitch, callVars, scale, driverVars, hwVars, crashed,
                   failed, redone, failures, changes>>

-----------------------------------------------------------------------------
(* G80SorSetProperty *)

Change ==
    /\ Idle
    /\ changes < MaxChanges /\ failures + changes < MaxEvents
    /\ changes' = changes + 1

(* Mistake: the change is not committed. *)
SetDither_NoUpdate(o, value) ==
    /\ Change
    /\ o \in Sor
    /\ \/ /\ crtcOf[o] = None
          /\ crashed' = TRUE
          /\ UNCHANGED <<dither, hwVars>>
       \/ /\ crtcOf[o] # None
          /\ dither' = [dither EXCEPT ![crtcOf[o]] = value]
          /\ asm' = [asm EXCEPT !.head[crtcOf[o]].dither = value]
          /\ UNCHANGED <<crashed, armed, pll, link>>
    /\ UNCHANGED <<serverVars, vtSema, pitch, callVars, scale, pclk,
                   skipModeFixup, cursorVisible, power, failed, redone,
                   failures>>

(* G80CrtcSetDither is called with output->crtc, also when that is null. *)
SetDither(o, value) ==
    /\ Change
    /\ o \in Sor
    /\ \/ /\ crtcOf[o] = None
          /\ crashed' = TRUE
          /\ UNCHANGED <<dither, hwVars>>
       \/ /\ crtcOf[o] # None
          /\ dither' = [dither EXCEPT ![crtcOf[o]] = value]
          /\ Update([asm EXCEPT !.head[crtcOf[o]].dither = value], crtcOf, pclk)
          /\ UNCHANGED crashed
    /\ UNCHANGED <<serverVars, vtSema, pitch, callVars, scale, pclk,
                   skipModeFixup, cursorVisible, power, failed, redone,
                   failures>>

(* Setting the scale sets the mode again if the output is on a head. *)
SetScale(o, s) ==
    /\ Idle
    /\ o \in Sor
    /\ o \in Lvds => s # "off"
    /\ LET h == crtcOf[o]
           new == [scale EXCEPT ![o] = s]
       IN  \/ /\ h = None
              /\ scale' = new
              /\ UNCHANGED <<mode, retry, driverVars, hwVars, power, failed,
                             redone, failures>>
           \/ /\ h # None
              /\ SetMode(crtcOf, new, h, desiredMode[h])
              /\ scale' = new
              /\ mode' = [mode EXCEPT ![h] = desiredMode[h]]
              /\ power' = Powered(crtcOf, h)
              /\ UNCHANGED retry
           \/ /\ h # None
              /\ SetModeFails(crtcOf, new, h, {})
              /\ scale' = new
              /\ retry' = [output |-> o, scale |-> scale[o]]
              /\ UNCHANGED mode
    /\ UNCHANGED <<crtcOf, enabled, desiredMode, vtSema, pitch, todo, toDesired,
                   crashed, changes>>

(* Mistake: the second attempt is not made with the old scale. *)
RestoreScale_Kept ==
    /\ retry # None
    /\ retry' = None
    /\ LET h == crtcOf[retry.output]
       IN  \/ /\ SetMode(crtcOf, scale, h, desiredMode[h])
              /\ mode' = [mode EXCEPT ![h] = desiredMode[h]]
              /\ power' = Powered(crtcOf, h)
           \/ SetModeFails(crtcOf, scale, h, {}) /\ UNCHANGED mode
    /\ UNCHANGED <<crtcOf, enabled, desiredMode, vtSema, pitch, todo, toDesired,
                   scale, crashed, changes>>

(* "Restore old scale and try again." *)
RestoreScale ==
    /\ retry # None
    /\ retry' = None
    /\ scale' = [scale EXCEPT ![retry.output] = retry.scale]
    /\ LET h == crtcOf[retry.output]
       IN  \/ /\ SetMode(crtcOf, scale', h, desiredMode[h])
              /\ mode' = [mode EXCEPT ![h] = desiredMode[h]]
              /\ power' = Powered(crtcOf, h)
           \/ SetModeFails(crtcOf, scale', h, {}) /\ UNCHANGED mode
    /\ UNCHANGED <<crtcOf, enabled, desiredMode, vtSema, pitch, todo, toDesired,
                   crashed, changes>>

-----------------------------------------------------------------------------
(* The cursor: xf86_show_cursors and xf86_hide_cursors go to enabled heads. *)
ShowHideCursor(h, show) ==
    /\ Change
    /\ enabled[h]
    /\ cursorVisible' = [cursorVisible EXCEPT ![h] = show]
    /\ Update([asm EXCEPT !.head[h].cursor = show], crtcOf, pclk)
    /\ UNCHANGED <<serverVars, vtSema, pitch, callVars, scale, pclk, dither,
                   skipModeFixup, power, crashed, failed, redone, failures>>

(* xf86DPMSSet, with G80SorDPMSSet and G80DacDPMSSet *)
DPMSSet(on) ==
    /\ Change
    /\ power' = [o \in Outputs |-> IF crtcOf[o] # None THEN on ELSE power[o]]
    /\ UNCHANGED <<serverVars, vtSema, pitch, callVars, scale, driverVars,
                   hwVars, crashed, failed, redone, failures>>

-----------------------------------------------------------------------------
(* Acquiring, releasing and resizing *)

(* ReleaseDisplay: G80DispShutdown, then the console's mode. *)
LeaveVT ==
    /\ Idle
    /\ vtSema' = FALSE
    /\ Update([asm EXCEPT !.head = [h \in Heads |-> Blank(asm, h).head[h]]],
              crtcOf, pclk)
    /\ UNCHANGED <<serverVars, pitch, callVars, scale, driverVars, power,
                   crashed, failed, redone, failures, changes>>

(* AcquireDisplay: G80DispInit starts the display anew, xf86SetDesiredModes
   puts all outputs in DPMS off and sets the modes of the heads in use.
   Starting the display's channel is taken to empty both states; the methods
   G80DispInit sends then write 0 where there is nothing, and change neither. *)
EnterVT ==
    /\ ~vtSema /\ ~crashed
    /\ vtSema' = TRUE
    /\ asm' = Dark /\ armed' = Dark
    /\ power' = [o \in Outputs |-> FALSE]
    /\ todo' = {h \in Heads : enabled[h] /\ UsedBy(crtcOf, h) # {}}
    /\ toDesired' = (todo' # {})
    /\ UNCHANGED <<serverVars, pitch, retry, scale, driverVars, pll, link,
                   crashed, failed, redone, failures, changes>>

(* Mistake: disabled heads are set as well. *)
ResizeScreen_AllHeads ==
    /\ Change
    /\ pitch' = 1 - pitch
    /\ todo' = Heads
    /\ UNCHANGED <<serverVars, vtSema, toDesired, retry, scale, driverVars,
                   hwVars, power, crashed, failed, redone, failures>>

(* G80ResizeScreen sets the mode of every enabled head again. *)
ResizeScreen ==
    /\ Change
    /\ pitch' = 1 - pitch
    /\ todo' = {h \in Heads : enabled[h]}
    /\ UNCHANGED <<serverVars, vtSema, toDesired, retry, scale, driverVars,
                   hwVars, power, crashed, failed, redone, failures>>

NextHead(h) == h \in todo /\ \A g \in todo : h <= g

(* The call of xf86CrtcSetMode for the next of these heads. *)
SetNext(h) ==
    /\ NextHead(h)
    /\ UsedBy(crtcOf, h) # {}
    /\ LET m == IF toDesired THEN desiredMode[h] ELSE mode[h]
       IN  /\ SetMode(crtcOf, scale, h, m)
           /\ mode' = [mode EXCEPT ![h] = m]
    /\ power' = Powered(crtcOf, h)
    /\ todo' = todo \ {h}
    /\ toDesired' = (toDesired /\ todo' # {})
    /\ UNCHANGED <<crtcOf, enabled, desiredMode, vtSema, pitch, retry, scale,
                   crashed, changes>>

(* It fails: xf86SetDesiredModes has forgotten the old mode and gives up,
   G80ResizeScreen does not look at the result. *)
SetNextFails(h) ==
    /\ NextHead(h)
    /\ UsedBy(crtcOf, h) # {}
    /\ todo' = IF toDesired THEN {} ELSE todo \ {h}
    /\ toDesired' = FALSE
    /\ SetModeFails(crtcOf, scale, h, IF toDesired THEN todo ELSE {})
    /\ mode' = IF toDesired THEN [mode EXCEPT ![h] = None] ELSE mode
    /\ UNCHANGED <<crtcOf, enabled, desiredMode, vtSema, pitch, retry, scale,
                   crashed, changes>>

(* Its output was given to another head: it is now disabled. *)
SetNextUnused(h) ==
    /\ NextHead(h)
    /\ UsedBy(crtcOf, h) = {}
    /\ enabled' = [enabled EXCEPT ![h] = FALSE]
    /\ mode' = ModesInUse(enabled', mode)
    /\ todo' = todo \ {h}
    /\ UNCHANGED <<crtcOf, desiredMode, vtSema, pitch, toDesired, retry, scale,
                   driverVars, hwVars, power, crashed, failed, redone, failures,
                   changes>>

-----------------------------------------------------------------------------
(* G80DispCreateCrtcs and G80CreateOutputs, then the server's choice of an
   initial configuration, and AcquireDisplay. *)
Init ==
    /\ crtcOf \in [Outputs -> Heads \cup {None}]
    /\ \A h \in Heads : Cardinality(UsedBy(crtcOf, h)) <= 1
    /\ enabled = [h \in Heads |-> UsedBy(crtcOf, h) # {}]
    /\ desiredMode \in [Heads -> Modes \cup {None}]
    /\ \A h \in Heads : desiredMode[h] = None <=> ~enabled[h]
    /\ \A o \in Outputs : crtcOf[o] # None => ModeValid(o, desiredMode[crtcOf[o]])
    /\ mode = [h \in Heads |-> None]
    /\ vtSema = TRUE
    /\ pitch = 0
    /\ todo = {h \in Heads : enabled[h]}
    /\ toDesired = (todo # {})
    /\ retry = None
    /\ scale = [o \in Outputs |-> IF o \in Dac THEN "off" ELSE "aspect"]
    /\ pclk = [h \in Heads |-> None]
    /\ dither = [h \in Heads |-> Dither]
    /\ skipModeFixup = [h \in Heads |-> FALSE]
    /\ cursorVisible = [h \in Heads |-> FALSE]
    /\ asm = Dark /\ armed = Dark
    /\ pll = [h \in Heads |-> None]
    /\ link = [o \in Tmds |-> FALSE]
    /\ power = [o \in Outputs |-> FALSE]
    /\ crashed = FALSE
    /\ failed = {} /\ redone = {}
    /\ failures = 0 /\ changes = 0

Next ==
    \/ \E h \in Heads, o \in Outputs, m \in Modes : CrtcSet(h, o, m)
    \/ \E h \in Heads : CrtcOff(h)
    \/ \E h \in Heads : SetNext(h) \/ SetNextFails(h) \/ SetNextUnused(h)
    \/ \E o \in Outputs, value \in BOOLEAN : SetDither(o, value)
    \/ \E o \in Outputs, s \in Scales : SetScale(o, s)
    \/ RestoreScale
    \/ \E h \in Heads, show \in BOOLEAN : ShowHideCursor(h, show)
    \/ \E on \in BOOLEAN : DPMSSet(on)
    \/ LeaveVT \/ EnterVT \/ ResizeScreen

Spec == Init /\ [][Next]_vars

-----------------------------------------------------------------------------
(* Properties *)

(* Types; a retry is only pending for an output on a head, and the heads yet
   to be set are enabled. *)
TypeOK ==
    /\ crtcOf \in [Outputs -> Heads \cup {None}]
    /\ enabled \in [Heads -> BOOLEAN]
    /\ mode \in [Heads -> Modes \cup {None}]
    /\ desiredMode \in [Heads -> Modes \cup {None}]
    /\ vtSema \in BOOLEAN /\ pitch \in 0..1
    /\ todo \in SUBSET {h \in Heads : enabled[h]}
    /\ toDesired \in BOOLEAN
    /\ retry # None => crtcOf[retry.output] # None /\ retry.scale \in Scales
    /\ scale \in [Outputs -> Scales]
    /\ \A o \in Lvds : scale[o] # "off"
    /\ pclk \in [Heads -> Modes \cup {None}]
    /\ dither \in [Heads -> BOOLEAN] /\ cursorVisible \in [Heads -> BOOLEAN]
    /\ skipModeFixup \in [Heads -> BOOLEAN]
    /\ pll \in [Heads -> Modes \cup {None}]
    /\ link \in [Tmds -> BOOLEAN] /\ power \in [Outputs -> BOOLEAN]
    /\ crashed \in BOOLEAN
    /\ failed \in SUBSET Heads /\ redone \in SUBSET Heads
    /\ failures \in 0..MaxFailures /\ changes \in 0..MaxChanges

(* Between requests, a head in use that shows a picture (and every head in use
   whose last mode set succeeded does) shows the server's mode on the server's
   output, scaled as the output's property says, and with the cursor and the
   dithering last asked for: through moves of outputs between heads, failed
   mode sets, the second attempt after a failed change of the scale, and
   switches of the VT.  Its timings are in the form the registers want, with
   one exemption: after a mode set that failed, the next on that head may leave
   the mode's own timings as the server made them (G80CrtcModeFixup finds the
   mark of the failed one; TimingsFixed). *)
ConfigFollows ==
    Idle => \A o \in Outputs : crtcOf[o] # None =>
        LET h == crtcOf[o]
            now == armed.head[h]
        IN  /\ h \notin failed => now.lit /\ now.pitch = pitch
            /\ now.lit =>
                  /\ now.view = mode[h]
                  /\ now.timing.backend =
                       IF UsesNative(o, scale) THEN NativeMode ELSE mode[h]
                  /\ now.timing.fixed \/ (h \in redone /\ ~UsesNative(o, scale))
                  /\ now.out = Out(OutputScale(o, scale), mode[h],
                                    now.timing.backend)
                  /\ now.dither = dither[h]
                  /\ now.cursor = cursorVisible[h]
                  /\ armed.or[o] = h

(* The clocks programmed from the supervisor interrupt are those of the picture:
   the PLL of a lit head has the clock of its timings, and a TMDS output divides
   it for two links exactly when it is above 165 MHz, also when both heads ask
   in one update and when an output has just changed heads. *)
ClocksAgree ==
    \A h \in Heads : armed.head[h].lit /\ armed.head[h].timing.backend # None =>
        LET clock == armed.head[h].timing.backend
        IN  /\ pll[h] = clock
            /\ \A o \in Tmds : armed.or[o] = h /\ crtcOf[o] = h =>
                    link[o] = (clock \in DualModes)

(* No head drives two outputs, and an output that is not in DPMS off shows its
   own head, although the server disconnects outputs without a call that tells
   the hardware (the comments in G80SorModeSet and G80DacModeSet). *)
NoStrayPicture ==
    /\ \A h \in Heads : Cardinality({o \in Outputs : armed.or[o] = h}) <= 1
    /\ \A o \in Outputs : power[o] /\ armed.or[o] # None => armed.or[o] = crtcOf[o]

(* G80SorModeFixup skips the fixup of the CRTC because "This mode is already
   fixed".  Are the timings a head is lit with always fixed? *)
TimingsFixed ==
    \A h \in Heads : armed.head[h].lit => armed.head[h].timing.fixed
=============================================================================
