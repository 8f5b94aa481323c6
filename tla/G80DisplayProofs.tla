-------------------------- MODULE G80DisplayProofs --------------------------
(***************************************************************************)
(* Proofs about G80Display, for every set of outputs and modes, every      *)
(* default and any number of failures and changes.                         *)
(*                                                                         *)
(* A mode set reads what earlier calls left: the clocks kept for the heads *)
(* that are not being set, the outputs still connected to a head nobody    *)
(* uses, the cursor of a blanked head.  The invariant says what those are, *)
(* in the middle of xf86SetDesiredModes, of G80ResizeScreen and of a       *)
(* change of the scale as well as between requests.                        *)
(***************************************************************************)
EXTENDS G80Display, FiniteSetTheorems, TLAPS

Mode == Modes \cup {None}
Timings == [backend : Mode, fixed : BOOLEAN]
Images == {None} \cup {Out(s, m, b) : s \in Scales \cup {"off"}, m \in Mode, b \in Mode}
HeadState == [timing : Timings \cup {None}, view : Mode, out : Images,
              pitch : {0, 1, None}, dither : BOOLEAN, cursor : BOOLEAN, lit : BOOLEAN]
Display == [head : [Heads -> HeadState], or : [Outputs -> Heads \cup {None}]]

(* A head has one output. *)
OneEach(c) == \A o, x \in Outputs : c[o] = c[x] /\ c[o] # None => o = x

(* The scales in force: those of the properties, but for the output whose old
   one is about to be restored. *)
ScaleNow == IF retry = None THEN scale
            ELSE [scale EXCEPT ![retry.output] = retry.scale]

TypeInv ==
    /\ TypeOK
    /\ asm = armed /\ armed \in Display
    /\ \A h \in Heads : skipModeFixup[h] => h \in failed
    /\ retry # None => /\ retry \in [output : Sor, scale : Scales]
                       /\ retry.output \in Lvds => retry.scale # "off"

ServerInv ==
    /\ OneEach(crtcOf)
    /\ \A o \in Outputs : crtcOf[o] # None => enabled[crtcOf[o]]
    /\ ~vtSema => todo = {} /\ retry = None
    /\ todo # {} => retry = None
    /\ toDesired => todo # {}

(* An output is connected to the head the server has it on, or to one it was
   taken from, and then it is in DPMS off. *)
OrInv ==
    /\ OneEach(armed.or)
    /\ \A o \in Outputs : /\ crtcOf[o] # None => armed.or[o] \in {None, crtcOf[o]}
                          /\ power[o] => crtcOf[o] # None

HeadsInv ==
    \A h \in Heads : LET now == armed.head[h]
                     IN  /\ now.cursor => cursorVisible[h]
                         /\ now.lit => /\ now.timing # None
                                       /\ now.cursor = cursorVisible[h]
                                       /\ now.dither = dither[h]
                         /\ ~now.lit => now.timing = None

ClockInv ==
    \A h \in Heads : armed.head[h].lit =>
        LET clock == armed.head[h].timing.backend
        IN  /\ pclk[h] = clock
            /\ clock # None =>
                  /\ pll[h] = clock
                  /\ \A o \in Tmds : armed.or[o] = h => link[o] = (clock \in DualModes)

Shown(o) ==
    LET h == crtcOf[o]
        now == armed.head[h]
    IN  /\ vtSema /\ h \notin failed \cup todo => now.lit /\ now.pitch = pitch
        /\ now.lit => /\ now.view = mode[h]
                      /\ now.timing.backend =
                            IF UsesNative(o, ScaleNow) THEN NativeMode ELSE mode[h]
                      /\ now.timing.fixed \/ (h \in redone /\ ~UsesNative(o, ScaleNow))
                      /\ now.out = Out(OutputScale(o, ScaleNow), mode[h],
                                       now.timing.backend)
                      /\ armed.or[o] = h

ConfigInv ==
    /\ \A o \in Outputs : crtcOf[o] # None => Shown(o)
    /\ toDesired => \A h \in todo : ~armed.head[h].lit /\ UsedBy(crtcOf, h) # {}

IInv == TypeInv /\ ServerInv /\ OrInv /\ HeadsInv /\ ClockInv /\ ConfigInv

-----------------------------------------------------------------------------
(* The display's state. *)
LEMMA DarkFacts ==
    /\ DarkHead \in HeadState /\ Dark \in Display
    /\ DarkHead.timing = None /\ ~DarkHead.lit /\ ~DarkHead.cursor
    /\ \A h \in Heads : Dark.head[h] = DarkHead
    /\ \A o \in Outputs : Dark.or[o] = None
BY DEF DarkHead, Dark, HeadState, Display, Timings, Mode, Images

(* The timing a head is given for an output: its type, and the mode behind *)
(* it.                                                                     *)
LEMMA TimingFacts ==
    ASSUME skipModeFixup \in [Heads -> BOOLEAN],
           NEW o \in Outputs, NEW sc \in [Outputs -> Scales], NEW h \in Heads,
           NEW m \in Mode
    PROVE  /\ Timing(o, sc, h, m) \in Timings
           /\ Timing(o, sc, h, m).backend = IF UsesNative(o, sc) THEN NativeMode ELSE m
           /\ \/ Timing(o, sc, h, m).fixed
              \/ skipModeFixup[h] /\ ~UsesNative(o, sc)
           /\ Timing(o, sc, h, m) # None
<1>1. /\ Timing(o, sc, h, m) \in Timings
      /\ Timing(o, sc, h, m).backend = IF UsesNative(o, sc) THEN NativeMode ELSE m
      /\ \/ Timing(o, sc, h, m).fixed
         \/ skipModeFixup[h] /\ ~UsesNative(o, sc)
  BY DisplayAssumption DEF Timing, Timings, Mode
<1> QED BY <1>1, DisplayAssumption DEF Timings, Mode

(* What an output makes of a mode has the type of a picture.               *)
LEMMA OutTyped ==
    ASSUME NEW o \in Outputs, NEW sc \in [Outputs -> Scales], NEW m \in Mode,
           NEW b \in Mode
    PROVE  Out(OutputScale(o, sc), m, b) \in Images
<1>1. OutputScale(o, sc) \in Scales \cup {"off"}
  BY DEF OutputScale
<1> QED BY <1>1 DEF Images

(* When each head has one output at most, the output that names a head is  *)
(* the one UserOf finds.                                                   *)
LEMMA TheUser ==
    ASSUME NEW c, OneEach(c), NEW o \in Outputs, NEW h \in Heads, c[o] = h
    PROVE  UserOf(c, h) = o
<1>1. \A x \in Outputs : c[x] = h => x = o
  BY DisplayAssumption DEF OneEach
<1> QED BY <1>1 DEF UserOf

(* A display state with one head replaced.                                 *)
LEMMA HeadSet ==
    ASSUME NEW s \in Display, NEW h \in Heads, NEW r \in HeadState,
           NEW t, t = [head |-> [s.head EXCEPT ![h] = r], or |-> s.or]
    PROVE  /\ t \in Display /\ t.or = s.or /\ t.head[h] = r
           /\ \A g \in Heads \ {h} : t.head[g] = s.head[g]
BY DEF Display

(* A display state with one head lit or blanked.                           *)
LEMMA LitSet ==
    ASSUME NEW s \in Display, NEW h \in Heads, NEW on \in BOOLEAN
    PROVE  LET t == [s EXCEPT !.head[h].lit = on]
           IN  /\ t \in Display /\ t.or = s.or
               /\ t.head[h] = [s.head[h] EXCEPT !.lit = on]
               /\ \A g \in Heads \ {h} : t.head[g] = s.head[g]
<1> DEFINE t == [s EXCEPT !.head[h].lit = on]
<1>1. t = [head |-> [s.head EXCEPT ![h] = [s.head[h] EXCEPT !.lit = on]], or |-> s.or]
  BY DEF Display
<1>2. [s.head[h] EXCEPT !.lit = on] \in HeadState
  BY DEF Display, HeadState
<1> HIDE DEF t
<1> DEFINE r == [s.head[h] EXCEPT !.lit = on]
<1> HIDE DEF r
<1>3. /\ t \in Display /\ t.or = s.or /\ t.head[h] = r
      /\ \A g \in Heads \ {h} : t.head[g] = s.head[g]
  <2>1. t = [head |-> [s.head EXCEPT ![h] = r], or |-> s.or] /\ r \in HeadState
    BY <1>1, <1>2 DEF r
  <2> QED BY <2>1 DEF Display
<1> QED BY <1>3 DEF t, r

(* What a mode set leaves of the display. *)
LEMMA ProgrammedFacts ==
    ASSUME asm \in Display, pitch \in 0..1, dither \in [Heads -> BOOLEAN],
           cursorVisible \in [Heads -> BOOLEAN],
           NEW c, OneEach(c), NEW sc \in [Outputs -> Scales],
           NEW h \in Heads, NEW o \in Outputs, c[o] = h,
           NEW m \in Mode, NEW timing \in Timings
    PROVE  LET s == Programmed(c, sc, h, m, timing)
           IN  /\ s \in Display
               /\ \A x \in Outputs :
                     s.or[x] = IF x = o THEN h ELSE IF c[x] = None THEN None ELSE asm.or[x]
               /\ s.head[h].timing = timing /\ s.head[h].view = m
               /\ s.head[h].out = Out(OutputScale(o, sc), m, timing.backend)
               /\ s.head[h].pitch = pitch /\ s.head[h].dither = dither[h]
               /\ s.head[h].cursor = (asm.head[h].cursor \/ cursorVisible[h])
               /\ s.head[h].lit
               /\ \A g \in Heads \ {h} :
                     s.head[g] = IF UsedBy(c, g) = {} THEN DarkHead ELSE asm.head[g]
<1> DEFINE out == Out(OutputScale(o, sc), m, timing.backend)
           a == Prepare(asm, c)
           b == CrtcModeSet(a, h, m, timing)
           d == OutputModeSet(b, o, sc, h, m, timing)
           s == BlankUnused(d, c)
<1>1. s = Programmed(c, sc, h, m, timing)
  BY TheUser DEF Programmed
<1>2. /\ a \in Display /\ a.head = asm.head
      /\ \A x \in Outputs : a.or[x] = IF c[x] = None THEN None ELSE asm.or[x]
  BY DEF Prepare, Display
<1> HIDE DEF a
<1>3. /\ b \in Display /\ b.or = a.or
      /\ \A g \in Heads \ {h} : b.head[g] = a.head[g]
      /\ b.head[h].timing = timing /\ b.head[h].view = m
      /\ b.head[h].pitch = pitch /\ b.head[h].dither = dither[h]
      /\ b.head[h].cursor = (a.head[h].cursor \/ cursorVisible[h])
      /\ b.head[h].lit
  <2> DEFINE a1 == [a EXCEPT !.head[h].timing = timing]
             a2 == [a1 EXCEPT !.head[h].view = m]
             a3 == [a2 EXCEPT !.head[h].pitch = pitch]
             a4 == [a3 EXCEPT !.head[h].dither = dither[h]]
             a5 == [a4 EXCEPT !.head[h].cursor = (a4.head[h].cursor \/ cursorVisible[h])]
             a6 == [a5 EXCEPT !.head[h].lit = TRUE]
  <2>1. b = a6
    BY DEF CrtcModeSet, Unblank
  <2>2. /\ a1 \in Display /\ a1.or = a.or
        /\ a1.head[h] = [a.head[h] EXCEPT !.timing = timing]
        /\ \A g \in Heads \ {h} : a1.head[g] = a.head[g]
    <3>1. a \in Display /\ a.head[h] \in HeadState
      BY <1>2 DEF Display
    <3>2. a1 = [head |-> [a.head EXCEPT ![h] = [a.head[h] EXCEPT !.timing = timing]],
                 or |-> a.or]
      BY <3>1 DEF Display
    <3>3. timing \in Timings \cup {None}
      BY <3>1
    <3>4. [a.head[h] EXCEPT !.timing = timing] \in HeadState
      BY <3>1, <3>3 DEF HeadState
    <3> HIDE DEF a1
    <3> QED BY <3>1, <3>2, <3>4, HeadSet
  <2> HIDE DEF a1
  <2>3. /\ a2 \in Display /\ a2.or = a1.or
        /\ a2.head[h] = [a1.head[h] EXCEPT !.view = m]
        /\ \A g \in Heads \ {h} : a2.head[g] = a1.head[g]
    <3>1. a1 \in Display /\ a1.head[h] \in HeadState
      BY <2>2 DEF Display
    <3>2. a2 = [head |-> [a1.head EXCEPT ![h] = [a1.head[h] EXCEPT !.view = m]],
                 or |-> a1.or]
      BY <3>1 DEF Display
    <3>3. m \in Mode
      BY <3>1
    <3>4. [a1.head[h] EXCEPT !.view = m] \in HeadState
      BY <3>1, <3>3 DEF HeadState
    <3> HIDE DEF a2
    <3> QED BY <3>1, <3>2, <3>4, HeadSet
  <2> HIDE DEF a2
  <2>4. /\ a3 \in Display /\ a3.or = a2.or
        /\ a3.head[h] = [a2.head[h] EXCEPT !.pitch = pitch]
        /\ \A g \in Heads \ {h} : a3.head[g] = a2.head[g]
    <3>1. a2 \in Display /\ a2.head[h] \in HeadState
      BY <2>3 DEF Display
    <3>2. a3 = [head |-> [a2.head EXCEPT ![h] = [a2.head[h] EXCEPT !.pitch = pitch]],
                 or |-> a2.or]
      BY <3>1 DEF Display
    <3>3. pitch \in {0, 1, None}
      BY <3>1
    <3>4. [a2.head[h] EXCEPT !.pitch = pitch] \in HeadState
      BY <3>1, <3>3 DEF HeadState
    <3> HIDE DEF a3
    <3> QED BY <3>1, <3>2, <3>4, HeadSet
  <2> HIDE DEF a3
  <2>5. /\ a4 \in Display /\ a4.or = a3.or
        /\ a4.head[h] = [a3.head[h] EXCEPT !.dither = dither[h]]
        /\ \A g \in Heads \ {h} : a4.head[g] = a3.head[g]
    <3>1. a3 \in Display /\ a3.head[h] \in HeadState
      BY <2>4 DEF Display
    <3>2. a4 = [head |-> [a3.head EXCEPT ![h] = [a3.head[h] EXCEPT !.dither = dither[h]]],
                 or |-> a3.or]
      BY <3>1 DEF Display
    <3>3. dither[h] \in BOOLEAN
      BY <3>1
    <3>4. [a3.head[h] EXCEPT !.dither = dither[h]] \in HeadState
      BY <3>1, <3>3 DEF HeadState
    <3> HIDE DEF a4
    <3> QED BY <3>1, <3>2, <3>4, HeadSet
  <2> HIDE DEF a4
  <2>6. /\ a5 \in Display /\ a5.or = a4.or
        /\ a5.head[h] = [a4.head[h] EXCEPT !.cursor = (a4.head[h].cursor \/ cursorVisible[h])]
        /\ \A g \in Heads \ {h} : a5.head[g] = a4.head[g]
    <3>1. a4 \in Display /\ a4.head[h] \in HeadState
      BY <2>5 DEF Display
    <3>2. a5 = [head |-> [a4.head EXCEPT ![h] = [a4.head[h] EXCEPT !.cursor = (a4.head[h].cursor \/ cursorVisible[h])]],
                 or |-> a4.or]
      BY <3>1 DEF Display
    <3>3. (a4.head[h].cursor \/ cursorVisible[h]) \in BOOLEAN
      BY <3>1
    <3>4. [a4.head[h] EXCEPT !.cursor = (a4.head[h].cursor \/ cursorVisible[h])] \in HeadState
      BY <3>1, <3>3 DEF HeadState
    <3> HIDE DEF a5
    <3> QED BY <3>1, <3>2, <3>4, HeadSet
  <2> HIDE DEF a5
  <2>7. /\ a6 \in Display /\ a6.or = a5.or
        /\ a6.head[h] = [a5.head[h] EXCEPT !.lit = TRUE]
        /\ \A g \in Heads \ {h} : a6.head[g] = a5.head[g]
    BY <2>6, LitSet, ZenonT(40)
  <2> HIDE DEF a6
  <2>8. a.head[h] \in HeadState
    BY <1>2 DEF Display
  <2>9. /\ a6.head[h].timing = timing /\ a6.head[h].view = m
        /\ a6.head[h].pitch = pitch /\ a6.head[h].dither = dither[h]
    BY <2>2, <2>3, <2>4, <2>5, <2>6, <2>7, <2>8 DEF HeadState, Display
  <2>10. a6.head[h].lit
    BY <2>6, <2>7 DEF HeadState, Display
  <2>11. a4.head[h].cursor = a.head[h].cursor
    BY <2>2, <2>3, <2>4, <2>5, <2>8 DEF HeadState, Display
  <2>12. a6.head[h].cursor = (a.head[h].cursor \/ cursorVisible[h])
    <3>1. a5.head[h].cursor = (a4.head[h].cursor \/ cursorVisible[h])
      BY <2>5, <2>6 DEF HeadState, Display
    <3>2. a6.head[h].cursor = a5.head[h].cursor
      BY <2>6, <2>7 DEF HeadState, Display
    <3> QED BY <2>11, <3>1, <3>2
  <2> QED BY <2>1, <2>2, <2>3, <2>4, <2>5, <2>6, <2>7, <2>9, <2>10, <2>12
<1>4. a.head[h] \in HeadState /\ a.head \in [Heads -> HeadState]
  BY <1>2 DEF Display
<1>5. /\ b.head[h].timing = timing /\ b.head[h].view = m
      /\ b.head[h].pitch = pitch /\ b.head[h].dither = dither[h]
      /\ b.head[h].cursor = (asm.head[h].cursor \/ cursorVisible[h])
      /\ b.head[h].lit = TRUE
      /\ b.head[h] \in HeadState
      /\ \A g \in Heads \ {h} : b.head[g] = asm.head[g]
      /\ b.head \in [Heads -> HeadState]
  BY <1>2, <1>3, <1>4 DEF HeadState, Display
<1>6. b \in Display
  BY <1>2, <1>3, <1>5 DEF Display
<1> HIDE DEF b
<1>7. out \in Images
  BY OutTyped DEF Timings
<1>8. /\ d.or = [b.or EXCEPT ![o] = h]
      /\ d.head = [b.head EXCEPT ![h] = [b.head[h] EXCEPT !.out = out]]
      /\ d = [head |-> d.head, or |-> d.or]
  <2> DEFINE b1 == [b EXCEPT !.or[o] = h]
             b2 == [b1 EXCEPT !.head[h].out = out]
  <2>1. d = b2
    BY DEF OutputModeSet
  <2>2. b1 = [head |-> b.head, or |-> [b.or EXCEPT ![o] = h]]
    BY <1>6 DEF Display
  <2> HIDE DEF b1
  <2>3. b2 = [head |-> [b1.head EXCEPT ![h] = [b1.head[h] EXCEPT !.out = out]], or |-> b1.or]
    BY <2>2
  <2> QED BY <2>1, <2>2, <2>3
<1> HIDE DEF out
<1>9. /\ d.head[h].timing = timing /\ d.head[h].view = m
      /\ d.head[h].pitch = pitch /\ d.head[h].dither = dither[h]
      /\ d.head[h].cursor = (asm.head[h].cursor \/ cursorVisible[h])
      /\ d.head[h].lit = TRUE /\ d.head[h].out = out
      /\ d.head[h] \in HeadState
      /\ \A g \in Heads \ {h} : d.head[g] = asm.head[g]
      /\ d.head \in [Heads -> HeadState]
  BY <1>5, <1>7, <1>8 DEF HeadState
<1>10. /\ \A x \in Outputs :
             d.or[x] = IF x = o THEN h ELSE IF c[x] = None THEN None ELSE asm.or[x]
       /\ d.or \in [Outputs -> Heads \cup {None}]
  BY <1>2, <1>3, <1>6, <1>8 DEF Display
<1> HIDE DEF d
<1>11. /\ s.or = d.or
       /\ \A g \in Heads : s.head[g] = IF UsedBy(c, g) = {} THEN DarkHead ELSE d.head[g]
       /\ s \in Display
  <2>1. /\ s.or = d.or
        /\ s.head = [g \in Heads |-> IF UsedBy(c, g) = {} THEN Blank(d, g).head[g]
                                                          ELSE d.head[g]]
        /\ s = [head |-> s.head, or |-> s.or]
    BY <1>8, <1>9, <1>10, SMTT(30) DEF BlankUnused
  <2>2. \A g \in Heads : Blank(d, g).head[g] = DarkHead
    BY <1>8, <1>9 DEF Blank
  <2> HIDE DEF s
  <2>3. \A g \in Heads : s.head[g] = IF UsedBy(c, g) = {} THEN DarkHead ELSE d.head[g]
    BY <2>1, <2>2
  <2>4. s.head \in [Heads -> HeadState]
    BY <1>9, <2>1, <2>3, DarkFacts
  <2> QED BY <1>10, <2>1, <2>3, <2>4 DEF Display
<1>12. UsedBy(c, h) # {}
  BY DEF UsedBy
<1> HIDE DEF s
<1> QED BY <1>1, <1>9, <1>10, <1>11, <1>12 DEF out

(* What a mode set that succeeds does, whoever calls for it: it asks for an
   output o on head h, and the other outputs on heads were there before. *)
LEMMA SetModeStep ==
    ASSUME TypeInv, OneEach(armed.or), HeadsInv, ClockInv,
           NEW c \in [Outputs -> Heads \cup {None}], OneEach(c),
           NEW sc \in [Outputs -> Scales],
           NEW h \in Heads, NEW o \in Outputs, c[o] = h, NEW m \in Mode,
           \A x \in Outputs \ {o} : c[x] # None => armed.or[x] \in {None, c[x]},
           SetMode(c, sc, h, m)
    PROVE  /\ asm' = armed' /\ armed' \in Display
           /\ pclk' \in [Heads -> Mode] /\ pll' \in [Heads -> Mode]
           /\ link' \in [Tmds -> BOOLEAN] /\ skipModeFixup' \in [Heads -> BOOLEAN]
           /\ failed' = failed \ {h}
           /\ redone' = (redone \ {h}) \cup (failed \cap {h})
           /\ \A g \in Heads : skipModeFixup'[g] => g \in failed'
           /\ UNCHANGED <<dither, cursorVisible, failures>>
           /\ \A x \in Outputs : armed'.or[x] =
                 IF x = o THEN h ELSE IF c[x] = None THEN None ELSE armed.or[x]
           /\ armed'.head[h].lit /\ armed'.head[h].view = m
           /\ armed'.head[h].pitch = pitch
           /\ armed'.head[h].timing.backend =
                 IF UsesNative(o, sc) THEN NativeMode ELSE m
           /\ armed'.head[h].timing.fixed \/ (h \in redone' /\ ~UsesNative(o, sc))
           /\ armed'.head[h].out =
                 Out(OutputScale(o, sc), m, armed'.head[h].timing.backend)
           /\ \A g \in Heads \ {h} :
                 armed'.head[g] = IF UsedBy(c, g) = {} THEN DarkHead ELSE armed.head[g]
           /\ OneEach(armed'.or)
           /\ HeadsInv'
           /\ ClockInv'
<1> DEFINE timing == Timing(o, sc, h, m)
           s == Programmed(c, sc, h, m, timing)
           asking == {g \in Changed(s) : s.head[g].lit}
           served == {g \in asking : pclk'[g] # None}
<1>1. UserOf(c, h) = o
  BY TheUser
<1>2. /\ pclk' = [pclk EXCEPT ![h] = timing.backend]
      /\ skipModeFixup' = [skipModeFixup EXCEPT ![h] = FALSE]
      /\ asm' = s /\ armed' = s
      /\ pll' = [g \in Heads |-> IF g \in served THEN pclk'[g] ELSE pll[g]]
      /\ link' = [x \in Tmds |-> IF c[x] \in served THEN pclk'[c[x]] \in DualModes
                                                    ELSE link[x]]
      /\ failed' = failed \ {h}
      /\ redone' = (redone \ {h}) \cup (failed \cap {h})
      /\ UNCHANGED <<dither, cursorVisible, failures>>
  BY <1>1 DEF SetMode, Update, SetPClk
<1>3. /\ timing \in Timings /\ timing # None /\ timing.backend \in Mode
      /\ timing.backend = IF UsesNative(o, sc) THEN NativeMode ELSE m
      /\ timing.fixed \/ (h \in redone' /\ ~UsesNative(o, sc))
  <2>1. skipModeFixup \in [Heads -> BOOLEAN] /\ (skipModeFixup[h] => h \in redone')
    BY <1>2 DEF TypeInv, TypeOK
  <2> QED BY <2>1, TimingFacts DEF Timings
<1> HIDE DEF timing
<1>4. /\ s \in Display
      /\ \A x \in Outputs :
            s.or[x] = IF x = o THEN h ELSE IF c[x] = None THEN None ELSE armed.or[x]
      /\ s.head[h].timing = timing /\ s.head[h].view = m
      /\ s.head[h].out = Out(OutputScale(o, sc), m, timing.backend)
      /\ s.head[h].pitch = pitch /\ s.head[h].dither = dither[h]
      /\ s.head[h].cursor = (armed.head[h].cursor \/ cursorVisible[h])
      /\ s.head[h].lit
      /\ \A g \in Heads \ {h} :
            s.head[g] = IF UsedBy(c, g) = {} THEN DarkHead ELSE armed.head[g]
  <2>1. /\ asm = armed /\ asm \in Display /\ pitch \in 0..1
        /\ dither \in [Heads -> BOOLEAN] /\ cursorVisible \in [Heads -> BOOLEAN]
    BY DEF TypeInv, TypeOK
  <2> HIDE DEF s
  <2> QED BY <1>3, <2>1, ProgrammedFacts DEF s
<1> HIDE DEF s
<1>5. /\ pclk' \in [Heads -> Mode] /\ pll' \in [Heads -> Mode]
      /\ link' \in [Tmds -> BOOLEAN] /\ skipModeFixup' \in [Heads -> BOOLEAN]
  <2>1. /\ pclk \in [Heads -> Mode] /\ pll \in [Heads -> Mode]
        /\ link \in [Tmds -> BOOLEAN] /\ skipModeFixup \in [Heads -> BOOLEAN]
    BY DEF TypeInv, TypeOK, Mode
  <2> HIDE DEF served
  <2>2. pclk' \in [Heads -> Mode]
    BY <1>2, <1>3, <2>1
  <2>3. pll' \in [Heads -> Mode]
    BY <1>2, <2>1, <2>2
  <2>4. link' \in [Tmds -> BOOLEAN]
    <3> SUFFICES ASSUME NEW x \in Tmds
                 PROVE  (IF c[x] \in served THEN pclk'[c[x]] \in DualModes ELSE link[x])
                            \in BOOLEAN
      BY <1>2
    <3>1. CASE c[x] \in served
      BY <3>1
    <3>2. CASE c[x] \notin served
      BY <2>1, <3>2
    <3> QED BY <3>1, <3>2
  <2>5. skipModeFixup' \in [Heads -> BOOLEAN]
    BY <1>2, <2>1
  <2> QED BY <2>2, <2>3, <2>4, <2>5
<1>6. OneEach(s.or)
  <2> SUFFICES ASSUME NEW x \in Outputs, NEW y \in Outputs,
                      s.or[x] = s.or[y], s.or[x] # None
               PROVE  x = y
    BY DEF OneEach
  <2>1. c[x] = s.or[x] /\ c[y] = s.or[y]
    BY <1>4
  <2> QED BY <2>1 DEF OneEach
<1>7. HeadsInv'
  <2> SUFFICES ASSUME NEW g \in Heads
               PROVE  /\ s.head[g].cursor => cursorVisible[g]
                      /\ s.head[g].lit => /\ s.head[g].timing # None
                                          /\ s.head[g].cursor = cursorVisible[g]
                                          /\ s.head[g].dither = dither[g]
                      /\ ~s.head[g].lit => s.head[g].timing = None
    BY <1>2 DEF HeadsInv
  <2>1. CASE g = h
    <3>1. armed.head[h].cursor => cursorVisible[h]
      BY DEF HeadsInv
    <3>2. s.head[h].cursor = cursorVisible[h]
      <4>1. cursorVisible[h] \in BOOLEAN
        BY DEF TypeInv, TypeOK
      <4> QED BY <1>4, <3>1, <4>1
    <3> QED BY <1>3, <1>4, <2>1, <3>2
  <2>2. CASE g # h
    BY <1>4, <2>2, DarkFacts DEF HeadsInv
  <2> QED BY <2>1, <2>2
<1>8. ClockInv'
  <2> SUFFICES ASSUME NEW g \in Heads, s.head[g].lit
               PROVE  /\ pclk'[g] = s.head[g].timing.backend
                      /\ pclk'[g] # None =>
                            /\ pll'[g] = pclk'[g]
                            /\ \A x \in Tmds : s.or[x] = g =>
                                  link'[x] = (pclk'[g] \in DualModes)
    BY <1>2 DEF ClockInv
  <2>1. pclk'[g] = s.head[g].timing.backend
    <3>1. CASE g = h
      BY <1>2, <1>4, <3>1 DEF TypeInv, TypeOK
    <3>2. CASE g # h
      BY <1>2, <1>4, <3>2, DarkFacts DEF ClockInv, TypeInv, TypeOK
    <3> QED BY <3>1, <3>2
  <2>2. \A x \in Tmds : s.or[x] = g => c[x] = g
    BY <1>4, DisplayAssumption DEF Outputs, Sor
  <2>3. CASE g \in served
    <3>1. pll'[g] = pclk'[g]
      BY <1>2, <2>3
    <3> HIDE DEF served
    <3>2. \A x \in Tmds : s.or[x] = g => link'[x] = (pclk'[g] \in DualModes)
      BY <1>2, <2>2, <2>3
    <3> QED BY <2>1, <3>1, <3>2
  <2>4. CASE g \notin served /\ pclk'[g] # None
    <3>1. /\ s.head[g].timing = armed.head[g].timing
          /\ \A x \in Outputs : (s.or[x] = g) = (armed.or[x] = g)
      BY <2>4 DEF Changed
    <3>2. armed.head[g].lit
      <4>1. s.head[g].timing # None
        BY <1>2, <1>7 DEF HeadsInv
      <4> QED BY <3>1, <4>1 DEF HeadsInv
    <3>3. /\ pll[g] = pclk'[g]
          /\ \A x \in Tmds : armed.or[x] = g => link[x] = (pclk'[g] \in DualModes)
      BY <2>1, <2>4, <3>1, <3>2 DEF ClockInv
    <3> HIDE DEF served
    <3>4. pll'[g] = pll[g]
      BY <1>2, <2>4
    <3>5. \A x \in Tmds : s.or[x] = g => link'[x] = link[x] /\ armed.or[x] = g
      BY <1>2, <2>2, <2>4, <3>1 DEF Outputs, Sor
    <3> QED BY <2>1, <3>3, <3>4, <3>5
  <2>5. CASE pclk'[g] = None
    BY <2>1, <2>5
  <2> QED BY <2>3, <2>4, <2>5
<1>9. \A g \in Heads : skipModeFixup'[g] => g \in failed'
  BY <1>2 DEF TypeInv, TypeOK
<1> QED BY <1>2, <1>3, <1>4, <1>5, <1>6, <1>7, <1>8, <1>9

-----------------------------------------------------------------------------
(* What is shown of an output whose head and scale a step leaves alone. *)
LEMMA ShownKept ==
    ASSUME NEW x \in Outputs, NEW g \in Heads, crtcOf[x] = g, crtcOf'[x] = g,
           Shown(x),
           armed'.head[g].lit = armed.head[g].lit,
           armed'.head[g].view = armed.head[g].view,
           armed'.head[g].timing = armed.head[g].timing,
           armed'.head[g].out = armed.head[g].out,
           armed'.head[g].pitch = armed.head[g].pitch,
           armed'.or[x] = armed.or[x],
           mode'[g] = mode[g] \/ ~armed.head[g].lit,
           ScaleNow'[x] = ScaleNow[x],
           g \in redone => g \in redone',
           vtSema' /\ g \notin failed' \cup todo' =>
               pitch' = pitch /\ vtSema /\ g \notin failed \cup todo
    PROVE  Shown(x)'
<1>1. UsesNative(x, ScaleNow)' = UsesNative(x, ScaleNow)
  BY DEF UsesNative
<1>2. OutputScale(x, ScaleNow)' = OutputScale(x, ScaleNow)
  BY DEF OutputScale
<1>3. vtSema' /\ g \notin failed' \cup todo' =>
          armed'.head[g].lit /\ armed'.head[g].pitch = pitch'
  BY DEF Shown
<1>4. armed'.head[g].lit =>
        /\ armed'.head[g].view = mode'[g]
        /\ armed'.head[g].timing.backend =
              IF UsesNative(x, ScaleNow)' THEN NativeMode ELSE mode'[g]
        /\ armed'.head[g].timing.fixed \/ (g \in redone' /\ ~UsesNative(x, ScaleNow)')
        /\ armed'.head[g].out = Out(OutputScale(x, ScaleNow)', mode'[g],
                                    armed'.head[g].timing.backend)
        /\ armed'.or[x] = g
  BY <1>1, <1>2 DEF Shown
<1> QED BY <1>3, <1>4 DEF Shown

(* After a mode set that succeeds every output on a head is shown as before,
   and the one that was asked for as asked. *)
LEMMA SetModeShown ==
    ASSUME IInv,
           NEW sc \in [Outputs -> Scales],
           NEW h \in Heads, NEW o \in Outputs, crtcOf'[o] = h, NEW m \in Mode,
           crtcOf' \in [Outputs -> Heads \cup {None}], OneEach(crtcOf'),
           \A x \in Outputs \ {o} : crtcOf'[x] # None =>
               /\ crtcOf'[x] = crtcOf[x]
               /\ mode'[crtcOf[x]] = mode[crtcOf[x]]
               /\ ScaleNow'[x] = ScaleNow[x],
           SetMode(crtcOf', sc, h, m),
           mode'[h] = m, ScaleNow'[o] = sc[o], pitch' = pitch, vtSema' = vtSema,
           todo \subseteq todo' \cup {h}
    PROVE  /\ asm' = armed' /\ armed' \in Display
           /\ pclk' \in [Heads -> Mode] /\ pll' \in [Heads -> Mode]
           /\ link' \in [Tmds -> BOOLEAN] /\ skipModeFixup' \in [Heads -> BOOLEAN]
           /\ failed' = failed \ {h} /\ redone' \in SUBSET Heads
           /\ \A g \in Heads : skipModeFixup'[g] => g \in failed'
           /\ UNCHANGED <<dither, cursorVisible, failures>>
           /\ OneEach(armed'.or)
           /\ \A x \in Outputs : crtcOf'[x] # None => armed'.or[x] \in {None, crtcOf'[x]}
           /\ HeadsInv' /\ ClockInv'
           /\ \A x \in Outputs : crtcOf'[x] # None => Shown(x)'
           /\ \A g \in Heads \ {h} : armed'.head[g].lit => armed.head[g].lit
<1> DEFINE c == crtcOf'
<1>1. /\ asm' = armed' /\ armed' \in Display
      /\ pclk' \in [Heads -> Mode] /\ pll' \in [Heads -> Mode]
      /\ link' \in [Tmds -> BOOLEAN] /\ skipModeFixup' \in [Heads -> BOOLEAN]
      /\ failed' = failed \ {h}
      /\ redone' = (redone \ {h}) \cup (failed \cap {h})
      /\ \A g \in Heads : skipModeFixup'[g] => g \in failed'
      /\ UNCHANGED <<dither, cursorVisible, failures>>
      /\ \A x \in Outputs : armed'.or[x] =
            IF x = o THEN h ELSE IF c[x] = None THEN None ELSE armed.or[x]
      /\ armed'.head[h].lit /\ armed'.head[h].view = m
      /\ armed'.head[h].pitch = pitch
      /\ armed'.head[h].timing.backend =
            IF UsesNative(o, sc) THEN NativeMode ELSE m
      /\ armed'.head[h].timing.fixed \/ (h \in redone' /\ ~UsesNative(o, sc))
      /\ armed'.head[h].out =
            Out(OutputScale(o, sc), m, armed'.head[h].timing.backend)
      /\ \A g \in Heads \ {h} :
            armed'.head[g] = IF UsedBy(c, g) = {} THEN DarkHead ELSE armed.head[g]
      /\ OneEach(armed'.or)
      /\ HeadsInv'
      /\ ClockInv'
  <2>1. TypeInv /\ OneEach(armed.or) /\ HeadsInv /\ ClockInv
    BY DEF IInv, OrInv
  <2>2. \A x \in Outputs \ {o} : c[x] # None => armed.or[x] \in {None, c[x]}
    BY DEF IInv, OrInv
  <2>3. c \in [Outputs -> Heads \cup {None}] /\ OneEach(c) /\ c[o] = h
        /\ SetMode(c, sc, h, m)
    OBVIOUS
  <2> HIDE DEF c
  <2> QED BY <2>1, <2>2, <2>3, SetModeStep
<1> HIDE DEF c
<1>2. \A x \in Outputs : c[x] # None => armed'.or[x] \in {None, c[x]}
  BY <1>1 DEF c, IInv, OrInv
<1>3. ASSUME NEW x \in Outputs, c[x] # None
      PROVE  Shown(x)'
  <2>1. CASE x = o
    <3>1. c[o] = h
      BY DEF c
    <3>2. UsesNative(o, ScaleNow)' = UsesNative(o, sc)
      BY DEF UsesNative
    <3>3. OutputScale(o, ScaleNow)' = OutputScale(o, sc)
      BY DEF OutputScale
    <3> QED BY <1>1, <2>1, <3>1, <3>2, <3>3 DEF Shown, c
  <2>2. CASE x # o
    <3>1. /\ crtcOf[x] = c[x] /\ c[x] \in Heads /\ c[x] # h
          /\ mode'[c[x]] = mode[c[x]] /\ ScaleNow'[x] = ScaleNow[x]
      BY <1>3, <2>2 DEF c, OneEach
    <3>2. Shown(x)
      BY <1>3, <3>1 DEF IInv, ConfigInv
    <3>3. UsedBy(c, c[x]) # {}
      BY DEF UsedBy
    <3>4. armed'.head[c[x]] = armed.head[c[x]] /\ armed'.or[x] = armed.or[x]
      BY <1>1, <1>3, <2>2, <3>1, <3>3
    <3>5. vtSema' /\ c[x] \notin failed' \cup todo' =>
               pitch' = pitch /\ vtSema /\ c[x] \notin failed \cup todo
      BY <1>1, <3>1
    <3>7. c[x] \in redone => c[x] \in redone'
      BY <1>1, <3>1
    <3>6. crtcOf'[x] = c[x]
      BY DEF c
    <3> QED BY <3>1, <3>2, <3>4, <3>5, <3>6, <3>7, ShownKept
  <2> QED BY <2>1, <2>2
<1>4. \A g \in Heads \ {h} : armed'.head[g].lit => armed.head[g].lit
  BY <1>1, DarkFacts
<1>5. redone' \in SUBSET Heads
  BY <1>1 DEF IInv, TypeInv, TypeOK
<1> QED BY <1>1, <1>2, <1>3, <1>4, <1>5 DEF c

-----------------------------------------------------------------------------
(* A mode set that fails leaves the display alone. *)
LEMMA FailsStep ==
    ASSUME TypeInv, NEW c, NEW sc, NEW h \in Heads, NEW rest \in SUBSET Heads,
           SetModeFails(c, sc, h, rest)
    PROVE  /\ UNCHANGED <<pclk, dither, cursorVisible, hwVars, power, redone>>
           /\ failed' \in SUBSET Heads /\ failed \subseteq failed'
           /\ h \in failed' /\ rest \subseteq failed'
           /\ failures' \in 0..MaxFailures
           /\ skipModeFixup' \in [Heads -> BOOLEAN]
           /\ \A g \in Heads : skipModeFixup'[g] => g \in failed'
<1>1. /\ UNCHANGED <<pclk, dither, cursorVisible, hwVars, power, redone>>
      /\ failed' = failed \cup {h} \cup rest
      /\ failures < MaxFailures /\ failures' = failures + 1
      /\ skipModeFixup' = skipModeFixup \/
            skipModeFixup' = [skipModeFixup EXCEPT ![h] = TRUE]
  BY DEF SetModeFails
<1>2. /\ skipModeFixup' \in [Heads -> BOOLEAN]
      /\ \A g \in Heads : skipModeFixup'[g] => g \in failed'
  BY <1>1 DEF TypeInv, TypeOK
<1>3. failures' \in 0..MaxFailures
  BY <1>1, DisplayAssumption DEF TypeInv, TypeOK
<1> QED BY <1>1, <1>2, <1>3 DEF TypeInv, TypeOK

(* A step that leaves the display alone leaves the clocks and heads right. *)
LEMMA DisplayKept ==
    ASSUME IInv, UNCHANGED <<dither, cursorVisible, pclk, hwVars>>
    PROVE  /\ HeadsInv' /\ ClockInv' /\ OneEach(armed.or)'
           /\ asm' = armed' /\ armed' \in Display
<1>1. UNCHANGED <<dither, cursorVisible, pclk, asm, armed, pll, link>>
  BY DEF hwVars
<1> QED BY <1>1 DEF IInv, HeadsInv, ClockInv, OrInv, OneEach, TypeInv

(* Between requests. *)
LEMMA IdleFacts ==
    ASSUME IInv, Idle
    PROVE  vtSema /\ todo = {} /\ retry = None /\ ~toDesired /\ ScaleNow = scale
BY DEF IInv, Idle, Busy, ServerInv, ScaleNow

(* Assigning an output to a head takes the head from every other output    *)
(* and keeps one output per head.                                          *)
LEMMA AssignedFacts ==
    ASSUME NEW h \in Heads, NEW o \in Outputs, OneEach(crtcOf),
           crtcOf \in [Outputs -> Heads \cup {None}]
    PROVE  LET c == Assigned(h, o)
           IN  /\ c \in [Outputs -> Heads \cup {None}] /\ OneEach(c)
               /\ c[o] = h
               /\ \A x \in Outputs \ {o} : c[x] # None => c[x] = crtcOf[x] /\ c[x] # h
BY DisplayAssumption DEF Assigned, OneEach

(* A mode set asked for through RandR, with its update at the end.         *)
LEMMA CrtcSetStep ==
    ASSUME IInv, NEW h \in Heads, NEW o \in Outputs, NEW m \in Modes, CrtcSet(h, o, m)
    PROVE  IInv'
<1> DEFINE c == Assigned(h, o)
<1>1. /\ vtSema /\ todo = {} /\ retry = None /\ ~toDesired /\ ScaleNow = scale
      /\ UNCHANGED <<vtSema, pitch, todo, toDesired, retry, scale, crashed, changes>>
  BY IdleFacts DEF CrtcSet, callVars
<1>2. TypeInv /\ TypeOK /\ OneEach(crtcOf)
  BY DEF IInv, TypeInv, ServerInv
<1>3. CASE SetModeFails(c, scale, h, {}) /\ UNCHANGED serverVars
  <2>1. /\ UNCHANGED <<pclk, dither, cursorVisible, hwVars, power, redone>>
        /\ failed' \in SUBSET Heads /\ failed \subseteq failed'
        /\ failures' \in 0..MaxFailures
        /\ skipModeFixup' \in [Heads -> BOOLEAN]
        /\ \A g \in Heads : skipModeFixup'[g] => g \in failed'
    <3>1. SetModeFails(c, scale, h, {}) /\ {} \in SUBSET Heads
      BY <1>3
    <3> HIDE DEF c
    <3> QED BY <1>2, <3>1, FailsStep
  <2>2. UNCHANGED <<crtcOf, enabled, mode, desiredMode, asm, armed, pll, link, pclk,
                    dither, cursorVisible, power>>
    BY <1>3, <2>1 DEF serverVars, hwVars
  <2>3. TypeInv'
    <3>1. TypeOK'
      BY <1>1, <1>2, <2>1, <2>2 DEF TypeOK
    <3> QED BY <1>1, <2>1, <2>2, <3>1 DEF IInv, TypeInv
  <2>4. ServerInv'
    BY <1>1, <2>2 DEF IInv, ServerInv, OneEach
  <2>5. OrInv'
    BY <2>2 DEF IInv, OrInv, OneEach
  <2>6. ConfigInv'
    <3>1. ASSUME NEW x \in Outputs, crtcOf'[x] # None
          PROVE  Shown(x)'
      <4>1. crtcOf[x] \in Heads /\ Shown(x)
        BY <1>2, <2>2, <3>1 DEF IInv, ConfigInv, TypeOK
      <4> QED BY <1>1, <2>1, <2>2, <4>1, ShownKept DEF ScaleNow
    <3> QED BY <1>1, <3>1 DEF ConfigInv
  <2> QED BY <2>1, <2>3, <2>4, <2>5, <2>6, DisplayKept DEF IInv
<1>4. CASE /\ SetMode(c, scale, h, m)
           /\ crtcOf' = c
           /\ enabled' = [enabled EXCEPT ![h] = TRUE]
           /\ mode' = ModesInUse(enabled', [mode EXCEPT ![h] = m])
           /\ desiredMode' = [desiredMode EXCEPT ![h] = m]
           /\ power' = DisableUnused(c, Powered(c, h))
  <2>1. /\ c \in [Outputs -> Heads \cup {None}] /\ OneEach(c)
        /\ c[o] = h
        /\ \A x \in Outputs \ {o} : c[x] # None => c[x] = crtcOf[x] /\ c[x] # h
    BY <1>2, AssignedFacts DEF TypeOK
  <2> HIDE DEF c
  <2>2. /\ crtcOf' = c /\ SetMode(crtcOf', scale, h, m) /\ crtcOf'[o] = h
        /\ crtcOf' \in [Outputs -> Heads \cup {None}] /\ OneEach(crtcOf')
    BY <1>4, <2>1
  <2>3. \A x \in Outputs \ {o} : crtcOf'[x] # None =>
               /\ crtcOf'[x] = crtcOf[x]
               /\ mode'[crtcOf[x]] = mode[crtcOf[x]]
               /\ ScaleNow'[x] = ScaleNow[x]
    <3> SUFFICES ASSUME NEW x \in Outputs \ {o}, crtcOf'[x] # None
                 PROVE  /\ crtcOf'[x] = crtcOf[x]
                        /\ mode'[crtcOf[x]] = mode[crtcOf[x]]
                        /\ ScaleNow'[x] = ScaleNow[x]
      OBVIOUS
    <3>1. crtcOf'[x] = crtcOf[x] /\ crtcOf[x] \in Heads \ {h} /\ enabled[crtcOf[x]]
      BY <2>1, <2>2 DEF IInv, ServerInv
    <3>2. enabled'[crtcOf[x]]
      BY <1>2, <1>4, <3>1 DEF TypeOK
    <3>3. mode'[crtcOf[x]] = mode[crtcOf[x]]
      BY <1>2, <1>4, <3>1, <3>2 DEF ModesInUse, TypeOK
    <3> QED BY <1>1, <3>1, <3>3 DEF ScaleNow
  <2>4. /\ enabled' \in [Heads -> BOOLEAN] /\ enabled'[h]
        /\ \A g \in Heads : enabled[g] => enabled'[g]
    BY <1>2, <1>4 DEF TypeOK
  <2>5. mode'[h] = m /\ ScaleNow'[o] = scale[o]
    BY <1>1, <1>2, <1>4, <2>4 DEF ModesInUse, ScaleNow, TypeOK
  <2>6. m \in Mode /\ scale \in [Outputs -> Scales]
    BY <1>2 DEF Mode, TypeOK
  <2>7. /\ asm' = armed' /\ armed' \in Display
        /\ pclk' \in [Heads -> Mode] /\ pll' \in [Heads -> Mode]
        /\ link' \in [Tmds -> BOOLEAN] /\ skipModeFixup' \in [Heads -> BOOLEAN]
        /\ failed' = failed \ {h} /\ redone' \in SUBSET Heads
        /\ \A g \in Heads : skipModeFixup'[g] => g \in failed'
        /\ UNCHANGED <<dither, cursorVisible, failures>>
        /\ OneEach(armed'.or)
        /\ \A x \in Outputs : crtcOf'[x] # None => armed'.or[x] \in {None, crtcOf'[x]}
        /\ HeadsInv' /\ ClockInv'
        /\ \A x \in Outputs : crtcOf'[x] # None => Shown(x)'
    BY <1>1, <2>2, <2>3, <2>5, <2>6, SetModeShown
  <2>8. TypeInv'
    <3>1. mode' \in [Heads -> Mode] /\ desiredMode' \in [Heads -> Mode]
      BY <1>2, <1>4, <2>4 DEF TypeOK, ModesInUse, Mode
    <3>2. power' \in [Outputs -> BOOLEAN]
      BY <1>2, <1>4 DEF TypeOK, DisableUnused, Powered
    <3>3. failed' \in SUBSET Heads /\ todo' \in SUBSET {g \in Heads : enabled'[g]}
      BY <1>1, <1>2, <2>7 DEF TypeOK
    <3>4. TypeOK'
      BY <1>1, <1>2, <2>2, <2>4, <2>7, <3>1, <3>2, <3>3 DEF TypeOK, Mode
    <3> QED BY <1>1, <2>7, <3>4 DEF TypeInv
  <2>9. ServerInv'
    <3>1. \A x \in Outputs : crtcOf'[x] # None => enabled'[crtcOf'[x]]
      BY <2>1, <2>2, <2>4 DEF IInv, ServerInv
    <3> QED BY <1>1, <2>2, <3>1 DEF ServerInv, OneEach
  <2>10. OrInv'
    <3>1. \A x \in Outputs : power'[x] => crtcOf'[x] # None
      BY <1>4 DEF DisableUnused
    <3> QED BY <2>7, <3>1 DEF OrInv, OneEach
  <2>11. ConfigInv'
    BY <1>1, <2>7 DEF ConfigInv
  <2> QED BY <2>7, <2>8, <2>9, <2>10, <2>11 DEF IInv
<1> QED BY <1>3, <1>4 DEF CrtcSet

(* RandR turns a head off: its outputs are taken away and put in DPMS off. *)
LEMMA CrtcOffStep ==
    ASSUME IInv, NEW h \in Heads, CrtcOff(h)
    PROVE  IInv'
<1>1. /\ vtSema /\ todo = {} /\ retry = None /\ ~toDesired /\ ScaleNow = scale
      /\ UNCHANGED <<vtSema, pitch, todo, toDesired, retry, scale, pclk, dither,
                     skipModeFixup, cursorVisible, asm, armed, pll, link, crashed,
                     failed, redone, failures, changes>>
      /\ crtcOf' = [o \in Outputs |-> IF crtcOf[o] = h THEN None ELSE crtcOf[o]]
      /\ enabled' = [enabled EXCEPT ![h] = FALSE]
      /\ mode' = ModesInUse(enabled', mode)
      /\ desiredMode' = [desiredMode EXCEPT ![h] = None]
      /\ power' = DisableUnused(crtcOf', power)
  BY IdleFacts DEF CrtcOff, callVars, driverVars, hwVars
<1>2. TypeOK /\ OneEach(crtcOf)
  BY DEF IInv, TypeInv, ServerInv
<1>3. /\ crtcOf' \in [Outputs -> Heads \cup {None}] /\ OneEach(crtcOf')
      /\ \A x \in Outputs : crtcOf'[x] # None => crtcOf'[x] = crtcOf[x] /\ crtcOf[x] # h
  BY <1>1, <1>2, DisplayAssumption DEF OneEach, TypeOK
<1>4. /\ enabled' \in [Heads -> BOOLEAN]
      /\ \A g \in Heads \ {h} : enabled'[g] = enabled[g]
      /\ desiredMode' \in [Heads -> Mode] /\ mode' \in [Heads -> Mode]
      /\ power' \in [Outputs -> BOOLEAN]
      /\ \A x \in Outputs : power'[x] => crtcOf'[x] # None /\ power[x]
  BY <1>1, <1>2 DEF TypeOK, Mode, ModesInUse, DisableUnused
<1>5. TypeInv'
  <2>1. todo' \in SUBSET {g \in Heads : enabled'[g]}
    BY <1>1
  <2>2. TypeOK'
    BY <1>1, <1>2, <1>3, <1>4, <2>1 DEF TypeOK, Mode
  <2> QED BY <1>1, <2>2 DEF IInv, TypeInv
<1>6. ServerInv'
  BY <1>1, <1>3, <1>4 DEF IInv, ServerInv, OneEach, TypeInv, TypeOK
<1>7. OrInv'
  BY <1>1, <1>3, <1>4 DEF IInv, OrInv, OneEach
<1>8. ConfigInv'
  <2>1. ASSUME NEW x \in Outputs, crtcOf'[x] # None
        PROVE  Shown(x)'
    <3>1. crtcOf[x] \in Heads \ {h} /\ crtcOf'[x] = crtcOf[x] /\ Shown(x)
      BY <1>2, <1>3, <2>1 DEF IInv, ConfigInv, TypeOK
    <3>2. enabled'[crtcOf[x]]
      BY <1>4, <3>1, <2>1, <1>3 DEF IInv, ServerInv
    <3>3. mode'[crtcOf[x]] = mode[crtcOf[x]]
      BY <1>1, <3>1, <3>2 DEF ModesInUse
    <3> QED BY <1>1, <3>1, <3>3, ShownKept DEF ScaleNow
  <2> QED BY <1>1, <2>1 DEF ConfigInv
<1> QED BY <1>1, <1>5, <1>6, <1>7, <1>8, DisplayKept DEF IInv, hwVars

-----------------------------------------------------------------------------
(* The loops of xf86SetDesiredModes and G80ResizeScreen. *)
LEMMA SetNextStep ==
    ASSUME IInv, NEW h \in Heads, SetNext(h)
    PROVE  IInv'
<1> DEFINE m == IF toDesired THEN desiredMode[h] ELSE mode[h]
<1>1. TypeOK /\ OneEach(crtcOf) /\ vtSema /\ retry = None /\ ScaleNow = scale /\ h \in todo
  BY DEF IInv, TypeInv, ServerInv, ScaleNow, SetNext, NextHead, TypeOK
<1>2. /\ SetMode(crtcOf, scale, h, m)
      /\ mode' = [mode EXCEPT ![h] = m]
      /\ power' = Powered(crtcOf, h)
      /\ todo' = todo \ {h}
      /\ toDesired' = (toDesired /\ todo' # {})
      /\ UNCHANGED <<crtcOf, enabled, desiredMode, vtSema, pitch, retry, scale, crashed,
                     changes>>
      /\ UsedBy(crtcOf, h) # {}
  BY DEF SetNext
<1>3. m \in Mode
  BY <1>1 DEF TypeOK, Mode
<1> HIDE DEF m
<1>4. PICK o \in Outputs : crtcOf[o] = h
  BY <1>2 DEF UsedBy
<1>5. UserOf(crtcOf, h) = o
  BY <1>1, <1>4, TheUser
<1>6. /\ crtcOf' = crtcOf /\ SetMode(crtcOf', scale, h, m) /\ crtcOf'[o] = h
      /\ crtcOf' \in [Outputs -> Heads \cup {None}] /\ OneEach(crtcOf')
  BY <1>1, <1>2, <1>4 DEF TypeOK
<1>7. \A x \in Outputs \ {o} : crtcOf'[x] # None =>
             /\ crtcOf'[x] = crtcOf[x]
             /\ mode'[crtcOf[x]] = mode[crtcOf[x]]
             /\ ScaleNow'[x] = ScaleNow[x]
  BY <1>1, <1>2, <1>4 DEF OneEach, ScaleNow, TypeOK
<1>8. mode'[h] = m /\ ScaleNow'[o] = scale[o] /\ scale \in [Outputs -> Scales]
  BY <1>1, <1>2 DEF ScaleNow, TypeOK
<1>9. /\ asm' = armed' /\ armed' \in Display
      /\ pclk' \in [Heads -> Mode] /\ pll' \in [Heads -> Mode]
      /\ link' \in [Tmds -> BOOLEAN] /\ skipModeFixup' \in [Heads -> BOOLEAN]
      /\ failed' = failed \ {h} /\ redone' \in SUBSET Heads
      /\ \A g \in Heads : skipModeFixup'[g] => g \in failed'
      /\ UNCHANGED <<dither, cursorVisible, failures>>
      /\ OneEach(armed'.or)
      /\ \A x \in Outputs : crtcOf'[x] # None => armed'.or[x] \in {None, crtcOf'[x]}
      /\ HeadsInv' /\ ClockInv'
      /\ \A x \in Outputs : crtcOf'[x] # None => Shown(x)'
      /\ \A g \in Heads \ {h} : armed'.head[g].lit => armed.head[g].lit
  BY <1>2, <1>3, <1>6, <1>7, <1>8, SetModeShown
<1>10. /\ mode' \in [Heads -> Mode] /\ power' \in [Outputs -> BOOLEAN]
       /\ \A x \in Outputs : power'[x] => power[x] \/ x = o
  BY <1>1, <1>2, <1>3, <1>5 DEF TypeOK, Powered, Mode
<1>11. TypeInv'
  <2>1. todo' \in SUBSET {g \in Heads : enabled'[g]} /\ failed' \in SUBSET Heads
        /\ toDesired' \in BOOLEAN
    BY <1>1, <1>2, <1>9 DEF TypeOK
  <2>2. TypeOK'
    BY <1>1, <1>2, <1>9, <1>10, <2>1 DEF TypeOK, Mode
  <2> QED BY <1>1, <1>2, <1>9, <2>2 DEF TypeInv
<1>12. ServerInv'
  BY <1>1, <1>2 DEF IInv, ServerInv, OneEach
<1>13. OrInv'
  <2>1. \A x \in Outputs : power'[x] => crtcOf'[x] # None
    BY <1>4, <1>6, <1>10, DisplayAssumption DEF IInv, OrInv
  <2> QED BY <1>9, <2>1 DEF OrInv, OneEach
<1>14. ConfigInv'
  <2>1. toDesired' => \A g \in todo' : ~armed'.head[g].lit /\ UsedBy(crtcOf', g) # {}
    BY <1>1, <1>2, <1>9 DEF IInv, ConfigInv, TypeOK
  <2> QED BY <1>9, <2>1 DEF ConfigInv
<1> QED BY <1>9, <1>11, <1>12, <1>13, <1>14 DEF IInv

(* A head whose mode cannot be set is left as it was.                      *)
LEMMA SetNextFailsStep ==
    ASSUME IInv, NEW h \in Heads, SetNextFails(h)
    PROVE  IInv'
<1>1. /\ TypeInv /\ TypeOK /\ OneEach(crtcOf) /\ vtSema /\ retry = None
      /\ ScaleNow = scale /\ h \in todo
  BY DEF IInv, TypeInv, ServerInv, ScaleNow, SetNextFails, NextHead, TypeOK
<1>2. /\ todo' = IF toDesired THEN {} ELSE todo \ {h}
      /\ toDesired' = FALSE
      /\ SetModeFails(crtcOf, scale, h, IF toDesired THEN todo ELSE {})
      /\ mode' = IF toDesired THEN [mode EXCEPT ![h] = None] ELSE mode
      /\ UNCHANGED <<crtcOf, enabled, desiredMode, vtSema, pitch, retry, scale, crashed,
                     changes>>
  BY DEF SetNextFails
<1>3. /\ UNCHANGED <<pclk, dither, cursorVisible, hwVars, power, redone>>
      /\ failed' \in SUBSET Heads /\ failed \subseteq failed'
      /\ h \in failed' /\ (toDesired => todo \subseteq failed')
      /\ failures' \in 0..MaxFailures
      /\ skipModeFixup' \in [Heads -> BOOLEAN]
      /\ \A g \in Heads : skipModeFixup'[g] => g \in failed'
  <2>1. (IF toDesired THEN todo ELSE {}) \in SUBSET Heads
    BY <1>1 DEF TypeOK
  <2> QED BY <1>1, <1>2, <2>1, FailsStep
<1>4. UNCHANGED <<pclk, dither, cursorVisible, asm, armed, pll, link, power>>
  BY <1>3 DEF hwVars
<1>5. TypeInv'
  <2>1. todo' \in SUBSET {g \in Heads : enabled'[g]} /\ toDesired' \in BOOLEAN
    BY <1>1, <1>2 DEF TypeOK
  <2>2. mode' \in [Heads -> Mode]
    BY <1>1, <1>2 DEF TypeOK, Mode
  <2>3. TypeOK'
    BY <1>1, <1>2, <1>3, <1>4, <2>1, <2>2 DEF TypeOK, Mode
  <2> QED BY <1>1, <1>2, <1>3, <1>4, <2>3 DEF IInv, TypeInv
<1>6. ServerInv'
  BY <1>1, <1>2 DEF IInv, ServerInv, OneEach
<1>7. OrInv'
  BY <1>2, <1>4 DEF IInv, OrInv, OneEach
<1>8. ConfigInv'
  <2>1. ASSUME NEW x \in Outputs, crtcOf'[x] # None
        PROVE  Shown(x)'
    <3>1. crtcOf[x] \in Heads /\ crtcOf'[x] = crtcOf[x] /\ Shown(x)
      BY <1>1, <1>2, <2>1 DEF IInv, ConfigInv, TypeOK
    <3>2. mode'[crtcOf[x]] = mode[crtcOf[x]] \/ ~armed.head[crtcOf[x]].lit
      BY <1>1, <1>2, <3>1 DEF IInv, ConfigInv, TypeOK
    <3>3. crtcOf[x] \notin failed' \cup todo' =>
             pitch' = pitch /\ vtSema /\ crtcOf[x] \notin failed \cup todo
      BY <1>1, <1>2, <1>3
    <3> QED BY <1>1, <1>2, <1>3, <1>4, <3>1, <3>2, <3>3, ShownKept DEF ScaleNow
  <2> QED BY <1>2, <2>1 DEF ConfigInv
<1> QED BY <1>3, <1>5, <1>6, <1>7, <1>8, DisplayKept DEF IInv

(* A head without an output is passed over.                                *)
LEMMA SetNextUnusedStep ==
    ASSUME IInv, NEW h \in Heads, SetNextUnused(h)
    PROVE  IInv'
<1>1. /\ TypeOK /\ OneEach(crtcOf) /\ vtSema /\ retry = None /\ ScaleNow = scale
      /\ h \in todo /\ ~toDesired
  BY DEF IInv, TypeInv, ServerInv, ConfigInv, ScaleNow, SetNextUnused, NextHead, TypeOK
<1>2. /\ UNCHANGED <<crtcOf, desiredMode, vtSema, pitch, toDesired, retry, scale, pclk,
                     dither, skipModeFixup, cursorVisible, asm, armed, pll, link, power,
                     crashed, failed, redone, failures, changes>>
      /\ UsedBy(crtcOf, h) = {}
      /\ enabled' = [enabled EXCEPT ![h] = FALSE]
      /\ mode' = ModesInUse(enabled', mode)
      /\ todo' = todo \ {h}
  BY DEF SetNextUnused, driverVars, hwVars
<1>3. /\ enabled' \in [Heads -> BOOLEAN] /\ mode' \in [Heads -> Mode]
      /\ \A g \in Heads \ {h} : enabled'[g] = enabled[g]
  BY <1>1, <1>2 DEF TypeOK, ModesInUse, Mode
<1>4. \A x \in Outputs : crtcOf[x] # h
  BY <1>2 DEF UsedBy
<1>5. TypeInv'
  <2>1. todo' \in SUBSET {g \in Heads : enabled'[g]}
    BY <1>1, <1>2, <1>3 DEF TypeOK
  <2>2. TypeOK'
    BY <1>1, <1>2, <1>3, <2>1 DEF TypeOK, Mode
  <2> QED BY <1>1, <1>2, <2>2 DEF IInv, TypeInv
<1>6. ServerInv'
  BY <1>1, <1>2, <1>3, <1>4 DEF IInv, ServerInv, OneEach, TypeOK
<1>7. OrInv'
  BY <1>2 DEF IInv, OrInv, OneEach
<1>8. ConfigInv'
  <2>1. ASSUME NEW x \in Outputs, crtcOf'[x] # None
        PROVE  Shown(x)'
    <3>1. /\ crtcOf[x] \in Heads \ {h} /\ crtcOf'[x] = crtcOf[x] /\ Shown(x)
          /\ enabled[crtcOf[x]]
      BY <1>1, <1>2, <1>4, <2>1 DEF IInv, ConfigInv, ServerInv, TypeOK
    <3>2. mode'[crtcOf[x]] = mode[crtcOf[x]]
      BY <1>2, <1>3, <3>1 DEF ModesInUse
    <3> QED BY <1>1, <1>2, <3>1, <3>2, ShownKept DEF ScaleNow
  <2> QED BY <1>1, <1>2, <2>1 DEF ConfigInv
<1> QED BY <1>2, <1>5, <1>6, <1>7, <1>8, DisplayKept DEF IInv, hwVars

-----------------------------------------------------------------------------
(* Changes of one field of a head: no head asks for a clock. *)
LEMMA DitherSet ==
    ASSUME NEW s \in Display, NEW h \in Heads, NEW on \in BOOLEAN
    PROVE  LET t == [s EXCEPT !.head[h].dither = on]
           IN  /\ t \in Display /\ t.or = s.or
               /\ t.head[h] = [s.head[h] EXCEPT !.dither = on]
               /\ \A g \in Heads \ {h} : t.head[g] = s.head[g]
<1> DEFINE t == [s EXCEPT !.head[h].dither = on]
<1>1. t = [head |-> [s.head EXCEPT ![h] = [s.head[h] EXCEPT !.dither = on]], or |-> s.or]
  BY DEF Display
<1>2. [s.head[h] EXCEPT !.dither = on] \in HeadState
  BY DEF Display, HeadState
<1> HIDE DEF t
<1> DEFINE r == [s.head[h] EXCEPT !.dither = on]
<1> HIDE DEF r
<1>3. /\ t \in Display /\ t.or = s.or /\ t.head[h] = r
      /\ \A g \in Heads \ {h} : t.head[g] = s.head[g]
  <2>1. t = [head |-> [s.head EXCEPT ![h] = r], or |-> s.or] /\ r \in HeadState
    BY <1>1, <1>2 DEF r
  <2> QED BY <2>1 DEF Display
<1> QED BY <1>3 DEF t, r

(* A display state with one cursor shown or hidden.                        *)
LEMMA CursorSet ==
    ASSUME NEW s \in Display, NEW h \in Heads, NEW on \in BOOLEAN
    PROVE  LET t == [s EXCEPT !.head[h].cursor = on]
           IN  /\ t \in Display /\ t.or = s.or
               /\ t.head[h] = [s.head[h] EXCEPT !.cursor = on]
               /\ \A g \in Heads \ {h} : t.head[g] = s.head[g]
<1> DEFINE t == [s EXCEPT !.head[h].cursor = on]
<1>1. t = [head |-> [s.head EXCEPT ![h] = [s.head[h] EXCEPT !.cursor = on]], or |-> s.or]
  BY DEF Display
<1>2. [s.head[h] EXCEPT !.cursor = on] \in HeadState
  BY DEF Display, HeadState
<1> HIDE DEF t
<1> DEFINE r == [s.head[h] EXCEPT !.cursor = on]
<1> HIDE DEF r
<1>3. /\ t \in Display /\ t.or = s.or /\ t.head[h] = r
      /\ \A g \in Heads \ {h} : t.head[g] = s.head[g]
  <2>1. t = [head |-> [s.head EXCEPT ![h] = r], or |-> s.or] /\ r \in HeadState
    BY <1>1, <1>2 DEF r
  <2> QED BY <2>1 DEF Display
<1> QED BY <1>3 DEF t, r

(* An update that changes a field of one head, and not its timing,         *)
(* reprograms no clock.                                                    *)
LEMMA FieldUpdate ==
    ASSUME IInv, NEW h \in Heads, NEW s \in Display, s.or = armed.or,
           \A g \in Heads \ {h} : s.head[g] = armed.head[g],
           s.head[h].timing = armed.head[h].timing,
           Update(s, crtcOf, pclk)
    PROVE  asm' = s /\ armed' = s /\ pll' = pll /\ link' = link
<1>1. Changed(s) = {}
  BY DEF Changed
<1>2. {g \in Changed(s) : s.head[g].lit} = {}
  BY <1>1
<1>3. /\ asm' = s /\ armed' = s
      /\ pll' = [g \in Heads |-> pll[g]] /\ link' = [x \in Tmds |-> link[x]]
  BY <1>2 DEF Update, SetPClk
<1> QED BY <1>3 DEF IInv, TypeInv, TypeOK

(* What follows when a field that no property of a picture speaks of changes. *)
LEMMA FieldStep ==
    ASSUME IInv, Change, NEW h \in Heads, armed' \in Display, asm' = armed',
           armed'.or = armed.or,
           \A g \in Heads \ {h} : armed'.head[g] = armed.head[g],
           armed'.head[h].timing = armed.head[h].timing,
           armed'.head[h].view = armed.head[h].view,
           armed'.head[h].out = armed.head[h].out,
           armed'.head[h].pitch = armed.head[h].pitch,
           armed'.head[h].lit = armed.head[h].lit,
           dither' \in [Heads -> BOOLEAN], cursorVisible' \in [Heads -> BOOLEAN],
           UNCHANGED <<serverVars, vtSema, pitch, callVars, scale, pclk,
                       skipModeFixup, pll, link, power, crashed, failed, redone,
                       failures>>,
           HeadsInv'
    PROVE  IInv'
<1>1. /\ UNCHANGED <<crtcOf, enabled, mode, desiredMode, vtSema, pitch, todo, toDesired,
                     retry, scale, pclk, skipModeFixup, pll, link, power, crashed,
                     failed, redone, failures>>
      /\ vtSema /\ todo = {} /\ retry = None /\ ~toDesired
      /\ changes' \in 0..MaxChanges
      /\ TypeOK
  <2>1. Idle /\ changes' = changes + 1 /\ changes < MaxChanges
    BY DEF Change
  <2> QED BY <2>1, IdleFacts, DisplayAssumption DEF serverVars, callVars, IInv, TypeInv, TypeOK
<1>2. TypeInv'
  <2>1. todo' \in SUBSET {g \in Heads : enabled'[g]}
    BY <1>1
  <2>2. TypeOK'
    BY <1>1, <2>1 DEF TypeOK
  <2> QED BY <1>1, <2>2 DEF IInv, TypeInv
<1>3. ServerInv'
  BY <1>1 DEF IInv, ServerInv, OneEach
<1>4. OrInv'
  BY <1>1 DEF IInv, OrInv, OneEach
<1>5. ClockInv'
  BY <1>1 DEF IInv, ClockInv
<1>6. ConfigInv'
  <2>1. ASSUME NEW x \in Outputs, crtcOf'[x] # None
        PROVE  Shown(x)'
    <3>1. crtcOf[x] \in Heads /\ crtcOf'[x] = crtcOf[x] /\ Shown(x)
      BY <1>1, <2>1 DEF IInv, ConfigInv, TypeOK
    <3> QED BY <1>1, <3>1, ShownKept DEF ScaleNow
  <2> QED BY <1>1, <2>1 DEF ConfigInv
<1> QED BY <1>2, <1>3, <1>4, <1>5, <1>6 DEF IInv

(* The server dies on a null pointer, before it touched the display.       *)
LEMMA CrashStep ==
    ASSUME IInv, Change, crashed' = TRUE,
           UNCHANGED <<serverVars, vtSema, pitch, callVars, scale, pclk,
                       skipModeFixup, cursorVisible, power, failed, redone, failures>>,
           UNCHANGED <<dither, hwVars>>
    PROVE  IInv'
<1>1. /\ UNCHANGED <<crtcOf, enabled, mode, desiredMode, vtSema, pitch, todo, toDesired,
                     retry, scale, pclk, dither, skipModeFixup, cursorVisible, asm, armed,
                     pll, link, power, failed, redone, failures>>
      /\ changes' \in 0..MaxChanges /\ crashed' \in BOOLEAN
  <2>1. changes' = changes + 1 /\ changes < MaxChanges
    BY DEF Change
  <2> QED BY <2>1, DisplayAssumption
          DEF serverVars, callVars, hwVars, IInv, TypeInv, TypeOK
<1>2. TypeInv'
  <2>1. TypeOK'
    BY <1>1 DEF IInv, TypeInv, TypeOK
  <2> QED BY <1>1, <2>1 DEF IInv, TypeInv
<1>3. ServerInv'
  BY <1>1 DEF IInv, ServerInv, OneEach
<1>4. OrInv'
  BY <1>1 DEF IInv, OrInv, OneEach
<1>5. ConfigInv'
  BY <1>1 DEF IInv, ConfigInv, Shown, ScaleNow, UsesNative, OutputScale, UsedBy
<1> QED BY <1>1, <1>2, <1>3, <1>4, <1>5, DisplayKept DEF IInv, hwVars

(* The dithering property.                                                 *)
LEMMA SetDitherStep ==
    ASSUME IInv, NEW o \in Outputs, NEW value \in BOOLEAN, SetDither(o, value)
    PROVE  IInv'
<1>a. CASE crtcOf[o] = None
  BY <1>a, CrashStep DEF SetDither
<1> SUFFICES ASSUME crtcOf[o] # None PROVE IInv'
  BY <1>a
<1> DEFINE h == crtcOf[o]
           s == [armed EXCEPT !.head[h].dither = value]
<1>1. /\ Change /\ h \in Heads /\ asm = armed /\ armed \in Display
      /\ dither' = [dither EXCEPT ![h] = value]
      /\ Update(s, crtcOf, pclk)
      /\ UNCHANGED <<serverVars, vtSema, pitch, callVars, scale, pclk,
                     skipModeFixup, cursorVisible, power, crashed, failed, redone, failures>>
  BY DEF SetDither, IInv, TypeInv, TypeOK
<1> HIDE DEF h
<1>2. /\ s \in Display /\ s.or = armed.or
      /\ s.head[h] = [armed.head[h] EXCEPT !.dither = value]
      /\ \A g \in Heads \ {h} : s.head[g] = armed.head[g]
  BY <1>1, DitherSet
<1> HIDE DEF s
<1>3. armed.head[h] \in HeadState
  BY <1>1 DEF Display
<1>4. /\ s.head[h].timing = armed.head[h].timing
      /\ s.head[h].view = armed.head[h].view
      /\ s.head[h].out = armed.head[h].out
      /\ s.head[h].pitch = armed.head[h].pitch
      /\ s.head[h].dither = value
      /\ s.head[h].cursor = armed.head[h].cursor
      /\ s.head[h].lit = armed.head[h].lit
  BY <1>2, <1>3 DEF HeadState
<1>5. asm' = s /\ armed' = s /\ pll' = pll /\ link' = link
  BY <1>1, <1>2, <1>4, FieldUpdate
<1>6. dither' \in [Heads -> BOOLEAN] /\ cursorVisible' \in [Heads -> BOOLEAN]
      /\ dither'[h] = value
      /\ \A g \in Heads \ {h} : dither'[g] = dither[g]
  BY <1>1 DEF IInv, TypeInv, TypeOK
<1>7. HeadsInv'
  <2> SUFFICES ASSUME NEW g \in Heads
               PROVE  /\ s.head[g].cursor => cursorVisible'[g]
                      /\ s.head[g].lit => /\ s.head[g].timing # None
                                          /\ s.head[g].cursor = cursorVisible'[g]
                                          /\ s.head[g].dither = dither'[g]
                      /\ ~s.head[g].lit => s.head[g].timing = None
    BY <1>5 DEF HeadsInv
  <2>1. HeadsInv
    BY DEF IInv
  <2>2. CASE g = h
    BY <1>1, <1>4, <1>6, <2>1, <2>2 DEF HeadsInv
  <2>3. CASE g # h
    BY <1>1, <1>2, <1>6, <2>1, <2>3 DEF HeadsInv
  <2> QED BY <2>2, <2>3
<1> QED BY <1>1, <1>2, <1>4, <1>5, <1>6, <1>7, FieldStep, ZenonT(40)

(* The cursor of a head.                                                   *)
LEMMA ShowHideCursorStep ==
    ASSUME IInv, NEW h \in Heads, NEW show \in BOOLEAN, ShowHideCursor(h, show)
    PROVE  IInv'
<1> DEFINE s == [armed EXCEPT !.head[h].cursor = show]
<1>1. /\ Change /\ asm = armed /\ armed \in Display
      /\ cursorVisible' = [cursorVisible EXCEPT ![h] = show]
      /\ Update(s, crtcOf, pclk)
      /\ UNCHANGED <<serverVars, vtSema, pitch, callVars, scale, pclk, dither,
                     skipModeFixup, power, crashed, failed, redone, failures>>
  BY DEF ShowHideCursor, IInv, TypeInv, TypeOK
<1>2. /\ s \in Display /\ s.or = armed.or
      /\ s.head[h] = [armed.head[h] EXCEPT !.cursor = show]
      /\ \A g \in Heads \ {h} : s.head[g] = armed.head[g]
  BY <1>1, CursorSet
<1> HIDE DEF s
<1>3. armed.head[h] \in HeadState
  BY <1>1 DEF Display
<1>4. /\ s.head[h].timing = armed.head[h].timing
      /\ s.head[h].view = armed.head[h].view
      /\ s.head[h].out = armed.head[h].out
      /\ s.head[h].pitch = armed.head[h].pitch
      /\ s.head[h].dither = armed.head[h].dither
      /\ s.head[h].cursor = show
      /\ s.head[h].lit = armed.head[h].lit
  BY <1>2, <1>3 DEF HeadState
<1>5. asm' = s /\ armed' = s /\ pll' = pll /\ link' = link
  BY <1>1, <1>2, <1>4, FieldUpdate
<1>6. dither' \in [Heads -> BOOLEAN] /\ cursorVisible' \in [Heads -> BOOLEAN]
      /\ cursorVisible'[h] = show
      /\ \A g \in Heads \ {h} : cursorVisible'[g] = cursorVisible[g]
  BY <1>1 DEF IInv, TypeInv, TypeOK
<1>7. HeadsInv'
  <2> SUFFICES ASSUME NEW g \in Heads
               PROVE  /\ s.head[g].cursor => cursorVisible'[g]
                      /\ s.head[g].lit => /\ s.head[g].timing # None
                                          /\ s.head[g].cursor = cursorVisible'[g]
                                          /\ s.head[g].dither = dither'[g]
                      /\ ~s.head[g].lit => s.head[g].timing = None
    BY <1>5 DEF HeadsInv
  <2>1. HeadsInv
    BY DEF IInv
  <2>2. CASE g = h
    BY <1>1, <1>4, <1>6, <2>1, <2>2 DEF HeadsInv
  <2>3. CASE g # h
    BY <1>1, <1>2, <1>6, <2>1, <2>3 DEF HeadsInv
  <2> QED BY <2>2, <2>3
<1> QED BY <1>1, <1>2, <1>4, <1>5, <1>6, <1>7, FieldStep, ZenonT(40)

-----------------------------------------------------------------------------
(* DPMS, the VT and the size of the screen. *)
LEMMA DPMSSetStep ==
    ASSUME IInv, NEW on \in BOOLEAN, DPMSSet(on)
    PROVE  IInv'
<1>1. /\ UNCHANGED <<crtcOf, enabled, mode, desiredMode, vtSema, pitch, todo, toDesired,
                     retry, scale, pclk, dither, skipModeFixup, cursorVisible, asm, armed,
                     pll, link, crashed, failed, redone, failures>>
      /\ vtSema /\ todo = {} /\ retry = None /\ ~toDesired
      /\ changes' \in 0..MaxChanges
      /\ TypeOK
      /\ power' = [o \in Outputs |-> IF crtcOf[o] # None THEN on ELSE power[o]]
  <2>1. /\ Idle /\ changes' = changes + 1 /\ changes < MaxChanges
        /\ UNCHANGED <<serverVars, vtSema, pitch, callVars, scale, driverVars,
                       hwVars, crashed, failed, redone, failures>>
        /\ power' = [o \in Outputs |-> IF crtcOf[o] # None THEN on ELSE power[o]]
    BY DEF Change, DPMSSet
  <2>2. changes' \in 0..MaxChanges
    BY <2>1, DisplayAssumption DEF IInv, TypeInv, TypeOK
  <2> QED BY <2>1, <2>2, IdleFacts
          DEF serverVars, callVars, driverVars, hwVars, IInv, TypeInv
<1>2. power' \in [Outputs -> BOOLEAN] /\ \A x \in Outputs : power'[x] => crtcOf[x] # None
  BY <1>1 DEF IInv, OrInv, TypeOK
<1>3. TypeInv'
  <2>1. todo' \in SUBSET {g \in Heads : enabled'[g]}
    BY <1>1
  <2>2. TypeOK'
    BY <1>1, <1>2, <2>1 DEF TypeOK
  <2> QED BY <1>1, <2>2 DEF IInv, TypeInv
<1>4. ServerInv'
  BY <1>1 DEF IInv, ServerInv, OneEach
<1>5. OrInv'
  BY <1>1, <1>2 DEF IInv, OrInv, OneEach
<1>6. ConfigInv'
  <2>1. ASSUME NEW x \in Outputs, crtcOf'[x] # None
        PROVE  Shown(x)'
    <3>1. crtcOf[x] \in Heads /\ crtcOf'[x] = crtcOf[x] /\ Shown(x)
      BY <1>1, <2>1 DEF IInv, ConfigInv, TypeOK
    <3> QED BY <1>1, <3>1, ShownKept DEF ScaleNow
  <2> QED BY <1>1, <2>1 DEF ConfigInv
<1> QED BY <1>1, <1>3, <1>4, <1>5, <1>6, DisplayKept DEF IInv, hwVars

(* The screen is resized: the mode sets of the enabled heads follow.       *)
LEMMA ResizeScreenStep ==
    ASSUME IInv, ResizeScreen
    PROVE  IInv'
<1>1. /\ UNCHANGED <<crtcOf, enabled, mode, desiredMode, vtSema, toDesired,
                     retry, scale, pclk, dither, skipModeFixup, cursorVisible, asm, armed,
                     pll, link, power, crashed, failed, redone, failures>>
      /\ vtSema /\ todo = {} /\ retry = None /\ ~toDesired
      /\ pitch' = 1 - pitch
      /\ todo' = {h \in Heads : enabled[h]}
      /\ changes' \in 0..MaxChanges
      /\ TypeOK
  <2>1. /\ Idle /\ changes' = changes + 1 /\ changes < MaxChanges
        /\ UNCHANGED <<serverVars, vtSema, toDesired, retry, scale, driverVars,
                       hwVars, power, crashed, failed, redone, failures>>
        /\ pitch' = 1 - pitch
        /\ todo' = {h \in Heads : enabled[h]}
    BY DEF Change, ResizeScreen
  <2>2. changes' \in 0..MaxChanges
    BY <2>1, DisplayAssumption DEF IInv, TypeInv, TypeOK
  <2> QED BY <2>1, <2>2, IdleFacts
          DEF serverVars, driverVars, hwVars, IInv, TypeInv
<1>2. TypeInv'
  <2>1. todo' \in SUBSET {g \in Heads : enabled'[g]} /\ pitch' \in 0..1
    BY <1>1 DEF TypeOK
  <2>2. TypeOK'
    BY <1>1, <2>1 DEF TypeOK
  <2> QED BY <1>1, <2>2 DEF IInv, TypeInv
<1>3. ServerInv'
  BY <1>1 DEF IInv, ServerInv, OneEach
<1>4. OrInv'
  BY <1>1 DEF IInv, OrInv, OneEach
<1>5. ConfigInv'
  <2>1. ASSUME NEW x \in Outputs, crtcOf'[x] # None
        PROVE  Shown(x)'
    <3>1. crtcOf[x] \in Heads /\ crtcOf'[x] = crtcOf[x] /\ Shown(x) /\ enabled[crtcOf[x]]
      BY <1>1, <2>1 DEF IInv, ConfigInv, ServerInv, TypeOK
    <3>2. crtcOf[x] \in todo'
      BY <1>1, <3>1
    <3> QED BY <1>1, <3>1, <3>2, ShownKept DEF ScaleNow
  <2> QED BY <1>1, <2>1 DEF ConfigInv
<1> QED BY <1>1, <1>2, <1>3, <1>4, <1>5, DisplayKept DEF IInv, hwVars

(* The terminal is left with all heads off.                                *)
LEMMA LeaveVTStep ==
    ASSUME IInv, LeaveVT
    PROVE  IInv'
<1> DEFINE s == [asm EXCEPT !.head = [h \in Heads |-> Blank(asm, h).head[h]]]
<1>1. /\ UNCHANGED <<crtcOf, enabled, mode, desiredMode, pitch, todo, toDesired,
                     retry, scale, pclk, dither, skipModeFixup, cursorVisible, power,
                     crashed, failed, redone, failures, changes>>
      /\ todo = {} /\ retry = None /\ ~toDesired /\ ~vtSema'
      /\ Update(s, crtcOf, pclk)
      /\ TypeOK /\ asm \in Display /\ asm = armed
  BY IdleFacts DEF LeaveVT, serverVars, callVars, driverVars, IInv, TypeInv
<1>2. /\ s.or = armed.or /\ s \in Display
      /\ \A h \in Heads : s.head[h] = DarkHead
  <2>1. \A h \in Heads : Blank(asm, h).head[h] = DarkHead
    BY <1>1 DEF Blank, Display
  <2>2. s = [head |-> [h \in Heads |-> Blank(asm, h).head[h]], or |-> asm.or]
    BY <1>1 DEF Display
  <2> HIDE DEF s
  <2> QED BY <1>1, <2>1, <2>2, DarkFacts DEF Display
<1> HIDE DEF s
<1>3. asm' = s /\ armed' = s /\ pll' = pll /\ link' = link
  <2>1. {h \in Changed(s) : s.head[h].lit} = {}
    BY <1>2, DarkFacts DEF Changed
  <2>2. /\ asm' = s /\ armed' = s
        /\ pll' = [g \in Heads |-> pll[g]] /\ link' = [x \in Tmds |-> link[x]]
    BY <1>1, <2>1 DEF Update, SetPClk
  <2> QED BY <1>1, <2>2 DEF TypeOK
<1>4. TypeInv'
  <2>1. todo' \in SUBSET {g \in Heads : enabled'[g]} /\ vtSema' \in BOOLEAN
    BY <1>1 DEF LeaveVT
  <2>2. TypeOK'
    BY <1>1, <1>3, <2>1 DEF TypeOK
  <2> QED BY <1>1, <1>2, <1>3, <2>2 DEF IInv, TypeInv
<1>5. ServerInv'
  BY <1>1 DEF IInv, ServerInv, OneEach
<1>6. OrInv'
  BY <1>1, <1>2, <1>3 DEF IInv, OrInv, OneEach
<1>7. HeadsInv' /\ ClockInv'
  BY <1>2, <1>3, DarkFacts DEF HeadsInv, ClockInv
<1>8. ConfigInv'
  BY <1>1, <1>2, <1>3, DarkFacts DEF ConfigInv, Shown, TypeOK
<1> QED BY <1>4, <1>5, <1>6, <1>7, <1>8 DEF IInv

(* The terminal comes back: every head in use is to be set.                *)
LEMMA EnterVTStep ==
    ASSUME IInv, EnterVT
    PROVE  IInv'
<1>1. /\ UNCHANGED <<crtcOf, enabled, mode, desiredMode, pitch, retry, scale, pclk,
                     dither, skipModeFixup, cursorVisible, pll, link, crashed,
                     failed, redone, failures, changes>>
      /\ vtSema' = TRUE /\ retry = None
      /\ asm' = Dark /\ armed' = Dark
      /\ power' = [o \in Outputs |-> FALSE]
      /\ todo' = {h \in Heads : enabled[h] /\ UsedBy(crtcOf, h) # {}}
      /\ toDesired' = (todo' # {})
      /\ TypeOK
  BY DEF EnterVT, serverVars, driverVars, IInv, TypeInv, ServerInv
<1>2. TypeInv'
  <2>1. /\ todo' \in SUBSET {g \in Heads : enabled'[g]} /\ vtSema' \in BOOLEAN
        /\ toDesired' \in BOOLEAN /\ power' \in [Outputs -> BOOLEAN]
    BY <1>1
  <2>2. TypeOK'
    BY <1>1, <2>1 DEF TypeOK
  <2> QED BY <1>1, <2>2, DarkFacts DEF IInv, TypeInv
<1>3. ServerInv'
  BY <1>1 DEF IInv, ServerInv, OneEach
<1>4. OrInv'
  BY <1>1, DarkFacts DEF IInv, OrInv, OneEach
<1>5. HeadsInv' /\ ClockInv'
  BY <1>1, DarkFacts DEF HeadsInv, ClockInv
<1>6. ConfigInv'
  <2>1. ASSUME NEW x \in Outputs, crtcOf'[x] # None
        PROVE  Shown(x)'
    <3>1. crtcOf'[x] = crtcOf[x] /\ crtcOf[x] \in Heads /\ enabled[crtcOf[x]]
      BY <1>1, <2>1 DEF IInv, ServerInv, TypeOK
    <3>2. crtcOf[x] \in todo' /\ ~armed'.head[crtcOf[x]].lit
      BY <1>1, <3>1, DarkFacts DEF UsedBy
    <3> QED BY <3>1, <3>2 DEF Shown
  <2>2. \A h \in todo' : ~armed'.head[h].lit /\ UsedBy(crtcOf', h) # {}
    BY <1>1, DarkFacts
  <2> QED BY <2>1, <2>2 DEF ConfigInv
<1> QED BY <1>2, <1>3, <1>4, <1>5, <1>6 DEF IInv

-----------------------------------------------------------------------------
(* The scale. *)

(* A mode set for the head of an output whose scale becomes the one asked for. *)
LEMMA RescaledStep ==
    ASSUME IInv, vtSema, todo = {},
           NEW o \in Outputs, NEW sc \in [Outputs -> Scales], crtcOf[o] # None,
           \A l \in Lvds : sc[l] # "off",
           \A x \in Outputs \ {o} : sc[x] = ScaleNow[x],
           SetMode(crtcOf, sc, crtcOf[o], desiredMode[crtcOf[o]]),
           mode' = [mode EXCEPT ![crtcOf[o]] = desiredMode[crtcOf[o]]],
           power' = Powered(crtcOf, crtcOf[o]),
           scale' = sc, retry' = None,
           UNCHANGED <<crtcOf, enabled, desiredMode, vtSema, pitch, todo, toDesired,
                       crashed, changes>>
    PROVE  IInv'
<1> DEFINE h == crtcOf[o]
           m == desiredMode[h]
<1>1. TypeOK /\ OneEach(crtcOf) /\ h \in Heads /\ ~toDesired
  BY DEF IInv, TypeInv, ServerInv, TypeOK
<1>2. m \in Mode /\ mode' \in [Heads -> Mode] /\ mode'[h] = m
  BY <1>1 DEF TypeOK, Mode
<1>3. UserOf(crtcOf, h) = o
  BY <1>1, TheUser
<1>4. ScaleNow' = sc
  BY DEF ScaleNow
<1>5. /\ crtcOf' = crtcOf /\ SetMode(crtcOf', sc, h, m) /\ crtcOf'[o] = h
      /\ crtcOf' \in [Outputs -> Heads \cup {None}] /\ OneEach(crtcOf')
  BY <1>1 DEF TypeOK
<1>6. \A x \in Outputs \ {o} : crtcOf'[x] # None =>
             /\ crtcOf'[x] = crtcOf[x]
             /\ mode'[crtcOf[x]] = mode[crtcOf[x]]
             /\ ScaleNow'[x] = ScaleNow[x]
  BY <1>1, <1>4 DEF OneEach, TypeOK
<1>7. todo \subseteq todo' \cup {h} /\ pitch' = pitch /\ vtSema' = vtSema
      /\ ScaleNow'[o] = sc[o]
  BY <1>4
<1> HIDE DEF h, m
<1>8. /\ asm' = armed' /\ armed' \in Display
      /\ pclk' \in [Heads -> Mode] /\ pll' \in [Heads -> Mode]
      /\ link' \in [Tmds -> BOOLEAN] /\ skipModeFixup' \in [Heads -> BOOLEAN]
      /\ failed' = failed \ {h} /\ redone' \in SUBSET Heads
      /\ \A g \in Heads : skipModeFixup'[g] => g \in failed'
      /\ UNCHANGED <<dither, cursorVisible, failures>>
      /\ OneEach(armed'.or)
      /\ \A x \in Outputs : crtcOf'[x] # None => armed'.or[x] \in {None, crtcOf'[x]}
      /\ HeadsInv' /\ ClockInv'
      /\ \A x \in Outputs : crtcOf'[x] # None => Shown(x)'
  BY <1>1, <1>2, <1>5, <1>6, <1>7, SetModeShown
<1>9. /\ power' \in [Outputs -> BOOLEAN]
      /\ \A x \in Outputs : power'[x] => power[x] \/ x = o
  BY <1>1, <1>3 DEF TypeOK, Powered, h
<1>10. TypeInv'
  <2>1. todo' \in SUBSET {g \in Heads : enabled'[g]} /\ failed' \in SUBSET Heads
    BY <1>1, <1>8 DEF TypeOK
  <2>2. TypeOK'
    BY <1>1, <1>2, <1>8, <1>9, <2>1 DEF TypeOK, Mode
  <2> QED BY <1>8, <2>2 DEF TypeInv
<1>11. ServerInv'
  BY <1>1 DEF IInv, ServerInv, OneEach
<1>12. OrInv'
  <2>1. \A x \in Outputs : power'[x] => crtcOf'[x] # None
    BY <1>9 DEF IInv, OrInv
  <2> QED BY <1>8, <2>1 DEF OrInv, OneEach
<1>13. ConfigInv'
  BY <1>1, <1>8 DEF ConfigInv
<1> QED BY <1>8, <1>10, <1>11, <1>12, <1>13 DEF IInv

(* The display does not change, and neither does the scale in force of an
   output on a head. *)
LEMMA NotRescaledStep ==
    ASSUME IInv, vtSema, todo = {},
           UNCHANGED <<crtcOf, enabled, mode, desiredMode, vtSema, pitch, todo, toDesired,
                       crashed, changes, pclk, dither, cursorVisible, hwVars, power,
                       redone>>,
           failed' \in SUBSET Heads, failed \subseteq failed',
           failures' \in 0..MaxFailures,
           skipModeFixup' \in [Heads -> BOOLEAN],
           \A g \in Heads : skipModeFixup'[g] => g \in failed',
           scale' \in [Outputs -> Scales], \A l \in Lvds : scale'[l] # "off",
           retry' # None => /\ retry' \in [output : Sor, scale : Scales]
                            /\ retry'.output \in Lvds => retry'.scale # "off"
                            /\ crtcOf[retry'.output] # None,
           \A x \in Outputs : crtcOf[x] # None => ScaleNow'[x] = ScaleNow[x]
    PROVE  IInv'
<1>1. TypeOK /\ OneEach(crtcOf) /\ ~toDesired
  BY DEF IInv, TypeInv, ServerInv
<1>2. UNCHANGED <<asm, armed, pll, link>>
  BY DEF hwVars
<1>3. TypeInv'
  <2>1. todo' \in SUBSET {g \in Heads : enabled'[g]}
    BY <1>1 DEF TypeOK
  <2>2. retry' # None => crtcOf'[retry'.output] # None /\ retry'.scale \in Scales
    OBVIOUS
  <2>3. TypeOK'
    BY <1>1, <1>2, <2>1, <2>2 DEF TypeOK
  <2> QED BY <1>2, <2>3 DEF IInv, TypeInv
<1>4. ServerInv'
  BY <1>1 DEF IInv, ServerInv, OneEach
<1>5. OrInv'
  BY <1>2 DEF IInv, OrInv, OneEach
<1>6. ConfigInv'
  <2>1. ASSUME NEW x \in Outputs, crtcOf'[x] # None
        PROVE  Shown(x)'
    <3>1. crtcOf[x] \in Heads /\ crtcOf'[x] = crtcOf[x] /\ Shown(x)
      BY <1>1, <2>1 DEF IInv, ConfigInv, TypeOK
    <3> QED BY <1>2, <3>1, <2>1, ShownKept
  <2> QED BY <1>1, <2>1 DEF ConfigInv
<1> QED BY <1>3, <1>4, <1>5, <1>6, DisplayKept DEF IInv

(* The scale property: a mode set with the new scale, or one that fails.   *)
LEMMA SetScaleStep ==
    ASSUME IInv, NEW o \in Outputs, NEW s \in Scales, SetScale(o, s)
    PROVE  IInv'
<1> DEFINE h == crtcOf[o]
           new == [scale EXCEPT ![o] = s]
<1>1. /\ vtSema /\ todo = {} /\ retry = None /\ ~toDesired /\ ScaleNow = scale
      /\ TypeInv /\ TypeOK /\ o \in Sor /\ (o \in Lvds => s # "off")
      /\ UNCHANGED <<crtcOf, enabled, desiredMode, vtSema, pitch, todo, toDesired,
                     crashed, changes>>
  BY IdleFacts DEF SetScale, IInv, TypeInv
<1>2. /\ new \in [Outputs -> Scales] /\ \A l \in Lvds : new[l] # "off"
      /\ \A x \in Outputs \ {o} : new[x] = ScaleNow[x]
  BY <1>1 DEF TypeOK, Outputs, Sor
<1>3. CASE /\ h = None
           /\ scale' = new
           /\ UNCHANGED <<mode, retry, driverVars, hwVars, power, failed, redone, failures>>
  <2>1. \A x \in Outputs : crtcOf[x] # None => ScaleNow'[x] = ScaleNow[x]
    BY <1>1, <1>2, <1>3 DEF ScaleNow
  <2>2. /\ UNCHANGED <<pclk, dither, cursorVisible, skipModeFixup>>
        /\ failed' \in SUBSET Heads /\ failures' \in 0..MaxFailures
        /\ skipModeFixup' \in [Heads -> BOOLEAN]
        /\ \A g \in Heads : skipModeFixup'[g] => g \in failed'
    BY <1>1, <1>3 DEF driverVars, TypeInv, TypeOK
  <2> HIDE DEF new
  <2> QED BY <1>1, <1>2, <1>3, <2>1, <2>2, NotRescaledStep
<1>4. CASE /\ h # None
           /\ SetMode(crtcOf, new, h, desiredMode[h])
           /\ scale' = new
           /\ mode' = [mode EXCEPT ![h] = desiredMode[h]]
           /\ power' = Powered(crtcOf, h)
           /\ UNCHANGED retry
  <2> HIDE DEF new
  <2> QED BY <1>1, <1>2, <1>4, RescaledStep
<1>5. CASE /\ h # None
           /\ SetModeFails(crtcOf, new, h, {})
           /\ scale' = new
           /\ retry' = [output |-> o, scale |-> scale[o]]
           /\ UNCHANGED mode
  <2>1. /\ retry' \in [output : Sor, scale : Scales] /\ retry' # None
        /\ retry'.output = o /\ retry'.scale = scale[o]
        /\ retry'.output \in Lvds => retry'.scale # "off"
    BY <1>1, <1>5, DisplayAssumption DEF TypeOK, Outputs
  <2>2. ScaleNow' = scale
    BY <1>1, <1>5, <2>1 DEF ScaleNow, TypeOK
  <2>3. h \in Heads
    BY <1>1, <1>5 DEF TypeOK
  <2> HIDE DEF new, h
  <2>4. /\ UNCHANGED <<pclk, dither, cursorVisible, hwVars, power, redone>>
        /\ failed' \in SUBSET Heads /\ failed \subseteq failed'
        /\ failures' \in 0..MaxFailures
        /\ skipModeFixup' \in [Heads -> BOOLEAN]
        /\ \A g \in Heads : skipModeFixup'[g] => g \in failed'
    BY <1>1, <1>5, <2>3, FailsStep
  <2>5. crtcOf[retry'.output] # None
    BY <1>5, <2>1 DEF h
  <2> QED BY <1>1, <1>2, <1>5, <2>1, <2>2, <2>4, <2>5, NotRescaledStep
<1> QED BY <1>3, <1>4, <1>5 DEF SetScale

(* The second attempt, with the old scale.                                 *)
LEMMA RestoreScaleStep ==
    ASSUME IInv, RestoreScale
    PROVE  IInv'
<1> DEFINE o == retry.output
           h == crtcOf[o]
<1>1. /\ retry # None /\ retry' = None
      /\ scale' = [scale EXCEPT ![retry.output] = retry.scale]
      /\ UNCHANGED <<crtcOf, enabled, desiredMode, vtSema, pitch, todo, toDesired,
                     crashed, changes>>
  BY DEF RestoreScale
<1>2. /\ vtSema /\ todo = {} /\ ~toDesired /\ TypeInv /\ TypeOK /\ scale' = ScaleNow
      /\ o \in Sor /\ o \in Outputs /\ retry.scale \in Scales
      /\ o \in Lvds => retry.scale # "off"
      /\ h # None /\ h \in Heads
  BY <1>1 DEF IInv, TypeInv, TypeOK, ServerInv, ScaleNow, Outputs
<1>3. scale' \in [Outputs -> Scales] /\ \A l \in Lvds : scale'[l] # "off"
  BY <1>1, <1>2 DEF TypeOK
<1>4. ScaleNow' = scale'
  BY <1>1 DEF ScaleNow
<1>5. CASE /\ SetMode(crtcOf, scale', h, desiredMode[h])
           /\ mode' = [mode EXCEPT ![h] = desiredMode[h]]
           /\ power' = Powered(crtcOf, h)
  <2>1. \A x \in Outputs \ {o} : scale'[x] = ScaleNow[x]
    BY <1>2
  <2> HIDE DEF o
  <2> QED BY <1>1, <1>2, <1>3, <1>5, <2>1, RescaledStep
<1>6. CASE SetModeFails(crtcOf, scale', h, {}) /\ UNCHANGED mode
  <2> HIDE DEF h
  <2>1. /\ UNCHANGED <<pclk, dither, cursorVisible, hwVars, power, redone>>
        /\ failed' \in SUBSET Heads /\ failed \subseteq failed'
        /\ failures' \in 0..MaxFailures
        /\ skipModeFixup' \in [Heads -> BOOLEAN]
        /\ \A g \in Heads : skipModeFixup'[g] => g \in failed'
    <3> DEFINE sc == scale'
    <3>1. TypeInv /\ h \in Heads /\ {} \in SUBSET Heads /\ SetModeFails(crtcOf, sc, h, {})
      BY <1>2, <1>6
    <3> HIDE DEF sc
    <3> QED BY <3>1, FailsStep
  <2> QED BY <1>1, <1>2, <1>3, <1>4, <1>6, <2>1, NotRescaledStep
<1> QED BY <1>5, <1>6 DEF RestoreScale

-----------------------------------------------------------------------------
(* The first configuration; EnterVT comes back to it with fewer facts. *)
LEMMA FewUsers ==
    ASSUME NEW c \in [Outputs -> Heads \cup {None}],
           \A h \in Heads : Cardinality(UsedBy(c, h)) <= 1
    PROVE  OneEach(c)
<1> SUFFICES ASSUME NEW x \in Outputs, NEW y \in Outputs, c[x] = c[y], c[x] # None, x # y
             PROVE  FALSE
  BY DEF OneEach
<1>1. c[x] \in Heads
  OBVIOUS
<1>2. {x} \cup {y} \subseteq UsedBy(c, c[x])
  BY DEF UsedBy
<1>3. IsFiniteSet(UsedBy(c, c[x]))
  BY FS_Subset, DisplayAssumption DEF UsedBy
<1>4. Cardinality({x} \cup {y}) = 2
  <2>1. IsFiniteSet({x}) /\ Cardinality({x}) = 1 /\ y \notin {x}
    BY FS_Singleton
  <2> DEFINE S == {x}
  <2>2. IsFiniteSet(S) /\ y \notin S /\ Cardinality(S) = 1
    BY <2>1
  <2> HIDE DEF S
  <2>3. Cardinality(S \cup {y}) = Cardinality(S) + 1
    BY <2>2, FS_AddElement, Zenon
  <2>4. Cardinality(S \cup {y}) = 2
    BY <2>2, <2>3
  <2> QED BY <2>4 DEF S
<1>5. Cardinality({x} \cup {y}) <= Cardinality(UsedBy(c, c[x]))
  BY <1>2, <1>3, FS_Subset
<1> DEFINE k == Cardinality(UsedBy(c, c[x]))
<1>6. k \in Nat
  BY <1>3, FS_CardinalityType, Zenon
<1>7. k <= 1
  BY <1>1
<1>8. 2 <= k
  BY <1>4, <1>5
<1> HIDE DEF k
<1> QED BY <1>6, <1>7, <1>8, SMT

(* The initial states satisfy the invariant.                               *)
LEMMA InitStep == ASSUME Init PROVE IInv
<1>1. /\ crtcOf \in [Outputs -> Heads \cup {None}]
      /\ \A h \in Heads : Cardinality(UsedBy(crtcOf, h)) <= 1
      /\ enabled = [h \in Heads |-> UsedBy(crtcOf, h) # {}]
      /\ desiredMode \in [Heads -> Modes \cup {None}]
      /\ mode = [h \in Heads |-> None]
      /\ vtSema = TRUE /\ pitch = 0
      /\ todo = {h \in Heads : enabled[h]}
      /\ toDesired = (todo # {})
      /\ retry = None
      /\ scale = [o \in Outputs |-> IF o \in Dac THEN "off" ELSE "aspect"]
      /\ pclk = [h \in Heads |-> None] /\ dither = [h \in Heads |-> Dither]
      /\ skipModeFixup = [h \in Heads |-> FALSE]
      /\ cursorVisible = [h \in Heads |-> FALSE]
      /\ asm = Dark /\ armed = Dark
      /\ pll = [h \in Heads |-> None] /\ link = [o \in Tmds |-> FALSE]
      /\ power = [o \in Outputs |-> FALSE]
      /\ crashed = FALSE /\ failed = {} /\ redone = {}
      /\ failures = 0 /\ changes = 0
  BY DEF Init
<1>2. OneEach(crtcOf)
  BY <1>1, FewUsers
<1>3. TypeInv
  <2>1. enabled \in [Heads -> BOOLEAN] /\ toDesired \in BOOLEAN
    BY <1>1
  <2>2. scale \in [Outputs -> Scales] /\ \A l \in Lvds : scale[l] # "off"
    BY <1>1, DisplayAssumption DEF Outputs, Sor
  <2>3. /\ mode \in [Heads -> Modes \cup {None}] /\ pclk \in [Heads -> Modes \cup {None}]
        /\ pll \in [Heads -> Modes \cup {None}]
        /\ dither \in [Heads -> BOOLEAN] /\ cursorVisible \in [Heads -> BOOLEAN]
        /\ skipModeFixup \in [Heads -> BOOLEAN]
        /\ link \in [Tmds -> BOOLEAN] /\ power \in [Outputs -> BOOLEAN]
    BY <1>1, DisplayAssumption
  <2>4. /\ vtSema \in BOOLEAN /\ pitch \in 0..1 /\ failed \in SUBSET Heads
        /\ failures \in 0..MaxFailures /\ changes \in 0..MaxChanges
        /\ todo \in SUBSET {h \in Heads : enabled[h]}
    BY <1>1, DisplayAssumption
  <2>5. TypeOK
    BY <1>1, <2>1, <2>2, <2>3, <2>4 DEF TypeOK
  <2> QED BY <1>1, <2>5, DarkFacts DEF TypeInv
<1>4. ServerInv
  <2>1. \A o \in Outputs : crtcOf[o] # None => enabled[crtcOf[o]]
    BY <1>1 DEF UsedBy
  <2> QED BY <1>1, <1>2, <2>1 DEF ServerInv
<1>5. OrInv
  BY <1>1, DarkFacts DEF OrInv, OneEach
<1>6. HeadsInv /\ ClockInv
  BY <1>1, DarkFacts DEF HeadsInv, ClockInv
<1>7. ConfigInv
  <2>1. ASSUME NEW x \in Outputs, crtcOf[x] # None
        PROVE  Shown(x)
    <3>1. crtcOf[x] \in todo /\ ~armed.head[crtcOf[x]].lit
      BY <1>1, <2>1, DarkFacts DEF UsedBy
    <3> QED BY <3>1 DEF Shown
  <2>2. \A h \in todo : ~armed.head[h].lit /\ UsedBy(crtcOf, h) # {}
    BY <1>1, DarkFacts
  <2> QED BY <2>1, <2>2 DEF ConfigInv
<1> QED BY <1>3, <1>4, <1>5, <1>6, <1>7 DEF IInv

(* Nothing changes.                                                        *)
LEMMA StutterStep == ASSUME IInv, UNCHANGED vars PROVE IInv'
<1>1. UNCHANGED <<crtcOf, enabled, mode, desiredMode, vtSema, pitch, todo, toDesired,
                  retry, scale, pclk, dither, skipModeFixup, cursorVisible, asm, armed,
                  pll, link, power, crashed, failed, redone, failures, changes>>
  BY DEF vars, serverVars, callVars, driverVars, hwVars
<1>2. TypeInv'
  <2>1. TypeOK'
    BY <1>1 DEF IInv, TypeInv, TypeOK
  <2> QED BY <1>1, <2>1 DEF IInv, TypeInv
<1>3. ServerInv'
  BY <1>1 DEF IInv, ServerInv, OneEach
<1>4. OrInv'
  BY <1>1 DEF IInv, OrInv, OneEach
<1>5. ConfigInv'
  BY <1>1 DEF IInv, ConfigInv, Shown, ScaleNow, UsesNative, OutputScale, UsedBy
<1> QED BY <1>1, <1>2, <1>3, <1>4, <1>5, DisplayKept DEF IInv, hwVars

-----------------------------------------------------------------------------
(* IInv is inductive: it holds after G80DispCreateCrtcs and G80CreateOutputs,
   and every call of the server keeps it, whether or not it fails. *)
THEOREM Inductive == Spec => []IInv
<1>1. Init => IInv
  BY InitStep
<1>2. IInv /\ [Next]_vars => IInv'
  <2> SUFFICES ASSUME IInv, [Next]_vars PROVE IInv'
    OBVIOUS
  <2>1. CASE \E h \in Heads, o \in Outputs, m \in Modes : CrtcSet(h, o, m)
    BY <2>1, CrtcSetStep
  <2>2. CASE \E h \in Heads : CrtcOff(h)
    BY <2>2, CrtcOffStep
  <2>3. CASE \E h \in Heads : SetNext(h) \/ SetNextFails(h) \/ SetNextUnused(h)
    BY <2>3, SetNextStep, SetNextFailsStep, SetNextUnusedStep
  <2>4. CASE \E o \in Outputs, value \in BOOLEAN : SetDither(o, value)
    BY <2>4, SetDitherStep
  <2>5. CASE \E o \in Outputs, s \in Scales : SetScale(o, s)
    BY <2>5, SetScaleStep
  <2>6. CASE RestoreScale
    BY <2>6, RestoreScaleStep
  <2>7. CASE \E h \in Heads, show \in BOOLEAN : ShowHideCursor(h, show)
    BY <2>7, ShowHideCursorStep
  <2>8. CASE \E on \in BOOLEAN : DPMSSet(on)
    BY <2>8, DPMSSetStep
  <2>9. CASE LeaveVT \/ EnterVT \/ ResizeScreen
    BY <2>9, LeaveVTStep, EnterVTStep, ResizeScreenStep
  <2>10. CASE UNCHANGED vars
    BY <2>10, StutterStep
  <2> QED BY <2>1, <2>2, <2>3, <2>4, <2>5, <2>6, <2>7, <2>8, <2>9, <2>10 DEF Next
<1> QED BY <1>1, <1>2, PTL DEF Spec

(* The types of the state, and that a retry is pending only for an output on a
   head and that the heads still to be set are enabled ones. *)
THEOREM TypeCorrect == Spec => []TypeOK
<1>1. IInv => TypeOK
  BY DEF IInv, TypeInv
<1> QED BY <1>1, Inductive, PTL

(* The clocks the supervisor interrupt programs are those of the pictures, for
   any set of outputs and modes. *)
THEOREM ClocksRight == Spec => []ClocksAgree
<1>1. IInv => ClocksAgree
  BY DEF IInv, ClockInv, ClocksAgree
<1> QED BY <1>1, Inductive, PTL

(* No head drives two outputs, and an output that is not in DPMS off shows the
   head the server has it on. *)
THEOREM NoStray == Spec => []NoStrayPicture
<1>1. ASSUME IInv PROVE NoStrayPicture
  <2>1. ASSUME NEW h \in Heads
        PROVE  Cardinality({o \in Outputs : armed.or[o] = h}) <= 1
    <3>1. CASE {o \in Outputs : armed.or[o] = h} = {}
      BY <3>1, FS_EmptySet
    <3>2. CASE \E o \in Outputs : armed.or[o] = h
      <4>1. PICK o \in Outputs : armed.or[o] = h
        BY <3>2
      <4>2. \A x \in Outputs : armed.or[x] = h => x = o
        BY <1>1, <4>1, DisplayAssumption DEF IInv, OrInv, OneEach
      <4>3. {x \in Outputs : armed.or[x] = h} = {o}
        BY <4>1, <4>2
      <4> QED BY <4>3, FS_Singleton
    <3> QED BY <3>1, <3>2
  <2>2. \A o \in Outputs : power[o] /\ armed.or[o] # None => armed.or[o] = crtcOf[o]
    BY <1>1 DEF IInv, OrInv
  <2> QED BY <2>1, <2>2 DEF NoStrayPicture
<1> QED BY <1>1, Inductive, PTL

(* Between requests the picture on every head in use is the one the server
   believes in: mode, output, scale, dithering and cursor; and its timings are
   fixed but where the mode set before had failed. *)
THEOREM ConfigRight == Spec => []ConfigFollows
<1>1. ASSUME IInv PROVE ConfigFollows
  <2> SUFFICES ASSUME Idle, NEW o \in Outputs, crtcOf[o] # None
               PROVE  LET h == crtcOf[o]
                          now == armed.head[h]
                      IN  /\ h \notin failed => now.lit /\ now.pitch = pitch
                          /\ now.lit =>
                                /\ now.view = mode[h]
                                /\ now.timing.backend =
                                     IF UsesNative(o, scale) THEN NativeMode ELSE mode[h]
                                /\ \/ now.timing.fixed
                                   \/ h \in redone /\ ~UsesNative(o, scale)
                                /\ now.out = Out(OutputScale(o, scale), mode[h],
                                                  now.timing.backend)
                                /\ now.dither = dither[h]
                                /\ now.cursor = cursorVisible[h]
                                /\ armed.or[o] = h
    BY DEF ConfigFollows
  <2>1. vtSema /\ todo = {} /\ ScaleNow = scale
    BY <1>1, IdleFacts
  <2>2. Shown(o) /\ crtcOf[o] \in Heads /\ HeadsInv
    BY <1>1 DEF IInv, ConfigInv, TypeInv, TypeOK
  <2> QED BY <2>1, <2>2 DEF Shown, HeadsInv
<1> QED BY <1>1, Inductive, PTL
=============================================================================
