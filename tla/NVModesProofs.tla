--------------------------- MODULE NVModesProofs ---------------------------
(***************************************************************************)
(* Proofs about NVModes, for any set of chips and of modes: what setting   *)
(* modes through the driver or through the BIOS makes of the registers,    *)
(* and that leaving gives the console back its own.                        *)
(*                                                                         *)
(* The console comes back because of three sets of registers: those that   *)
(* are written are read before (Loaded and Unloaded), those that are not   *)
(* written keep their values, and those that are shared with the palette   *)
(* and the power level are among the written ones.  The invariant says     *)
(* what is in SavedReg while the server has the card, and what is still    *)
(* the console's in the registers themselves.                              *)
(***************************************************************************)
EXTENDS NVModes, TLAPS

Fields == {"crtc", "cr47high", "fifo", "repaint1", "cursor1", "general", "config",
           "cursorConfig", "displayV", "extra", "routing", "scale", "crtcVSync", "timing",
           "constants", "start", "dither", "pllsel", "control", "vpll", "otherVpll", "vga",
           "cmap", "fonts", "crtcSync", "crtcOwner", "dpms", "shown", "tmds", "backlight",
           "engine"}

(* Fields with values other than modes. *)
Special == {"dpms", "shown", "tmds", "backlight", "crtcSync", "fifo", "crtcOwner"}

Values == {Text, Driver} \cup Modes

TypedHw(h) ==
    /\ DOMAIN h = Fields
    /\ \A f \in Fields \ Special : h[f] \in Values
    /\ h.dpms \in BOOLEAN /\ h.shown \in BOOLEAN
    /\ h.tmds \in BOOLEAN /\ h.backlight \in BOOLEAN
    /\ h.crtcSync \in -MaxTweaks..MaxTweaks
    /\ h.fifo \in {Unknown} \cup Values
    /\ h.crtcOwner \in {0, 1, 3}

(* What is given back on leaving. *)
Given == Fields \ (Excepted \cup When(~card.Primary, VgaText))

IsConsole(h) == \A f \in Given : h[f] = ConsoleHw(0)[f]

CardInv ==
    /\ card.chip \in Nat /\ card.CRTCnumber \in Heads
    /\ card.FlatPanel \in BOOLEAN /\ card.LVDS \in BOOLEAN /\ card.Primary \in BOOLEAN
    /\ card.HWCursor \in BOOLEAN /\ card.VBEDualhead \in BOOLEAN
    /\ card.VBEDualhead => ~card.HWCursor
    /\ card.tweak \in Int

PhaseInv ==
    /\ CurrentState \in {"none", "ModeReg", "SavedReg"}
    /\ mode \in Modes
    /\ phase \in {"off", "ready", "x", "away", "abort", "dead"}
    /\ phase \in {"x", "abort"} => vtSema
    /\ vtSema => phase \in {"x", "abort", "dead"}
    /\ failures \in 0..MaxFailures
    /\ off \in BOOLEAN /\ vtSema \in BOOLEAN /\ locked \in BOOLEAN

HwInv ==
    /\ TypedHw(hw)
    /\ phase = "off" => ~off /\ \A f \in Fields \ {"crtcOwner"} : hw[f] = ConsoleHw(0)[f]
    /\ phase \in {"away", "ready", "dead"} => IsConsole(hw)

(* While the server has the card and no BIOS call rewrites the registers,  *)
(* those it does not write are the console's.                              *)
KeptInv ==
    phase \in {"x", "abort"} /\ ~card.VBEDualhead =>
        \A f \in Fields \ (Loaded \cup VgaMode \cup VgaText \cup Excepted) :
            hw[f] = ConsoleHw(0)[f]

(* Until they are given back the console's registers are in SavedReg. *)
SavedInv ==
    /\ DOMAIN SavedReg = StateFields /\ DOMAIN ModeReg = StateFields
    /\ SavedReg.displayV = 0 /\ SavedReg.cr47high = 0
    /\ SavedReg.crtcOwner \in {0, 1, 3} /\ SavedReg.otherVpll \in Values
    /\ phase \in {"x", "away", "abort"} =>
          \A f \in (Unloaded \cup VgaMode \cup When(card.Primary, VgaText)) \ Excepted :
              SavedReg[f] = ConsoleHw(0)[f]

(* What is switched off is so because of the last level asked for. *)
PowerInv ==
    /\ hw.tmds => off /\ card.FlatPanel /\ ~card.LVDS
    /\ hw.dpms => off /\ ~card.FlatPanel
    /\ ~hw.backlight => off /\ card.FlatPanel /\ card.LVDS /\ ~IsNV11(card.chip)

ShownInv ==
    phase = "x" =>
        /\ hw.engine = Driver /\ hw.start = Driver
        /\ CurrentState \in {"none", "ModeReg"}
        /\ ~card.VBEDualhead => CurrentState = "ModeReg"
        /\ CurrentState = "ModeReg" =>
              /\ ~locked
              /\ \A f \in ((Loaded \cup VgaMode) \ Power) \ ReadBack : hw[f] = mode
              /\ hw.fifo = ModeReg.fifo
              /\ card.FlatPanel => hw.crtcSync = ModeReg.crtcSync
              /\ Two => hw.crtcOwner = OwnerCode
              /\ ModeReg.cursor1 = mode
              /\ card.HWCursor => hw.shown = ModeReg.shown

IInv == CardInv /\ PhaseInv /\ HwInv /\ KeptInv /\ SavedInv /\ PowerInv /\ ShownInv

-----------------------------------------------------------------------------
(* The chips. *)
LEMMA ArchFacts ==
    ASSUME NEW id
    PROVE  /\ Architecture(id) \in {4, 10, 20, 30, 40}
           /\ TwoHeads(id) \in BOOLEAN
           /\ TwoHeads(id) => Architecture(id) >= 10
           /\ IsNV11(id) => TwoHeads(id)
<1>1. Architecture(id) \in {4, 10, 20, 30, 40}
  BY DEF Architecture
<1>2. IsNV11(id) => Architecture(id) = 10
  BY DEF IsNV11, Architecture
<1> QED BY <1>1, <1>2 DEF TwoHeads, IsNV11

(* The engine's tables: every handle finds an object of its class. *)
LEMMA EngineTables ==
    ASSUME NEW id
    PROVE  /\ \A i \in Handles : ObjectOf(id, i) \in ClassesOf(i)
           /\ TileRegions(id) = TileCopies(id)
<1>1. ASSUME NEW i \in Handles PROVE ObjectOf(id, i) \in ClassesOf(i)
  <2>1. i \in {0, 1, 2, 3, 4, 5, 6, 7}
    BY DEF Handles
  <2>2. CASE Architecture(id) >= 40
    <3>1. HashedWord(id, i) = ((\h1202 + 2 * i) * 16 - \h10000) \div 4
      BY <2>2 DEF HashedWord
    <3> QED BY <2>1, <2>2, <3>1 DEF ObjectOf, ObjectAt40, ClassesOf
  <2>3. CASE ~(Architecture(id) >= 40)
    <3>1. HashedWord(id, i) = ((\h1201 + i) * 16 - \h10000) \div 4
      BY <2>3 DEF HashedWord
    <3> QED BY <2>1, <2>3, <3>1 DEF ObjectOf, ObjectAt4, ClassesOf
  <2> QED BY <2>2, <2>3
<1>2. TileRegions(id) = TileCopies(id)
  <2>1. 32 \div 4 = 8 /\ 60 \div 4 = 15 /\ 48 \div 4 = 12
    OBVIOUS
  <2> QED BY <2>1 DEF TileRegions, TileCopies
<1> QED BY <1>1, <1>2

-----------------------------------------------------------------------------
(* The fields. *)
LEMMA ConsoleFacts ==
    ASSUME NEW o
    PROVE  /\ DOMAIN ConsoleHw(o) = Fields
           /\ \A f \in Fields \ Special : ConsoleHw(o)[f] = Text
           /\ ConsoleHw(o).crtcOwner = o /\ ConsoleHw(o).crtcSync = 0
           /\ ConsoleHw(o).fifo = Text
           /\ ~ConsoleHw(o).dpms /\ ~ConsoleHw(o).shown /\ ~ConsoleHw(o).tmds
           /\ ConsoleHw(o).backlight
           /\ \A f \in Fields \ {"crtcOwner"} : ConsoleHw(o)[f] = ConsoleHw(0)[f]
<1>1. DOMAIN ConsoleHw(o) = Fields
  BY DEF ConsoleHw, Fields
<1>2. \A f \in Fields \ Special : ConsoleHw(o)[f] = Text
  BY DEF ConsoleHw, Fields, Special
<1>3. /\ ConsoleHw(o).crtcOwner = o /\ ConsoleHw(o).crtcSync = 0
      /\ ConsoleHw(o).fifo = Text
      /\ ~ConsoleHw(o).dpms /\ ~ConsoleHw(o).shown /\ ~ConsoleHw(o).tmds
      /\ ConsoleHw(o).backlight
  BY DEF ConsoleHw
<1>4. \A f \in Fields \ {"crtcOwner"} : ConsoleHw(o)[f] = ConsoleHw(0)[f]
  <2> SUFFICES ASSUME NEW f \in Fields \ {"crtcOwner"}
               PROVE  ConsoleHw(o)[f] = ConsoleHw(0)[f]
    OBVIOUS
  <2>1. CASE f \notin Special
    BY <2>1 DEF ConsoleHw, Fields, Special
  <2>2. CASE f \in Special
    <3>1. \/ f = "dpms" \/ f = "shown" \/ f = "tmds" \/ f = "backlight"
          \/ f = "crtcSync" \/ f = "fifo"
      BY <2>2 DEF Special
    <3>2. ASSUME NEW p
          PROVE  /\ ConsoleHw(p).dpms = FALSE /\ ConsoleHw(p).shown = FALSE
                 /\ ConsoleHw(p).tmds = FALSE /\ ConsoleHw(p).backlight = TRUE
                 /\ ConsoleHw(p).crtcSync = 0
                 /\ ConsoleHw(p).fifo = Text
      BY DEF ConsoleHw
    <3> QED BY <3>1, <3>2, Zenon
  <2> QED BY <2>1, <2>2
<1> QED BY <1>1, <1>2, <1>3, <1>4

(* The fields of a state record, as a set.                                 *)
LEMMA StateFieldsFacts == StateFields = Fields \ {"constants", "start", "backlight", "engine"}
BY ConsoleFacts DEF StateFields

(* Which fields are saved and loaded, by kind of card: all that is loaded  *)
(* is saved, but for displayV and cr47high.                                *)
LEMMA LoadedFacts ==
    ASSUME CardInv
    PROVE  /\ Loaded \subseteq Unloaded \cup {"displayV", "cr47high"}
           /\ Loaded \subseteq StateFields /\ Unloaded \subseteq StateFields
           /\ EveryChip \subseteq Loaded
           /\ Loaded \cap {"vga", "constants", "start", "crtcOwner", "engine", "backlight", "cmap",
                         "fonts"} = {}
           /\ "tmds" \in Loaded <=> card.FlatPanel
           /\ "crtcSync" \in Loaded <=> card.FlatPanel
           /\ "otherVpll" \in Loaded => Two
           /\ "config" \in Loaded <=> Arch = 4
           /\ Two => "crtcOwner" \in Unloaded
           /\ "tmds" \in Unloaded /\ EveryChip \subseteq Unloaded
           /\ Unloaded \cap {"vga", "cmap", "fonts", "displayV", "cr47high", "constants", "start",
                           "engine", "backlight"} = {}
<1>1. Arch \in {4, 10, 20, 30, 40} /\ Two \in BOOLEAN /\ (Two => Arch >= 10)
      /\ card.FlatPanel \in BOOLEAN
  BY ArchFacts DEF Arch, Two, CardInv
<1>2. Loaded \subseteq Unloaded \cup {"displayV", "cr47high"}
  BY <1>1 DEF Loaded, Unloaded, When
<1>3. Loaded \subseteq StateFields /\ Unloaded \subseteq StateFields
  BY StateFieldsFacts DEF Loaded, Unloaded, When, EveryChip, Fields
<1>4. /\ Loaded \cap {"vga", "constants", "start", "crtcOwner", "engine", "backlight", "cmap",
                         "fonts"} = {}
      /\ Unloaded \cap {"vga", "cmap", "fonts", "displayV", "cr47high", "constants", "start",
                           "engine", "backlight"} = {}
  BY DEF Loaded, Unloaded, When, EveryChip
<1>5. /\ "tmds" \in Loaded <=> card.FlatPanel
      /\ "crtcSync" \in Loaded <=> card.FlatPanel
      /\ "otherVpll" \in Loaded => Two
      /\ "config" \in Loaded <=> Arch = 4
  BY <1>1 DEF Loaded, When, EveryChip
<1>6. /\ EveryChip \subseteq Loaded
      /\ Two => "crtcOwner" \in Unloaded
      /\ "tmds" \in Unloaded /\ EveryChip \subseteq Unloaded
  BY <1>1 DEF Loaded, Unloaded, When
<1> QED BY <1>2, <1>3, <1>4, <1>5, <1>6

-----------------------------------------------------------------------------
(* Writing registers. *)
ModeFields == Loaded \cup VgaMode
ConsoleFields == Loaded \cup VgaMode \cup When(card.Primary, VgaText)

(* Those that get the mode itself. *)
Plain == ModeFields \ (Power \cup ReadBack)

(* Selecting a head changes the owner of the registers and nothing else.   *)
LEMMA SelectedFacts ==
    ASSUME NEW h, DOMAIN h = Fields
    PROVE  /\ DOMAIN Selected(h) = Fields
           /\ Selected(h).crtcOwner = IF Two THEN OwnerCode ELSE h.crtcOwner
           /\ \A f \in Fields \ {"crtcOwner"} : Selected(h)[f] = h[f]
<1>1. "crtcOwner" \in Fields
  BY DEF Fields
<1> QED BY <1>1 DEF Selected

Load(h, fields, state) == Loading(h, FALSE, fields, state)

(* Loading a state writes the fields it lists, the constants and the engine. *)
LEMMA LoadingFacts ==
    ASSUME NEW h, DOMAIN h = Fields, NEW fields \in SUBSET Fields,
           fields \cap {"constants", "engine"} = {}, NEW state
    PROVE  LET l == Load(h, fields, state)
           IN  /\ DOMAIN l = Fields
               /\ l.engine = Driver /\ l.constants = Driver
               /\ \A f \in fields : l[f] = state[f]
               /\ \A f \in Fields : f \notin fields \cup {"constants", "engine"} => l[f] = h[f]
<1> DEFINE w == Written(EngineLoaded(h), FALSE, fields, state)
<1>1. "constants" \in Fields /\ "engine" \in Fields
  BY DEF Fields
<1>2. /\ DOMAIN w = Fields /\ w.engine = Driver
      /\ \A f \in fields : w[f] = state[f]
      /\ \A f \in Fields \ (fields \cup {"engine"}) : w[f] = h[f]
  BY <1>1 DEF Written, EngineLoaded
<1>3. Load(h, fields, state) = [w EXCEPT !.constants = Driver]
  BY DEF Loading, Load
<1> HIDE DEF w
<1> QED BY <1>1, <1>2, <1>3

(* The lists of a mode and of the console name fields of the hardware.     *)
LEMMA LoadedWithin ==
    ASSUME CardInv
    PROVE  /\ ModeFields \in SUBSET Fields /\ ModeFields \cap {"constants", "engine"} = {}
           /\ ConsoleFields \in SUBSET Fields /\ ConsoleFields \cap {"constants", "engine"} = {}
<1>1. VgaMode \subseteq Fields /\ When(card.Primary, VgaText) \subseteq Fields
      /\ VgaMode = {"vga"} /\ When(card.Primary, VgaText) \subseteq {"cmap", "fonts"}
  BY DEF VgaMode, VgaText, When, Fields
<1>2. Loaded \subseteq Fields /\ Loaded \cap {"constants", "engine"} = {}
  BY LoadedFacts, StateFieldsFacts
<1> QED BY <1>1, <1>2 DEF ModeFields, ConsoleFields

(* Setting a mode natively: what of the state NVDACInit makes gets where. *)
ModeMade(h, m) ==
    /\ DOMAIN hw' = Fields /\ DOMAIN ModeReg' = StateFields
    /\ card.FlatPanel => h.crtcSync + card.tweak \in -MaxTweaks..MaxTweaks
    /\ hw'.engine = Driver /\ hw'.constants = Driver
    /\ hw'.fonts = Driver /\ hw'.start = Driver
    /\ hw'.crtcOwner = IF Two THEN OwnerCode ELSE h.crtcOwner
    /\ hw'.dpms = FALSE /\ hw'.shown = FALSE /\ ModeReg'.shown = FALSE
    /\ ModeReg'.cursor1 = m
    /\ hw'.tmds = h.tmds /\ hw'.otherVpll = h.otherVpll
    /\ hw'.crtcSync = IF card.FlatPanel THEN h.crtcSync + card.tweak ELSE h.crtcSync
    /\ card.FlatPanel => ModeReg'.crtcSync = hw'.crtcSync
    /\ hw'.fifo \in {Driver, Unknown} /\ ModeReg'.fifo = hw'.fifo
    /\ \A f \in Plain : hw'[f] = m
    /\ \A f \in Fields : f \notin ModeFields \cup {"constants", "engine", "fonts", "start",
                                                  "crtcOwner"} =>
           hw'[f] = h[f]
    /\ CurrentState' = "ModeReg" /\ locked' = FALSE /\ vtSema' = TRUE /\ mode' = m

(* What NVModeInit makes of the hardware.                                  *)
LEMMA ModeInitFacts ==
    ASSUME CardInv, NEW h, DOMAIN h = Fields, NEW isLocked, NEW m, NVModeInit(h, isLocked, m)
    PROVE  ModeMade(h, m)
<1>0. PICK fifo \in FifoRead(isLocked) : ModeReg' = NVDACInit(h, m, fifo)
  BY DEF NVModeInit
<1> DEFINE s == NVDACInit(h, m, fifo)
           sel == Selected(h)
           l == Load(sel, ModeFields, s)
<1>1. /\ card.FlatPanel => h.crtcSync + card.tweak \in -MaxTweaks..MaxTweaks
      /\ ModeReg' = s /\ hw' = ScreenDrawn(l)
      /\ CurrentState' = "ModeReg" /\ locked' = FALSE /\ vtSema' = TRUE /\ mode' = m
  BY <1>0 DEF NVModeInit, Load, ModeFields
<1>2. /\ DOMAIN s = StateFields
      /\ s.dpms = FALSE /\ s.shown = FALSE /\ s.tmds = h.tmds
      /\ card.FlatPanel => s.crtcSync = h.crtcSync + card.tweak
      /\ s.fifo = fifo
      /\ Two => s.otherVpll = h.otherVpll
      /\ s.cursor1 = m
      /\ \A f \in Plain : s[f] = m
  <2>1. {"dpms", "shown", "tmds", "crtcSync", "fifo", "otherVpll", "cursor1"} \subseteq StateFields
    BY StateFieldsFacts DEF Fields
  <2>2. DOMAIN s = StateFields
    BY DEF NVDACInit
  <2>3. /\ s["dpms"] = FALSE /\ s["shown"] = FALSE
    BY <2>1 DEF NVDACInit
  <2>4. s["tmds"] = h.tmds
    BY <2>1 DEF NVDACInit
  <2>5. card.FlatPanel => s["crtcSync"] = h.crtcSync + card.tweak
    BY <2>1 DEF NVDACInit
  <2>6. s["fifo"] = fifo /\ (Two => s["otherVpll"] = h.otherVpll)
    BY <2>1 DEF NVDACInit
  <2>7. s["cursor1"] = m
    BY <2>1 DEF NVDACInit
  <2>8. ASSUME NEW f \in Plain
        PROVE  s[f] = m
    <3>1. /\ f \in StateFields
          /\ f \notin {"dpms", "shown", "tmds", "crtcSync", "fifo", "otherVpll", "crtcOwner",
                       "cmap", "fonts"}
          /\ f = "config" => ~(Arch >= 10)
      BY LoadedFacts, StateFieldsFacts DEF Plain, ModeFields, VgaMode, Power, ReadBack, Fields
    <3> QED BY <3>1 DEF NVDACInit
  <2> QED BY <2>2, <2>3, <2>4, <2>5, <2>6, <2>7, <2>8
<1> HIDE DEF s
<1>3. /\ DOMAIN sel = Fields
      /\ sel.crtcOwner = IF Two THEN OwnerCode ELSE h.crtcOwner
      /\ \A f \in Fields \ {"crtcOwner"} : sel[f] = h[f]
  BY SelectedFacts
<1> HIDE DEF sel
<1>4. /\ DOMAIN l = Fields
      /\ l.engine = Driver /\ l.constants = Driver
      /\ \A f \in ModeFields : l[f] = s[f]
      /\ \A f \in Fields : f \notin ModeFields \cup {"constants", "engine"} => l[f] = sel[f]
  BY <1>3, LoadedWithin, LoadingFacts
<1> HIDE DEF l
<1>5. /\ DOMAIN hw' = Fields /\ hw'.fonts = Driver /\ hw'.start = Driver
      /\ \A f \in Fields \ {"fonts", "start"} : hw'[f] = l[f]
  <2> DEFINE d == [l EXCEPT !.fonts = Driver]
  <2>1. DOMAIN d = Fields /\ d.fonts = Driver /\ \A f \in Fields \ {"fonts"} : d[f] = l[f]
    BY <1>4 DEF Fields
  <2>2. hw' = [d EXCEPT !.start = Driver]
    BY <1>1 DEF ScreenDrawn
  <2> HIDE DEF d
  <2> QED BY <2>1, <2>2 DEF Fields
<1>6. Fields = Fields \cup Special \cup Power \cup {"constants", "engine", "fonts", "otherVpll"}
  BY DEF Fields, Special, Power
<1>7. /\ {"dpms", "shown", "cursor1", "fifo"} \subseteq ModeFields
      /\ "tmds" \in ModeFields <=> card.FlatPanel
      /\ "crtcSync" \in ModeFields <=> card.FlatPanel
      /\ "otherVpll" \in ModeFields => Two
      /\ {"fonts", "start", "crtcOwner", "constants", "engine"} \cap ModeFields = {}
      /\ card.FlatPanel \in BOOLEAN
  BY LoadedFacts DEF EveryChip, VgaMode, CardInv, ModeFields
<1>8. hw'.engine = Driver /\ hw'.constants = Driver
  BY <1>4, <1>5, <1>6
<1>9. hw'.crtcOwner = IF Two THEN OwnerCode ELSE h.crtcOwner
  BY <1>3, <1>4, <1>5, <1>6, <1>7 DEF Special
<1>10. hw'.dpms = FALSE /\ hw'.shown = FALSE
  BY <1>2, <1>4, <1>5, <1>6, <1>7 DEF Power
<1>11. hw'.tmds = h.tmds
  BY <1>2, <1>3, <1>4, <1>5, <1>6, <1>7 DEF Power
<1>12. hw'.crtcSync = IF card.FlatPanel THEN h.crtcSync + card.tweak ELSE h.crtcSync
  BY <1>2, <1>3, <1>4, <1>5, <1>6, <1>7 DEF Special
<1>13. hw'.otherVpll = h.otherVpll
  BY <1>2, <1>3, <1>4, <1>5, <1>6, <1>7
<1>14. \A f \in Plain : hw'[f] = m
  BY <1>2, <1>4, <1>5, <1>7, LoadedWithin DEF Plain
<1>15. \A f \in Fields : f \notin ModeFields \cup {"constants", "engine", "fonts", "start",
                                                  "crtcOwner"} =>
           hw'[f] = h[f]
  BY <1>3, <1>4, <1>5
<1>16. hw'.fifo = fifo /\ fifo \in {Driver, Unknown}
  BY <1>0, <1>2, <1>4, <1>5, <1>6, <1>7 DEF Special, FifoRead, When
<1>17. ModeReg'.fifo = fifo /\ (card.FlatPanel => ModeReg'.crtcSync = hw'.crtcSync)
  BY <1>1, <1>2, <1>12
<1> QED BY <1>1, <1>2, <1>5, <1>8, <1>9, <1>10, <1>11, <1>12, <1>13, <1>14, <1>15, <1>16, <1>17
        DEF ModeMade

(* The card's own head is one of two.                                      *)
LEMMA HeadsFacts == CardInv => OwnerCode \in {0, 3}
BY DEF CardInv, OwnerCode, Heads

(* Selecting a head keeps the type of the hardware.                        *)
LEMMA SelectedTyped ==
    ASSUME CardInv, NEW h, TypedHw(h)
    PROVE  TypedHw(Selected(h))
<1> DEFINE s == Selected(h)
<1>1. /\ DOMAIN s = Fields
      /\ s.crtcOwner = IF Two THEN OwnerCode ELSE h.crtcOwner
      /\ \A f \in Fields \ {"crtcOwner"} : s[f] = h[f]
  BY SelectedFacts DEF TypedHw
<1>2. Special \subseteq Fields
  BY DEF Special, Fields
<1> HIDE DEF s
<1>3. \A f \in Special \ {"crtcOwner"} : s[f] = h[f]
  BY <1>1, <1>2
<1>4. \A f \in Fields \ Special : s[f] = h[f]
  BY <1>1 DEF Special
<1>5. s.crtcOwner \in {0, 1, 3}
  BY <1>1, HeadsFacts DEF TypedHw
<1>6. TypedHw(s)
  BY <1>1, <1>3, <1>4, <1>5 DEF TypedHw, Special
<1> QED BY <1>6 DEF s

(* NVModeInit keeps the type of the hardware.                              *)
LEMMA ModeInitTyped ==
    ASSUME CardInv, NEW h, TypedHw(h), NEW isLocked, NEW m \in Modes,
           NVModeInit(h, isLocked, m)
    PROVE  TypedHw(hw')
<1>1. DOMAIN h = Fields
  BY DEF TypedHw
<1>2. ModeMade(h, m)
  BY <1>1, ModeInitFacts
<1> USE <1>2 DEF ModeMade
<1>3. ASSUME NEW f \in Fields \ Special
      PROVE  hw'[f] \in Values
  <2>1. CASE f \in {"constants", "engine", "fonts", "start"}
    BY <1>2, <2>1 DEF Values
  <2>2. CASE f = "otherVpll"
    BY <1>2, <2>2 DEF TypedHw
  <2>4. CASE f \in ModeFields /\ f \notin {"constants", "engine", "fonts", "start", "otherVpll"}
    <3>1. f \in Plain
      BY <2>4 DEF Plain, Power, ReadBack, Special
    <3> QED BY <1>2, <3>1 DEF Values
  <2>3. CASE f \notin ModeFields \cup {"constants", "engine", "fonts", "start", "crtcOwner"}
    BY <1>2, <2>3 DEF TypedHw
  <2> QED BY <2>1, <2>2, <2>3, <2>4 DEF Special
<1>4. hw'.backlight = h.backlight
  <2>1. "backlight" \in Fields /\ "backlight" \notin ModeFields
    BY LoadedFacts DEF Fields, ModeFields, VgaMode
  <2> QED BY <1>2, <2>1
<1>5. hw'.crtcSync \in -MaxTweaks..MaxTweaks
  BY <1>2 DEF TypedHw
<1>6. hw'.fifo \in {Unknown} \cup Values
  BY <1>2 DEF Values
<1>7. hw'.crtcOwner \in {0, 1, 3}
  BY <1>2, HeadsFacts DEF TypedHw
<1>8. /\ hw'.dpms \in BOOLEAN /\ hw'.shown \in BOOLEAN
      /\ hw'.tmds \in BOOLEAN /\ hw'.backlight \in BOOLEAN
  BY <1>2, <1>4 DEF TypedHw
<1> QED BY <1>2, <1>3, <1>5, <1>6, <1>7, <1>8 DEF TypedHw

-----------------------------------------------------------------------------
(* What the BIOS does: b is what it makes of h. *)
BiosMade(h, v, b) ==
    /\ DOMAIN b = Fields
    /\ \A f \in {"constants", "crtcOwner", "backlight", "engine", "displayV"} : b[f] = h[f]
    /\ b.dpms = FALSE /\ b.shown = FALSE /\ b.tmds = FALSE
    /\ b.crtcSync = 0
    /\ b.fifo = v
    /\ \A f \in VgaText : b[f] = IF v = Text THEN h[f] ELSE Driver
    /\ \A f \in Fields \ (Special \cup VgaText \cup {"constants", "engine", "displayV"}) : b[f] = v

(* What the BIOS makes of the hardware.                                    *)
LEMMA BiosFacts ==
    ASSUME NEW h, DOMAIN h = Fields, NEW v
    PROVE  BiosMade(h, v, BiosSet(h, v))
<1> DEFINE b == BiosSet(h, v)
<1>1. /\ "constants" \in DOMAIN h /\ "crtcOwner" \in DOMAIN h /\ "backlight" \in DOMAIN h
      /\ "engine" \in DOMAIN h /\ "displayV" \in DOMAIN h
      /\ "dpms" \in DOMAIN h /\ "shown" \in DOMAIN h /\ "tmds" \in DOMAIN h
      /\ "crtcSync" \in DOMAIN h /\ "fifo" \in DOMAIN h
      /\ VgaText \subseteq DOMAIN h
  BY DEF Fields, VgaText
<1>2. DOMAIN b = Fields
  BY DEF BiosSet, VgaText
<1>3. \A f \in {"constants", "crtcOwner", "backlight", "engine", "displayV"} : b[f] = h[f]
  BY <1>1 DEF BiosSet, VgaText
<1>4. b["dpms"] = FALSE /\ b["shown"] = FALSE /\ b["tmds"] = FALSE
  BY <1>1 DEF BiosSet, VgaText
<1>5. b["crtcSync"] = 0
  BY <1>1 DEF BiosSet, VgaText
<1>6. b["fifo"] = v
  BY <1>1 DEF BiosSet, VgaText
<1>7. \A f \in VgaText : b[f] = IF v = Text THEN h[f] ELSE Driver
  BY <1>1 DEF BiosSet, VgaText
<1>8. \A f \in Fields \ (Special \cup VgaText \cup {"constants", "engine", "displayV"}) : b[f] = v
  BY DEF BiosSet, Special, VgaText
<1> HIDE DEF b
<1>9. BiosMade(h, v, b)
  BY <1>2, <1>3, <1>4, <1>5, <1>6, <1>7, <1>8 DEF BiosMade
<1> QED BY <1>9 DEF b

(* What a mode set through the BIOS makes of the hardware.                 *)
LEMMA VBEFacts ==
    ASSUME NEW h, TypedHw(h), NEW m \in Modes
    PROVE  LET b == ScreenDrawn(EngineLoaded(BiosSet(h, m)))
           IN  /\ TypedHw(b) /\ b.engine = Driver /\ b.start = Driver
               /\ b.tmds = FALSE /\ b.dpms = FALSE
               /\ b.backlight = h.backlight
<1> DEFINE b == BiosSet(h, m)
           n == EngineLoaded(b)
           d == [n EXCEPT !.fonts = Driver]
           e == ScreenDrawn(n)
           drawn == {"engine", "fonts", "start"}
<1>1. BiosMade(h, m, b)
  <2>1. DOMAIN h = Fields
    BY DEF TypedHw
  <2> QED BY <2>1, BiosFacts
<1> HIDE DEF b
<1> USE <1>1 DEF BiosMade
<1>2. drawn \subseteq Fields \ Special
  BY DEF Fields, Special
<1>3. /\ DOMAIN e = Fields /\ e.engine = Driver /\ e.fonts = Driver /\ e.start = Driver
      /\ \A f \in Fields \ drawn : e[f] = b[f]
  <2>1. DOMAIN n = Fields /\ n.engine = Driver /\ \A f \in Fields \ {"engine"} : n[f] = b[f]
    BY <1>1, <1>2 DEF EngineLoaded
  <2>2. e = [d EXCEPT !.start = Driver]
    BY DEF ScreenDrawn
  <2> HIDE DEF n
  <2>3. DOMAIN d = Fields /\ d.fonts = Driver /\ \A f \in Fields \ {"fonts"} : d[f] = n[f]
    BY <1>2, <2>1
  <2> HIDE DEF d
  <2> QED BY <1>2, <2>1, <2>2, <2>3
<1>4. Special \subseteq Fields \ drawn /\ {"constants", "displayV"} \subseteq Fields \ Special
      /\ VgaText \subseteq Fields \ Special
  BY DEF Fields, Special, VgaText
<1> HIDE DEF e
<1>5. ASSUME NEW f \in Fields \ Special
      PROVE  e[f] \in Values
  <2>1. CASE f \in drawn
    BY <1>3, <2>1 DEF Values
  <2>2. CASE f \in {"constants", "displayV"}
    <3>1. e[f] = h[f]
      BY <1>1, <1>3, <1>4, <2>2
    <3> QED BY <1>4, <2>2, <3>1 DEF TypedHw
  <2>3. CASE f \in VgaText /\ f \notin drawn
    <3>1. m # Text
      BY ModesAssumption DEF Text
    <3> QED BY <1>1, <1>3, <2>3, <3>1 DEF Values
  <2>4. CASE f \notin VgaText \cup drawn \cup {"constants", "displayV"}
    BY <1>1, <1>3, <2>4 DEF Values
  <2> QED BY <2>1, <2>2, <2>3, <2>4
<1>6. \A f \in Special : e[f] = b[f]
  BY <1>3, <1>4
<1>7. /\ e.dpms = FALSE /\ e.shown = FALSE /\ e.tmds = FALSE /\ e.crtcSync = 0
      /\ e.fifo = m /\ e.backlight = h.backlight
      /\ e.crtcOwner = h.crtcOwner
  BY <1>1, <1>6 DEF Special
<1>8. TypedHw(e)
  <2>1. /\ e.dpms \in BOOLEAN /\ e.shown \in BOOLEAN
        /\ e.tmds \in BOOLEAN /\ e.backlight \in BOOLEAN
    BY <1>7 DEF TypedHw
  <2>2. e.crtcSync \in -MaxTweaks..MaxTweaks /\ e.crtcOwner \in {0, 1, 3}
    BY <1>7, ModesAssumption DEF TypedHw
  <2>3. e.fifo \in {Unknown} \cup Values
    BY <1>7 DEF Values
  <2> QED BY <1>3, <1>5, <2>1, <2>2, <2>3 DEF TypedHw
<1> QED BY <1>3, <1>7, <1>8 DEF e, n, b

(* Of the registers that are not promised those with modes for values. *)
Loose == Excepted \ {"crtcOwner", "backlight"}

(* A register file that is the console's has the types of one. *)
LEMMA ConsoleTyped ==
    ASSUME CardInv, NEW h, DOMAIN h = Fields, IsConsole(h),
           \A f \in Loose : h[f] \in Values,
           h.crtcOwner \in {0, 1, 3}, h.backlight \in BOOLEAN,
           ~card.Primary => \A f \in VgaText : h[f] \in Values
    PROVE  TypedHw(h) /\ ~h.tmds /\ ~h.dpms
<1>1. Special \ {"crtcOwner", "backlight"} \subseteq Given
  BY DEF Given, Fields, Excepted, Special, When, VgaText
<1>2. \A f \in Special \ {"crtcOwner", "backlight"} : h[f] = ConsoleHw(0)[f]
  BY <1>1 DEF IsConsole
<1>3. /\ ConsoleHw(0)["crtcSync"] = 0 /\ ConsoleHw(0)["fifo"] = Text
      /\ ~ConsoleHw(0)["dpms"] /\ ~ConsoleHw(0)["shown"] /\ ~ConsoleHw(0)["tmds"]
      /\ ConsoleHw(0)["dpms"] \in BOOLEAN /\ ConsoleHw(0)["shown"] \in BOOLEAN
      /\ ConsoleHw(0)["tmds"] \in BOOLEAN
  BY DEF ConsoleHw
<1>4. /\ h.crtcSync = 0 /\ h.fifo = Text
      /\ ~h.dpms /\ ~h.shown /\ ~h.tmds
      /\ h.dpms \in BOOLEAN /\ h.shown \in BOOLEAN /\ h.tmds \in BOOLEAN
  BY <1>2, <1>3 DEF Special
<1>5. ASSUME NEW f \in Fields \ Special
      PROVE  h[f] \in Values
  <2>1. CASE f \in Given
    BY <2>1, ConsoleFacts DEF IsConsole, Values
  <2>2. CASE f \notin Given
    <3>1. f \in Excepted \/ (f \in VgaText /\ ~card.Primary)
      BY <2>2 DEF Given, When
    <3> QED BY <3>1 DEF Loose, Special
  <2> QED BY <2>1, <2>2
<1>6. TypedHw(h)
  BY <1>4, <1>5, ModesAssumption DEF TypedHw, Values
<1> QED BY <1>4, <1>6

-----------------------------------------------------------------------------
(* Leaving. *)
LEMMA HiddenFacts ==
    ASSUME NEW h, DOMAIN h = Fields
    PROVE  /\ DOMAIN Hidden(h) = Fields
           /\ \A f \in Fields \ {"cursor1", "shown"} : Hidden(h)[f] = h[f]
<1> DEFINE c == [h EXCEPT !.cursor1 = ModeReg.cursor1]
           d == [c EXCEPT !.shown = FALSE]
<1>1. Hidden(h) = h \/ Hidden(h) = d
  BY DEF Hidden
<1>2. DOMAIN c = Fields /\ \A f \in Fields \ {"cursor1"} : c[f] = h[f]
  OBVIOUS
<1> HIDE DEF c
<1>3. DOMAIN d = Fields /\ \A f \in Fields \ {"cursor1", "shown"} : d[f] = h[f]
  BY <1>2
<1> HIDE DEF d
<1>4. CASE Hidden(h) = h
  BY <1>4
<1>5. CASE Hidden(h) = d
  BY <1>3, <1>5
<1> QED BY <1>1, <1>4, <1>5

(* What NVRestore makes of the hardware: all fields of the console come    *)
(* from SavedReg.                                                          *)
LEMMA RestoreFacts ==
    ASSUME CardInv, NEW h, DOMAIN h = Fields
    PROVE  LET r == NVRestore(h)
           IN  /\ DOMAIN r = Fields
               /\ r.engine = Driver /\ r.constants = Driver
               /\ r.crtcOwner = IF Two THEN SavedReg.crtcOwner ELSE h.crtcOwner
               /\ \A f \in ConsoleFields : r[f] = SavedReg[f]
               /\ \A f \in Fields : f \notin ConsoleFields \cup {"constants", "engine", "crtcOwner"} =>
                      r[f] = h[f]
<1> DEFINE hid == Hidden(h)
           sel == Selected(hid)
           l == Load(sel, ConsoleFields, SavedReg)
           r == NVRestore(h)
<1>1. r = IF Two THEN [l EXCEPT !.crtcOwner = SavedReg.crtcOwner] ELSE l
  BY DEF NVRestore, Load, ConsoleFields
<1>2. DOMAIN hid = Fields /\ \A f \in Fields \ {"cursor1", "shown"} : hid[f] = h[f]
  BY HiddenFacts
<1> HIDE DEF hid
<1>3. /\ DOMAIN sel = Fields
      /\ sel.crtcOwner = IF Two THEN OwnerCode ELSE hid.crtcOwner
      /\ \A f \in Fields \ {"crtcOwner"} : sel[f] = hid[f]
  BY <1>2, SelectedFacts
<1> HIDE DEF sel
<1>4. /\ DOMAIN l = Fields
      /\ l.engine = Driver /\ l.constants = Driver
      /\ \A f \in ConsoleFields : l[f] = SavedReg[f]
      /\ \A f \in Fields : f \notin ConsoleFields \cup {"constants", "engine"} => l[f] = sel[f]
  <2>1. ConsoleFields \in SUBSET Fields /\ ConsoleFields \cap {"constants", "engine"} = {}
    BY LoadedWithin
  <2> QED BY <1>3, <2>1, LoadingFacts
<1> HIDE DEF l, r
<1>5. /\ {"cursor1", "shown"} \subseteq ConsoleFields
      /\ "crtcOwner" \notin ConsoleFields
      /\ {"crtcOwner", "constants", "engine"} \subseteq Fields
  BY LoadedFacts DEF EveryChip, ConsoleFields, VgaMode, VgaText, When, Fields
<1>6. /\ DOMAIN r = Fields
      /\ \A f \in Fields \ {"crtcOwner"} : r[f] = l[f]
      /\ r.crtcOwner = IF Two THEN SavedReg.crtcOwner ELSE l.crtcOwner
  BY <1>1, <1>4, <1>5
<1>7. ~Two => l.crtcOwner = h.crtcOwner
  <2>1. "crtcOwner" \notin ConsoleFields \cup {"constants", "engine"}
    BY <1>5
  <2>2. l.crtcOwner = sel.crtcOwner
    BY <1>4, <1>5, <2>1
  <2>3. hid.crtcOwner = h.crtcOwner
    BY <1>2, <1>5
  <2> QED BY <1>3, <2>2, <2>3
<1>8. r.engine = Driver /\ r.constants = Driver
  BY <1>2, <1>3, <1>4, <1>5, <1>6
<1>9. \A f \in ConsoleFields : r[f] = SavedReg[f]
  BY <1>4, <1>5, <1>6, LoadedWithin
<1>10. \A f \in Fields : f \notin ConsoleFields \cup {"constants", "engine", "crtcOwner"} =>
           r[f] = h[f]
  BY <1>2, <1>3, <1>4, <1>5, <1>6
<1> QED BY <1>6, <1>7, <1>8, <1>9, <1>10 DEF r
(* What the console needs of the registers the driver gives back. *)
GivenBack(h) ==
    /\ TypedHw(h) /\ IsConsole(h)
    /\ ~h.tmds /\ ~h.dpms /\ h.backlight = hw.backlight

(* What is given back from SavedReg is the console's.                      *)
LEMMA SavedIsConsole ==
    ASSUME IInv, phase \in {"x", "abort"}, NEW f \in Given, f \in ConsoleFields
    PROVE  SavedReg[f] = ConsoleHw(0)[f]
<1>1. f \in (Unloaded \cup VgaMode \cup When(card.Primary, VgaText)) \ Excepted
  BY LoadedFacts DEF IInv, Given, ConsoleFields, Excepted
<1> QED BY <1>1 DEF IInv, SavedInv

(* The registers after NVRestore that the driver keeps no copy of. *)
LEMMA RestoreTyped ==
    ASSUME IInv
    PROVE  LET r == NVRestore(hw)
           IN  /\ \A f \in Loose : r[f] \in Values
               /\ r.crtcOwner \in {0, 1, 3} /\ r.backlight = hw.backlight
               /\ ~card.Primary => \A f \in VgaText : r[f] \in Values
<1> DEFINE r == NVRestore(hw)
<1>0. CardInv /\ TypedHw(hw) /\ SavedInv
  BY DEF IInv, HwInv
<1>1. DOMAIN hw = Fields
  BY <1>0 DEF TypedHw
<1>2. /\ DOMAIN r = Fields
      /\ r.engine = Driver /\ r.constants = Driver
      /\ r.crtcOwner = IF Two THEN SavedReg.crtcOwner ELSE hw.crtcOwner
      /\ \A f \in ConsoleFields : r[f] = SavedReg[f]
      /\ \A f \in Fields : f \notin ConsoleFields \cup {"constants", "engine", "crtcOwner"} =>
             r[f] = hw[f]
  BY <1>0, <1>1, RestoreFacts
<1> HIDE DEF r
<1>3. ASSUME NEW f \in {"displayV", "cr47high", "otherVpll"}
      PROVE  r[f] \in Values
  <2>1. CASE f \in ConsoleFields
    BY <1>0, <1>2, <2>1 DEF SavedInv, Driver, Values
  <2>2. CASE f \notin ConsoleFields
    <3>1. r[f] = hw[f]
      BY <1>2, <2>2 DEF Fields
    <3> QED BY <1>0, <3>1 DEF TypedHw, Fields, Special
  <2> QED BY <2>1, <2>2
<1>4. r.start \in Values
  <2>1. "start" \in Fields \ Special /\ "start" \notin ConsoleFields \cup {"constants", "engine", "crtcOwner"}
    BY <1>0, LoadedFacts DEF Fields, Special, ConsoleFields, VgaMode, When, VgaText
  <2> QED BY <1>0, <1>2, <2>1 DEF TypedHw
<1>5. r.crtcOwner \in {0, 1, 3}
  BY <1>0, <1>2 DEF TypedHw, SavedInv
<1>6. r.backlight = hw.backlight
  <2>1. "backlight" \in Fields /\ "backlight" \notin ConsoleFields
    BY <1>0, LoadedFacts DEF Fields, ConsoleFields, VgaMode, When, VgaText
  <2> QED BY <1>2, <2>1
<1>7. ASSUME ~card.Primary, NEW f \in VgaText
      PROVE  r[f] \in Values
  <2>1. f \in Fields \ Special /\ f \notin ConsoleFields \cup {"constants", "engine", "crtcOwner"}
    BY <1>0, <1>7, LoadedFacts DEF Fields, Special, ConsoleFields, VgaMode, When, VgaText
  <2> QED BY <1>0, <1>2, <2>1 DEF TypedHw
<1>8. \A f \in Loose : r[f] \in Values
  BY <1>2, <1>3, <1>4 DEF Loose, Excepted, Values
<1> QED BY <1>5, <1>6, <1>7, <1>8 DEF r

(* The console after NVRestore.                                            *)
LEMMA NativeBack ==
    ASSUME IInv, phase \in {"x", "abort"}, ~card.VBEDualhead
    PROVE  GivenBack(NVRestore(hw))
<1> DEFINE r == NVRestore(hw)
<1>0. CardInv /\ TypedHw(hw) /\ KeptInv
  BY DEF IInv, HwInv
<1>1. DOMAIN hw = Fields
  BY <1>0 DEF TypedHw
<1>2. /\ DOMAIN r = Fields
      /\ \A f \in ConsoleFields : r[f] = SavedReg[f]
      /\ \A f \in Fields : f \notin ConsoleFields \cup {"constants", "engine", "crtcOwner"} =>
             r[f] = hw[f]
  BY <1>0, <1>1, RestoreFacts
<1>3. /\ \A f \in Loose : r[f] \in Values
      /\ r.crtcOwner \in {0, 1, 3} /\ r.backlight = hw.backlight
      /\ ~card.Primary => \A f \in VgaText : r[f] \in Values
  BY RestoreTyped
<1> HIDE DEF r
<1>4. ASSUME NEW f \in Given
      PROVE  r[f] = ConsoleHw(0)[f]
  <2>1. CASE f \in ConsoleFields
    BY <1>2, <2>1, SavedIsConsole
  <2>2. CASE f \notin ConsoleFields
    <3>1. f \in Fields \ (Loaded \cup VgaMode \cup VgaText \cup Excepted)
      BY <2>2 DEF Given, ConsoleFields, When
    <3>2. f \notin {"constants", "engine", "crtcOwner"} /\ f \in Fields
      BY DEF Given, Excepted
    <3>3. r[f] = hw[f]
      BY <1>2, <2>2, <3>2
    <3> QED BY <1>0, <3>1, <3>3 DEF KeptInv
  <2> QED BY <2>1, <2>2
<1>5. IsConsole(r)
  BY <1>4 DEF IsConsole
<1>6. r.backlight \in BOOLEAN
  BY <1>0, <1>3 DEF TypedHw
<1>7. TypedHw(r) /\ ~r.tmds /\ ~r.dpms
  BY <1>0, <1>2, <1>3, <1>5, <1>6, ConsoleTyped
<1> QED BY <1>3, <1>5, <1>7 DEF GivenBack, r

(* The console after NVRestore and the BIOS.                               *)
LEMMA BiosBack ==
    ASSUME IInv, phase \in {"x", "abort"}
    PROVE  GivenBack(BiosSet(NVRestore(hw), Text))
<1> DEFINE r == NVRestore(hw)
           b == BiosSet(r, Text)
<1>0. CardInv /\ TypedHw(hw) /\ KeptInv
  BY DEF IInv, HwInv
<1>1. DOMAIN hw = Fields
  BY <1>0 DEF TypedHw
<1>2. /\ DOMAIN r = Fields
      /\ \A f \in ConsoleFields : r[f] = SavedReg[f]
  BY <1>0, <1>1, RestoreFacts
<1>3. /\ \A f \in Loose : r[f] \in Values
      /\ r.crtcOwner \in {0, 1, 3} /\ r.backlight = hw.backlight
      /\ ~card.Primary => \A f \in VgaText : r[f] \in Values
  BY RestoreTyped
<1> HIDE DEF r
<1>4. BiosMade(r, Text, b)
  BY <1>2, BiosFacts
<1> HIDE DEF b
<1>5. ASSUME NEW f \in Given
      PROVE  b[f] = ConsoleHw(0)[f]
  <2>0. f \in Fields /\ f \notin Excepted /\ (f \in VgaText => card.Primary)
    BY DEF Given, When
  <2>1. CASE f \in {"dpms", "shown", "tmds"}
    <3>1. /\ ConsoleHw(0)["dpms"] = FALSE /\ ConsoleHw(0)["shown"] = FALSE
          /\ ConsoleHw(0)["tmds"] = FALSE
      BY DEF ConsoleHw
    <3>2. b["dpms"] = FALSE /\ b["shown"] = FALSE /\ b["tmds"] = FALSE
      BY <1>4 DEF BiosMade
    <3> QED BY <2>1, <3>1, <3>2, Zenon
  <2>2. CASE f = "crtcSync"
    BY <1>4, <2>2, ConsoleFacts DEF BiosMade
  <2>3. CASE f = "fifo"
    BY <1>4, <2>3, ConsoleFacts DEF BiosMade
  <2>4. CASE f \in VgaText
    <3>1. f \in ConsoleFields
      BY <2>0, <2>4 DEF ConsoleFields, When
    <3>2. b[f] = r[f]
      BY <1>4, <2>4 DEF BiosMade
    <3> QED BY <1>2, <3>1, <3>2, SavedIsConsole
  <2>5. CASE f \notin Special \cup VgaText
    <3>1. f \in Fields \ (Special \cup VgaText \cup {"constants", "engine", "displayV"})
      BY <2>0, <2>5 DEF Excepted
    <3>2. b[f] = Text
      BY <1>4, <3>1 DEF BiosMade
    <3> QED BY <3>1, <3>2, ConsoleFacts
  <2> QED BY <2>0, <2>1, <2>2, <2>3, <2>4, <2>5 DEF Special, Excepted
<1>6. IsConsole(b)
  BY <1>5 DEF IsConsole
<1>7a. ASSUME NEW f \in Loose
       PROVE  b[f] \in Values
  <2>1. CASE f \in {"constants", "engine", "displayV"}
    BY <1>3, <1>4, <2>1 DEF BiosMade
  <2>2. CASE f \notin {"constants", "engine", "displayV"}
    <3>1. f \in Fields \ (Special \cup VgaText \cup {"constants", "engine", "displayV"})
      BY <2>2 DEF Loose, Excepted, Fields, Special, VgaText
    <3> QED BY <1>4, <3>1 DEF BiosMade, Values
  <2> QED BY <2>1, <2>2
<1>7. /\ \A f \in Loose : b[f] \in Values
      /\ b.crtcOwner \in {0, 1, 3} /\ b.backlight = hw.backlight
      /\ ~card.Primary => \A f \in VgaText : b[f] \in Values
  BY <1>3, <1>4, <1>7a DEF BiosMade
<1>8. b.backlight \in BOOLEAN /\ DOMAIN b = Fields
  BY <1>0, <1>4, <1>7 DEF TypedHw, BiosMade
<1>9. TypedHw(b) /\ ~b.tmds /\ ~b.dpms
  BY <1>0, <1>6, <1>7, <1>8, ConsoleTyped
<1> QED BY <1>6, <1>7, <1>9 DEF GivenBack, b, r

(* The console after either way of giving it back.                         *)
LEMMA GiveBack ==
    ASSUME IInv, phase \in {"x", "abort"}, BackToConsole
    PROVE  /\ GivenBack(hw') /\ CurrentState' = "SavedReg"
           /\ DOMAIN ModeReg' = StateFields /\ locked' \in BOOLEAN
<1>1. card.VBEDualhead \in BOOLEAN /\ DOMAIN ModeReg = StateFields
  BY DEF IInv, CardInv, SavedInv
<1>2. GivenBack(hw')
  <2>1. CASE card.VBEDualhead
    BY <2>1, BiosBack DEF BackToConsole
  <2>2. CASE ~card.VBEDualhead
    BY <2>2, NativeBack DEF BackToConsole
  <2> QED BY <1>1, <2>1, <2>2
<1> QED BY <1>1, <1>2 DEF BackToConsole
-----------------------------------------------------------------------------
(* The parts of a step that several actions share. *)
LEMMA SameCard ==
    ASSUME UNCHANGED card
    PROVE  /\ Loaded' = Loaded /\ Unloaded' = Unloaded /\ Given' = Given
           /\ Two' = Two /\ Own' = Own /\ OwnerCode' = OwnerCode
BY DEF Loaded, Unloaded, Given, Two, Own, OwnerCode, Arch

(* The card stays what it is.                                              *)
LEMMA SameCardInv ==
    ASSUME CardInv, UNCHANGED card, phase # "off"
    PROVE  CardInv'
BY SameCard DEF CardInv

(* Selecting a head shows nothing else.                                    *)
LEMMA SelectedSame ==
    ASSUME IInv
    PROVE  /\ TypedHw(Selected(hw))
           /\ \A f \in Fields \ {"crtcOwner"} : Selected(hw)[f] = hw[f]
BY SelectedTyped, SelectedFacts DEF IInv, HwInv, TypedHw

(* Where the registers the driver does not write stand. *)
LEMMA Untouched ==
    ASSUME IInv, phase \in {"ready", "x", "away"}, ~card.VBEDualhead,
           NEW f \in Fields \ (Loaded \cup VgaMode \cup VgaText \cup Excepted)
    PROVE  hw[f] = ConsoleHw(0)[f]
<1>1. CASE phase = "x"
  BY <1>1 DEF IInv, KeptInv
<1>2. CASE phase \in {"ready", "away"}
  <2>1. f \in Given
    BY DEF Given, When
  <2> QED BY <1>2, <2>1 DEF IInv, HwInv, IsConsole
<1> QED BY <1>1, <1>2

(* The parts of the invariant that a mode set establishes. *)
ModeSetInv == HwInv /\ KeptInv /\ PowerInv /\ ShownInv /\ DOMAIN ModeReg = StateFields

(* A mode set through the registers, from whatever entry point.            *)
LEMMA NativeStep ==
    ASSUME IInv, NEW h, TypedHw(h), \A f \in Fields \ {"crtcOwner"} : h[f] = hw[f],
           NEW isLocked, NEW m \in Modes, NVModeInit(h, isLocked, m), UNCHANGED <<card, off>>,
           phase \in {"ready", "x", "away"}, phase' \in {"x", "abort"}
    PROVE  ModeSetInv'
<1>0. CardInv /\ TypedHw(hw) /\ PowerInv /\ DOMAIN h = Fields
  BY DEF IInv, HwInv, TypedHw
<1>1. ModeMade(h, m)
  BY <1>0, ModeInitFacts
<1> USE <1>1 DEF ModeMade
<1>2. TypedHw(hw')
  BY <1>0, ModeInitTyped
<1>3. /\ Loaded' = Loaded /\ Two' = Two /\ Own' = Own /\ OwnerCode' = OwnerCode
      /\ card' = card /\ off' = off
  BY SameCard
<1>4. h.tmds = hw.tmds /\ h.backlight = hw.backlight
  BY DEF Fields
<1>6. HwInv'
  BY <1>2 DEF HwInv
<1>7. KeptInv'
  <2> SUFFICES ASSUME ~card.VBEDualhead,
                      NEW f \in Fields \ (Loaded \cup VgaMode \cup VgaText \cup Excepted)
               PROVE  hw'[f] = ConsoleHw(0)[f]
    BY <1>3 DEF KeptInv
  <2>1. hw[f] = ConsoleHw(0)[f]
    BY Untouched
  <2>2. f \notin ModeFields \cup {"constants", "engine", "fonts", "start", "crtcOwner"}
    BY DEF ModeFields, VgaText, Excepted
  <2>3. h[f] = hw[f]
    BY <2>2
  <2> QED BY <1>1, <2>1, <2>2, <2>3
<1>8. hw'.backlight = hw.backlight
  <2>1. "backlight" \in Fields /\ "backlight" \notin ModeFields
    BY <1>0, LoadedFacts DEF Fields, ModeFields, VgaMode
  <2> QED BY <1>1, <1>4, <2>1
<1>9. PowerInv'
  BY <1>0, <1>1, <1>3, <1>4, <1>8 DEF PowerInv
<1>10. ShownInv'
  <2>1. \A f \in ((Loaded \cup VgaMode) \ Power) \ ReadBack : hw'[f] = m
    BY <1>1 DEF Plain, ModeFields
  <2> QED BY <1>1, <1>3, <2>1 DEF ShownInv
<1> QED BY <1>1, <1>6, <1>7, <1>9, <1>10 DEF ModeSetInv

(* A mode set through the BIOS, from whatever entry point.                 *)
LEMMA VBEStep ==
    ASSUME IInv, NEW h, TypedHw(h), \A f \in Fields \ {"crtcOwner"} : h[f] = hw[f],
           NEW m \in Modes, hw' = ScreenDrawn(EngineLoaded(BiosSet(h, m))), CurrentState' = "none",
           UNCHANGED <<card, off, ModeReg>>, card.VBEDualhead,
           phase' \in {"x", "abort"}
    PROVE  ModeSetInv'
<1>1. /\ TypedHw(hw') /\ hw'.engine = Driver /\ hw'.start = Driver
      /\ hw'.tmds = FALSE /\ hw'.dpms = FALSE
      /\ hw'.backlight = h.backlight
  BY VBEFacts
<1>2. h.backlight = hw.backlight
  BY DEF Fields
<1>3. HwInv'
  BY <1>1 DEF HwInv
<1>4. PowerInv'
  BY <1>1, <1>2 DEF PowerInv, IInv
<1>5. KeptInv' /\ ShownInv'
  BY <1>1 DEF KeptInv, ShownInv
<1> QED BY <1>3, <1>4, <1>5 DEF ModeSetInv, IInv, SavedInv

(* The console is given back, from whatever entry point.                   *)
LEMMA LeavingStep ==
    ASSUME IInv, phase \in {"x", "abort"}, BackToConsole, UNCHANGED <<card, SavedReg, off>>,
           phase' \in {"away", "ready", "dead"}
    PROVE  HwInv' /\ KeptInv' /\ SavedInv' /\ PowerInv' /\ ShownInv' /\ locked' \in BOOLEAN
           /\ CurrentState' = "SavedReg"
<1>1. /\ GivenBack(hw') /\ CurrentState' = "SavedReg"
      /\ DOMAIN ModeReg' = StateFields /\ locked' \in BOOLEAN
  BY GiveBack
<1>2. /\ Loaded' = Loaded /\ Unloaded' = Unloaded /\ Given' = Given /\ Own' = Own
      /\ card' = card /\ off' = off /\ SavedReg' = SavedReg
  BY SameCard
<1>3. CardInv
  BY DEF IInv
<1>4. HwInv'
  BY <1>1, <1>2 DEF HwInv, GivenBack, IsConsole
<1>5. PowerInv'
  BY <1>1, <1>2 DEF PowerInv, GivenBack, IInv
<1>6. KeptInv' /\ ShownInv'
  BY DEF KeptInv, ShownInv
<1>7. SavedInv'
  BY <1>1, <1>2 DEF SavedInv, IInv
<1> QED BY <1>1, <1>4, <1>5, <1>6, <1>7
-----------------------------------------------------------------------------
(* The steps of the server. *)
LEMMA InitInv == Init => IInv
<1> SUFFICES ASSUME Init PROVE IInv
  OBVIOUS
<1>1. PICK o \in {0, 3} : hw = ConsoleHw(o)
  BY DEF Init
<1>2. /\ DOMAIN hw = Fields
      /\ \A f \in Fields \ Special : hw[f] = Text
      /\ hw.crtcOwner = o /\ hw.crtcSync = 0
      /\ hw.fifo = Text
      /\ ~hw.dpms /\ ~hw.shown /\ ~hw.tmds /\ hw.backlight
      /\ \A f \in Fields \ {"crtcOwner"} : hw[f] = ConsoleHw(0)[f]
  BY <1>1, ConsoleFacts
<1>3. /\ hw.dpms \in BOOLEAN /\ hw.shown \in BOOLEAN
      /\ hw.tmds \in BOOLEAN /\ hw.backlight \in BOOLEAN
  BY <1>1 DEF ConsoleHw
<1>4. TypedHw(hw)
  BY <1>2, <1>3, ModesAssumption DEF TypedHw, Values
<1>5. CardInv
  BY DEF Init, NoCard, CardInv, Heads
<1>6. PhaseInv
  <2>1. failures \in 0..MaxFailures
    BY ModesAssumption DEF Init
  <2>2. /\ vtSema \in BOOLEAN /\ off \in BOOLEAN /\ locked \in BOOLEAN
        /\ ~vtSema /\ phase = "off" /\ CurrentState = "none" /\ mode \in Modes
    BY DEF Init
  <2> QED BY <2>1, <2>2 DEF PhaseInv
<1>7. HwInv
  BY <1>2, <1>4 DEF Init, HwInv
<1>8. KeptInv /\ ShownInv
  BY DEF Init, KeptInv, ShownInv
<1>9. PowerInv
  BY <1>2 DEF PowerInv
<1>10. SavedInv
  <2>1. /\ DOMAIN Cleared = StateFields
        /\ Cleared.displayV = 0 /\ Cleared.crtcOwner = 0
        /\ Cleared.cr47high = 0 /\ Cleared.otherVpll = 0
    BY StateFieldsFacts DEF Cleared, Fields
  <2> QED BY <2>1 DEF Init, SavedInv, Values, Driver
<1> QED BY <1>4, <1>5, <1>6, <1>7, <1>8, <1>9, <1>10 DEF IInv

(* The detection answers with a head that is there.                        *)
LEMMA OutputFacts ==
    ASSUME NEW id \in Chips, NEW out \in Outcomes[id]
    PROVE  out.FlatPanel \in BOOLEAN /\ out.CRTCnumber \in Heads
<1>1. PICK p \in Probes(id), kind \in Kinds \cup {"none"}, head \in Heads \cup {NoHead} :
          out = [chip |-> id, FlatPanel |-> Output(id, p, kind, head).kind = "dfp",
                 CRTCnumber |-> Output(id, p, kind, head).head]
  BY DEF Outcomes
<1>2. p.feeds \in [Heads -> Heads]
  BY DEF Probes
<1>3. Found(p).head \in Heads \cup {NoHead}
  BY <1>2 DEF Found, Heads
<1>4. Output(id, p, kind, head).head \in Heads
  BY <1>3 DEF Output, Heads, NoHead
<1> QED BY <1>1, <1>4

(* The tweaks are whole numbers.                                           *)
LEMMA TweaksAreInt == ASSUME NEW id PROVE Tweaks(id) \subseteq Int
BY ModesAssumption DEF Tweaks

(* Chips have numbers.                                                     *)
LEMMA ChipsAreNat == ASSUME NEW id \in Chips PROVE id \in Nat
BY ModesAssumption

(* The card is detected.                                                   *)
LEMMA CommonSetupStep == IInv /\ NVCommonSetup => IInv'
<1> SUFFICES ASSUME IInv, NVCommonSetup PROVE IInv'
  OBVIOUS
<1>0. CardInv /\ PhaseInv /\ HwInv /\ TypedHw(hw) /\ SavedInv /\ phase = "off" /\ ~off
  BY DEF IInv, HwInv, NVCommonSetup
<1>1. /\ locked' = FALSE /\ phase' = "ready"
      /\ UNCHANGED <<SavedReg, ModeReg, CurrentState, mode, vtSema, off, failures>>
  BY DEF NVCommonSetup
<1>2a. PICK id \in Chips : \E out \in Outcomes[id] :
        \E tweak \in IF out.FlatPanel THEN Tweaks(id) ELSE {0} :
        \E lvds, primary, hwCursor, vbe \in BOOLEAN :
          /\ lvds => out.FlatPanel /\ TwoHeads(id)
          /\ vbe => ~hwCursor
          /\ ~TwoHeads(id) => hw.crtcOwner = 0
          /\ card' = [chip |-> id, FlatPanel |-> out.FlatPanel, CRTCnumber |-> out.CRTCnumber,
                      tweak |-> tweak, LVDS |-> lvds, Primary |-> primary,
                      HWCursor |-> hwCursor, VBEDualhead |-> vbe]
          /\ hw' = [hw EXCEPT !.crtcOwner = IF IsNV11(id) THEN 3 * out.CRTCnumber ELSE @]
  BY Zenon DEF NVCommonSetup
<1>2b. PICK out \in Outcomes[id] :
        \E tweak \in IF out.FlatPanel THEN Tweaks(id) ELSE {0} :
        \E lvds, primary, hwCursor, vbe \in BOOLEAN :
          /\ vbe => ~hwCursor
          /\ card' = [chip |-> id, FlatPanel |-> out.FlatPanel, CRTCnumber |-> out.CRTCnumber,
                      tweak |-> tweak, LVDS |-> lvds, Primary |-> primary,
                      HWCursor |-> hwCursor, VBEDualhead |-> vbe]
          /\ hw' = [hw EXCEPT !.crtcOwner = IF IsNV11(id) THEN 3 * out.CRTCnumber ELSE @]
  BY <1>2a, ZenonT(90)
<1>2c. PICK tweak \in IF out.FlatPanel THEN Tweaks(id) ELSE {0} :
        \E lvds, primary, hwCursor, vbe \in BOOLEAN :
          /\ vbe => ~hwCursor
          /\ card' = [chip |-> id, FlatPanel |-> out.FlatPanel, CRTCnumber |-> out.CRTCnumber,
                      tweak |-> tweak, LVDS |-> lvds, Primary |-> primary,
                      HWCursor |-> hwCursor, VBEDualhead |-> vbe]
          /\ hw' = [hw EXCEPT !.crtcOwner = IF IsNV11(id) THEN 3 * out.CRTCnumber ELSE @]
  BY <1>2b, ZenonT(40)
<1>2. PICK lvds \in BOOLEAN, primary \in BOOLEAN, hwCursor \in BOOLEAN, vbe \in BOOLEAN :
          /\ vbe => ~hwCursor
          /\ card' = [chip |-> id, FlatPanel |-> out.FlatPanel, CRTCnumber |-> out.CRTCnumber,
                      tweak |-> tweak, LVDS |-> lvds, Primary |-> primary,
                      HWCursor |-> hwCursor, VBEDualhead |-> vbe]
          /\ hw' = [hw EXCEPT !.crtcOwner = IF IsNV11(id) THEN 3 * out.CRTCnumber ELSE @]
  BY <1>2c, Zenon
<1>3. out.FlatPanel \in BOOLEAN /\ out.CRTCnumber \in Heads /\ tweak \in Int
  BY OutputFacts, TweaksAreInt
<1>4. /\ card'.chip = id /\ card'.FlatPanel = out.FlatPanel
      /\ card'.CRTCnumber = out.CRTCnumber /\ card'.tweak = tweak
      /\ card'.LVDS = lvds /\ card'.Primary = primary
      /\ card'.HWCursor = hwCursor /\ card'.VBEDualhead = vbe
  BY <1>2
<1>5. CardInv'
  <2>1. id \in Nat
    BY ChipsAreNat
  <2> QED BY <1>2, <1>3, <1>4, <2>1 DEF CardInv
<1>6. /\ DOMAIN hw' = Fields
      /\ \A f \in Fields \ {"crtcOwner"} : hw'[f] = hw[f] /\ hw'[f] = ConsoleHw(0)[f]
      /\ hw'.crtcOwner \in {0, 1, 3}
  <2>1. DOMAIN hw = Fields /\ hw.crtcOwner \in {0, 1, 3}
        /\ \A f \in Fields \ {"crtcOwner"} : hw[f] = ConsoleHw(0)[f]
    BY <1>0 DEF TypedHw, HwInv
  <2>2. 3 * out.CRTCnumber \in {0, 3}
    BY <1>3 DEF Heads
  <2>3. "crtcOwner" \in Fields
    BY DEF Fields
  <2> QED BY <1>2, <2>1, <2>2, <2>3
<1>7. Special \ {"crtcOwner"} \subseteq Fields \ {"crtcOwner"}
      /\ Fields \ Special \subseteq Fields \ {"crtcOwner"}
  BY DEF Special, Fields
<1>8. TypedHw(hw')
  <2>1. \A f \in Special \ {"crtcOwner"} : hw'[f] = hw[f]
    BY <1>6, <1>7
  <2>2. \A f \in Fields \ Special : hw'[f] \in Values
    BY <1>0, <1>6, <1>7 DEF TypedHw
  <2>3. /\ hw'.dpms = hw.dpms /\ hw'.shown = hw.shown /\ hw'.tmds = hw.tmds
        /\ hw'.backlight = hw.backlight /\ hw'.crtcSync = hw.crtcSync /\ hw'.fifo = hw.fifo
    BY <2>1 DEF Special
  <2> QED BY <1>0, <1>6, <2>2, <2>3 DEF TypedHw
<1>9. /\ ~hw'.tmds /\ ~hw'.dpms /\ hw'.backlight
  <2>1. \A f \in Special \ {"crtcOwner"} : hw'[f] = ConsoleHw(0)[f]
    BY <1>6, <1>7
  <2>2. /\ ~ConsoleHw(0)["tmds"] /\ ~ConsoleHw(0)["dpms"] /\ ConsoleHw(0)["backlight"]
    BY DEF ConsoleHw
  <2> QED BY <2>1, <2>2 DEF Special
<1>10. HwInv'
  <2>2. IsConsole(hw)'
    BY <1>6 DEF IsConsole, Given, Excepted
  <2> QED BY <1>1, <1>8, <2>2 DEF HwInv
<1>11. PhaseInv'
  BY <1>0, <1>1 DEF PhaseInv
<1>12. KeptInv' /\ ShownInv'
  BY <1>1 DEF KeptInv, ShownInv
<1>13. SavedInv'
  BY <1>0, <1>1 DEF SavedInv
<1>14. PowerInv'
  BY <1>9 DEF PowerInv
<1> QED BY <1>5, <1>10, <1>11, <1>12, <1>13, <1>14 DEF IInv

(* NVSave: what of the console is kept. *)
LEMMA SaveFacts ==
    ASSUME IInv, phase = "ready", SavedReg' = NVSave(hw)
    PROVE  /\ DOMAIN SavedReg' = StateFields
           /\ SavedReg'.displayV = 0 /\ SavedReg'.cr47high = 0
           /\ SavedReg'.crtcOwner \in {0, 1, 3} /\ SavedReg'.otherVpll \in Values
           /\ \A f \in (Unloaded \cup VgaMode \cup When(card.Primary, VgaText)) \ Excepted :
                  SavedReg'[f] = ConsoleHw(0)[f]
<1> DEFINE s == Selected(hw)
           read == Unloaded \cup VgaMode \cup {"cmap"} \cup When(card.Primary, {"fonts"})
<1>0. CardInv /\ SavedInv /\ TypedHw(hw) /\ IsConsole(hw)
  BY DEF IInv, HwInv
<1>1. TypedHw(s) /\ \A f \in Fields \ {"crtcOwner"} : s[f] = hw[f]
  BY SelectedSame
<1> HIDE DEF s
<1>2. DOMAIN SavedReg' = StateFields
  BY DEF NVSave
<1>3. \A f \in read \ {"crtcOwner"} : f \in StateFields => SavedReg'[f] = s[f]
  BY DEF NVSave, s
<1>4. SavedReg'.displayV = 0 /\ SavedReg'.cr47high = 0
  <2>1. {"displayV", "cr47high"} \subseteq StateFields /\ {"displayV", "cr47high"} \cap read = {}
    BY <1>0, LoadedFacts, StateFieldsFacts DEF Fields, VgaMode, When
  <2>2. SavedReg'["displayV"] = SavedReg["displayV"]
    BY <2>1 DEF NVSave
  <2>3. SavedReg'["cr47high"] = SavedReg["cr47high"]
    BY <2>1 DEF NVSave
  <2> QED BY <1>0, <2>2, <2>3 DEF SavedInv
<1>7. SavedReg'.otherVpll \in Values
  <2>1. "otherVpll" \in StateFields
    BY StateFieldsFacts DEF Fields
  <2>2. \/ SavedReg'["otherVpll"] = s["otherVpll"]
        \/ SavedReg'["otherVpll"] = SavedReg["otherVpll"]
    BY <2>1 DEF NVSave, s
  <2>3. s["otherVpll"] \in Values
    BY <1>1 DEF TypedHw, Fields, Special
  <2> QED BY <1>0, <2>2, <2>3 DEF SavedInv
<1>5. SavedReg'.crtcOwner \in {0, 1, 3}
  <2>1. "crtcOwner" \in StateFields
    BY StateFieldsFacts DEF Fields
  <2>2. \/ SavedReg'["crtcOwner"] = card.CRTCnumber
        \/ SavedReg'["crtcOwner"] = s["crtcOwner"]
        \/ SavedReg'["crtcOwner"] = SavedReg["crtcOwner"]
    BY <2>1 DEF NVSave, s
  <2>3. card.CRTCnumber \in {0, 1}
    BY <1>0 DEF CardInv, Heads
  <2> QED BY <1>0, <1>1, <2>2, <2>3 DEF TypedHw, SavedInv
<1>6. ASSUME NEW f \in (Unloaded \cup VgaMode \cup When(card.Primary, VgaText)) \ Excepted
      PROVE  SavedReg'[f] = ConsoleHw(0)[f]
  <2>1. f \in StateFields /\ f \in Given
    BY <1>0, LoadedFacts, StateFieldsFacts
       DEF Fields, VgaMode, VgaText, When, Given, Excepted
  <2>2. f \in read
    BY DEF When, VgaText
  <2>3. f \in Fields
    BY <2>1 DEF Given
  <2>4. f # "crtcOwner"
    BY DEF Excepted
  <2>5. SavedReg'[f] = hw[f]
    BY <1>1, <1>3, <2>1, <2>2, <2>3, <2>4
  <2> QED BY <1>0, <2>1, <2>5 DEF IsConsole
<1> QED BY <1>2, <1>4, <1>5, <1>6, <1>7

(* ScreenInit fails when the console is saved already.                     *)
LEMMA InitFailsStep == IInv /\ ScreenInitFails => IInv'
<1> SUFFICES ASSUME IInv, ScreenInitFails PROVE IInv'
  OBVIOUS
<1>0. CardInv /\ PhaseInv /\ HwInv /\ SavedInv /\ PowerInv /\ phase = "ready"
  BY DEF IInv, ScreenInitFails
<1>1. /\ SavedReg' = NVSave(hw) /\ hw' = Selected(hw) /\ locked' = FALSE /\ phase' = "dead"
      /\ failures < MaxFailures /\ failures' = failures + 1
      /\ UNCHANGED <<card, ModeReg, CurrentState, mode, vtSema, off>>
  BY DEF ScreenInitFails, Fail
<1>2. /\ Given' = Given /\ Own' = Own
  BY <1>1, SameCard
<1>3. TypedHw(hw') /\ \A f \in Fields \ {"crtcOwner"} : hw'[f] = hw[f]
  BY <1>1, SelectedSame
<1>4. /\ hw'.tmds = hw.tmds /\ hw'.dpms = hw.dpms /\ hw'.backlight = hw.backlight
  BY <1>3 DEF Fields
<1>5. CardInv'
  BY <1>0, <1>1, SameCardInv
<1>6. PhaseInv'
  <2>1. failures' \in 0..MaxFailures
    BY <1>0, <1>1, ModesAssumption DEF PhaseInv
  <2>2. locked' \in BOOLEAN /\ vtSema' \in BOOLEAN /\ off' \in BOOLEAN
    BY <1>0, <1>1 DEF PhaseInv
  <2>3. CurrentState' = CurrentState /\ mode' = mode /\ vtSema' = vtSema
    BY <1>1
  <2> QED BY <1>0, <1>1, <2>1, <2>2, <2>3 DEF PhaseInv
<1>7. HwInv'
  <2>2. \A f \in Given : hw'[f] = ConsoleHw(0)[f]
    BY <1>0, <1>3 DEF HwInv, IsConsole, Given, Excepted
  <2> QED BY <1>1, <1>2, <1>3, <2>2 DEF HwInv, IsConsole
<1>8. KeptInv' /\ ShownInv'
  BY <1>1 DEF KeptInv, ShownInv
<1>9. PowerInv'
  BY <1>0, <1>1, <1>4 DEF PowerInv
<1>10. SavedInv'
  BY <1>0, <1>1, SaveFacts DEF SavedInv
<1> QED BY <1>5, <1>6, <1>7, <1>8, <1>9, <1>10 DEF IInv

(* NVScreenInit saves the console and sets the first mode.                 *)
LEMMA ScreenInitStep == IInv /\ NVScreenInit => IInv'
<1> SUFFICES ASSUME IInv, NVScreenInit PROVE IInv'
  OBVIOUS
<1>0. CardInv /\ PhaseInv /\ HwInv /\ SavedInv /\ phase = "ready" /\ mode \in Modes
  BY DEF IInv, NVScreenInit, PhaseInv
<1>1. /\ SavedReg' = NVSave(hw) /\ UNCHANGED <<card, off>>
      /\ phase' \in {"x", "abort"} /\ failures' \in 0..MaxFailures
  BY <1>0, ModesAssumption, SMTT(30) DEF NVScreenInit, Fail, PhaseInv
<1>2. TypedHw(Selected(hw)) /\ \A f \in Fields \ {"crtcOwner"} : Selected(hw)[f] = hw[f]
  BY SelectedSame
<1>3. ModeSetInv' /\ CurrentState' \in {"none", "ModeReg"} /\ mode' = mode
      /\ vtSema' = TRUE /\ locked' = FALSE
  <2>1. CASE card.VBEDualhead
    <3>1. /\ hw' = ScreenDrawn(EngineLoaded(BiosSet(Selected(hw), mode)))
          /\ CurrentState' = "none" /\ vtSema' = TRUE /\ locked' = FALSE
          /\ UNCHANGED <<ModeReg, mode>>
      BY <2>1 DEF NVScreenInit
    <3>2. ModeSetInv'
      BY <1>0, <1>1, <1>2, <2>1, <3>1, VBEStep
    <3> QED BY <3>1, <3>2
  <2>2. CASE ~card.VBEDualhead
    <3>1. NVModeInit(Selected(hw), FALSE, mode)
      BY <2>2 DEF NVScreenInit
    <3>2. ModeSetInv'
      BY <1>0, <1>1, <1>2, <3>1, NativeStep
    <3>3. /\ CurrentState' = "ModeReg" /\ locked' = FALSE /\ vtSema' = TRUE /\ mode' = mode
      BY <3>1 DEF NVModeInit
    <3> QED BY <3>2, <3>3
  <2> QED BY <2>1, <2>2
<1>4. CardInv'
  BY <1>0, <1>1, SameCardInv
<1>5. PhaseInv'
  <2>1. off' \in BOOLEAN /\ locked' \in BOOLEAN /\ vtSema' \in BOOLEAN
    BY <1>0, <1>1, <1>3 DEF PhaseInv
  <2> QED BY <1>0, <1>1, <1>3, <2>1 DEF PhaseInv
<1>6. SavedInv'
  <2>1. Unloaded' = Unloaded /\ card' = card
    BY <1>1, SameCard
  <2> QED BY <1>0, <1>1, <1>3, <2>1, SaveFacts DEF SavedInv, ModeSetInv
<1> QED BY <1>3, <1>4, <1>5, <1>6 DEF IInv, ModeSetInv

(* A mode set while the console is saved. *)
LEMMA ModeSetStep ==
    ASSUME IInv, ModeSetInv', UNCHANGED <<card, SavedReg, off>>,
           phase \in {"x", "away"}, phase' \in {"x", "abort"}, vtSema' = TRUE,
           mode' \in Modes, CurrentState' \in {"none", "ModeReg", "SavedReg"},
           locked' \in BOOLEAN, failures' \in 0..MaxFailures
    PROVE  IInv'
<1>0. CardInv /\ PhaseInv /\ SavedInv
  BY DEF IInv
<1>1. CardInv'
  BY <1>0, SameCardInv
<1>2. PhaseInv'
  BY <1>0 DEF PhaseInv
<1>3. SavedInv'
  <2>1. Unloaded' = Unloaded /\ card' = card
    BY SameCard
  <2> QED BY <1>0, <2>1 DEF SavedInv, ModeSetInv
<1> QED BY <1>1, <1>2, <1>3 DEF IInv, ModeSetInv

(* Failures are counted.                                                   *)
LEMMA FailFacts == IInv /\ Fail => failures' \in 0..MaxFailures
BY ModesAssumption DEF IInv, PhaseInv, Fail

(* NVSwitchMode.                                                           *)
LEMMA SwitchModeStep == IInv /\ NVSwitchMode => IInv'
<1> SUFFICES ASSUME IInv, NVSwitchMode PROVE IInv'
  OBVIOUS
<1>1. PICK m \in Modes : NVModeInit(hw, locked, m)
  BY DEF NVSwitchMode
<1>2. phase = "x" /\ phase' = "x" /\ UNCHANGED <<card, SavedReg, off, failures>>
  BY DEF NVSwitchMode
<1>3. TypedHw(hw) /\ failures \in 0..MaxFailures
  BY DEF IInv, HwInv, PhaseInv
<1>4. ModeSetInv'
  BY <1>1, <1>2, <1>3, NativeStep
<1>5. CurrentState' = "ModeReg" /\ locked' = FALSE /\ vtSema' = TRUE /\ mode' = m
  BY <1>1 DEF NVModeInit
<1> QED BY <1>2, <1>3, <1>4, <1>5, ModeSetStep

(* NVSwitchMode of a card driven through the BIOS, with its failure.       *)
LEMMA SwitchModeVBEStep == IInv /\ NVSwitchModeVBE => IInv'
<1> SUFFICES ASSUME IInv, NVSwitchModeVBE PROVE IInv'
  OBVIOUS
<1>1. phase = "x" /\ card.VBEDualhead /\ phase' = "x" /\ UNCHANGED <<card, SavedReg, off>>
  BY DEF NVSwitchModeVBE
<1>2. TypedHw(hw) /\ failures \in 0..MaxFailures /\ PhaseInv
  BY DEF IInv, HwInv, PhaseInv
<1>3. CASE (\E m \in Modes : NVSetModeVBE(hw, m)) /\ UNCHANGED failures
  <2>1. PICK m \in Modes : NVSetModeVBE(hw, m)
    BY <1>3
  <2>2. /\ hw' = ScreenDrawn(EngineLoaded(BiosSet(hw, m))) /\ CurrentState' = "none" /\ vtSema' = TRUE
        /\ mode' = m /\ UNCHANGED <<ModeReg, locked>>
    BY <2>1 DEF NVSetModeVBE
  <2>3. ModeSetInv'
    BY <1>1, <1>2, <2>2, VBEStep
  <2>4. locked' \in BOOLEAN
    BY <1>2, <2>2 DEF PhaseInv
  <2> QED BY <1>1, <1>2, <1>3, <2>2, <2>3, <2>4, ModeSetStep
<1>4. CASE Fail /\ UNCHANGED <<hw, CurrentState, vtSema, mode, ModeReg, locked>>
  <2>1. UNCHANGED <<card, hw, locked, SavedReg, ModeReg, CurrentState, mode, vtSema, phase, off>>
    BY <1>1, <1>4
  <2>2. Loaded' = Loaded /\ Unloaded' = Unloaded /\ Given' = Given /\ Two' = Two
        /\ Own' = Own /\ OwnerCode' = OwnerCode
    BY <2>1, SameCard
  <2>3. CardInv'
    BY <1>1, SameCardInv DEF IInv
  <2>4. HwInv'
    BY <2>1, <2>2 DEF IInv, HwInv, IsConsole
  <2>5. KeptInv' /\ ShownInv' /\ PowerInv' /\ SavedInv'
    BY <2>1, <2>2 DEF IInv, KeptInv, ShownInv, PowerInv, SavedInv
  <2>6. PhaseInv'
    BY <1>2, <1>4, <2>1, FailFacts DEF PhaseInv
  <2> QED BY <2>3, <2>4, <2>5, <2>6 DEF IInv
<1> QED BY <1>3, <1>4 DEF NVSwitchModeVBE
(* Nothing but the server's own state changes. *)
LEMMA CardStill ==
    ASSUME IInv, UNCHANGED <<card, hw, locked, SavedReg, ModeReg, CurrentState, mode, off>>,
           phase # "off", phase' # "off",
           phase' = "x" => phase = "x",
           phase' \in {"x", "abort"} /\ ~card.VBEDualhead => phase \in {"x", "abort"},
           phase' \in {"away", "ready", "dead"} => phase \in {"away", "ready", "dead"},
           phase' \in {"x", "away", "abort"} => phase \in {"x", "away", "abort"},
           PhaseInv'
    PROVE  IInv'
<1>1. Loaded' = Loaded /\ Unloaded' = Unloaded /\ Given' = Given /\ Two' = Two
      /\ Own' = Own /\ OwnerCode' = OwnerCode
  BY SameCard
<1>2. CardInv'
  BY SameCardInv DEF IInv
<1>3. HwInv'
  BY <1>1 DEF IInv, HwInv, IsConsole
<1>4. KeptInv' /\ ShownInv' /\ PowerInv' /\ SavedInv'
  BY <1>1 DEF IInv, KeptInv, ShownInv, PowerInv, SavedInv
<1> QED BY <1>2, <1>3, <1>4 DEF IInv

(* NVLeaveVT.                                                              *)
LEMMA LeaveVTStep == IInv /\ NVLeaveVT => IInv'
<1> SUFFICES ASSUME IInv, NVLeaveVT PROVE IInv'
  OBVIOUS
<1>1. /\ phase = "x" /\ BackToConsole /\ vtSema' = FALSE /\ phase' = "away"
      /\ UNCHANGED <<card, SavedReg, mode, off, failures>>
  BY DEF NVLeaveVT
<1>2. HwInv' /\ KeptInv' /\ SavedInv' /\ PowerInv' /\ ShownInv' /\ locked' \in BOOLEAN
      /\ CurrentState' = "SavedReg"
  BY <1>1, LeavingStep
<1>3. CardInv'
  BY <1>1, SameCardInv DEF IInv
<1>4. PhaseInv'
  BY <1>1, <1>2 DEF IInv, PhaseInv
<1> QED BY <1>2, <1>3, <1>4 DEF IInv

(* NVCloseScreen.                                                          *)
LEMMA CloseScreenStep == IInv /\ NVCloseScreen => IInv'
<1> SUFFICES ASSUME IInv, NVCloseScreen PROVE IInv'
  OBVIOUS
<1>1. /\ phase \in {"x", "away"} /\ vtSema' = FALSE /\ phase' \in {"ready", "dead"}
      /\ UNCHANGED <<card, SavedReg, mode, off, failures>>
  BY DEF NVCloseScreen
<1>2. PhaseInv
  BY DEF IInv
<1>3. CASE phase = "x"
  <2>1. BackToConsole
    BY <1>2, <1>3 DEF NVCloseScreen, PhaseInv
  <2>2. HwInv' /\ KeptInv' /\ SavedInv' /\ PowerInv' /\ ShownInv' /\ locked' \in BOOLEAN
        /\ CurrentState' = "SavedReg"
    BY <1>1, <1>3, <2>1, LeavingStep
  <2>3. CardInv'
    BY <1>1, SameCardInv DEF IInv
  <2>4. PhaseInv'
    BY <1>1, <1>2, <2>2 DEF PhaseInv
  <2> QED BY <2>2, <2>3, <2>4 DEF IInv
<1>4. CASE phase = "away"
  <2>1. UNCHANGED <<hw, locked, ModeReg, CurrentState>>
    BY <1>2, <1>4 DEF NVCloseScreen, PhaseInv
  <2>2. PhaseInv'
    BY <1>1, <1>2, <2>1 DEF PhaseInv
  <2> QED BY <1>1, <1>4, <2>1, <2>2, CardStill
<1> QED BY <1>1, <1>3, <1>4

(* The server aborts and gives the console back.                           *)
LEMMA AbortStep == IInv /\ AbortDDX => IInv'
<1> SUFFICES ASSUME IInv, AbortDDX PROVE IInv'
  OBVIOUS
<1>1. /\ phase = "abort" /\ phase' = "dead"
      /\ UNCHANGED <<card, SavedReg, mode, vtSema, off, failures>>
  BY DEF AbortDDX
<1>2. PhaseInv
  BY DEF IInv
<1>3. BackToConsole
  BY <1>1, <1>2 DEF AbortDDX, PhaseInv
<1>4. HwInv' /\ KeptInv' /\ SavedInv' /\ PowerInv' /\ ShownInv' /\ locked' \in BOOLEAN
      /\ CurrentState' = "SavedReg"
  BY <1>1, <1>3, LeavingStep
<1>5. CardInv'
  BY <1>1, SameCardInv DEF IInv
<1>6. PhaseInv'
  BY <1>1, <1>2, <1>4 DEF PhaseInv
<1> QED BY <1>4, <1>5, <1>6 DEF IInv

(* NVEnterVT.                                                              *)
LEMMA EnterVTStep == IInv /\ NVEnterVT => IInv'
<1> SUFFICES ASSUME IInv, NVEnterVT PROVE IInv'
  OBVIOUS
<1>1. /\ phase = "away" /\ phase' = "x" /\ NVModeInit(hw, locked, mode)
      /\ UNCHANGED <<card, SavedReg, off, failures>>
  BY DEF NVEnterVT
<1>2. TypedHw(hw) /\ failures \in 0..MaxFailures /\ mode \in Modes
  BY DEF IInv, HwInv, PhaseInv
<1>3. ModeSetInv'
  BY <1>1, <1>2, NativeStep
<1>4. CurrentState' = "ModeReg" /\ locked' = FALSE /\ vtSema' = TRUE /\ mode' = mode
  BY <1>1 DEF NVModeInit
<1> QED BY <1>1, <1>2, <1>3, <1>4, ModeSetStep

(* NVEnterVT of a card driven through the BIOS.                            *)
LEMMA EnterVTVBEStep == IInv /\ NVEnterVTVBE => IInv'
<1> SUFFICES ASSUME IInv, NVEnterVTVBE PROVE IInv'
  OBVIOUS
<1>1. phase = "away" /\ card.VBEDualhead /\ UNCHANGED <<card, SavedReg, off>>
  BY DEF NVEnterVTVBE
<1>2. TypedHw(hw) /\ failures \in 0..MaxFailures /\ PhaseInv /\ mode \in Modes
  BY DEF IInv, HwInv, PhaseInv
<1>3. CASE NVSetModeVBE(hw, mode) /\ phase' = "x" /\ UNCHANGED failures
  <2>1. /\ hw' = ScreenDrawn(EngineLoaded(BiosSet(hw, mode))) /\ CurrentState' = "none" /\ vtSema' = TRUE
        /\ mode' = mode /\ UNCHANGED <<ModeReg, locked>>
    BY <1>3 DEF NVSetModeVBE
  <2>2. ModeSetInv'
    BY <1>1, <1>2, <1>3, <2>1, VBEStep
  <2>3. locked' \in BOOLEAN
    BY <1>2, <2>1 DEF PhaseInv
  <2> QED BY <1>1, <1>2, <1>3, <2>1, <2>2, <2>3, ModeSetStep
<1>4. CASE Fail /\ vtSema' = TRUE /\ phase' = "abort"
           /\ UNCHANGED <<hw, CurrentState, mode, ModeReg, locked>>
  <2>1. vtSema' \in BOOLEAN /\ failures' \in 0..MaxFailures
    BY <1>4, FailFacts
  <2>2. PhaseInv'
    BY <1>1, <1>2, <1>4, <2>1 DEF PhaseInv
  <2> QED BY <1>1, <1>4, <2>2, CardStill
<1> QED BY <1>3, <1>4 DEF NVEnterVTVBE

(* What is written between mode sets. *)
Writable == Power \cup VgaText \cup {"cursor1", "engine", "backlight", "start", "otherVpll"}

(* A step that writes a few registers while the server has the screen, or  *)
(* another one has it: what it must leave alone.                           *)
LEMMA WritesStep ==
    ASSUME IInv, UNCHANGED <<card, locked, SavedReg, CurrentState, mode, vtSema, phase, failures>>,
           phase \in {"x", "away"}, off' \in BOOLEAN, TypedHw(hw'), PowerInv',
           DOMAIN ModeReg' = StateFields, ModeReg'.cursor1 = ModeReg.cursor1,
           ModeReg'.crtcSync = ModeReg.crtcSync, ModeReg'.fifo = ModeReg.fifo,
           phase = "x" => hw'.engine = hw.engine /\ hw'.start = hw.start,
           phase = "away" => hw'.shown = hw.shown /\ hw'.cursor1 = hw.cursor1
                             /\ hw'.dpms = hw.dpms /\ hw'.tmds = hw.tmds
                             /\ \A f \in VgaText : hw'[f] = hw[f],
           \A f \in Fields \ Writable :
              hw'[f] = hw[f],
           phase = "x" /\ CurrentState = "ModeReg" =>
              /\ hw'.cursor1 = mode
              /\ card.HWCursor => hw'.shown = ModeReg'.shown
    PROVE  IInv'
<1>1. Loaded' = Loaded /\ Unloaded' = Unloaded /\ Given' = Given /\ Two' = Two
      /\ Own' = Own /\ OwnerCode' = OwnerCode /\ card' = card
  BY SameCard
<1>2. CardInv /\ PhaseInv /\ HwInv /\ KeptInv /\ SavedInv /\ ShownInv /\ TypedHw(hw)
  BY DEF IInv, HwInv
<1>3. CardInv'
  BY <1>2, SameCardInv
<1>4. PhaseInv'
  BY <1>2 DEF PhaseInv
<1>5. hw'.crtcSync = hw.crtcSync /\ hw'.fifo = hw.fifo /\ hw'.crtcOwner = hw.crtcOwner
  BY DEF Fields, Writable, Power, VgaText
<1>6. HwInv'
  <2>2. phase = "away" => \A f \in Given : hw'[f] = hw[f]
    BY DEF Given, Excepted, Power, Writable
  <2>3. phase = "away" => \A f \in Given : hw'[f] = ConsoleHw(0)[f]
    BY <1>2, <2>2 DEF HwInv, IsConsole
  <2> QED BY <1>1, <2>3 DEF HwInv, IsConsole
<1>7. KeptInv'
  <2> SUFFICES ASSUME phase = "x", ~card.VBEDualhead,
                      NEW f \in Fields \ (Loaded \cup VgaMode \cup VgaText \cup Excepted)
               PROVE  hw'[f] = ConsoleHw(0)[f]
    BY <1>1 DEF KeptInv
  <2>1. hw[f] = ConsoleHw(0)[f]
    BY <1>2 DEF KeptInv
  <2>2. CASE f # "tmds"
    <3>1. f \in Fields \ Writable
      BY <1>2, <2>2, LoadedFacts DEF EveryChip, Power, Excepted, Writable
    <3> QED BY <2>1, <3>1
  <2>3. CASE f = "tmds"
    <3>1. ~card.FlatPanel
      BY <1>2, <2>3, LoadedFacts
    <3>2. ~hw'.tmds /\ ~hw.tmds
      BY <1>1, <3>1 DEF PowerInv, IInv
    <3>3. hw'.tmds \in BOOLEAN /\ hw.tmds \in BOOLEAN
      BY <1>2 DEF TypedHw
    <3>4. hw'["tmds"] = hw["tmds"]
      BY <3>2, <3>3
    <3> QED BY <2>1, <2>3, <3>4, Zenon
  <2> QED BY <2>2, <2>3
<1>8. SavedInv'
  BY <1>1, <1>2 DEF SavedInv
<1>9. ShownInv'
  <2> SUFFICES ASSUME phase = "x" PROVE ShownInv'
    BY DEF ShownInv
  <2>1. hw'.engine = Driver /\ hw'.start = Driver /\ CurrentState' \in {"none", "ModeReg"}
        /\ (~card.VBEDualhead => CurrentState' = "ModeReg")
    BY <1>2 DEF ShownInv
  <2>2. ASSUME CurrentState = "ModeReg",
               NEW f \in ((Loaded \cup VgaMode) \ Power) \ ReadBack
        PROVE  hw'[f] = mode
    <3>1. CASE f = "cursor1"
      BY <2>2, <3>1
    <3>2. CASE f # "cursor1"
      <4>1. f \in Fields \ Writable
        BY <1>2, <2>2, <3>2, LoadedFacts, StateFieldsFacts
           DEF VgaText, VgaMode, Fields, Writable, ReadBack
      <4>2. hw[f] = mode
        BY <1>2, <2>2 DEF ShownInv
      <4> QED BY <4>1, <4>2
    <3> QED BY <3>1, <3>2
  <2>3. CurrentState = "ModeReg" =>
           /\ ~locked
           /\ hw'.fifo = ModeReg'.fifo
           /\ card.FlatPanel => hw'.crtcSync = ModeReg'.crtcSync
           /\ Two => hw'.crtcOwner = OwnerCode
           /\ ModeReg'.cursor1 = mode
    BY <1>2, <1>5 DEF ShownInv
  <2> QED BY <1>1, <2>1, <2>2, <2>3 DEF ShownInv
<1> QED BY <1>3, <1>4, <1>6, <1>7, <1>8, <1>9 DEF IInv

(* Another owner of the terminal leaves the registers as they were, but    *)
(* for the engine and the start address.                                   *)
LEMMA OtherServerStep == IInv /\ OtherServer => IInv'
<1> SUFFICES ASSUME IInv, OtherServer PROVE IInv'
  OBVIOUS
<1>1. /\ phase = "away" /\ hw' = [hw EXCEPT !.engine = Text, !.start = Text]
      /\ UNCHANGED <<card, locked, SavedReg, ModeReg, CurrentState, mode, vtSema, phase,
                     off, failures>>
  BY DEF OtherServer
<1>2. TypedHw(hw) /\ PowerInv /\ PhaseInv /\ SavedInv
  BY DEF IInv, HwInv
<1>3. /\ DOMAIN hw' = Fields /\ hw'.engine = Text /\ hw'.start = Text
      /\ \A f \in Fields \ {"engine", "start"} : hw'[f] = hw[f]
  <2> DEFINE e == [hw EXCEPT !.engine = Text]
  <2>1. DOMAIN e = Fields /\ e.engine = Text /\ \A f \in Fields \ {"engine"} : e[f] = hw[f]
    BY <1>2 DEF TypedHw, Fields
  <2>2. hw' = [e EXCEPT !.start = Text]
    BY <1>1
  <2> HIDE DEF e
  <2> QED BY <2>1, <2>2 DEF Fields
<1>4. /\ hw'.dpms = hw.dpms /\ hw'.shown = hw.shown /\ hw'.tmds = hw.tmds
      /\ hw'.backlight = hw.backlight /\ hw'.crtcSync = hw.crtcSync /\ hw'.fifo = hw.fifo
      /\ hw'.crtcOwner = hw.crtcOwner /\ hw'.cursor1 = hw.cursor1
      /\ \A f \in VgaText : hw'[f] = hw[f]
  BY <1>3 DEF Fields, VgaText
<1>5. \A f \in Fields \ Special : hw'[f] \in Values
  BY <1>2, <1>3 DEF TypedHw, Values
<1>6. TypedHw(hw')
  BY <1>2, <1>3, <1>4, <1>5 DEF TypedHw
<1>7. PowerInv'
  BY <1>1, <1>2, <1>4 DEF PowerInv
<1>8. off' \in BOOLEAN /\ DOMAIN ModeReg' = StateFields
  BY <1>1, <1>2 DEF PhaseInv, SavedInv
<1>9. \A f \in Fields \ Writable : hw'[f] = hw[f]
  BY <1>3 DEF Writable
<1> QED BY <1>1, <1>4, <1>6, <1>7, <1>8, <1>9, WritesStep

(* The other head's driver sets a mode of its own.                         *)
LEMMA OtherDriverStep == IInv /\ OtherDriver => IInv'
<1> SUFFICES ASSUME IInv, OtherDriver PROVE IInv'
  OBVIOUS
<1>1. /\ phase \in {"ready", "x", "away"}
      /\ UNCHANGED <<card, locked, SavedReg, ModeReg, CurrentState, mode, vtSema, phase,
                     off, failures>>
  BY DEF OtherDriver
<1>2. TypedHw(hw) /\ PowerInv /\ PhaseInv /\ HwInv /\ KeptInv /\ ShownInv /\ CardInv
  BY DEF IInv, HwInv
<1>3. /\ DOMAIN hw' = Fields /\ hw'.otherVpll \in Values
      /\ \A f \in Fields \ {"otherVpll"} : hw'[f] = hw[f]
  <2>1. PICK m \in Modes : hw' = [hw EXCEPT !.otherVpll = m]
    BY DEF OtherDriver
  <2> QED BY <1>2, <2>1 DEF TypedHw, Fields, Values
<1>4. /\ hw'.dpms = hw.dpms /\ hw'.shown = hw.shown /\ hw'.tmds = hw.tmds
      /\ hw'.backlight = hw.backlight /\ hw'.crtcSync = hw.crtcSync /\ hw'.fifo = hw.fifo
      /\ hw'.crtcOwner = hw.crtcOwner /\ hw'.engine = hw.engine /\ hw'.start = hw.start
  BY <1>3 DEF Fields
<1>5. \A f \in Fields \ Special : hw'[f] \in Values
  BY <1>2, <1>3 DEF TypedHw
<1>6. TypedHw(hw')
  BY <1>2, <1>3, <1>4, <1>5 DEF TypedHw
<1>7. PowerInv'
  BY <1>1, <1>2, <1>4 DEF PowerInv
<1>8. Loaded' = Loaded /\ Unloaded' = Unloaded /\ Given' = Given /\ Two' = Two
      /\ OwnerCode' = OwnerCode /\ card' = card
  BY <1>1, SameCard
<1>9. HwInv'
  <2>1. \A f \in Given : hw'[f] = hw[f]
    BY <1>3 DEF Given, Excepted
  <2> QED BY <1>1, <1>2, <1>6, <1>8, <2>1 DEF HwInv, IsConsole
<1>10. KeptInv'
  <2>1. \A f \in Fields \ (Loaded \cup VgaMode \cup VgaText \cup Excepted) : hw'[f] = hw[f]
    BY <1>3 DEF Excepted
  <2> QED BY <1>1, <1>2, <1>8, <2>1 DEF KeptInv
<1>11. ShownInv'
  <2>1. \A f \in ((Loaded \cup VgaMode) \ Power) \ ReadBack : hw'[f] = hw[f]
    <3>1. Loaded \cup VgaMode \subseteq Fields
      BY <1>2, LoadedFacts, StateFieldsFacts DEF VgaMode, Fields
    <3> QED BY <1>3, <3>1 DEF ReadBack
  <2> QED BY <1>1, <1>2, <1>4, <1>8, <2>1 DEF ShownInv
<1>12. CardInv' /\ SavedInv' /\ PhaseInv'
  BY <1>1, <1>8 DEF IInv, CardInv, SavedInv, PhaseInv
<1> QED BY <1>7, <1>9, <1>10, <1>11, <1>12 DEF IInv

(* The palette.                                                            *)
LEMMA LoadPaletteStep == IInv /\ NVDACLoadPalette => IInv'
<1> SUFFICES ASSUME IInv, NVDACLoadPalette PROVE IInv'
  OBVIOUS
<1>1. /\ phase = "x" /\ hw' = [hw EXCEPT !.cmap = Driver]
      /\ UNCHANGED <<card, locked, SavedReg, ModeReg, CurrentState, mode, vtSema, phase,
                     off, failures>>
  BY DEF NVDACLoadPalette
<1>2. TypedHw(hw) /\ PowerInv /\ PhaseInv /\ SavedInv /\ ShownInv /\ CardInv
  BY DEF IInv, HwInv
<1>3. DOMAIN hw' = Fields /\ hw'.cmap = Driver /\ \A f \in Fields \ {"cmap"} : hw'[f] = hw[f]
  BY <1>1, <1>2 DEF TypedHw, Fields
<1>4. /\ hw'.dpms = hw.dpms /\ hw'.shown = hw.shown /\ hw'.tmds = hw.tmds
      /\ hw'.backlight = hw.backlight /\ hw'.crtcSync = hw.crtcSync /\ hw'.fifo = hw.fifo
      /\ hw'.crtcOwner = hw.crtcOwner /\ hw'.cursor1 = hw.cursor1 /\ hw'.engine = hw.engine
      /\ hw'.start = hw.start
  BY <1>3 DEF Fields
<1>5. \A f \in Fields \ Special : hw'[f] \in Values
  BY <1>2, <1>3 DEF TypedHw, Values
<1>6. TypedHw(hw')
  BY <1>2, <1>3, <1>4, <1>5 DEF TypedHw
<1>7. PowerInv'
  BY <1>1, <1>2, <1>4 DEF PowerInv
<1>8. off' \in BOOLEAN /\ DOMAIN ModeReg' = StateFields
  BY <1>1, <1>2 DEF PhaseInv, SavedInv
<1>9. \A f \in Fields \ Writable :
         hw'[f] = hw[f]
  BY <1>3 DEF VgaText, Writable
<1>10. CurrentState = "ModeReg" => hw.cursor1 = mode /\ (card.HWCursor => hw.shown = ModeReg.shown)
  <2>1. "cursor1" \in ((Loaded \cup VgaMode) \ Power) \ ReadBack
    BY <1>2, LoadedFacts DEF EveryChip, Power, ReadBack
  <2> QED BY <1>1, <1>2, <2>1 DEF ShownInv
<1> QED BY <1>1, <1>4, <1>6, <1>7, <1>8, <1>9, <1>10, WritesStep

(* The cursor, in the register and in its copy.                            *)
LEMMA ShowHideStep ==
    ASSUME IInv, NEW show \in BOOLEAN, NVShowHideCursor(show)
    PROVE  IInv'
<1>1. /\ phase = "x" /\ card.HWCursor
      /\ UNCHANGED <<card, locked, CurrentState, mode, vtSema, phase, off, failures>>
  BY DEF NVShowHideCursor
<1>2. TypedHw(hw) /\ PowerInv /\ PhaseInv /\ SavedInv /\ ShownInv /\ CardInv
  BY DEF IInv, HwInv
<1>3. CurrentState = "ModeReg" /\ ModeReg.cursor1 = mode
  BY <1>1, <1>2 DEF CardInv, ShownInv
<1>4. /\ ModeReg' = [ModeReg EXCEPT !.shown = show] /\ SavedReg' = SavedReg
      /\ hw' = [hw EXCEPT !.cursor1 = ModeReg.cursor1, !.shown = show]
  BY <1>3 DEF NVShowHideCursor
<1>5. /\ DOMAIN ModeReg' = StateFields /\ ModeReg'.cursor1 = ModeReg.cursor1
      /\ ModeReg'.crtcSync = ModeReg.crtcSync /\ ModeReg'.fifo = ModeReg.fifo
      /\ ModeReg'.shown = show
  BY <1>2, <1>4, StateFieldsFacts DEF SavedInv, Fields
<1>6. /\ DOMAIN hw' = Fields /\ hw'.cursor1 = mode /\ hw'.shown = show
      /\ \A f \in Fields \ {"cursor1", "shown"} : hw'[f] = hw[f]
  <2> DEFINE c == [hw EXCEPT !.cursor1 = ModeReg.cursor1]
  <2>1. DOMAIN c = Fields /\ c.cursor1 = mode /\ \A f \in Fields \ {"cursor1"} : c[f] = hw[f]
    BY <1>2, <1>3 DEF TypedHw, Fields
  <2>2. hw' = [c EXCEPT !.shown = show]
    BY <1>4
  <2> HIDE DEF c
  <2> QED BY <2>1, <2>2 DEF Fields
<1>7. /\ hw'.dpms = hw.dpms /\ hw'.tmds = hw.tmds
      /\ hw'.backlight = hw.backlight /\ hw'.crtcSync = hw.crtcSync /\ hw'.fifo = hw.fifo
      /\ hw'.crtcOwner = hw.crtcOwner /\ hw'.engine = hw.engine /\ hw'.start = hw.start
  BY <1>6 DEF Fields
<1>8. \A f \in Fields \ Special : hw'[f] \in Values
  <2> SUFFICES ASSUME NEW f \in Fields \ Special PROVE hw'[f] \in Values
    OBVIOUS
  <2>1. CASE f = "cursor1"
    BY <1>2, <1>6, <2>1 DEF PhaseInv, Values
  <2>2. CASE f # "cursor1"
    BY <1>2, <1>6, <2>2 DEF TypedHw, Special
  <2> QED BY <2>1, <2>2
<1>9. TypedHw(hw')
  BY <1>2, <1>6, <1>7, <1>8 DEF TypedHw
<1>10. PowerInv'
  BY <1>1, <1>2, <1>7 DEF PowerInv
<1>11. off' \in BOOLEAN
  BY <1>1, <1>2 DEF PhaseInv
<1>12. \A f \in Fields \ Writable :
         hw'[f] = hw[f]
  BY <1>6 DEF Power, Writable
<1> QED BY <1>1, <1>4, <1>5, <1>6, <1>7, <1>9, <1>10, <1>11, <1>12, WritesStep

(* DPMS, in the sequencer and on the panel.                                *)
LEMMA DPMSStep == IInv /\ DPMSSet => IInv'
<1> SUFFICES ASSUME IInv, DPMSSet PROVE IInv'
  OBVIOUS
<1>1. /\ phase = "x" /\ off' = ~off
      /\ UNCHANGED <<card, locked, SavedReg, ModeReg, CurrentState, mode, vtSema, phase,
                     failures>>
  BY DEF DPMSSet
<1>2. TypedHw(hw) /\ PowerInv /\ PhaseInv /\ SavedInv /\ ShownInv /\ CardInv
  BY DEF IInv, HwInv
<1>3. off \in BOOLEAN /\ off' \in BOOLEAN
  BY <1>1, <1>2 DEF PhaseInv
<1> DEFINE touched == {"dpms", "tmds", "backlight"}
<1>4. /\ DOMAIN hw' = Fields /\ \A f \in Fields \ touched : hw'[f] = hw[f]
      /\ hw'.dpms \in BOOLEAN /\ hw'.tmds \in BOOLEAN /\ hw'.backlight \in BOOLEAN
      /\ PowerInv'
  <2>0. DOMAIN hw = Fields /\ touched \subseteq Fields
        /\ hw.dpms \in BOOLEAN /\ hw.tmds \in BOOLEAN /\ hw.backlight \in BOOLEAN
    BY <1>2 DEF TypedHw, Fields
  <2>1. CASE ~card.FlatPanel
    <3>1. hw' = [hw EXCEPT !.dpms = off']
      BY <2>1 DEF DPMSSet
    <3>2. /\ DOMAIN hw' = Fields /\ hw'.dpms = off'
          /\ \A f \in Fields \ {"dpms"} : hw'[f] = hw[f]
      BY <2>0, <3>1
    <3>3. hw'.tmds = hw.tmds /\ hw'.backlight = hw.backlight
      BY <2>0, <3>2
    <3>4. PowerInv'
      BY <1>1, <1>2, <1>3, <2>0, <2>1, <3>2, <3>3 DEF PowerInv
    <3> QED BY <1>3, <2>0, <3>2, <3>3, <3>4
  <2>2. CASE card.FlatPanel /\ ~card.LVDS
    <3>1. hw' = [hw EXCEPT !.tmds = off']
      BY <2>2 DEF DPMSSet
    <3>2. /\ DOMAIN hw' = Fields /\ hw'.tmds = off'
          /\ \A f \in Fields \ {"tmds"} : hw'[f] = hw[f]
      BY <2>0, <3>1
    <3>3. hw'.dpms = hw.dpms /\ hw'.backlight = hw.backlight
      BY <2>0, <3>2
    <3>4. PowerInv'
      BY <1>1, <1>2, <1>3, <2>0, <2>2, <3>2, <3>3 DEF PowerInv
    <3> QED BY <1>3, <2>0, <3>2, <3>3, <3>4
  <2>3. CASE card.FlatPanel /\ card.LVDS /\ IsNV11(card.chip)
    <3>1. hw' = hw
      BY <2>3 DEF DPMSSet
    <3>2. ~hw.tmds /\ ~hw.dpms /\ hw.backlight
      BY <1>2, <2>0, <2>3 DEF PowerInv
    <3>3. PowerInv'
      BY <3>1, <3>2 DEF PowerInv
    <3> QED BY <2>0, <3>1, <3>3
  <2>4. CASE card.FlatPanel /\ card.LVDS /\ ~IsNV11(card.chip)
    <3>1. hw' = [hw EXCEPT !.backlight = ~off']
      BY <2>4 DEF DPMSSet
    <3>2. /\ DOMAIN hw' = Fields /\ hw'.backlight = ~off'
          /\ \A f \in Fields \ {"backlight"} : hw'[f] = hw[f]
      BY <2>0, <3>1
    <3>3. hw'.dpms = hw.dpms /\ hw'.tmds = hw.tmds
      BY <2>0, <3>2
    <3>4. PowerInv'
      BY <1>1, <1>2, <1>3, <2>0, <2>4, <3>2, <3>3 DEF PowerInv
    <3> QED BY <1>3, <2>0, <3>2, <3>3, <3>4
  <2> QED BY <2>1, <2>2, <2>3, <2>4
<1>5. /\ hw'.shown = hw.shown /\ hw'.crtcSync = hw.crtcSync /\ hw'.fifo = hw.fifo
      /\ hw'.crtcOwner = hw.crtcOwner /\ hw'.cursor1 = hw.cursor1 /\ hw'.engine = hw.engine
      /\ hw'.start = hw.start
  BY <1>4 DEF Fields
<1>6. \A f \in Fields \ Special : hw'[f] \in Values
  BY <1>2, <1>4 DEF TypedHw, Special
<1>7. TypedHw(hw')
  BY <1>2, <1>4, <1>5, <1>6 DEF TypedHw
<1>8. DOMAIN ModeReg' = StateFields
  BY <1>1, <1>2 DEF SavedInv
<1>9. \A f \in Fields \ Writable :
         hw'[f] = hw[f]
  BY <1>4 DEF Power, Writable
<1>10. CurrentState = "ModeReg" => hw.cursor1 = mode /\ (card.HWCursor => hw.shown = ModeReg.shown)
  <2>1. "cursor1" \in ((Loaded \cup VgaMode) \ Power) \ ReadBack
    BY <1>2, LoadedFacts DEF EveryChip, Power, ReadBack
  <2> QED BY <1>1, <1>2, <2>1 DEF ShownInv
<1> QED BY <1>1, <1>3, <1>4, <1>5, <1>7, <1>8, <1>9, <1>10, WritesStep

(* Nothing changes.                                                        *)
LEMMA StutterStep == IInv /\ UNCHANGED vars => IInv'
<1> SUFFICES ASSUME IInv, UNCHANGED vars PROVE IInv'
  OBVIOUS
<1>1. UNCHANGED <<card, hw, locked, SavedReg, ModeReg, CurrentState, mode, vtSema, phase, off,
                  failures>>
  BY DEF vars
<1>2. Loaded' = Loaded /\ Unloaded' = Unloaded /\ Given' = Given /\ Two' = Two
      /\ Own' = Own /\ OwnerCode' = OwnerCode
  BY <1>1, SameCard
<1>3. HwInv'
  BY <1>1, <1>2 DEF IInv, HwInv, IsConsole
<1>4. CardInv'
  BY <1>1, <1>2 DEF IInv, CardInv
<1>5. KeptInv' /\ ShownInv' /\ PowerInv' /\ SavedInv' /\ PhaseInv'
  BY <1>1, <1>2 DEF IInv, KeptInv, ShownInv, PowerInv, SavedInv, PhaseInv
<1> QED BY <1>3, <1>4, <1>5 DEF IInv

-----------------------------------------------------------------------------
(* The invariant holds in every behaviour: of the registers and of the     *)
(* records the driver keeps of them, of any chips and any modes.           *)
THEOREM Inductive == Spec => []IInv
<1>1. IInv /\ [Next]_vars => IInv'
  <2> SUFFICES ASSUME IInv, [Next]_vars PROVE IInv'
    OBVIOUS
  <2>1. CASE NVCommonSetup
    BY <2>1, CommonSetupStep
  <2>2. CASE ScreenInitFails
    BY <2>2, InitFailsStep
  <2>3. CASE NVScreenInit
    BY <2>3, ScreenInitStep
  <2>4. CASE NVSwitchMode
    BY <2>4, SwitchModeStep
  <2>5. CASE NVSwitchModeVBE
    BY <2>5, SwitchModeVBEStep
  <2>6. CASE NVLeaveVT
    BY <2>6, LeaveVTStep
  <2>7. CASE OtherServer
    BY <2>7, OtherServerStep
  <2>8. CASE NVEnterVT
    BY <2>8, EnterVTStep
  <2>9. CASE NVEnterVTVBE
    BY <2>9, EnterVTVBEStep
  <2>10. CASE NVCloseScreen
    BY <2>10, CloseScreenStep
  <2>11. CASE AbortDDX
    BY <2>11, AbortStep
  <2>12. CASE \E show \in BOOLEAN : NVShowHideCursor(show)
    BY <2>12, ShowHideStep
  <2>13. CASE NVDACLoadPalette
    BY <2>13, LoadPaletteStep
  <2>14. CASE DPMSSet
    BY <2>14, DPMSStep
  <2>15. CASE UNCHANGED vars
    BY <2>15, StutterStep
  <2>16. CASE OtherDriver
    BY <2>16, OtherDriverStep
  <2> QED BY <2>1, <2>2, <2>3, <2>4, <2>5, <2>6, <2>7, <2>8, <2>9, <2>10, <2>11, <2>12,
             <2>13, <2>14, <2>15, <2>16 DEF Next
<1> QED BY InitInv, <1>1, PTL DEF Spec

(* The registers, the records and the server's phase have their types.     *)
THEOREM TypeCorrect == Spec => []TypeOK
<1>1. IInv => TypeOK
  <2> SUFFICES ASSUME IInv PROVE TypeOK
    OBVIOUS
  <2>1. TypedHw(hw) /\ CardInv /\ PhaseInv /\ SavedInv
    BY DEF IInv, HwInv
  <2>2. ASSUME NEW f \in DOMAIN hw
        PROVE  CASE f \in {"dpms", "shown", "tmds", "backlight"} -> hw[f] \in BOOLEAN
                 [] f = "crtcSync" -> hw[f] \in -MaxTweaks..MaxTweaks
                 [] f = "fifo" -> hw[f] \in {Text, Driver, Unknown} \cup Modes
                 [] f = "crtcOwner" -> hw[f] \in {0, 1, 3}
                 [] OTHER -> hw[f] \in Values
    <3>1. CASE f \notin Special
      BY <2>1, <3>1 DEF TypedHw, Special, Values
    <3>2. CASE f \in Special
      BY <2>1, <3>2 DEF TypedHw, Special, Values
    <3> QED BY <3>1, <3>2
  <2> QED BY <2>1, <2>2 DEF CardInv, PhaseInv, SavedInv, TypeOK, Values
<1> QED BY Inductive, <1>1, PTL

(* Whenever the server has left the terminal the console finds in every    *)
(* register the driver keeps a copy of what it had left there.             *)
THEOREM ConsoleBack == Spec => []ConsoleRestored
<1>1. IInv => ConsoleRestored
  <2>1. IInv => DOMAIN hw = Fields
    BY DEF IInv, HwInv, TypedHw
  <2> QED BY <2>1 DEF IInv, HwInv, IsConsole, Given, ConsoleRestored
<1> QED BY Inductive, <1>1, PTL

(* Every register of a mode set holds it or what was worked out for it,    *)
(* the start address is the driver's, and the picture is on.               *)
THEOREM ModeProgrammed == Spec => []ModeIsProgrammed
<1>1. IInv => ModeIsProgrammed
  <2> SUFFICES ASSUME IInv PROVE ModeIsProgrammed
    OBVIOUS
  <2>2. ~off => hw.backlight /\ (IF card.FlatPanel THEN ~hw.tmds ELSE ~hw.dpms)
    BY DEF IInv, HwInv, PowerInv, TypedHw
  <2> QED BY <2>2 DEF IInv, ShownInv, ModeIsProgrammed
<1> QED BY Inductive, <1>1, PTL

(* Where the other head has a driver of its own nothing but that driver    *)
(* changes its clock, until the console is given back.                     *)
THEOREM OtherClock == Spec => OtherClockKept
<1> DEFINE kept == hw'.otherVpll = hw.otherVpll
           restored == /\ phase' \in {"away", "ready", "dead"}
                       /\ hw'.otherVpll = SavedReg.otherVpll
           step == phase # "off" /\ ~card.VBEDualhead /\ ~kept => OtherDriver \/ restored
<1>1. IInv /\ [Next]_vars => [step]_vars
  <2> SUFFICES ASSUME IInv, Next, phase # "off", ~card.VBEDualhead
               PROVE  OtherDriver \/ kept \/ restored
    BY DEF vars
  <2>1. /\ CardInv /\ TypedHw(hw) /\ DOMAIN hw = Fields /\ "otherVpll" \in Fields
        /\ PhaseInv
    BY DEF IInv, HwInv, TypedHw, Fields
  <2>2. ASSUME NEW h, DOMAIN h = Fields, \A f \in Fields \ {"crtcOwner"} : h[f] = hw[f],
               NEW isLocked, NEW m, NVModeInit(h, isLocked, m)
        PROVE  kept
    BY <2>1, <2>2, ModeInitFacts DEF ModeMade
  <2>3. ASSUME BackToConsole, phase' \in {"away", "ready", "dead"}
        PROVE  kept \/ restored
    <3>1. hw' = NVRestore(hw)
      BY <2>3 DEF BackToConsole
    <3>2. /\ \A f \in ConsoleFields : hw'[f] = SavedReg[f]
          /\ \A f \in Fields : f \notin ConsoleFields \cup {"constants", "engine", "crtcOwner"} =>
                 hw'[f] = hw[f]
      BY <2>1, <3>1, RestoreFacts
    <3>3. CASE "otherVpll" \in ConsoleFields
      BY <2>3, <3>2, <3>3
    <3>4. CASE "otherVpll" \notin ConsoleFields
      <4>1. "otherVpll" \notin ConsoleFields \cup {"constants", "engine", "crtcOwner"}
        BY <3>4
      <4> QED BY <2>1, <3>2, <4>1
    <3> QED BY <3>3, <3>4
  <2>4. ASSUME NVCommonSetup
        PROVE  kept
    BY <2>4 DEF NVCommonSetup
  <2>5. CASE ScreenInitFails
    BY <2>1, <2>5, SelectedFacts DEF ScreenInitFails
  <2>6. CASE NVScreenInit
    <3>1. DOMAIN Selected(hw) = Fields /\ \A f \in Fields \ {"crtcOwner"} : Selected(hw)[f] = hw[f]
      BY <2>1, SelectedFacts
    <3>2. NVModeInit(Selected(hw), FALSE, mode)
      BY <2>6 DEF NVScreenInit
    <3> QED BY <2>2, <3>1, <3>2
  <2>7. CASE NVSwitchMode
    <3>1. PICK m \in Modes : NVModeInit(hw, locked, m)
      BY <2>7 DEF NVSwitchMode
    <3> QED BY <2>1, <2>2, <3>1
  <2>8. CASE NVEnterVT
    <3>1. NVModeInit(hw, locked, mode)
      BY <2>8 DEF NVEnterVT
    <3> QED BY <2>1, <2>2, <3>1
  <2>9. CASE NVSwitchModeVBE \/ NVEnterVTVBE
    BY <2>9 DEF NVSwitchModeVBE, NVEnterVTVBE
  <2>10. CASE NVLeaveVT
    BY <2>3, <2>10 DEF NVLeaveVT
  <2>11. CASE NVCloseScreen
    BY <2>3, <2>11 DEF NVCloseScreen
  <2>12. CASE AbortDDX
    BY <2>3, <2>12 DEF AbortDDX
  <2>13. CASE OtherServer
    BY <2>1, <2>13 DEF OtherServer
  <2>14. CASE \E show \in BOOLEAN : NVShowHideCursor(show)
    BY <2>1, <2>14 DEF NVShowHideCursor
  <2>15. CASE NVDACLoadPalette
    BY <2>1, <2>15 DEF NVDACLoadPalette
  <2>16. CASE DPMSSet
    BY <2>1, <2>16 DEF DPMSSet
  <2> QED BY <2>4, <2>5, <2>6, <2>7, <2>8, <2>9, <2>10, <2>11, <2>12, <2>13, <2>14, <2>15,
             <2>16 DEF Next
<1>2. IInv /\ [Next]_vars => [phase # "off" /\ ~card.VBEDualhead /\ hw'.otherVpll # hw.otherVpll =>
         \/ OtherDriver
         \/ phase' \in {"away", "ready", "dead"} /\ hw'.otherVpll = SavedReg.otherVpll]_vars
  BY <1>1
<1> QED BY Inductive, <1>2, PTL DEF Spec, OtherClockKept

(* The copy the cursor is shown and hidden through is that of the mode and *)
(* agrees with the register.                                               *)
THEOREM CursorCopy == Spec => []CursorShadow
<1>1. IInv => CursorShadow
  <2> SUFFICES ASSUME IInv, phase = "x", card.HWCursor
               PROVE  /\ CurrentState = "ModeReg"
                      /\ hw.cursor1 = ModeReg.cursor1 /\ hw.shown = ModeReg.shown
    BY DEF CursorShadow
  <2>1. CardInv /\ ShownInv
    BY DEF IInv
  <2>2. CurrentState = "ModeReg"
    BY <2>1 DEF CardInv, ShownInv
  <2>3. "cursor1" \in ((Loaded \cup VgaMode) \ Power) \ ReadBack
    BY <2>1, LoadedFacts DEF EveryChip, Power, ReadBack
  <2> QED BY <2>1, <2>2, <2>3 DEF ShownInv
<1> QED BY Inductive, <1>1, PTL

(* When the server has the terminal the engine has the driver's tables,    *)
(* and on every chip they fit the handles the driver uses.                 *)
THEOREM EngineRight == Spec => []EngineReady
<1>1. IInv => EngineReady
  BY EngineTables DEF IInv, ShownInv, EngineReady
<1> QED BY Inductive, <1>1, PTL
=============================================================================
