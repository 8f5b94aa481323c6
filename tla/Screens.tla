------------------------------- MODULE Screens -------------------------------
(***************************************************************************)
(* The life of a screen under the three drivers of this module, NV, Riva   *)
(* (for the RIVA 128) and G80: the probe that chooses one, PreInit, which  *)
(* runs once, ScreenInit and CloseScreen, which run in every generation of *)
(* the server, and what has to survive from one to the other.              *)
(*                                                                         *)
(* A pointer of the driver's record is null, live, or freed but still set. *)
(***************************************************************************)
EXTENDS NVChip, NVShadow, FiniteSets

CONSTANTS Devices,          \* PCI ids; \h0018 is the RIVA 128, of vendor SGS
          Depths,           \* bits per pixel
          MaxGenerations,   \* bound: generations of the server
          MaxLosses,        \* bound: allocations that fail in one ScreenInit
          MaxMissing        \* bound: modules that cannot be loaded

ASSUME ScreensAssumption ==
    /\ Depths \subseteq {8, 16, 32}
    /\ MaxGenerations \in Nat /\ MaxLosses \in Nat /\ MaxMissing \in Nat

VARIABLES
    stage,      \* how far the server is with this screen
    driver,     \* the driver whose functions the screen has
    device, bpp,
    set,        \* the flags of the driver's record
    mods,       \* sub-modules loaded
    used,       \* sub-modules whose functions the last ScreenInit called
    held,       \* of the record and the int10 handle, those that exist
    ptr,        \* the pointers of the record
    lost,       \* those whose allocation failed in this generation
    shadow,     \* pitch and rows of the shadow, and pNv->Rotate when it was made
    pointer,    \* who handles pointer moves: the server or the driver
    vt,         \* vtSema; its changes are followed for the G80 only
    engine,     \* the G80's engine: as set up, or as others left it
    generation

vars == <<stage, driver, device, bpp, set, mods, used, held, ptr, lost, shadow, pointer,
          vt, engine, generation>>

SubModules == {"int10", "vgahw", "fbdevhw", "vbe", "i2c", "ddc", "fb", "xaa", "exa",
               "ramdac", "shadowfb"}

Pointers == {"FbBase", "AccelInfoRec", "CursorInfoRec", "ShadowPtr", "DGAModes",
             "overlayAdaptor", "blitAdaptor", "expandBuffer",       \* NV and Riva
             "reg", "mem", "xaa", "exa", "exaScreenArea"}           \* G80

NoFlags == [NoAccel |-> FALSE, ShadowFB |-> FALSE, HWCursor |-> FALSE, FBDev |-> FALSE,
            Rotate |-> 0, RandRRotation |-> FALSE, VBEDualhead |-> FALSE, EXA |-> FALSE]

NoShadow == [pitch |-> 0, rows |-> 0, turned |-> 0]

Missing == {m \in SUBSET SubModules : Cardinality(m) <= MaxMissing}

Init == /\ stage = "found" /\ driver = "none"
        /\ device \in Devices /\ bpp \in Depths
        /\ set = NoFlags
        /\ mods = {} /\ used = {} /\ held = {}
        /\ ptr = [p \in Pointers |-> "null"]
        /\ lost = {} /\ shadow = NoShadow /\ pointer = "server"
        /\ vt = FALSE /\ engine = "others" /\ generation = 0

-----------------------------------------------------------------------------
(* Which driver takes a device.                                            *)

RivaDevice == \h0018

(* The families NVKnownChipsets names.                                     *)
NVKnownChipsets ==
    {\h0020, \h0040, \h0090, \h00A0, \h00C0, \h0100, \h0110, \h0140, \h0150, \h0160,
     \h0170, \h0180, \h0190, \h01A0, \h01D0, \h01F0, \h0200, \h0210, \h0220, \h0240,
     \h0250, \h0280, \h0290, \h0300, \h0310, \h0320, \h0330, \h0340, \h0390, \h03D0,
     \h0400, \h0410, \h0420, \h0530, \h05E0, \h05F0, \h0600, \h0610, \h0620, \h0630,
     \h0640, \h0650, \h06E0, \h06F0, \h0840, \h0860, \h0870, \h0A20, \h0A30, \h0A60,
     \h0A70, \h0CA0, \h0CB0}

NVIsG80(id) ==
    Implementation(id) \in
        {\h0190, \h0400, \h0420, \h05E0, \h05F0, \h0600, \h0610, \h0620, \h0630, \h0640,
         \h0650, \h06E0, \h06F0, \h0840, \h0850, \h0860, \h0870, \h0A20, \h0A30, \h0A60,
         \h0A70, \h0CA0, \h0CB0}

NVIsSupported(id) ==
    Implementation(id) \in
        {\h0040, \h0090, \h00C0, \h0120, \h0140, \h0160, \h0170, \h0180, \h01D0, \h0210,
         \h0220, \h0240, \h0250, \h0280, \h0290, \h0300, \h0310, \h0320, \h0330, \h0340,
         \h0390, \h03D0, \h0530}

(* Behind a PCI Express bridge the id is read from the chip itself.        *)
Bridged(id) == Implementation(id) \in {\h00F0, \h02E0}

NVGetPCIXpressChip == {\h0040, \h0140, \h0290}

(* A device that a kernel driver has claimed, or none of the three drivers *)
(* know, is left alone: the screen is never made.                          *)
NVPciProbe ==
    /\ stage = "found"
    /\ \E id \in IF Bridged(device) THEN NVGetPCIXpressChip ELSE {device} :
          /\ \/ id = RivaDevice
             \/ Implementation(id) \in NVKnownChipsets \/ NVIsSupported(id) \/ NVIsG80(id)
          /\ device' = id
          /\ driver' = IF NVIsG80(id) THEN "G80" ELSE IF id = RivaDevice THEN "Riva" ELSE "NV"
    /\ stage' = "probed"
    /\ UNCHANGED <<bpp, set, mods, used, held, ptr, lost, shadow, pointer, vt, engine,
                   generation>>

-----------------------------------------------------------------------------
(* PreInit.  The options of the configuration file that it looks at; the   *)
(* G80 has HWCursor off for SWCursor, and AccelMethod for EXA.             *)

Options == [NoAccel : BOOLEAN, ShadowFB : BOOLEAN, SWCursor : BOOLEAN, UseFBDev : BOOLEAN,
            Rotate : {"none", "CW", "CCW", "RandR"}, DualHead : BOOLEAN, EXA : BOOLEAN]

NVFlags(o) ==
    LET turns == o.Rotate # "none"
        dual == o.DualHead /\ ~o.UseFBDev
    IN  [NoFlags EXCEPT
            !.NoAccel = o.NoAccel \/ o.ShadowFB \/ turns,
            !.ShadowFB = o.ShadowFB \/ turns,
            !.HWCursor = ~o.SWCursor /\ ~turns /\ ~dual,
            !.FBDev = o.UseFBDev,
            !.Rotate = CASE o.Rotate = "CW" -> 1 [] o.Rotate = "CCW" -> -1 [] OTHER -> 0,
            !.RandRRotation = o.Rotate = "RandR",
            !.VBEDualhead = dual]

RivaFlags(o) == NVFlags([o EXCEPT !.Rotate = IF @ = "RandR" THEN "none" ELSE @,
                                  !.DualHead = FALSE])

G80Flags(o) == [NoFlags EXCEPT !.NoAccel = o.NoAccel, !.HWCursor = ~o.SWCursor,
                               !.EXA = o.EXA]

(* Without XAA the screen is drawn by the CPU in a shadow.                 *)
WithoutXAA(f, missing) ==
    IF ~f.NoAccel /\ "xaa" \in missing
    THEN [f EXCEPT !.NoAccel = TRUE, !.ShadowFB = TRUE] ELSE f

(* Mistake: the modules are chosen before XAA is found missing.          *)
NVLoads_BeforeFallback(f, missing) ==
    {"int10", "vgahw", "i2c", "ddc", "fb"}
    \cup (IF f.FBDev THEN {"fbdevhw"} ELSE {})
    \cup (IF f.VBEDualhead THEN {"vbe"} ELSE {})
    \cup (IF f.NoAccel THEN {} ELSE {"xaa"})
    \cup (IF f.HWCursor THEN {"ramdac"} ELSE {})
    \cup (IF f.ShadowFB THEN {"shadowfb"} ELSE {})

NVLoads(f, missing) ==
    {"int10", "vgahw", "i2c", "ddc", "fb"}
    \cup (IF f.FBDev THEN {"fbdevhw"} ELSE {})
    \cup (IF f.VBEDualhead THEN {"vbe"} ELSE {})
    \cup (IF f.NoAccel THEN {} ELSE {"xaa"})
    \cup (IF f.HWCursor THEN {"ramdac"} ELSE {})
    \cup (IF WithoutXAA(f, missing).ShadowFB THEN {"shadowfb"} ELSE {})

(* Modules NV and Riva do without.                                         *)
Optional == {"i2c", "ddc", "xaa"}

NVPreInit ==
    /\ stage = "probed" /\ driver = "NV"
    /\ \E o \in Options, missing \in Missing :
          /\ ~o.EXA
          /\ LET f == NVFlags(o)
                 loads == NVLoads(f, missing)
             IN  /\ loads \cap missing \subseteq Optional
                 /\ set' = WithoutXAA(f, missing)
                 /\ mods' = loads \ missing
    /\ held' = {"rec"}          \* pInt has been freed and cleared
    /\ stage' = "ready"
    /\ UNCHANGED <<driver, device, bpp, used, ptr, lost, shadow, pointer, vt, engine,
                   generation>>

RivaPreInit ==
    /\ stage = "probed" /\ driver = "Riva"
    /\ \E o \in Options, missing \in Missing :
          /\ ~o.EXA /\ ~o.DualHead
          /\ LET f == RivaFlags(o)
                 loads == NVLoads(f, missing)
             IN  /\ loads \cap missing \subseteq Optional
                 /\ set' = WithoutXAA(f, missing)
                 /\ mods' = loads \ missing
    /\ held' = {"rec"}
    /\ stage' = "ready"
    /\ UNCHANGED <<driver, device, bpp, used, ptr, lost, shadow, pointer, vt, engine,
                   generation>>

(* Both go on without the int10 module, and at the end free the handle they *)
(* have not got by a function of that module: the server dies.             *)
PreInitDies ==
    /\ stage = "probed" /\ driver \in {"NV", "Riva"}
    /\ \E missing \in Missing : "int10" \in missing
    /\ stage' = "gone"
    /\ UNCHANGED <<driver, device, bpp, set, mods, used, held, ptr, lost, shadow, pointer,
                   vt, engine, generation>>

(* The ways out of NVPreInit and RivaPreInit: the first checks free the    *)
(* int10 handle only, the later ones the record too, and a missing VBE or  *)
(* options record frees neither.                                           *)
PreInitFails ==
    /\ stage = "probed" /\ driver \in {"NV", "Riva"}
    /\ held' \in {{"rec"}, {}, {"rec", "int10"}}
    /\ stage' = "refused"
    /\ UNCHANGED <<driver, device, bpp, set, mods, used, ptr, lost, shadow, pointer, vt,
                   engine, generation>>

G80Loads(f) ==
    {"int10", "i2c", "ddc", "fb"}
    \cup (IF f.NoAccel THEN {} ELSE IF f.EXA THEN {"exa"} ELSE {"xaa"})
    \cup (IF f.HWCursor THEN {"ramdac"} ELSE {})

(* A G80 without the module of its acceleration or of the cursor goes on   *)
(* without them; only the primary screen goes on without int10.            *)
G80PreInit ==
    /\ stage = "probed" /\ driver = "G80"
    /\ \E o \in Options, missing \in Missing :
          /\ o.Rotate = "none" /\ ~o.ShadowFB /\ ~o.UseFBDev /\ ~o.DualHead
          /\ missing \cap {"i2c", "ddc", "fb"} = {}
          /\ LET f == G80Flags(o)
             IN  /\ set' = [f EXCEPT
                       !.NoAccel = @ \/ (IF f.EXA THEN "exa" ELSE "xaa") \in missing,
                       !.HWCursor = @ /\ "ramdac" \notin missing]
                 /\ mods' = G80Loads(f) \ missing
                 /\ held' = {"rec"} \cup ({"int10"} \ missing)
    /\ ptr' = [ptr EXCEPT !["reg"] = "live", !["mem"] = "live"]
    /\ stage' = "ready"
    /\ UNCHANGED <<driver, device, bpp, used, lost, shadow, pointer, vt, engine,
                   generation>>

G80PreInitFails ==
    /\ stage = "probed" /\ driver = "G80"
    /\ stage' = "refused" /\ held' = {}
    /\ UNCHANGED <<driver, device, bpp, set, mods, used, ptr, lost, shadow, pointer, vt,
                   engine, generation>>

(* A refused screen is deleted.                                            *)
FreeScreen ==
    /\ stage = "refused"
    /\ stage' = "gone" /\ held' = held \ {"rec"}
    /\ UNCHANGED <<driver, device, bpp, set, mods, used, ptr, lost, shadow, pointer, vt,
                   engine, generation>>

-----------------------------------------------------------------------------
(* ScreenInit, once in each generation.                                    *)

(* Mistake: video is left out only while the screen is turned.           *)
NVInitVideo_IfUnturned ==
    IF set.Rotate # 0 \/ bpp = 8 THEN {}
    ELSE (IF \/ Architecture(device) \in 10..30
             \/ Implementation(device) = \h0040
          THEN {"overlayAdaptor"} ELSE {})
         \cup (IF set.NoAccel THEN {} ELSE {"blitAdaptor"})

(* The overlay and the blitter of NVInitVideo.                             *)
NVInitVideo ==
    IF set.Rotate # 0 \/ set.RandRRotation \/ bpp = 8 THEN {}
    ELSE (IF \/ Architecture(device) \in 10..30
             \/ Implementation(device) = \h0040
          THEN {"overlayAdaptor"} ELSE {})
         \cup (IF set.NoAccel THEN {} ELSE {"blitAdaptor"})

NVAllocates ==
    {"FbBase"} \cup (IF set.ShadowFB THEN {"ShadowPtr"} ELSE {"DGAModes"})
    \cup (IF set.NoAccel THEN {} ELSE {"AccelInfoRec"})
    \cup (IF set.HWCursor THEN {"CursorInfoRec"} ELSE {})
    \cup NVInitVideo

RivaAllocates ==
    {"FbBase"} \cup (IF set.ShadowFB THEN {"ShadowPtr"} ELSE {"DGAModes"})
    \cup (IF set.NoAccel THEN {} ELSE {"AccelInfoRec", "expandBuffer"})
    \cup (IF set.HWCursor THEN {"CursorInfoRec"} ELSE {})

G80Allocates == IF set.NoAccel THEN {} ELSE IF set.EXA THEN {"exa"} ELSE {"xaa"}

(* Allocations ScreenInit goes on without.  The result of the first is     *)
(* stored before it is looked at, that of the others only when there is    *)
(* one.  Riva does not get to the expand buffer without the XAA record: the *)
(* old pointer to it stays as well.                                        *)
Losable == {"AccelInfoRec", "CursorInfoRec", "overlayAdaptor", "blitAdaptor"}

Losses(allocates) ==
    {l \cup (IF "AccelInfoRec" \in l THEN allocates \cap {"expandBuffer"} ELSE {}) :
        l \in {s \in SUBSET (allocates \cap Losable) : Cardinality(s) <= MaxLosses}}

Assigned(allocates, l) ==
    [p \in Pointers |->
        IF p \in allocates \ l THEN "live"
        ELSE IF p \in l \cap {"AccelInfoRec"} \/ (p = "ShadowPtr" /\ ~set.ShadowFB) THEN "null"
        ELSE ptr[p]]

Calls ==
    {"fb", "vgahw"} \cup (IF set.FBDev THEN {"fbdevhw"} ELSE {})
    \cup (IF set.VBEDualhead THEN {"vbe"} ELSE {})
    \cup (IF set.NoAccel THEN {} ELSE {"xaa"})
    \cup (IF set.HWCursor THEN {"ramdac"} ELSE {})
    \cup (IF set.ShadowFB THEN {"shadowfb"} ELSE {})

(* Mistake: rows for the screen as it is now.                            *)
MadeShadow_RowsOfNow ==
    IF ~set.ShadowFB THEN NoShadow
    ELSE [pitch |-> RoundUp(Width(set.Rotate), Grain(bpp)), rows |-> Height(set.Rotate),
          turned |-> set.Rotate]

(* The shadow: lines are padded to 32 bits, and RandR rotation needs rows  *)
(* for the longer side.                                                    *)
MadeShadow ==
    LET width == Width(set.Rotate)
        height == Height(set.Rotate)
    IN  IF ~set.ShadowFB THEN NoShadow
        ELSE [pitch |-> RoundUp(width, Grain(bpp)),
              rows |-> IF set.RandRRotation /\ width > height THEN width ELSE height,
              turned |-> set.Rotate]

Starts == /\ stage \in {"ready", "closed"} /\ generation < MaxGenerations
          /\ stage' = "running" /\ generation' = generation + 1

NVScreenInit ==
    /\ driver = "NV" /\ Starts
    /\ \E l \in Losses(NVAllocates) : lost' = l /\ ptr' = Assigned(NVAllocates, l)
    /\ used' = Calls
    /\ shadow' = MadeShadow
    /\ pointer' = IF set.ShadowFB /\ set.Rotate # 0 THEN "driver" ELSE "server"
    /\ vt' = TRUE
    /\ UNCHANGED <<driver, device, bpp, set, mods, held, engine>>

RivaScreenInit ==
    /\ driver = "Riva" /\ Starts
    /\ \E l \in Losses(RivaAllocates) : lost' = l /\ ptr' = Assigned(RivaAllocates, l)
    /\ used' = Calls
    /\ shadow' = MadeShadow
    /\ pointer' = IF set.ShadowFB /\ set.Rotate # 0 THEN "driver" ELSE "server"
    /\ vt' = TRUE
    /\ UNCHANGED <<driver, device, bpp, set, mods, held, engine>>

(* G80InitHW sets up the engine; the hardware cursor needs ramdac, and is  *)
(* given up for good when it cannot be set up.                             *)
G80ScreenInit ==
    /\ driver = "G80" /\ Starts
    /\ lost' = {} /\ ptr' = Assigned(G80Allocates, {})
    /\ used' = {"fb"} \cup (IF set.NoAccel THEN {} ELSE IF set.EXA THEN {"exa"} ELSE {"xaa"})
                     \cup (IF set.HWCursor THEN {"ramdac"} ELSE {})
    /\ \E ok \in BOOLEAN : set' = [set EXCEPT !.HWCursor = @ /\ ok]
    /\ engine' = IF set.NoAccel THEN engine ELSE "driver"
    /\ vt' = TRUE
    /\ UNCHANGED <<driver, device, bpp, mods, held, shadow, pointer>>

(* A step ScreenInit cannot do without has failed: the server gives up.    *)
ScreenInitFails ==
    /\ stage \in {"ready", "closed"} /\ generation < MaxGenerations
    /\ stage' = "gone"
    /\ UNCHANGED <<driver, device, bpp, set, mods, used, held, ptr, lost, shadow, pointer,
                   vt, engine, generation>>

-----------------------------------------------------------------------------
(* While a generation lasts.                                               *)

(* Mistake: half a turn is taken as another value of Rotate.             *)
Angle_Half == [RR_Rotate_0 |-> 0, RR_Rotate_90 |-> -1, RR_Rotate_180 |-> 2,
               RR_Rotate_270 |-> 1]

Angle == [RR_Rotate_0 |-> 0, RR_Rotate_90 |-> -1, RR_Rotate_270 |-> 1]

NVRandRSetConfig ==
    /\ stage = "running" /\ driver = "NV" /\ set.RandRRotation
    /\ \E rotation \in DOMAIN Angle :
          /\ set' = [set EXCEPT !.Rotate = Angle[rotation]]
          /\ pointer' = IF Angle[rotation] = 0 THEN "server" ELSE "driver"
    /\ UNCHANGED <<stage, driver, device, bpp, mods, used, held, ptr, lost, shadow, vt,
                   engine, generation>>

(* With EXA the screen moves to a new area, if there is room for one.      *)
G80ResizeScreen ==
    /\ stage = "running" /\ driver = "G80" /\ ptr["exa"] = "live" /\ vt
    /\ ptr' \in {[ptr EXCEPT !["exaScreenArea"] = "live"],
                 [ptr EXCEPT !["exaScreenArea"] = "null"]}
    /\ UNCHANGED <<stage, driver, device, bpp, set, mods, used, held, lost, shadow, pointer,
                   vt, engine, generation>>

G80LeaveVT ==
    /\ stage = "running" /\ driver = "G80" /\ vt
    /\ vt' = FALSE /\ engine' = "others"
    /\ UNCHANGED <<stage, driver, device, bpp, set, mods, used, held, ptr, lost, shadow,
                   pointer, generation>>

(* Mistake: the engine is taken to be as the driver left it.             *)
G80EnterVT_AsLeft ==
    /\ stage = "running" /\ driver = "G80" /\ ~vt
    /\ vt' = TRUE
    /\ UNCHANGED <<stage, driver, device, bpp, set, mods, used, held, ptr, lost, shadow,
                   pointer, engine, generation>>

G80EnterVT ==
    /\ stage = "running" /\ driver = "G80" /\ ~vt
    /\ vt' = TRUE
    /\ engine' = IF ptr["xaa"] # "null" THEN "driver" ELSE engine
    /\ UNCHANGED <<stage, driver, device, bpp, set, mods, used, held, ptr, lost, shadow,
                   pointer, generation>>

-----------------------------------------------------------------------------
(* CloseScreen.                                                            *)

Freed(S) == [p \in Pointers |-> IF p \in S /\ ptr[p] # "null" THEN "freed" ELSE ptr[p]]

NVCloseScreen ==
    /\ stage = "running" /\ driver = "NV"
    /\ ptr' = [Freed({"AccelInfoRec", "CursorInfoRec", "ShadowPtr", "DGAModes",
                      "overlayAdaptor", "blitAdaptor"}) EXCEPT !["FbBase"] = "null"]
    /\ vt' = FALSE /\ stage' = "closed"
    /\ UNCHANGED <<driver, device, bpp, set, mods, used, held, lost, shadow, pointer,
                   engine, generation>>

RivaCloseScreen ==
    /\ stage = "running" /\ driver = "Riva"
    /\ ptr' = [Freed({"AccelInfoRec", "CursorInfoRec", "ShadowPtr", "DGAModes",
                      "expandBuffer"}) EXCEPT !["FbBase"] = "null"]
    /\ vt' = FALSE /\ stage' = "closed"
    /\ UNCHANGED <<driver, device, bpp, set, mods, used, held, lost, shadow, pointer,
                   engine, generation>>

(* G80 keeps its mappings until the server exits.                          *)
G80CloseScreen ==
    /\ stage = "running" /\ driver = "G80"
    /\ \/ /\ ptr' = [Freed({"xaa"}) EXCEPT !["exaScreenArea"] = "null"]
          /\ stage' = "closed"
          /\ UNCHANGED held
       \/ /\ ptr' = [Freed({"xaa"}) EXCEPT !["exaScreenArea"] = "null",
                                          !["reg"] = "null", !["mem"] = "null"]
          /\ stage' = "gone"
          /\ held' = held \ {"int10"}
    /\ vt' = FALSE /\ engine' = "others"
    /\ UNCHANGED <<driver, device, bpp, set, mods, used, lost, shadow, pointer,
                   generation>>

Next == \/ NVPciProbe
        \/ NVPreInit \/ RivaPreInit \/ PreInitDies \/ PreInitFails
        \/ G80PreInit \/ G80PreInitFails
        \/ FreeScreen
        \/ NVScreenInit \/ RivaScreenInit \/ G80ScreenInit \/ ScreenInitFails
        \/ NVRandRSetConfig \/ G80ResizeScreen
        \/ G80LeaveVT \/ G80EnterVT
        \/ NVCloseScreen \/ RivaCloseScreen \/ G80CloseScreen

Spec == Init /\ [][Next]_vars

-----------------------------------------------------------------------------

(* Every variable has its type; Rotate is one of the three turns there is  *)
(* a refresh function for.                                                 *)
TypeOK ==
    /\ stage \in {"found", "probed", "ready", "running", "closed", "refused", "gone"}
    /\ driver \in {"none", "NV", "Riva", "G80"}
    /\ set \in [NoAccel : BOOLEAN, ShadowFB : BOOLEAN, HWCursor : BOOLEAN, FBDev : BOOLEAN,
               Rotate : Rotations, RandRRotation : BOOLEAN, VBEDualhead : BOOLEAN,
               EXA : BOOLEAN]
    /\ mods \subseteq SubModules /\ used \subseteq SubModules
    /\ held \subseteq {"rec", "int10"}
    /\ ptr \in [Pointers -> {"null", "live", "freed"}]
    /\ lost \subseteq Pointers
    /\ shadow.turned \in Rotations
    /\ pointer \in {"server", "driver"}
    /\ vt \in BOOLEAN /\ engine \in {"driver", "others"}
    /\ generation \in 0..MaxGenerations

(* ScreenInit of every generation calls only into sub-modules that PreInit *)
(* has loaded, whichever of them were missing and whatever PreInit fell    *)
(* back to.  What PreInit itself calls is outside this property: it frees  *)
(* the int10 handle by a module it may not have.                           *)
LoadedBeforeUse == stage = "running" => used \subseteq mods

(* CloseScreen frees what it finds set and clears nothing, so ScreenInit   *)
(* has to set every pointer again that CloseScreen, the block handler or   *)
(* the blitter will follow in this generation.  An allocation that failed  *)
(* leaves the old pointer, and with it the next CloseScreen frees the same *)
(* memory twice; on Riva the expand buffer too, when it is the XAA record  *)
(* that failed.  Pointers of a failed allocation are outside this          *)
(* property.                                                               *)
NothingDangles ==
    stage = "running" =>
        /\ \A p \in Pointers : ptr[p] = "freed" => p \in lost
        /\ ptr["blitAdaptor"] = "live" => 
               ptr["AccelInfoRec"] = "live" \/ "AccelInfoRec" \in lost
        /\ driver = "G80" => ptr["reg"] = "live" /\ ptr["mem"] = "live"

(* Whatever part of a shadowed screen is refreshed, turned by an option or *)
(* by RandR: every pixel appears where the pointer handler believes it is, *)
(* nothing is written elsewhere, and the shadow holds every pixel in a     *)
(* word of its own.  RandR starts each generation unturned, the driver     *)
(* does not: a turn left over from the last one is outside this property,  *)
(* as are a frame that is higher than wide and one whose lines are no      *)
(* multiple of the words copied.                                           *)
PictureFollows ==
    /\ stage = "running" /\ set.ShadowFB
    /\ set.RandRRotation => shadow.turned = 0 /\ VirtualX >= VirtualY
    /\ VirtualX % Grain(bpp) = 0
    => /\ Follows(set.Rotate, shadow.pitch, Grain(bpp))
       /\ Width(set.Rotate) <= shadow.pitch /\ Height(set.Rotate) <= shadow.rows
       /\ (pointer = "driver") = (set.Rotate # 0)

(* A G80 screen that draws with XAA has set the engine up itself whenever  *)
(* the screen is its own: another program may have used the chip while the *)
(* server was away.                                                        *)
EngineIsOurs ==
    stage = "running" /\ driver = "G80" /\ vt /\ ~set.NoAccel /\ ~set.EXA
        => engine = "driver"

=============================================================================
