---------------------------- MODULE ScreensProofs ----------------------------
(***************************************************************************)
(* Proofs about Screens, for every set of devices and depths, every size   *)
(* of the frame, and any number of generations, missing modules and failed *)
(* allocations.                                                            *)
(*                                                                         *)
(* What CloseScreen leaves behind is made good by the next ScreenInit only *)
(* because both depend on the same flags, and those, once PreInit is over, *)
(* only change where it does not matter: the invariant says which pointers *)
(* can be set under the flags, and which modules the flags call for.       *)
(***************************************************************************)
EXTENDS Screens, FiniteSetTheorems, TLAPS

Made == stage \in {"ready", "running", "closed"}

G80Calls == {"fb"} \cup (IF set.NoAccel THEN {} ELSE IF set.EXA THEN {"exa"} ELSE {"xaa"})
                   \cup (IF set.HWCursor THEN {"ramdac"} ELSE {})

(* The pointers that may be set. *)
Needed == CASE driver = "NV" -> NVAllocates
            [] driver = "Riva" -> RivaAllocates
            [] OTHER -> G80Allocates \cup {"reg", "mem", "exaScreenArea"}

BaseInv ==
    /\ bpp \in Depths
    /\ Made => driver # "none"
    /\ stage \in {"found", "probed"} => ptr = [p \in Pointers |-> "null"]

ModulesInv ==
    /\ Made => IF driver = "G80" THEN G80Calls \subseteq mods ELSE Calls \subseteq mods
    /\ LoadedBeforeUse

PointersInv ==
    /\ Made => \A p \in Pointers : ptr[p] # "null" => p \in Needed
    /\ Made /\ driver = "G80" =>
           /\ ptr["reg"] = "live" /\ ptr["mem"] = "live"
           /\ \A p \in Pointers : ptr[p] = "freed" => p \in G80Allocates
    /\ stage = "running" =>
           \A p \in Pointers : /\ ptr[p] = "freed" => p \in lost
                               /\ p = "AccelInfoRec" /\ p \in Needed =>
                                     ptr[p] = "live" \/ p \in lost

EngineInv ==
    /\ stage = "running" /\ driver = "G80" /\ ~set.NoAccel /\ ~set.EXA =>
           ptr["xaa"] # "null"
    /\ EngineIsOurs

(* The shadow is that of the turn it was made for, which only RandR leaves. *)
ShadowInv ==
    /\ Made /\ driver = "G80" => ~set.ShadowFB
    /\ stage = "running" /\ set.ShadowFB =>
           /\ shadow.pitch = RoundUp(Width(shadow.turned), Grain(bpp))
           /\ shadow.rows = IF set.RandRRotation
                               /\ Width(shadow.turned) > Height(shadow.turned)
                            THEN Width(shadow.turned) ELSE Height(shadow.turned)
           /\ ~set.RandRRotation => set.Rotate = shadow.turned
           /\ (pointer = "driver") = (set.Rotate # 0)

IInv == TypeOK /\ BaseInv /\ ModulesInv /\ PointersInv /\ EngineInv /\ ShadowInv

Flags == [NoAccel : BOOLEAN, ShadowFB : BOOLEAN, HWCursor : BOOLEAN, FBDev : BOOLEAN,
          Rotate : Rotations, RandRRotation : BOOLEAN, VBEDualhead : BOOLEAN,
          EXA : BOOLEAN]

-----------------------------------------------------------------------------

(* The initial states satisfy the invariant.                               *)
LEMMA InitIInv == Init => IInv
<1> SUFFICES ASSUME Init PROVE IInv
  OBVIOUS
<1>1. NoFlags \in Flags /\ NoShadow.turned \in Rotations
  BY DEF NoFlags, NoShadow, Flags, Rotations
<1>2. TypeOK
  <2>1. ptr \in [Pointers -> {"null", "live", "freed"}]
    BY DEF Init
  <2>2. set \in Flags /\ shadow.turned \in Rotations
    BY <1>1 DEF Init
  <2>3. generation \in 0..MaxGenerations
    BY ScreensAssumption DEF Init
  <2> QED BY <2>1, <2>2, <2>3 DEF Init, TypeOK, Flags
<1>3. BaseInv /\ ModulesInv /\ PointersInv /\ EngineInv /\ ShadowInv
  BY DEF Init, Made, BaseInv, ModulesInv, LoadedBeforeUse, PointersInv, EngineInv,
         EngineIsOurs, ShadowInv
<1> QED BY <1>2, <1>3 DEF IInv

(* The flags PreInit chooses have their types. *)
LEMMA FlagsTyped ==
    ASSUME NEW o \in Options, NEW missing
    PROVE  /\ NVFlags(o) \in Flags /\ RivaFlags(o) \in Flags /\ G80Flags(o) \in Flags
           /\ G80Flags(o).ShadowFB = FALSE
           /\ WithoutXAA(NVFlags(o), missing) \in Flags
           /\ WithoutXAA(RivaFlags(o), missing) \in Flags
<1>1. NoFlags \in Flags
  BY DEF NoFlags, Flags, Rotations
<1>2. ASSUME NEW p \in Options PROVE NVFlags(p) \in Flags
  <2> DEFINE turn == CASE p.Rotate = "CW" -> 1 [] p.Rotate = "CCW" -> -1 [] OTHER -> 0
  <2>1. turn \in Rotations
    BY DEF Rotations
  <2>2. /\ p.NoAccel \in BOOLEAN /\ p.ShadowFB \in BOOLEAN /\ p.SWCursor \in BOOLEAN
        /\ p.UseFBDev \in BOOLEAN /\ p.DualHead \in BOOLEAN
    BY DEF Options
  <2> HIDE DEF turn
  <2>3. NVFlags(p) = [NoFlags EXCEPT
            !.NoAccel = p.NoAccel \/ p.ShadowFB \/ p.Rotate # "none",
            !.ShadowFB = p.ShadowFB \/ p.Rotate # "none",
            !.HWCursor = ~p.SWCursor /\ ~(p.Rotate # "none") /\ ~(p.DualHead /\ ~p.UseFBDev),
            !.FBDev = p.UseFBDev,
            !.Rotate = turn,
            !.RandRRotation = p.Rotate = "RandR",
            !.VBEDualhead = p.DualHead /\ ~p.UseFBDev]
    BY DEF NVFlags, turn
  <2> QED BY <1>1, <2>1, <2>2, <2>3, ZenonT(40) DEF Flags
<1>3. RivaFlags(o) \in Flags
  <2> DEFINE p == [o EXCEPT !.Rotate = IF @ = "RandR" THEN "none" ELSE @, !.DualHead = FALSE]
  <2>1. p \in Options
    BY DEF Options
  <2> QED BY <1>2, <2>1 DEF RivaFlags
<1>4. G80Flags(o) \in Flags /\ G80Flags(o).ShadowFB = FALSE
  BY <1>1, ZenonT(40) DEF G80Flags, Flags, Options, NoFlags
<1>5. \A f \in Flags : WithoutXAA(f, missing) \in Flags
  BY DEF WithoutXAA, Flags
<1> QED BY <1>2, <1>3, <1>4, <1>5

(* What was chosen from what was there is what will be called. *)
LEMMA LoadedFits ==
    ASSUME NEW f \in Flags, NEW missing \in Missing,
           NVLoads(f, missing) \cap missing \subseteq Optional,
           set' = WithoutXAA(f, missing), mods' = NVLoads(f, missing) \ missing
    PROVE  Calls' \subseteq mods' /\ mods' \subseteq SubModules
<1>1. /\ set'.NoAccel <=> f.NoAccel \/ "xaa" \in missing
      /\ set'.FBDev = f.FBDev /\ set'.VBEDualhead = f.VBEDualhead
      /\ set'.HWCursor = f.HWCursor
      /\ set'.ShadowFB = WithoutXAA(f, missing).ShadowFB
  BY DEF WithoutXAA, Flags
<1>2. \A m \in NVLoads(f, missing) : m \notin Optional => m \in mods'
  OBVIOUS
<1>3. Calls' \subseteq NVLoads(f, missing)
  BY <1>1 DEF Calls, NVLoads
<1>4. "xaa" \in Calls' => "xaa" \notin missing
  BY <1>1 DEF Calls
<1>5. Calls' \cap Optional \subseteq {"xaa"}
  BY DEF Calls, Optional
<1>6. NVLoads(f, missing) \subseteq SubModules
  BY DEF NVLoads, SubModules
<1> QED BY <1>2, <1>3, <1>4, <1>5, <1>6

-----------------------------------------------------------------------------
(* Steps that leave the flags, the modules and the stage alone. *)
LEMMA PciProbeStep == ASSUME IInv, NVPciProbe PROVE IInv'
<1>1. /\ stage = "found" /\ stage' = "probed" /\ driver' \in {"G80", "Riva", "NV"}
      /\ UNCHANGED <<bpp, set, mods, used, held, ptr, lost, shadow, pointer, vt, engine,
                     generation>>
  BY DEF NVPciProbe
<1> QED BY <1>1 DEF IInv, TypeOK, BaseInv, ModulesInv, PointersInv, EngineInv, ShadowInv,
                    Made, LoadedBeforeUse, EngineIsOurs

(* PreInit of NV and Riva: the modules for the options are loaded or the   *)
(* screen is refused.                                                      *)
LEMMA PreInitStep == ASSUME IInv, NVPreInit \/ RivaPreInit PROVE IInv'
<1>1. /\ stage = "probed" /\ stage' = "ready" /\ driver \in {"NV", "Riva"}
      /\ UNCHANGED <<driver, device, bpp, used, ptr, lost, shadow, pointer, vt, engine,
                     generation>>
      /\ held' = {"rec"}
  BY DEF NVPreInit, RivaPreInit
<1>2. PICK o \in Options, missing \in Missing :
         \E f \in {NVFlags(o), RivaFlags(o)} :
            /\ NVLoads(f, missing) \cap missing \subseteq Optional
            /\ set' = WithoutXAA(f, missing)
            /\ mods' = NVLoads(f, missing) \ missing
  BY DEF NVPreInit, RivaPreInit
<1>3. set' \in Flags /\ Calls' \subseteq mods' /\ mods' \subseteq SubModules
  BY <1>2, FlagsTyped, LoadedFits
<1>4. TypeOK'
  BY <1>1, <1>3 DEF IInv, TypeOK, Flags
<1>5. BaseInv' /\ ModulesInv'
  BY <1>1, <1>3 DEF IInv, BaseInv, ModulesInv, Made, LoadedBeforeUse
<1>6. PointersInv' /\ EngineInv' /\ ShadowInv'
  BY <1>1 DEF IInv, BaseInv, PointersInv, EngineInv, ShadowInv, Made, EngineIsOurs
<1> QED BY <1>4, <1>5, <1>6 DEF IInv

(* PreInit of the G80.                                                     *)
LEMMA G80PreInitStep == ASSUME IInv, G80PreInit PROVE IInv'
<1>1. /\ stage = "probed" /\ stage' = "ready" /\ driver = "G80"
      /\ UNCHANGED <<driver, device, bpp, used, lost, shadow, pointer, vt, engine,
                     generation>>
      /\ ptr' = [ptr EXCEPT !["reg"] = "live", !["mem"] = "live"]
      /\ held' \subseteq {"rec", "int10"}
  BY DEF G80PreInit
<1>2. PICK o \in Options, missing \in Missing :
         /\ missing \cap {"i2c", "ddc", "fb"} = {}
         /\ set' = [G80Flags(o) EXCEPT
                       !.NoAccel = @ \/ (IF G80Flags(o).EXA THEN "exa" ELSE "xaa") \in missing,
                       !.HWCursor = @ /\ "ramdac" \notin missing]
         /\ mods' = G80Loads(G80Flags(o)) \ missing
  BY DEF G80PreInit
<1>3. G80Flags(o) \in Flags /\ G80Flags(o).ShadowFB = FALSE
  BY FlagsTyped
<1> DEFINE f == G80Flags(o)
<1> HIDE DEF f
<1>4. /\ set'.NoAccel <=> f.NoAccel \/ (IF f.EXA THEN "exa" ELSE "xaa") \in missing
      /\ set'.HWCursor <=> f.HWCursor /\ "ramdac" \notin missing
      /\ set'.EXA = f.EXA /\ set'.ShadowFB = FALSE
      /\ set' \in Flags
  BY <1>2, <1>3 DEF f, Flags
<1>5. G80Calls' \subseteq mods' /\ mods' \subseteq SubModules
  <2>1. mods' = G80Loads(f) \ missing
    BY <1>2 DEF f
  <2> QED BY <1>2, <1>4, <2>1 DEF G80Calls, G80Loads, SubModules
<1>6. /\ ptr' \in [Pointers -> {"null", "live", "freed"}]
      /\ ptr'["reg"] = "live" /\ ptr'["mem"] = "live"
      /\ \A p \in Pointers \ {"reg", "mem"} : ptr'[p] = "null"
  BY <1>1 DEF IInv, BaseInv, Pointers
<1>7. TypeOK'
  BY <1>1, <1>4, <1>5, <1>6 DEF IInv, TypeOK, Flags
<1>8. BaseInv' /\ ModulesInv'
  BY <1>1, <1>5 DEF IInv, BaseInv, ModulesInv, Made, LoadedBeforeUse
<1>9. PointersInv'
  BY <1>1, <1>6 DEF PointersInv, Made, Needed
<1>10. EngineInv' /\ ShadowInv'
  BY <1>1, <1>4 DEF EngineInv, ShadowInv, Made, EngineIsOurs
<1> QED BY <1>7, <1>8, <1>9, <1>10 DEF IInv

(* The ends. *)
LEMMA FailureSteps ==
    ASSUME IInv, PreInitDies \/ PreInitFails \/ G80PreInitFails \/ FreeScreen
                 \/ ScreenInitFails
    PROVE  IInv'
<1>1. /\ stage' \in {"refused", "gone"} /\ held' \subseteq {"rec", "int10"}
      /\ UNCHANGED <<driver, device, bpp, set, mods, used, ptr, lost, shadow, pointer, vt,
                     engine, generation>>
  BY DEF PreInitDies, PreInitFails, G80PreInitFails, FreeScreen, ScreenInitFails, IInv,
         TypeOK
<1> QED BY <1>1 DEF IInv, TypeOK, BaseInv, ModulesInv, PointersInv, EngineInv, ShadowInv,
                    Made, LoadedBeforeUse, EngineIsOurs

-----------------------------------------------------------------------------
(* What ScreenInit makes of the pointers, those it had to allocate and those
   that nothing allocates under these flags. *)
LEMMA AssignedPointers ==
    ASSUME NEW need \in SUBSET Pointers, NEW l \in Losses(need), NEW p \in Pointers,
           ptr \in [Pointers -> {"null", "live", "freed"}]
    PROVE  /\ Assigned(need, l)[p] \in {"null", "live", "freed"}
           /\ p \in need \ l => Assigned(need, l)[p] = "live"
           /\ p \in need \cap {"ShadowPtr", "FbBase", "DGAModes", "xaa", "exa"} =>
                 Assigned(need, l)[p] = "live"
           /\ p \notin need => Assigned(need, l)[p] \in {"null", ptr[p]}
           /\ p \notin need \cup {"ShadowPtr"} => Assigned(need, l)[p] = ptr[p]
BY DEF Assigned, Losses, Losable

(* Which pointers ScreenInit allocates for the options.                    *)
LEMMA NeededPointers ==
    /\ NVAllocates \subseteq Pointers /\ RivaAllocates \subseteq Pointers
    /\ G80Allocates \subseteq {"xaa", "exa"}
    /\ "AccelInfoRec" \notin G80Allocates
    /\ {"reg", "mem", "exaScreenArea"} \cap (NVAllocates \cup RivaAllocates) = {}
    /\ "ShadowPtr" \in NVAllocates \cup RivaAllocates => set.ShadowFB
    /\ "blitAdaptor" \notin RivaAllocates \cup G80Allocates
    /\ "blitAdaptor" \in NVAllocates => "AccelInfoRec" \in NVAllocates
BY DEF NVAllocates, RivaAllocates, G80Allocates, NVInitVideo, Pointers

(* ScreenInit of the two drivers that share their shape. *)
LEMMA ScreenInitStep ==
    ASSUME IInv, Starts, NEW need \in SUBSET Pointers, NEW l \in Losses(need),
           driver \in {"NV", "Riva"}, Needed = need, Needed' = need,
           lost' = l, ptr' = Assigned(need, l), used' = Calls, shadow' = MadeShadow,
           pointer' = IF set.ShadowFB /\ set.Rotate # 0 THEN "driver" ELSE "server",
           vt' = TRUE, UNCHANGED <<driver, device, bpp, set, mods, held, engine>>
    PROVE  IInv'
<1>1. Made /\ stage' = "running" /\ generation' = generation + 1
      /\ generation < MaxGenerations
  BY DEF Starts, Made
<1>2. /\ ptr \in [Pointers -> {"null", "live", "freed"}] /\ set.Rotate \in Rotations
      /\ l \subseteq need
  BY DEF IInv, TypeOK, Losses
<1>3. \A p \in Pointers :
         /\ ptr'[p] \in {"null", "live", "freed"}
         /\ p \in need \ l => ptr'[p] = "live"
         /\ p \notin need => ptr'[p] \in {"null", ptr[p]}
  BY <1>2, AssignedPointers
<1>4. ptr' \in [Pointers -> {"null", "live", "freed"}]
  BY <1>3 DEF Assigned
<1>5. TypeOK'
  <2>1. generation' \in 0..MaxGenerations
    BY <1>1, ScreensAssumption DEF IInv, TypeOK
  <2>2. shadow'.turned \in Rotations
    BY <1>2 DEF MadeShadow, NoShadow, Rotations
  <2>3. used' \subseteq SubModules /\ lost' \subseteq Pointers
    BY <1>1, <1>2 DEF IInv, TypeOK, ModulesInv
  <2> QED BY <1>1, <1>4, <2>1, <2>2, <2>3 DEF IInv, TypeOK
<1>6. BaseInv' /\ ModulesInv'
  BY <1>1 DEF IInv, BaseInv, ModulesInv, Made, LoadedBeforeUse, Calls
<1>7. PointersInv'
  <2>1. \A p \in Pointers : ptr[p] # "null" => p \in need
    BY <1>1 DEF IInv, PointersInv
  <2>2. \A p \in Pointers : ptr'[p] # "null" => p \in need
    BY <1>3, <2>1
  <2>3. \A p \in Pointers : ptr'[p] # "null" /\ p \notin l => ptr'[p] = "live"
    BY <1>3, <2>2
  <2>4. "AccelInfoRec" \in need => ptr'["AccelInfoRec"] = "live" \/ "AccelInfoRec" \in l
    BY <1>3 DEF Pointers
  <2> QED BY <2>2, <2>3, <2>4 DEF PointersInv
<1>8. EngineInv'
  BY DEF EngineInv, EngineIsOurs
<1>9. ShadowInv'
  <2>1. (pointer' = "driver") = (set.Rotate # 0) \/ ~set.ShadowFB
    OBVIOUS
  <2> QED BY <1>1, <2>1 DEF ShadowInv, MadeShadow, NoShadow
<1> QED BY <1>5, <1>6, <1>7, <1>8, <1>9 DEF IInv

(* ScreenInit of NV and Riva.                                              *)
LEMMA ScreenInitSteps == ASSUME IInv, NVScreenInit \/ RivaScreenInit PROVE IInv'
<1>1. CASE NVScreenInit
  <2>1. driver = "NV" /\ Needed = NVAllocates /\ Needed' = NVAllocates
    BY <1>1 DEF NVScreenInit, Needed, NVAllocates, NVInitVideo
  <2> QED BY <1>1, <2>1, NeededPointers, ScreenInitStep DEF NVScreenInit
<1>2. CASE RivaScreenInit
  <2>1. driver = "Riva" /\ Needed = RivaAllocates /\ Needed' = RivaAllocates
    BY <1>2 DEF RivaScreenInit, Needed, RivaAllocates
  <2> QED BY <1>2, <2>1, NeededPointers, ScreenInitStep DEF RivaScreenInit
<1> QED BY <1>1, <1>2

(* ScreenInit of the G80.                                                  *)
LEMMA G80ScreenInitStep == ASSUME IInv, G80ScreenInit PROVE IInv'
<1>1. /\ Made /\ driver = "G80" /\ stage' = "running" /\ generation' = generation + 1
      /\ generation < MaxGenerations
      /\ lost' = {} /\ ptr' = Assigned(G80Allocates, {}) /\ used' = G80Calls
      /\ engine' = (IF set.NoAccel THEN engine ELSE "driver") /\ vt' = TRUE
      /\ UNCHANGED <<driver, device, bpp, mods, held, shadow, pointer>>
      /\ \E ok \in BOOLEAN : set' = [set EXCEPT !.HWCursor = @ /\ ok]
  BY DEF G80ScreenInit, Starts, Made, G80Calls
<1>1a. /\ set \in Flags /\ set' \in Flags
       /\ set'.HWCursor => set.HWCursor
       /\ set'.NoAccel = set.NoAccel /\ set'.EXA = set.EXA
       /\ set'.ShadowFB = set.ShadowFB
  BY <1>1 DEF IInv, TypeOK, Flags
<1>1b. G80Calls' \subseteq G80Calls /\ G80Allocates' = G80Allocates
  BY <1>1a DEF G80Calls, G80Allocates
<1>2. /\ ptr \in [Pointers -> {"null", "live", "freed"}]
      /\ G80Allocates \in SUBSET Pointers /\ {} \in Losses(G80Allocates)
      /\ ~set.ShadowFB
  <2>1. Cardinality({}) <= MaxLosses
    BY FS_EmptySet, ScreensAssumption
  <2> QED BY <1>1, <2>1, NeededPointers DEF IInv, TypeOK, Losses, ShadowInv, Pointers
<1>3. \A p \in Pointers :
         /\ ptr'[p] \in {"null", "live", "freed"}
         /\ p \in G80Allocates => ptr'[p] = "live"
         /\ p \notin G80Allocates => ptr'[p] \in {"null", ptr[p]}
         /\ p \in {"reg", "mem"} => ptr'[p] = ptr[p]
  BY <1>1, <1>2, AssignedPointers, NeededPointers
<1>4. ptr' \in [Pointers -> {"null", "live", "freed"}]
  BY <1>1, <1>3 DEF Assigned
<1>5. TypeOK'
  <2>1. generation' \in 0..MaxGenerations
    BY <1>1, ScreensAssumption DEF IInv, TypeOK
  <2>2. used' \subseteq SubModules /\ engine' \in {"driver", "others"}
    BY <1>1 DEF IInv, TypeOK, ModulesInv
  <2> QED BY <1>1, <1>1a, <1>4, <2>1, <2>2 DEF IInv, TypeOK, Flags
<1>6. BaseInv' /\ ModulesInv'
  BY <1>1, <1>1b DEF IInv, BaseInv, ModulesInv, Made, LoadedBeforeUse
<1>7. PointersInv'
  <2>1. /\ Needed = G80Allocates \cup {"reg", "mem", "exaScreenArea"}
        /\ Needed' = Needed /\ G80Allocates' = G80Allocates
    BY <1>1, <1>1b DEF Needed
  <2>2. \A p \in Pointers : ptr'[p] # "null" => p \in Needed
    BY <1>1, <1>3, <2>1 DEF IInv, PointersInv
  <2>3. ptr'["reg"] = "live" /\ ptr'["mem"] = "live"
    BY <1>1, <1>3 DEF IInv, PointersInv, Pointers
  <2>4. \A p \in Pointers : ptr'[p] # "freed"
    BY <1>1, <1>3 DEF IInv, PointersInv
  <2> QED BY <1>1, <2>1, <2>2, <2>3, <2>4, NeededPointers DEF PointersInv
<1>8. EngineInv'
  <2>1. ~set.NoAccel /\ ~set.EXA => "xaa" \in G80Allocates
    BY DEF G80Allocates
  <2> QED BY <1>1, <1>1a, <1>3, <2>1 DEF EngineInv, EngineIsOurs, Pointers
<1>9. ShadowInv'
  BY <1>1, <1>1a, <1>2 DEF ShadowInv
<1> QED BY <1>5, <1>6, <1>7, <1>8, <1>9 DEF IInv

-----------------------------------------------------------------------------
(* RandR turns the screen only where no turn has a say in what is allocated. *)
LEMMA RandRStep == ASSUME IInv, NVRandRSetConfig PROVE IInv'
<1>1. PICK rotation \in DOMAIN Angle :
         /\ set' = [set EXCEPT !.Rotate = Angle[rotation]]
         /\ pointer' = IF Angle[rotation] = 0 THEN "server" ELSE "driver"
  BY DEF NVRandRSetConfig
<1>2. /\ stage = "running" /\ driver = "NV" /\ set.RandRRotation
      /\ UNCHANGED <<stage, driver, device, bpp, mods, used, held, ptr, lost, shadow, vt,
                     engine, generation>>
  BY DEF NVRandRSetConfig
<1>3. Angle[rotation] \in Rotations
  BY DEF Angle, Rotations
<1>4. /\ set \in Flags /\ set' \in Flags /\ set'.Rotate = Angle[rotation]
      /\ set'.NoAccel = set.NoAccel /\ set'.ShadowFB = set.ShadowFB
      /\ set'.HWCursor = set.HWCursor /\ set'.FBDev = set.FBDev
      /\ set'.RandRRotation = set.RandRRotation
      /\ set'.VBEDualhead = set.VBEDualhead
  BY <1>1, <1>3 DEF IInv, TypeOK, Flags
<1>5. TypeOK'
  BY <1>1, <1>2, <1>4 DEF IInv, TypeOK, Flags
<1>6. Needed' = Needed /\ Calls' = Calls
  BY <1>2, <1>4 DEF Needed, NVAllocates, NVInitVideo, Calls
<1>7. BaseInv' /\ ModulesInv' /\ PointersInv' /\ EngineInv'
  BY <1>2, <1>6 DEF IInv, BaseInv, ModulesInv, PointersInv, EngineInv, Made,
                    LoadedBeforeUse, EngineIsOurs
<1>8. ShadowInv'
  BY <1>1, <1>2, <1>4 DEF IInv, ShadowInv, Made
<1> QED BY <1>5, <1>7, <1>8 DEF IInv

(* A resize of the G80's screen.                                           *)
LEMMA ResizeStep == ASSUME IInv, G80ResizeScreen PROVE IInv'
<1>1. /\ stage = "running" /\ driver = "G80"
      /\ UNCHANGED <<stage, driver, device, bpp, set, mods, used, held, lost, shadow,
                     pointer, vt, engine, generation>>
      /\ \E v \in {"live", "null"} : ptr' = [ptr EXCEPT !["exaScreenArea"] = v]
  BY DEF G80ResizeScreen
<1>2. /\ ptr' \in [Pointers -> {"null", "live", "freed"}]
      /\ \A p \in Pointers \ {"exaScreenArea"} : ptr'[p] = ptr[p]
      /\ ptr'["exaScreenArea"] \in {"live", "null"}
  BY <1>1 DEF IInv, TypeOK, Pointers
<1>3. TypeOK'
  BY <1>1, <1>2 DEF IInv, TypeOK
<1>4. PointersInv'
  <2>1. /\ Needed = G80Allocates \cup {"reg", "mem", "exaScreenArea"}
        /\ Needed' = Needed /\ G80Allocates' = G80Allocates
    BY <1>1 DEF Needed, G80Allocates
  <2> QED BY <1>1, <1>2, <2>1 DEF IInv, PointersInv, Made, Pointers
<1>5. BaseInv' /\ ModulesInv' /\ EngineInv' /\ ShadowInv'
  BY <1>1, <1>2 DEF IInv, BaseInv, ModulesInv, EngineInv, ShadowInv, Made, G80Calls,
                    LoadedBeforeUse, EngineIsOurs, Pointers
<1> QED BY <1>3, <1>4, <1>5 DEF IInv

(* The terminal of the G80 is left and entered.                            *)
LEMMA VTSteps == ASSUME IInv, G80LeaveVT \/ G80EnterVT PROVE IInv'
<1>1. /\ stage = "running" /\ driver = "G80" /\ vt' \in BOOLEAN
      /\ UNCHANGED <<stage, driver, device, bpp, set, mods, used, held, ptr, lost,
                     shadow, pointer, generation>>
      /\ \/ ~vt' /\ engine' = "others"
         \/ engine' = IF ptr["xaa"] # "null" THEN "driver" ELSE engine
  BY DEF G80LeaveVT, G80EnterVT
<1>2. engine' \in {"driver", "others"}
  BY <1>1 DEF IInv, TypeOK
<1>3. TypeOK'
  BY <1>1, <1>2 DEF IInv, TypeOK
<1>4. Needed' = Needed /\ G80Allocates' = G80Allocates
  BY <1>1 DEF Needed, NVAllocates, RivaAllocates, G80Allocates, NVInitVideo
<1>5. BaseInv' /\ ModulesInv' /\ PointersInv' /\ ShadowInv'
  BY <1>1, <1>4 DEF IInv, BaseInv, ModulesInv, PointersInv, ShadowInv, Made, Calls,
                    G80Calls, LoadedBeforeUse
<1>6. EngineInv'
  BY <1>1 DEF IInv, EngineInv, EngineIsOurs
<1> QED BY <1>3, <1>5, <1>6 DEF IInv

(* CloseScreen frees what it finds set, and clears little of it. *)
LEMMA CloseSteps ==
    ASSUME IInv, NVCloseScreen \/ RivaCloseScreen \/ G80CloseScreen
    PROVE  IInv'
<1>1. /\ stage = "running" /\ stage' \in {"closed", "gone"} /\ vt' = FALSE
      /\ driver \in {"NV", "Riva", "G80"} /\ held' \subseteq held
      /\ UNCHANGED <<driver, device, bpp, set, mods, used, lost, shadow, pointer,
                     generation>>
      /\ driver # "G80" => engine' = engine
      /\ driver = "G80" => engine' = "others"
  BY DEF NVCloseScreen, RivaCloseScreen, G80CloseScreen
<1>2. /\ ptr' \in [Pointers -> {"null", "live", "freed"}]
      /\ \A p \in Pointers : ptr'[p] # "null" => ptr[p] # "null"
      /\ driver = "G80" => \A p \in Pointers : ptr'[p] = "freed" =>
                                               p = "xaa" \/ ptr[p] = "freed"
      /\ driver = "G80" /\ stage' = "closed" =>
             ptr'["reg"] = ptr["reg"] /\ ptr'["mem"] = ptr["mem"]
  <2>1. ptr \in [Pointers -> {"null", "live", "freed"}]
    BY DEF IInv, TypeOK
  <2>2. ASSUME NEW S PROVE /\ Freed(S) \in [Pointers -> {"null", "live", "freed"}]
                           /\ \A p \in Pointers :
                                 Freed(S)[p] = (IF p \in S /\ ptr[p] # "null"
                                                THEN "freed" ELSE ptr[p])
    BY <2>1 DEF Freed
  <2>3. CASE NVCloseScreen
    BY <2>1, <2>2, <2>3 DEF NVCloseScreen, Pointers
  <2>4. CASE RivaCloseScreen
    BY <2>1, <2>2, <2>4 DEF RivaCloseScreen, Pointers
  <2>5. CASE G80CloseScreen
    <3> DEFINE freed == Freed({"xaa"})
    <3>1. /\ freed \in [Pointers -> {"null", "live", "freed"}]
          /\ \A p \in Pointers : freed[p] = (IF p \in {"xaa"} /\ ptr[p] # "null"
                                             THEN "freed" ELSE ptr[p])
      BY <2>2
    <3>2. \/ ptr' = [freed EXCEPT !["exaScreenArea"] = "null"]
          \/ /\ ptr' = [freed EXCEPT !["exaScreenArea"] = "null",
                                     !["reg"] = "null", !["mem"] = "null"]
             /\ stage' = "gone"
      BY <2>5 DEF G80CloseScreen
    <3>3. driver = "G80"
      BY <2>5 DEF G80CloseScreen
    <3> HIDE DEF freed
    <3> QED BY <3>1, <3>2, <3>3 DEF Pointers
  <2> QED BY <2>3, <2>4, <2>5
<1>3. TypeOK'
  BY <1>1, <1>2, ZenonT(60) DEF IInv, TypeOK
<1>4. Needed' = Needed /\ G80Allocates' = G80Allocates
  BY <1>1 DEF Needed, NVAllocates, RivaAllocates, G80Allocates, NVInitVideo
<1>5. PointersInv'
  <2>1. driver = "G80" /\ ptr["xaa"] # "null" => "xaa" \in G80Allocates
    BY <1>1 DEF IInv, PointersInv, Made, Needed, Pointers
  <2> QED BY <1>1, <1>2, <1>4, <2>1 DEF IInv, PointersInv, Made
<1>6. BaseInv' /\ ModulesInv' /\ EngineInv' /\ ShadowInv'
  BY <1>1 DEF IInv, BaseInv, ModulesInv, EngineInv, ShadowInv, Made, Calls, G80Calls,
              LoadedBeforeUse, EngineIsOurs
<1> QED BY <1>3, <1>5, <1>6 DEF IInv

(* Nothing changes.                                                        *)
LEMMA StutterStep == ASSUME IInv, UNCHANGED vars PROVE IInv'
<1>1. UNCHANGED <<stage, driver, device, bpp, set, mods, used, held, ptr, lost, shadow,
                  pointer, vt, engine, generation>>
  BY DEF vars
<1>2. Needed' = Needed /\ G80Allocates' = G80Allocates
  BY <1>1 DEF Needed, NVAllocates, RivaAllocates, G80Allocates, NVInitVideo
<1> QED BY <1>1, <1>2 DEF IInv, TypeOK, BaseInv, ModulesInv, PointersInv, EngineInv,
                          ShadowInv, Made, Calls, G80Calls, LoadedBeforeUse, EngineIsOurs

(* Every step preserves the invariant.                                     *)
LEMMA NextIInv == IInv /\ [Next]_vars => IInv'
BY PciProbeStep, PreInitStep, G80PreInitStep, FailureSteps, ScreenInitSteps,
   G80ScreenInitStep, RandRStep, ResizeStep, VTSteps, CloseSteps, StutterStep DEF Next

(* The invariant holds in every reachable state. *)
THEOREM Inductive == Spec => []IInv
BY InitIInv, NextIInv, PTL DEF Spec

-----------------------------------------------------------------------------
(* Rotate is one of the turns there is a refresh function for, and the flags,
   modules and pointers are what the code takes them for. *)
THEOREM TypeCorrect == Spec => []TypeOK
BY Inductive, PTL DEF IInv

(* No generation calls into a sub-module that was not loaded, however many are
   missing and whatever PreInit falls back to. *)
THEOREM ModulesLoaded == Spec => []LoadedBeforeUse
BY Inductive, PTL DEF IInv, ModulesInv

(* In no generation is a pointer followed that the one before has freed, but
   where an allocation failed. *)
THEOREM NoneDangles == Spec => []NothingDangles
<1>1. IInv => NothingDangles
  <2> SUFFICES ASSUME IInv, stage = "running" PROVE NothingDangles
    BY DEF NothingDangles
  <2>1. Made /\ driver # "none"
    BY DEF Made, IInv, BaseInv
  <2>2. "blitAdaptor" \in Pointers /\ "AccelInfoRec" \in Pointers
    BY DEF Pointers
  <2>3. ptr["blitAdaptor"] = "live" => ptr["AccelInfoRec"] = "live" \/ "AccelInfoRec" \in lost
    <3>1. ptr["blitAdaptor"] = "live" => "blitAdaptor" \in Needed
      BY <2>1, <2>2 DEF IInv, PointersInv
    <3>2. "blitAdaptor" \in Needed => "AccelInfoRec" \in Needed
      BY NeededPointers DEF Needed
    <3> QED BY <2>2, <3>1, <3>2 DEF IInv, PointersInv
  <2> QED BY <2>1, <2>3 DEF IInv, PointersInv, NothingDangles
<1> QED BY <1>1, Inductive, PTL

(* Whenever a G80 screen that draws with XAA is the server's own, the driver has
   set the engine up, whoever used it before. *)
THEOREM EngineOwned == Spec => []EngineIsOurs
BY Inductive, PTL DEF IInv, EngineInv

-----------------------------------------------------------------------------
(* The refresh functions, for every size of frame and of screen. *)
LEMMA Products ==
    ASSUME NEW a \in Int, NEW b \in Int, NEW c \in Int
    PROVE  /\ a * c \in Int
           /\ (a + b) * c = a * c + b * c
           /\ (a - b) * c = a * c - b * c
OBVIOUS

(* Rounding to a multiple of the grain, down and up.                       *)
LEMMA Rounding ==
    ASSUME NEW g \in {1, 2, 4}, NEW n \in Nat, NEW m \in Nat
    PROVE  /\ RoundDown(n, g) \in Nat /\ RoundDown(n, g) <= n
           /\ RoundUp(n, g) \in Nat /\ n <= RoundUp(n, g)
           /\ n <= m /\ m % g = 0 => RoundUp(n, g) <= m
<1>1. CASE g = 1
  BY <1>1 DEF RoundDown, RoundUp
<1>2. CASE g = 2
  BY <1>2 DEF RoundDown, RoundUp
<1>3. CASE g = 4
  BY <1>3 DEF RoundDown, RoundUp
<1> QED BY <1>1, <1>2, <1>3

(* An unturned refresh copies the pixels of the box. *)
LEMMA FollowsUnturned == ASSUME NEW pitch \in Nat, NEW grain PROVE Follows(0, pitch, grain)
<1>1. \A x, y : Pixel(0, pitch, x, y) = <<y * DisplayWidth + x, y * pitch + x>>
  BY DEF Pixel, PointerMoved
<1> SUFFICES ASSUME NEW b \in Boxes(0)
    PROVE  /\ {Pixel(0, pitch, x, y) : x \in b.x1..b.x2 - 1, y \in b.y1..b.y2 - 1}
                 \subseteq RefreshArea(pitch, b)
           /\ RefreshArea(pitch, b) \subseteq
                 {Pixel(0, pitch, x, y) : x \in 0..Width(0) - 1, y \in 0..Height(0) - 1}
  BY DEF Follows, Copies
<1>2. /\ b.x1 \in Nat /\ b.x2 \in Nat /\ b.x2 <= Width(0)
      /\ b.y1 \in Nat /\ b.y2 \in Nat /\ b.y2 <= Height(0)
      /\ Width(0) \in Nat /\ Height(0) \in Nat
  BY FrameAssumption DEF Boxes, Width, Height
<1>3. /\ b.x1..b.x2 - 1 \subseteq 0..Width(0) - 1
      /\ b.y1..b.y2 - 1 \subseteq 0..Height(0) - 1
  BY <1>2
<1> QED BY <1>1, <1>3 DEF RefreshArea

(* A turned one copies those of the box widened to whole words, one by one: the
   word at i, j is the pixel at At(i, j). *)
LEMMA FollowsTurned ==
    ASSUME NEW pitch \in Nat, NEW grain \in {1, 2, 4}, NEW rotate \in {-1, 1},
           VirtualX % grain = 0
    PROVE  Follows(rotate, pitch, grain)
<1> SUFFICES ASSUME NEW b \in Boxes(rotate)
    PROVE  /\ {Pixel(rotate, pitch, x, y) : x \in b.x1..b.x2 - 1, y \in b.y1..b.y2 - 1}
                 \subseteq RefreshTurned(rotate, pitch, grain, b)
           /\ RefreshTurned(rotate, pitch, grain, b) \subseteq
                 {Pixel(rotate, pitch, x, y) :
                     x \in 0..Width(rotate) - 1, y \in 0..Height(rotate) - 1}
  BY DEF Follows, Copies
<1> DEFINE y1 == RoundDown(b.y1, grain)
           y2 == RoundUp(b.y2, grain)
           dst == IF rotate = 1 THEN (b.x1 * DisplayWidth) + VirtualX - y2
                  ELSE ((VirtualY - b.x2) * DisplayWidth) + y1
           src == IF rotate = 1 THEN ((y2 - 1) * pitch) + b.x1
                  ELSE (y1 * pitch) + b.x2 - 1
           word(i, j) == <<dst + (i * DisplayWidth) + j,
                           src + (i * rotate) - (j * rotate * pitch)>>
           Column(i) == IF rotate = 1 THEN b.x1 + i ELSE b.x2 - 1 - i
           Row(j) == IF rotate = 1 THEN y2 - 1 - j ELSE y1 + j
<1>1. /\ VirtualX \in Nat /\ VirtualY \in Nat /\ DisplayWidth \in Nat
      /\ Width(rotate) = VirtualY /\ Height(rotate) = VirtualX
  BY FrameAssumption DEF Width, Height
<1>2. /\ b.x1 \in Nat /\ b.x2 \in Nat /\ b.x1 < b.x2 /\ b.x2 <= VirtualY
      /\ b.y1 \in Nat /\ b.y2 \in Nat /\ b.y1 < b.y2 /\ b.y2 <= VirtualX
  BY <1>1 DEF Boxes
<1>3. /\ y1 \in Nat /\ y1 <= b.y1
      /\ y2 \in Nat /\ b.y2 <= y2 /\ y2 <= VirtualX
  BY <1>1, <1>2, Rounding
<1>4. RefreshTurned(rotate, pitch, grain, b) =
         {word(i, j) : i \in 0..b.x2 - b.x1 - 1, j \in 0..y2 - y1 - 1}
  BY DEF RefreshTurned
<1> HIDE DEF y1, y2
<1>5. ASSUME NEW i \in 0..b.x2 - b.x1 - 1, NEW j \in 0..y2 - y1 - 1
      PROVE  word(i, j) = Pixel(rotate, pitch, Column(i), Row(j))
  <2>1. i \in Int /\ j \in Int
    OBVIOUS
  <2>2. CASE rotate = 1
    <3>1. Pixel(1, pitch, b.x1 + i, y2 - 1 - j) =
             <<(b.x1 + i) * DisplayWidth + (VirtualX - (y2 - 1 - j) - 1),
               (y2 - 1 - j) * pitch + (b.x1 + i)>>
      BY <1>1, <2>2 DEF Pixel, PointerMoved
    <3>2. word(i, j) = <<b.x1 * DisplayWidth + VirtualX - y2 + i * DisplayWidth + j,
                         (y2 - 1) * pitch + b.x1 + i - j * pitch>>
      BY <1>2, <1>3, <2>1, <2>2
    <3>3. (b.x1 + i) * DisplayWidth = b.x1 * DisplayWidth + i * DisplayWidth
      BY <1>1, <1>2, <2>1, Products
    <3>4. ((y2 - 1) - j) * pitch = (y2 - 1) * pitch - j * pitch
      BY <1>3, <2>1, Products
    <3>5. /\ b.x1 * DisplayWidth \in Int /\ i * DisplayWidth \in Int
          /\ (y2 - 1) * pitch \in Int /\ j * pitch \in Int
      BY <1>1, <1>2, <1>3, <2>1, Products
    <3>6. /\ (b.x1 + i) * DisplayWidth + (VirtualX - (y2 - 1 - j) - 1)
                = b.x1 * DisplayWidth + VirtualX - y2 + i * DisplayWidth + j
          /\ (y2 - 1 - j) * pitch + (b.x1 + i) = (y2 - 1) * pitch + b.x1 + i - j * pitch
      BY <1>1, <1>2, <1>3, <2>1, <3>3, <3>4, <3>5
    <3> QED BY <2>2, <3>1, <3>2, <3>6
  <2>3. CASE rotate = -1
    <3>1. Pixel(-1, pitch, b.x2 - 1 - i, y1 + j) =
             <<(VirtualY - (b.x2 - 1 - i) - 1) * DisplayWidth + (y1 + j),
               (y1 + j) * pitch + (b.x2 - 1 - i)>>
      BY <1>1, <2>3 DEF Pixel, PointerMoved
    <3>2. word(i, j) = <<(VirtualY - b.x2) * DisplayWidth + y1 + i * DisplayWidth + j,
                         y1 * pitch + b.x2 - 1 - i + j * pitch>>
      <4>1. i * (-1) = -i /\ (j * (-1)) * pitch = -(j * pitch)
        BY <2>1
      <4> QED BY <1>2, <1>3, <2>1, <2>3, <4>1
    <3>3. ((VirtualY - b.x2) + i) * DisplayWidth
             = (VirtualY - b.x2) * DisplayWidth + i * DisplayWidth
      BY <1>1, <1>2, <2>1, Products
    <3>4. (y1 + j) * pitch = y1 * pitch + j * pitch
      BY <1>3, <2>1, Products
    <3>5. VirtualY - (b.x2 - 1 - i) - 1 = (VirtualY - b.x2) + i
      BY <1>1, <1>2, <2>1
    <3>6. /\ (VirtualY - b.x2) * DisplayWidth \in Int /\ i * DisplayWidth \in Int
          /\ y1 * pitch \in Int /\ j * pitch \in Int
      BY <1>1, <1>2, <1>3, <2>1, Products
    <3>7. /\ (VirtualY - (b.x2 - 1 - i) - 1) * DisplayWidth + (y1 + j)
                = (VirtualY - b.x2) * DisplayWidth + y1 + i * DisplayWidth + j
          /\ (y1 + j) * pitch + (b.x2 - 1 - i) = y1 * pitch + b.x2 - 1 - i + j * pitch
      BY <1>1, <1>2, <1>3, <2>1, <3>3, <3>4, <3>5, <3>6
    <3> QED BY <2>3, <3>1, <3>2, <3>7
  <2> QED BY <2>2, <2>3
<1> HIDE DEF word
<1>6. /\ \A i \in 0..b.x2 - b.x1 - 1 : Column(i) \in 0..Width(rotate) - 1
      /\ \A j \in 0..y2 - y1 - 1 : Row(j) \in 0..Height(rotate) - 1
  BY <1>1, <1>2, <1>3
<1>7. /\ \A x \in b.x1..b.x2 - 1 : \E i \in 0..b.x2 - b.x1 - 1 : Column(i) = x
      /\ \A y \in b.y1..b.y2 - 1 : \E j \in 0..y2 - y1 - 1 : Row(j) = y
  <2>1. ASSUME NEW x \in b.x1..b.x2 - 1
        PROVE  \E i \in 0..b.x2 - b.x1 - 1 : Column(i) = x
    <3> DEFINE i == IF rotate = 1 THEN x - b.x1 ELSE b.x2 - 1 - x
    <3>1. i \in 0..b.x2 - b.x1 - 1 /\ Column(i) = x
      BY <1>2
    <3> QED BY <3>1
  <2>2. ASSUME NEW y \in b.y1..b.y2 - 1
        PROVE  \E j \in 0..y2 - y1 - 1 : Row(j) = y
    <3> DEFINE j == IF rotate = 1 THEN y2 - 1 - y ELSE y - y1
    <3>1. j \in 0..y2 - y1 - 1 /\ Row(j) = y
      BY <1>2, <1>3
    <3> QED BY <3>1
  <2> QED BY <2>1, <2>2
<1> HIDE DEF Column, Row
<1> QED BY <1>4, <1>5, <1>6, <1>7

(* The refresh functions and the pointer agree on every pixel of every     *)
(* box, for every frame, rotation, depth and pitch.                        *)
LEMMA FollowsAlways ==
    ASSUME NEW pitch \in Nat, NEW grain \in {1, 2, 4}, NEW rotate \in Rotations,
           VirtualX % grain = 0
    PROVE  Follows(rotate, pitch, grain)
BY FollowsUnturned, FollowsTurned DEF Rotations

(* Every refresh of a shadowed screen puts every pixel where the pointer is, in
   whatever turn, depth and size of the screen. *)
THEOREM PictureRight == Spec => []PictureFollows
<1>1. ASSUME IInv, stage = "running", set.ShadowFB,
             set.RandRRotation => shadow.turned = 0 /\ VirtualX >= VirtualY,
             VirtualX % Grain(bpp) = 0
      PROVE  /\ Follows(set.Rotate, shadow.pitch, Grain(bpp))
             /\ Width(set.Rotate) <= shadow.pitch /\ Height(set.Rotate) <= shadow.rows
             /\ (pointer = "driver") = (set.Rotate # 0)
  <2>1. Grain(bpp) \in {1, 2, 4}
    BY <1>1, ScreensAssumption DEF IInv, BaseInv, Grain
  <2>2. /\ set.Rotate \in Rotations /\ shadow.turned \in Rotations
        /\ shadow.pitch = RoundUp(Width(shadow.turned), Grain(bpp))
        /\ shadow.rows = (IF set.RandRRotation
                             /\ Width(shadow.turned) > Height(shadow.turned)
                          THEN Width(shadow.turned) ELSE Height(shadow.turned))
        /\ ~set.RandRRotation => set.Rotate = shadow.turned
        /\ (pointer = "driver") = (set.Rotate # 0)
    BY <1>1 DEF IInv, TypeOK, ShadowInv
  <2>3. /\ VirtualX \in Nat /\ VirtualY \in Nat
        /\ \A r \in Rotations : /\ Width(r) \in Nat /\ Height(r) \in Nat
                                /\ Width(r) = IF r = 0 THEN VirtualX ELSE VirtualY
                                /\ Height(r) = IF r = 0 THEN VirtualY ELSE VirtualX
    BY FrameAssumption DEF Width, Height
  <2>4. /\ shadow.pitch \in Nat /\ Width(shadow.turned) <= shadow.pitch
    BY <2>1, <2>2, <2>3, Rounding, SMTT(30)
  <2>5. CASE ~set.RandRRotation
    <3>1. Width(set.Rotate) <= shadow.pitch /\ Height(set.Rotate) <= shadow.rows
      BY <2>2, <2>3, <2>4, <2>5
    <3> QED BY <1>1, <2>1, <2>2, <2>4, <3>1, FollowsAlways
  <2>6. CASE set.RandRRotation
    <3>1. shadow.turned = 0 /\ VirtualX >= VirtualY /\ 0 \in Rotations
      BY <1>1, <2>6 DEF Rotations
    <3>2. Width(0) = VirtualX /\ Height(0) = VirtualY
      BY <2>3, <3>1
    <3>3. shadow.rows = VirtualX
      BY <2>2, <2>3, <2>6, <3>1, <3>2
    <3>4. Width(set.Rotate) <= shadow.pitch /\ Height(set.Rotate) <= shadow.rows
      BY <2>2, <2>3, <2>4, <3>1, <3>2, <3>3
    <3> QED BY <1>1, <2>1, <2>2, <2>4, <3>4, FollowsAlways
  <2> QED BY <2>5, <2>6
<1> QED BY <1>1, Inductive, PTL DEF PictureFollows
=============================================================================
