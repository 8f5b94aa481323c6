--------------------------- MODULE NVVideoProofs ---------------------------
(***************************************************************************)
(* Proofs about NVVideo, for every size of the offscreen memory and every  *)
(* set of image sizes and colour keys.                                     *)
(*                                                                         *)
(* What the driver keeps of the overlay, videoStatus, currentBuffer and    *)
(* the timer, is only right because of facts about the hardware that no    *)
(* variable of the driver holds: which of the two buffers was handed over  *)
(* last, and that a buffer found free at the start of a copy stays free    *)
(* while the copy lasts, since only the server hands buffers over.         *)
(***************************************************************************)
EXTENDS NVVideo, TLAPS

(* Unless the buffer handed over last holds a surface, or an image of a single
   buffer, it is the one the driver does not fill next. *)
NewestIsOther == newest = 1 - currentBuffer \/ ~buf[newest].double

BufferInv ==
    /\ job # None /\ ~job.skip /\ job.layout.double => currentBuffer \notin use
    /\ use # {} => NewestIsOther
    /\ job # None /\ job.skip => NewestIsOther

(* The port's memory only moves under an overlay that is on before V4L has it. *)
MemoryInv ==
    /\ ReadsOwnMemory
    /\ moved /\ grabbedByV4L => ~enabled
    /\ enabled => buf[newest] \in Laid

IInv == TypeOK /\ OffMeansOff /\ TimersAreServed /\ BufferInv /\ MemoryInv

-----------------------------------------------------------------------------
(* The two halves of an image have no cell in common. *)
LEMMA HalvesApart ==
    ASSUME NEW l \in {None} \cup Laid, NEW b \in Buffer, NEW c \in Buffer,
           b # c, l.double
    PROVE  Cells(b, l) \cap Cells(c, l) = {}
<1>1. CASE l = None
  BY <1>1 DEF Cells
<1>2. CASE l # None
  <2> DEFINE half == l.size \div 2
  <2>1. l.base \in Nat /\ half \in Nat
    BY <1>2, VideoAssumption DEF Laid
  <2>2. /\ Cells(b, l) = (l.base + b * half)..(l.base + b * half + half - 1)
        /\ Cells(c, l) = (l.base + c * half)..(l.base + c * half + half - 1)
    BY <1>2 DEF Cells
  <2> HIDE DEF half
  <2>3. \/ b * half = 0 /\ c * half = half
        \/ b * half = half /\ c * half = 0
    <3>1. 0 * half = 0 /\ 1 * half = half
      BY <2>1
    <3> QED BY <3>1 DEF Buffer
  <2> QED BY <2>1, <2>2, <2>3
<1> QED BY <1>1, <1>2

(* The allocator keeps to the memory there is, and returns an area that is
   large enough.  What lay in the old one lies in it too, unless the old one was
   freed. *)
LEMMA AllocatedArea ==
    ASSUME linear \in Area, moved \in BOOLEAN, NEW size \in Nat \ {0},
           AllocateOverlayMemory(size)
    PROVE  /\ linear' \in Area /\ moved' \in BOOLEAN
           /\ linear' # None => /\ linear'.base \in 0..Memory /\ size \in 1..Memory
                                /\ size <= linear'.size
           /\ moved => moved'
           /\ linear # None /\ ~moved' =>
                 /\ linear' # None
                 /\ \A l \in Laid : Inside(l, linear) => Inside(l, linear')
           /\ linear = None => moved' = moved
<1>1. CASE linear # None /\ size <= linear.size /\ UNCHANGED <<linear, moved>>
  <2>1. linear.base \in 0..Memory /\ size \in 1..Memory
    BY <1>1, VideoAssumption DEF Area
  <2> QED BY <1>1, <2>1
<1>2. CASE /\ linear # None /\ size > linear.size
           /\ linear.base + size <= Memory
           /\ linear' = [linear EXCEPT !.size = size]
           /\ UNCHANGED moved
  <2>1. linear \in [base : 0..Memory, size : 1..Memory]
    BY <1>2 DEF Area
  <2>2. size \in 1..Memory
    BY <1>2, <2>1, VideoAssumption
  <2>3. /\ linear' \in [base : 0..Memory, size : 1..Memory]
        /\ linear'.base = linear.base /\ linear'.size = size
    BY <1>2, <2>1, <2>2
  <2>4. linear' # None
    <3>1. [base : 0..Memory, size : 1..Memory] \subseteq [base : Nat, size : Nat]
      BY VideoAssumption
    <3> QED BY <2>3, <3>1, VideoAssumption
  <2>5. \A l \in Laid : Inside(l, linear) => Inside(l, linear')
    BY <1>2, <2>1, <2>3, VideoAssumption DEF Inside, Laid
  <2> QED BY <1>2, <2>1, <2>2, <2>3, <2>4, <2>5 DEF Area
<1>3. CASE /\ linear' \in {None} \cup [base : 0..(Memory - size), size : {size}]
           /\ moved' = (moved \/ linear # None)
  <2>1. CASE linear' = None
    BY <1>3, <2>1 DEF Area
  <2>2. CASE linear' \in [base : 0..(Memory - size), size : {size}]
    <3>1. linear'.base \in 0..(Memory - size) /\ linear'.size = size
      BY <2>2
    <3>2. linear'.base \in 0..Memory /\ size \in 1..Memory
      BY <3>1, VideoAssumption
    <3>3. linear' \in [base : 0..Memory, size : 1..Memory]
      BY <2>2, <3>1, <3>2
    <3>4. linear' \in Area /\ size <= linear'.size
      BY <3>1, <3>3 DEF Area
    <3>5. moved' \in BOOLEAN /\ (moved => moved') /\ (linear # None => moved')
          /\ (linear = None => moved' = moved)
      BY <1>3
    <3> QED BY <3>2, <3>4, <3>5
  <2> QED BY <1>3, <2>1, <2>2
<1> QED BY <1>1, <1>2, <1>3 DEF AllocateOverlayMemory

(* An image or surface laid out in an area is inside it. *)
LEMMA LaidInside ==
    ASSUME NEW area, area.base \in 0..Memory, NEW size \in 1..Memory,
           size <= area.size, area.size \in Nat, NEW double \in BOOLEAN
    PROVE  /\ Layout(area.base, size, double) \in Laid
           /\ Inside(Layout(area.base, size, double), area)
<1>1. area.base \in Nat /\ size \in Nat
  BY VideoAssumption
<1> QED BY <1>1 DEF Layout, Laid, Inside

(* Steps that leave the memory and the images alone, and those that end with
   the overlay off. *)
LEMMA MemoryKept ==
    ASSUME MemoryInv,
           UNCHANGED <<linear, moved, grabbedByV4L, buf, newest, job>>,
           enabled' => enabled
    PROVE  MemoryInv'
BY DEF MemoryInv, ReadsOwnMemory, Inside

(* Without an overlay that runs nothing is read.                           *)
LEMMA MemoryOff ==
    ASSUME ~enabled', job' = None
    PROVE  MemoryInv'
BY DEF MemoryInv, ReadsOwnMemory

(* A frame, and one with its second buffer, have a size.                   *)
LEMMA FrameSize == \A frame \in Frames : /\ frame \in Nat \ {0}
                                         /\ 2 * frame \in Nat \ {0}
BY VideoAssumption

(* The initial states satisfy the invariant.                               *)
LEMMA InitIInv == Init => IInv
<1> SUFFICES ASSUME Init PROVE IInv
  OBVIOUS
<1>1. /\ vtSema \in BOOLEAN /\ linear \in Area /\ due \in BOOLEAN
      /\ currentBuffer \in Buffer /\ newest \in Buffer
      /\ colorKey \in Keys /\ painted \in Keys \cup {None}
      /\ job = None /\ ~grabbedByV4L
  BY VideoAssumption DEF Init, Area, Buffer
<1>2. buf \in [Buffer -> {None} \cup Laid]
  BY DEF Init
<1>3. /\ use = {} /\ shown \in Buffer \cup {None}
      /\ moved \in BOOLEAN /\ ~enabled
  BY DEF Init
<1>4. TypeOK
  BY <1>1, <1>2, <1>3 DEF Init, TypeOK
<1>5. OffMeansOff /\ TimersAreServed /\ BufferInv /\ MemoryInv
  BY <1>1, <1>3 DEF Init, OffMeansOff, TimersAreServed, BufferInv, MemoryInv,
                    ReadsOwnMemory
<1> QED BY <1>4, <1>5 DEF IInv

-----------------------------------------------------------------------------
(* A copy begins: into a buffer that is free, or over the newest. *)
LEMMA PutImageStep ==
    ASSUME IInv, NEW frame \in Frames, PutImage(frame)
    PROVE  IInv'
<1> DEFINE newSize == IF doubleBuffer THEN 2 * frame ELSE frame
<1>1. newSize \in Nat \ {0}
  BY FrameSize
<1>2. /\ AllocateOverlayMemory(newSize)
      /\ job' = IF linear' = None THEN None
                ELSE [layout |-> Layout(linear'.base, newSize, doubleBuffer),
                      skip |-> doubleBuffer /\ currentBuffer \in use]
  BY DEF PutImage
<1> HIDE DEF newSize
<1>3. linear \in Area /\ doubleBuffer \in BOOLEAN /\ moved \in BOOLEAN
  BY DEF IInv, TypeOK
<1>4. /\ linear' \in Area /\ moved' \in BOOLEAN
      /\ linear' # None => /\ linear'.base \in 0..Memory /\ newSize \in 1..Memory
                           /\ newSize <= linear'.size
      /\ moved => moved'
      /\ linear # None /\ ~moved' =>
            /\ linear' # None
            /\ \A l \in Laid : Inside(l, linear) => Inside(l, linear')
      /\ linear = None => moved' = moved
  BY <1>1, <1>2, <1>3, AllocatedArea
<1>5. UNCHANGED <<vtSema, videoStatus, due, currentBuffer, doubleBuffer,
                  grabbedByV4L, clip, colorKey, autopaintColorKey, painted,
                  blitStatus, blitDue, timer, newest, buf, use, enabled, shown,
                  isOn>> /\ ~grabbedByV4L
  BY DEF PutImage, keyVars, blitVars, hwVars
<1>6. job' # None => /\ linear' # None
                     /\ job' \in [layout : Laid, skip : BOOLEAN]
                     /\ Inside(job'.layout, linear')
  <2> SUFFICES ASSUME job' # None
               PROVE  /\ linear' # None
                      /\ job' \in [layout : Laid, skip : BOOLEAN]
                      /\ Inside(job'.layout, linear')
    OBVIOUS
  <2>1. /\ linear' # None
        /\ job' = [layout |-> Layout(linear'.base, newSize, doubleBuffer),
                   skip |-> doubleBuffer /\ currentBuffer \in use]
    BY <1>2
  <2>2. linear'.size \in Nat
    BY <1>4, <2>1 DEF Area
  <2>3. /\ Layout(linear'.base, newSize, doubleBuffer) \in Laid
        /\ Inside(Layout(linear'.base, newSize, doubleBuffer), linear')
    BY <1>3, <1>4, <2>1, <2>2, LaidInside
  <2> QED BY <1>3, <2>1, <2>3
<1>7. TypeOK'
  BY <1>4, <1>5, <1>6 DEF IInv, TypeOK
<1>8. OffMeansOff' /\ TimersAreServed'
  BY <1>5 DEF IInv, OffMeansOff, TimersAreServed
<1>9. BufferInv'
  <2>1. job' # None => /\ job'.layout.double = doubleBuffer
                       /\ job'.skip = (doubleBuffer /\ currentBuffer \in use)
    BY <1>2 DEF Layout
  <2> QED BY <1>5, <2>1 DEF IInv, BufferInv, NewestIsOther
<1>10. MemoryInv'
  <2>1. ASSUME enabled', ~moved'
        PROVE  linear' # None /\ Inside(buf[newest], linear')
    <3>1. enabled /\ ~moved
      BY <1>4, <1>5, <2>1
    <3>2. linear # None /\ Inside(buf[newest], linear)
      BY <3>1 DEF IInv, MemoryInv, ReadsOwnMemory
    <3>3. linear' # None
      BY <1>4, <2>1, <3>2
    <3>4. Inside(buf[newest], linear')
      BY <1>4, <1>5, <2>1, <3>1, <3>2 DEF IInv, MemoryInv
    <3> QED BY <3>3, <3>4
  <2>2. enabled' => buf'[newest'] \in Laid
    BY <1>5 DEF IInv, MemoryInv
  <2>3. buf'[newest'] = buf[newest] /\ ~grabbedByV4L'
    BY <1>5
  <2> QED BY <1>6, <2>1, <2>2, <2>3 DEF MemoryInv, ReadsOwnMemory, Inside
<1> QED BY <1>7, <1>8, <1>9, <1>10 DEF IInv

(* An image is handed to the hardware: the buffer it is in is the newest, and
   the overlay is on in the driver's eyes and in fact. *)
LEMMA OverlayImage ==
    ASSUME IInv, NEW b \in Buffer, NEW layout \in Laid, PutOverlayImage(b, layout)
    PROVE  /\ clip' \in BOOLEAN /\ painted' \in Keys \cup {None}
           /\ buf' \in [Buffer -> {None} \cup Laid] /\ buf'[b] = layout
           /\ use' \subseteq Buffer
           /\ newest' = b /\ moved' = FALSE
           /\ enabled' = TRUE /\ videoStatus' = {ON}
           /\ UNCHANGED <<colorKey, autopaintColorKey, shown>>
<1>1. clip' \in BOOLEAN /\ painted' \in Keys \cup {None}
  BY DEF PutOverlayImage, IInv, TypeOK
<1>2. buf' = [buf EXCEPT ![b] = layout] /\ buf \in [Buffer -> {None} \cup Laid]
  BY DEF PutOverlayImage, IInv, TypeOK
<1>3. buf' \in [Buffer -> {None} \cup Laid] /\ buf'[b] = layout
  BY <1>2
<1> QED BY <1>1, <1>3 DEF PutOverlayImage, IInv, TypeOK

(* The end of the copy, with NVPutOverlayImage: the overlay is on again    *)
(* whatever stopped it.                                                    *)
LEMMA PutImageCopiedStep ==
    ASSUME IInv, PutImageCopied
    PROVE  IInv'
<1>1. /\ job # None /\ job \in [layout : Laid, skip : BOOLEAN]
      /\ job' = None /\ isOn' = "on"
      /\ UNCHANGED <<vtSema, blitStatus, blitDue, timer>>
  BY DEF PutImageCopied, blitVars, IInv, TypeOK
<1>2. CASE job.skip
  <2>1. UNCHANGED <<linear, videoStatus, due, currentBuffer, doubleBuffer,
                    grabbedByV4L, clip, colorKey, autopaintColorKey, painted,
                    newest, moved, buf, use, enabled, shown>>
    BY <1>2 DEF PutImageCopied, portVars, keyVars, imageVars, hwVars
  <2>2. TypeOK'
    BY <1>1, <2>1 DEF IInv, TypeOK
  <2>3. MemoryInv'
    BY <1>1, <2>1 DEF IInv, MemoryInv, ReadsOwnMemory, Inside
  <2> QED BY <1>1, <2>1, <2>2, <2>3
          DEF IInv, OffMeansOff, TimersAreServed, BufferInv, NewestIsOther
<1>3. CASE ~job.skip
  <2>1. /\ PutOverlayImage(currentBuffer, job.layout)
        /\ currentBuffer' = 1 - currentBuffer
        /\ UNCHANGED <<linear, due, doubleBuffer, grabbedByV4L>>
    BY <1>3 DEF PutImageCopied
  <2>2. currentBuffer \in Buffer /\ job.layout \in Laid
    BY <1>1 DEF IInv, TypeOK
  <2>3. /\ clip' \in BOOLEAN /\ painted' \in Keys \cup {None}
        /\ buf' \in [Buffer -> {None} \cup Laid] /\ use' \subseteq Buffer
        /\ buf'[currentBuffer] = job.layout
        /\ newest' = currentBuffer /\ moved' = FALSE
        /\ enabled' = TRUE /\ videoStatus' = {ON}
        /\ UNCHANGED <<colorKey, autopaintColorKey, shown>>
    BY <2>1, <2>2, OverlayImage
  <2>4. currentBuffer' \in Buffer /\ newest' = 1 - currentBuffer'
    BY <2>1, <2>2, <2>3 DEF Buffer
  <2>5. TypeOK'
    BY <1>1, <2>1, <2>2, <2>3, <2>4 DEF IInv, TypeOK
  <2>6. OffMeansOff' /\ TimersAreServed'
    BY <1>1, <2>3 DEF IInv, OffMeansOff, TimersAreServed, OFF, FREE, ON
  <2>7. BufferInv'
    BY <1>1, <2>4 DEF BufferInv, NewestIsOther
  <2>8. MemoryInv'
    <3>1. linear # None /\ Inside(job.layout, linear)
      BY <1>1 DEF IInv, MemoryInv, ReadsOwnMemory
    <3>2. buf'[newest'] = job.layout /\ linear' = linear
      BY <2>1, <2>3
    <3> QED BY <1>1, <2>2, <2>3, <3>1, <3>2 DEF MemoryInv, ReadsOwnMemory, Inside
  <2> QED BY <2>5, <2>6, <2>7, <2>8 DEF IInv
<1> QED BY <1>1, <1>2, <1>3

(* V4L shows its surface, in the memory of the port it has grabbed.        *)
LEMMA DisplaySurfaceStep ==
    ASSUME IInv, NEW size \in Frames, DisplaySurface(size)
    PROVE  IInv'
<1> DEFINE layout == Layout(linear.base, size, FALSE)
<1>1. /\ PutOverlayImage(0, layout)
      /\ grabbedByV4L /\ job = None
      /\ currentBuffer' = 0
      /\ UNCHANGED <<vtSema, linear, due, doubleBuffer, grabbedByV4L,
                     blitStatus, blitDue, timer, job, isOn>>
  BY DEF DisplaySurface, Server, blitVars
<1>2. /\ layout \in Laid /\ layout.double = FALSE
      /\ linear # None /\ Inside(layout, linear)
  <2>1. linear # None /\ linear.base \in 0..Memory /\ linear.size \in Nat
    BY <1>1 DEF IInv, TypeOK, Area
  <2>2. size \in 1..Memory /\ size <= linear.size
    BY VideoAssumption DEF DisplaySurface
  <2>3. layout \in Laid /\ Inside(layout, linear)
    BY <2>1, <2>2, LaidInside
  <2> QED BY <2>1, <2>3 DEF Layout
<1> HIDE DEF layout
<1>3. 0 \in Buffer
  BY DEF Buffer
<1>4. /\ clip' \in BOOLEAN /\ painted' \in Keys \cup {None}
      /\ buf' \in [Buffer -> {None} \cup Laid] /\ buf'[0] = layout
      /\ use' \subseteq Buffer
      /\ newest' = 0 /\ moved' = FALSE
      /\ enabled' = TRUE /\ videoStatus' = {ON}
      /\ UNCHANGED <<colorKey, autopaintColorKey, shown>>
  BY <1>1, <1>2, <1>3, OverlayImage
<1>5. TypeOK'
  BY <1>1, <1>3, <1>4 DEF IInv, TypeOK
<1>6. OffMeansOff' /\ TimersAreServed'
  BY <1>1, <1>4 DEF IInv, OffMeansOff, TimersAreServed, OFF, FREE, ON
<1>7. BufferInv'
  BY <1>1, <1>2, <1>4 DEF BufferInv, NewestIsOther
<1>8. MemoryInv'
  <2>1. buf'[newest'] = layout /\ linear' = linear
    BY <1>1, <1>4
  <2> QED BY <1>1, <1>2, <1>4, <2>1 DEF MemoryInv, ReadsOwnMemory, Inside
<1> QED BY <1>5, <1>6, <1>7, <1>8 DEF IInv

-----------------------------------------------------------------------------
(* The overlay is stopped, or its timer runs. *)
LEMMA StopSteps ==
    ASSUME IInv, \/ StopOverlayVideoExit \/ StopOverlayVideo
                 \/ StopSurface \/ FreeSurface
    PROVE  IInv'
<1>1. /\ job = None
      /\ UNCHANGED <<vtSema, currentBuffer, doubleBuffer, colorKey,
                     autopaintColorKey, painted, blitStatus, blitDue, job,
                     newest, moved, buf, use, shown>>
  BY DEF StopOverlayVideoExit, StopOverlayVideo, StopSurface, FreeSurface,
         StopOverlayOfSurface, Server, keyVars, blitVars, imageVars, hwVars
<1>2. BufferInv'
  BY <1>1 DEF IInv, BufferInv, NewestIsOther
<1>3. CASE StopOverlayVideoExit
  <2>1. /\ isOn' = "off" /\ ~grabbedByV4L /\ clip' = FALSE
        /\ linear' = None /\ videoStatus' = {}
        /\ enabled' = (enabled /\ ON \notin videoStatus)
        /\ UNCHANGED <<due, grabbedByV4L, timer>>
    BY <1>3 DEF StopOverlayVideoExit
  <2>2. TypeOK'
    BY <1>1, <2>1 DEF IInv, TypeOK, Area
  <2>3. MemoryInv'
    <3>1. ~enabled'
      BY <2>1 DEF IInv, OffMeansOff
    <3> QED BY <1>1, <3>1, MemoryOff
  <2> QED BY <1>1, <1>2, <2>1, <2>2, <2>3 DEF IInv, OffMeansOff, TimersAreServed
<1>4. CASE StopOverlayVideo
  <2>1. /\ isOn' = "pending" /\ ~grabbedByV4L /\ clip' = FALSE
        /\ UNCHANGED <<linear, grabbedByV4L, enabled>>
    BY <1>4 DEF StopOverlayVideo, hwVars
  <2>2. \/ ON \in videoStatus /\ videoStatus' = {OFF, ON} /\ due' = FALSE /\ timer' = TRUE
        \/ UNCHANGED <<videoStatus, due, timer>>
    BY <1>4 DEF StopOverlayVideo
  <2>3. /\ videoStatus' \in {{}, {ON}, {OFF, ON}, {FREE}}
        /\ due' \in BOOLEAN /\ timer' \in BOOLEAN
    BY <2>2 DEF IInv, TypeOK
  <2>4. TypeOK'
    BY <1>1, <2>1, <2>3 DEF IInv, TypeOK
  <2>5. OffMeansOff' /\ TimersAreServed'
    BY <1>1, <2>1, <2>2 DEF IInv, OffMeansOff, TimersAreServed
  <2>6. MemoryInv'
    BY <1>1, <2>1, MemoryKept DEF IInv
  <2> QED BY <1>2, <2>4, <2>5, <2>6 DEF IInv
<1>5. CASE StopSurface \/ FreeSurface
  <2>1. /\ enabled' = (enabled /\ videoStatus = {}) /\ videoStatus' = {}
        /\ \/ UNCHANGED <<linear, grabbedByV4L>>
           \/ linear' = None /\ grabbedByV4L' = FALSE
        /\ UNCHANGED <<due, clip, timer, isOn>>
    BY <1>5 DEF StopSurface, FreeSurface, StopOverlayOfSurface, keyVars
  <2>2. /\ enabled' \in BOOLEAN /\ linear' \in Area /\ grabbedByV4L' \in BOOLEAN
        /\ grabbedByV4L' => linear' # None
    <3>1. /\ grabbedByV4L \in BOOLEAN /\ linear \in Area
          /\ grabbedByV4L => linear # None
      BY DEF IInv, TypeOK
    <3>2. None \in Area
      BY DEF Area
    <3>3. enabled' \in BOOLEAN
      BY <2>1
    <3>4. CASE UNCHANGED <<linear, grabbedByV4L>>
      BY <3>1, <3>3, <3>4
    <3>5. CASE linear' = None /\ grabbedByV4L' = FALSE
      BY <3>2, <3>3, <3>5
    <3> QED BY <2>1, <3>4, <3>5
  <2>3. TypeOK'
    BY <1>1, <2>1, <2>2 DEF IInv, TypeOK
  <2>4. OffMeansOff'
    BY <2>1 DEF IInv, OffMeansOff
  <2>5. TimersAreServed'
    BY <1>1, <2>1 DEF IInv, TimersAreServed
  <2>6. MemoryInv'
    <3>1. ~enabled'
      BY <2>1 DEF IInv, OffMeansOff
    <3> QED BY <1>1, <3>1, MemoryOff
  <2> QED BY <1>2, <2>3, <2>4, <2>5, <2>6 DEF IInv
<1> QED BY <1>3, <1>4, <1>5

(* V4L takes the port and its memory.                                      *)
LEMMA AllocSurfaceStep ==
    ASSUME IInv, NEW size \in Frames, AllocSurface(size)
    PROVE  IInv'
<1>1. /\ job = None
      /\ UNCHANGED <<vtSema, due, currentBuffer, doubleBuffer, colorKey,
                     autopaintColorKey, painted, blitStatus, blitDue, timer,
                     isOn, job, newest, buf, use, shown>>
  BY DEF AllocSurface, Server, blitVars
<1>2. /\ AllocateOverlayMemory(size)
      /\ \/ /\ linear' = None
            /\ UNCHANGED <<enabled, videoStatus, clip, grabbedByV4L>>
         \/ /\ linear' # None /\ enabled' = FALSE /\ videoStatus' = {}
            /\ clip' = FALSE /\ grabbedByV4L' = TRUE
      /\ ~grabbedByV4L
  BY DEF AllocSurface
<1>3. /\ linear' \in Area /\ moved' \in BOOLEAN
      /\ linear # None /\ ~moved' => linear' # None
      /\ linear = None => moved' = moved
      /\ moved => moved'
  BY <1>2, FrameSize, AllocatedArea DEF IInv, TypeOK
<1>4. /\ videoStatus' \in {{}, {ON}, {OFF, ON}, {FREE}}
      /\ enabled' \in BOOLEAN /\ clip' \in BOOLEAN /\ grabbedByV4L' \in BOOLEAN
      /\ grabbedByV4L' => linear' # None /\ videoStatus' = {}
  <2>1. /\ videoStatus \in {{}, {ON}, {OFF, ON}, {FREE}}
        /\ enabled \in BOOLEAN /\ clip \in BOOLEAN /\ grabbedByV4L \in BOOLEAN
    BY DEF IInv, TypeOK
  <2>2. CASE linear' = None /\ UNCHANGED <<enabled, videoStatus, clip, grabbedByV4L>>
    BY <1>2, <2>1, <2>2
  <2>3. CASE /\ linear' # None /\ enabled' = FALSE /\ videoStatus' = {}
             /\ clip' = FALSE /\ grabbedByV4L' = TRUE
    BY <1>2, <2>3
  <2> QED BY <1>2, <2>2, <2>3
<1>5. TypeOK'
  BY <1>1, <1>2, <1>3, <1>4 DEF IInv, TypeOK
<1>6. OffMeansOff' /\ TimersAreServed'
  BY <1>1, <1>2 DEF IInv, OffMeansOff, TimersAreServed
<1>7. BufferInv'
  BY <1>1 DEF IInv, BufferInv, NewestIsOther
<1>8. MemoryInv'
  <2>1. CASE linear' = None /\ UNCHANGED <<enabled, grabbedByV4L>>
    <3>1. enabled => moved'
      BY <1>3, <2>1 DEF IInv, MemoryInv, ReadsOwnMemory
    <3>2. enabled => buf[newest] \in Laid
      BY DEF IInv, MemoryInv
    <3> QED BY <1>1, <1>2, <2>1, <3>1, <3>2 DEF MemoryInv, ReadsOwnMemory
  <2>2. CASE enabled' = FALSE
    BY <1>1, <2>2, MemoryOff
  <2> QED BY <1>2, <2>1, <2>2
<1> QED BY <1>5, <1>6, <1>7, <1>8 DEF IInv

(* The callback stays as long as either port has a timer to run. *)
LEMMA VideoTimerCallbackStep ==
    ASSUME IInv, VideoTimerCallback
    PROVE  IInv'
<1>1. /\ job = None
      /\ UNCHANGED <<vtSema, currentBuffer, doubleBuffer, grabbedByV4L, clip,
                     colorKey, autopaintColorKey, painted, blitDue, isOn, job,
                     newest, moved, buf, use, shown>>
  BY DEF VideoTimerCallback, Server, keyVars, imageVars
<1>2. /\ enabled' = (enabled /\ ~TurnsOff)
      /\ videoStatus' = IF TurnsOff THEN {FREE} ELSE IF Frees THEN {} ELSE videoStatus
      /\ due' = (due /\ ~TurnsOff)
      /\ linear' = IF Frees THEN None ELSE linear
      /\ blitStatus' = IF FreesBlit THEN {} ELSE blitStatus
      /\ timer' = NeedCallback
  BY DEF VideoTimerCallback
<1>3. /\ videoStatus \in {{}, {ON}, {OFF, ON}, {FREE}}
      /\ due \in BOOLEAN /\ enabled \in BOOLEAN /\ blitDue \in BOOLEAN
      /\ grabbedByV4L => linear # None /\ videoStatus \in {{}, {ON}}
      /\ linear \in Area /\ blitStatus \in {{}, {FREE}}
  BY DEF IInv, TypeOK
<1>4. /\ TurnsOff <=> due /\ videoStatus = {OFF, ON}
      /\ Frees <=> due /\ videoStatus = {FREE}
      /\ FreesBlit <=> blitDue /\ blitStatus = {FREE}
  BY <1>3 DEF TurnsOff, Frees, FreesBlit, OFF, FREE, ON
<1>5. /\ videoStatus' \in {{}, {ON}, {OFF, ON}, {FREE}}
      /\ due' \in BOOLEAN /\ enabled' \in BOOLEAN /\ timer' \in BOOLEAN
      /\ linear' \in Area /\ blitStatus' \in {{}, {FREE}}
      /\ grabbedByV4L => linear' # None /\ videoStatus' \in {{}, {ON}}
  <2>1. linear' \in Area
    BY <1>2, <1>3 DEF Area
  <2>2. grabbedByV4L => ~TurnsOff /\ ~Frees
    BY <1>3, <1>4 DEF OFF, FREE, ON
  <2> QED BY <1>2, <1>3, <2>1, <2>2 DEF NeedCallback
<1>6. TypeOK'
  BY <1>1, <1>5 DEF IInv, TypeOK
<1>7. OffMeansOff'
  BY <1>2, <1>3, <1>4 DEF IInv, OffMeansOff, OFF, FREE, ON
<1>8. TimersAreServed'
  <2>1. NeedCallback <=> \/ TurnsOff
                         \/ videoStatus # {} /\ ~due
                         \/ blitStatus # {} /\ ~blitDue
    BY DEF NeedCallback
  <2>2. CASE TurnsOff
    BY <1>2, <2>1, <2>2 DEF TimersAreServed
  <2>3. CASE ~TurnsOff
    BY <1>2, <1>3, <1>4, <2>1, <2>3 DEF TimersAreServed, OFF, FREE, ON
  <2> QED BY <2>2, <2>3
<1>9. BufferInv'
  BY <1>1 DEF IInv, BufferInv, NewestIsOther
<1>10. MemoryInv'
  <2>1. CASE Frees
    <3>1. ~enabled'
      BY <1>2, <1>4, <2>1 DEF IInv, OffMeansOff, OFF, FREE, ON
    <3> QED BY <1>1, <3>1, MemoryOff
  <2>2. CASE ~Frees
    <3>1. linear' = linear /\ (enabled' => enabled)
      BY <1>2, <2>2
    <3> QED BY <1>1, <3>1, MemoryKept DEF IInv
  <2> QED BY <2>1, <2>2
<1> QED BY <1>6, <1>7, <1>8, <1>9, <1>10 DEF IInv

(* An image of the blitter port, with its timer.                           *)
LEMMA PutImageBlitStep == ASSUME IInv, PutImageBlit PROVE IInv'
<1>1. /\ blitStatus' = {FREE} /\ blitDue' = FALSE /\ timer' = TRUE
      /\ UNCHANGED <<vtSema, linear, videoStatus, due, currentBuffer,
                     doubleBuffer, grabbedByV4L, clip, colorKey,
                     autopaintColorKey, painted, isOn, job, newest, moved, buf,
                     use, enabled, shown>>
  BY DEF PutImageBlit, portVars, keyVars, imageVars, hwVars
<1>2. blitStatus' \in {{}, {FREE}} /\ blitDue' \in BOOLEAN /\ timer' \in BOOLEAN
  BY <1>1
<1>3. TypeOK'
  BY <1>1, <1>2 DEF IInv, TypeOK
<1>4. MemoryInv'
  BY <1>1, MemoryKept DEF IInv
<1> QED BY <1>1, <1>3, <1>4
        DEF IInv, OffMeansOff, TimersAreServed, BufferInv, NewestIsOther

-----------------------------------------------------------------------------
(* What only concerns the window, the time, the modes and the VT. *)
LEMMA OtherSteps ==
    ASSUME IInv, \/ XvWhileGrabbed \/ SetAttribute \/ Reclip
                 \/ OverlayTime \/ BlitTime
                 \/ SwitchMode \/ LeaveVT \/ EnterVT
                 \/ UNCHANGED vars
    PROVE  IInv'
<1>1. /\ UNCHANGED <<linear, videoStatus, currentBuffer, grabbedByV4L,
                     blitStatus, timer, job, newest, moved, buf, use, shown>>
      /\ enabled' \in {FALSE, enabled}
  BY DEF XvWhileGrabbed, SetAttribute, SetDoubleBuffer, SetAutopaintColorKey,
         SetColorKey, SetDefaults, Reclip, OverlayTime, BlitTime, SwitchMode,
         LeaveVT, EnterVT, LoadState, vars, portVars, keyVars, blitVars,
         imageVars, hwVars
<1>2. /\ vtSema' \in BOOLEAN /\ due' \in BOOLEAN /\ doubleBuffer' \in BOOLEAN
      /\ clip' \in BOOLEAN /\ colorKey' \in Keys /\ autopaintColorKey' \in BOOLEAN
      /\ painted' \in Keys \cup {None} /\ blitDue' \in BOOLEAN
      /\ isOn' \in {"off", "pending", "on"}
  BY VideoAssumption, ZenonT(60)
     DEF XvWhileGrabbed, SetAttribute, SetDoubleBuffer, SetAutopaintColorKey,
         SetColorKey, SetDefaults, Reclip, OverlayTime, BlitTime, SwitchMode,
         LeaveVT, EnterVT, vars, portVars, keyVars, blitVars, IInv, TypeOK
<1>3. TypeOK'
  BY <1>1, <1>2 DEF IInv, TypeOK
<1>4. OffMeansOff'
  BY <1>1 DEF IInv, OffMeansOff
<1>5. TimersAreServed'
  BY <1>1 DEF IInv, TimersAreServed
<1>6. BufferInv'
  BY <1>1 DEF IInv, BufferInv, NewestIsOther
<1>7. MemoryInv'
  <2>1. enabled' => enabled
    BY <1>1
  <2> QED BY <1>1, <2>1, MemoryKept DEF IInv
<1> QED BY <1>3, <1>4, <1>5, <1>6, <1>7 DEF IInv

(* The hardware gives buffers back and takes none by itself. *)
LEMMA VBlankStep == ASSUME IInv, VBlank PROVE IInv'
<1>1. UNCHANGED <<vtSema, linear, videoStatus, due, currentBuffer,
                  doubleBuffer, grabbedByV4L, clip, colorKey,
                  autopaintColorKey, painted, blitStatus, blitDue, timer, isOn,
                  job, newest, moved, buf, enabled>>
  BY DEF VBlank, portVars, keyVars, blitVars, imageVars
<1>2. use' \subseteq use /\ shown' \in Buffer \cup {None}
  BY DEF VBlank, IInv, TypeOK
<1>3. TypeOK'
  BY <1>1, <1>2 DEF IInv, TypeOK
<1>4. MemoryInv'
  BY <1>1, MemoryKept DEF IInv
<1> QED BY <1>1, <1>2, <1>3, <1>4
        DEF IInv, OffMeansOff, TimersAreServed, BufferInv, NewestIsOther

(* Every step preserves the invariant.                                     *)
LEMMA NextIInv == IInv /\ [Next]_vars => IInv'
<1> SUFFICES ASSUME IInv, [Next]_vars PROVE IInv'
  OBVIOUS
<1>1. CASE Client
  BY <1>1, PutImageStep, PutImageBlitStep, StopSteps, OtherSteps DEF Client
<1>2. CASE V4L
  BY <1>2, AllocSurfaceStep, DisplaySurfaceStep, StopSteps DEF V4L
<1>3. CASE PutImageCopied
  BY <1>3, PutImageCopiedStep
<1>4. CASE VideoTimerCallback
  BY <1>4, VideoTimerCallbackStep
<1>5. CASE OverlayTime \/ BlitTime \/ SwitchMode \/ LeaveVT \/ EnterVT \/ UNCHANGED vars
  BY <1>5, OtherSteps
<1>6. CASE VBlank
  BY <1>6, VBlankStep
<1> QED BY <1>1, <1>2, <1>3, <1>4, <1>5, <1>6 DEF Next

(* The invariant holds in every reachable state. *)
THEOREM Inductive == Spec => []IInv
BY InitIInv, NextIInv, PTL DEF Spec

-----------------------------------------------------------------------------
(* The port never reaches a combination of states its record cannot hold: a
   surface V4L holds always has its memory, and no timer of the port runs then. *)
THEOREM TypeCorrect == Spec => []TypeOK
BY Inductive, PTL DEF IInv

(* The overlay is off whenever the driver thinks so. *)
THEOREM OffIsOff == Spec => []OffMeansOff
BY Inductive, PTL DEF IInv

(* A timer of either port has the callback. *)
THEOREM TimersServed == Spec => []TimersAreServed
BY Inductive, PTL DEF IInv

(* The copy of an image stays clear of the buffer on display, wherever in the
   copy the hardware changes buffers, and takes the newest when none is free. *)
THEOREM CopyApart == Spec => []CopyIsApart
<1>1. IInv => CopyIsApart
  <2> SUFFICES ASSUME IInv, job # None
               PROVE  LET written == Cells(JobBuffer, job.layout)
                      IN  IF job.skip
                          THEN SameLayout(newest) => written = Cells(newest, buf[newest])
                          ELSE shown # None /\ shown \in use /\ SameLayout(shown) =>
                                   written \cap Cells(shown, buf[shown]) = {}
    BY DEF CopyIsApart
  <2>1. /\ job.layout \in Laid /\ currentBuffer \in Buffer
        /\ use \subseteq Buffer
    BY DEF IInv, TypeOK
  <2>2. CASE job.skip
    <3> SUFFICES ASSUME SameLayout(newest)
                 PROVE  Cells(JobBuffer, job.layout) = Cells(newest, buf[newest])
      BY <2>2
    <3>1. newest = JobBuffer /\ buf[newest] = job.layout
      BY <2>2 DEF IInv, BufferInv, NewestIsOther, SameLayout, JobBuffer
    <3> QED BY <3>1
  <2>3. CASE ~job.skip
    <3> SUFFICES ASSUME shown \in use, SameLayout(shown)
                 PROVE  Cells(JobBuffer, job.layout) \cap Cells(shown, buf[shown]) = {}
      BY <2>3
    <3>1. /\ JobBuffer = currentBuffer /\ shown # currentBuffer
          /\ buf[shown] = job.layout /\ job.layout.double
      BY <2>3 DEF IInv, BufferInv, SameLayout, JobBuffer
    <3> QED BY <2>1, <3>1, HalvesApart
  <2> QED BY <2>2, <2>3
<1> QED BY <1>1, Inductive, PTL

(* Neither the timer nor a client nor V4L takes memory from under an overlay
   that is on, but for the client's own larger image. *)
THEOREM OwnMemoryRead == Spec => []ReadsOwnMemory
BY Inductive, PTL DEF IInv, MemoryInv
=============================================================================
