------------------------------ MODULE NVVideo ------------------------------
(***************************************************************************)
(* The video overlay of the nv driver (nv_video.c): the double buffering   *)
(* of images, the offscreen memory they live in, the timers that turn an   *)
(* idle overlay off and free its memory, and the offscreen surfaces of     *)
(* V4L.  Of the blitter port only what shares the timer is here; its       *)
(* drawing is in NVAccel.                                                  *)
(*                                                                         *)
(* The server is single threaded, but the overlay hardware changes buffers *)
(* at a vertical blank whatever the server does, also while it copies an   *)
(* image.  NVPutImage is therefore two steps: the choice of the place, and *)
(* what follows the copy.                                                  *)
(*                                                                         *)
(* Video memory is an array of cells.  The frame of an image takes one or  *)
(* more; the allocator of the server may place an area anywhere, may       *)
(* refuse, and may or may not be able to grow an area in place.  Of the    *)
(* time only whether videoTime has passed is kept.                         *)
(***************************************************************************)
EXTENDS Integers

CONSTANTS Memory,     \* cells of offscreen memory
          Frames,     \* sizes of images, in cells
          Keys,       \* colour keys
          VideoKey,   \* NVRec.videoKey, the default
          None        \* no area, no image, no buffer

ASSUME VideoAssumption ==
    /\ Memory \in Nat
    /\ Frames \subseteq 1..Memory /\ Frames # {}
    /\ VideoKey \in Keys
    /\ None \notin [base : Nat, size : Nat]

VARIABLES
    vtSema,
    linear,         \* the port's area, or None
    videoStatus,    \* a set of OFF_TIMER, FREE_TIMER, CLIENT_VIDEO_ON
    due,            \* videoTime < currentTime
    currentBuffer, doubleBuffer, grabbedByV4L,
    clip,           \* pPriv->clip is the window's clip
    colorKey, autopaintColorKey,
    painted,        \* what was last painted into the window, or None
    blitStatus, blitDue,    \* of the blitter port
    timer,          \* VideoTimerCallback # NULL
    isOn,           \* what the Xv layer of the server thinks of the port
    job,            \* the image NVPutImage is copying, or None
    newest,         \* the buffer last handed to the hardware
    moved,          \* auxiliary: NVAllocateOverlayMemory has given back the
                    \* area of that image, and no other was handed over since
    buf,            \* hardware: what its two buffers were programmed with
    use,            \* hardware: PMC[0x8700], the buffers in use
    enabled,        \* hardware: PMC[0x8704] = 0
    shown           \* hardware: the buffer on display, or None

portVars == <<linear, videoStatus, due, currentBuffer, doubleBuffer, grabbedByV4L>>
keyVars == <<clip, colorKey, autopaintColorKey, painted>>
blitVars == <<blitStatus, blitDue>>
hwVars == <<buf, use, enabled, shown>>
imageVars == <<newest, moved>>
vars == <<vtSema, portVars, keyVars, blitVars, timer, isOn, job, imageVars, hwVars>>

OFF == "off"
FREE == "free"
ON == "on"
Buffer == 0..1

(* An image is laid out in size cells from base, as two halves if double. *)
Layout(base, size, double) == [base |-> base, size |-> size, double |-> double]

Cells(b, l) ==
    IF l = None THEN {}
    ELSE IF ~l.double THEN l.base..(l.base + l.size - 1)
    ELSE LET half == l.size \div 2
         IN  (l.base + b * half)..(l.base + b * half + half - 1)

Inside(l, area) == area.base <= l.base /\ l.base + l.size <= area.base + area.size

(* NVAllocateOverlayMemory: an area that is large enough is kept; another is
   resized in place, or freed before a new one is looked for, which there may
   not be. *)
AllocateOverlayMemory(size) ==
    \/ /\ linear # None /\ size <= linear.size
       /\ UNCHANGED <<linear, moved>>
    \/ /\ linear # None /\ size > linear.size
       /\ linear.base + size <= Memory
       /\ linear' = [linear EXCEPT !.size = size]
       /\ UNCHANGED moved
    \/ /\ linear # None => size > linear.size
       /\ linear' \in {None} \cup [base : 0..(Memory - size), size : {size}]
       /\ moved' = (moved \/ linear # None)

-----------------------------------------------------------------------------
(* NVPutOverlayImage into buffer b. *)
PutOverlayImage(b, layout) ==
    /\ IF autopaintColorKey /\ (grabbedByV4L \/ ~clip)
       THEN /\ painted' = colorKey
            /\ clip' = (clip \/ ~grabbedByV4L)
       ELSE UNCHANGED <<painted, clip>>
    /\ buf' = [buf EXCEPT ![b] = layout]
    /\ use' = use \cup {b}
    /\ enabled' = TRUE
    /\ newest' = b
    /\ moved' = FALSE
    /\ videoStatus' = {ON}
    /\ UNCHANGED <<colorKey, autopaintColorKey, shown>>

Server == vtSema /\ job = None

(* NVPutImage on the overlay port, up to the copy. *)
PutImage(frame) ==
    /\ Server
    /\ ~grabbedByV4L
    /\ LET newSize == IF doubleBuffer THEN 2 * frame ELSE frame
       IN  /\ AllocateOverlayMemory(newSize)
           /\ job' = IF linear' = None THEN None      \* BadAlloc
                     ELSE [layout |-> Layout(linear'.base, newSize, doubleBuffer),
                           skip |-> doubleBuffer /\ currentBuffer \in use]
    /\ UNCHANGED <<vtSema, videoStatus, due, currentBuffer, doubleBuffer,
                   grabbedByV4L, keyVars, blitVars, timer, newest, hwVars,
                   isOn>>

(* The buffer the copy goes to. *)
JobBuffer == IF job.skip THEN 1 - currentBuffer ELSE currentBuffer

(* Mistake: currentBuffer not changed. *)
PutImageCopied_SameBuffer ==
    /\ job # None
    /\ job' = None
    /\ isOn' = "on"
    /\ IF job.skip
       THEN UNCHANGED <<portVars, keyVars, imageVars, hwVars>>
       ELSE /\ PutOverlayImage(currentBuffer, job.layout)
            /\ UNCHANGED <<linear, due, currentBuffer, doubleBuffer,
                           grabbedByV4L>>
    /\ UNCHANGED <<vtSema, blitVars, timer>>

PutImageCopied ==
    /\ job # None
    /\ job' = None
    /\ isOn' = "on"
    /\ IF job.skip
       THEN UNCHANGED <<portVars, keyVars, imageVars, hwVars>>
       ELSE /\ PutOverlayImage(currentBuffer, job.layout)
            /\ currentBuffer' = 1 - currentBuffer
            /\ UNCHANGED <<linear, due, doubleBuffer, grabbedByV4L>>
    /\ UNCHANGED <<vtSema, blitVars, timer>>

(* The same on a blitter port: all of them share one record.  With BadAlloc
   nothing changes. *)
PutImageBlit ==
    /\ Server
    /\ blitStatus' = {FREE} /\ blitDue' = FALSE
    /\ timer' = TRUE
    /\ UNCHANGED <<vtSema, portVars, keyVars, isOn, job, imageVars, hwVars>>

(* NVStopOverlayVideo, called once for what has been put. *)
StopOverlayVideoExit ==
    /\ Server
    /\ isOn # "off" /\ isOn' = "off"
    /\ ~grabbedByV4L
    /\ clip' = FALSE
    /\ enabled' = (enabled /\ ON \notin videoStatus)
    /\ linear' = None
    /\ videoStatus' = {}
    /\ UNCHANGED <<vtSema, due, currentBuffer, doubleBuffer, grabbedByV4L,
                   colorKey, autopaintColorKey, painted, blitVars, timer, job,
                   imageVars, buf, use, shown>>

StopOverlayVideo ==
    /\ Server
    /\ isOn = "on" /\ isOn' = "pending"
    /\ ~grabbedByV4L
    /\ clip' = FALSE
    /\ IF ON \in videoStatus
       THEN videoStatus' = {OFF, ON} /\ due' = FALSE /\ timer' = TRUE
       ELSE UNCHANGED <<videoStatus, due, timer>>
    /\ UNCHANGED <<vtSema, linear, currentBuffer, doubleBuffer, grabbedByV4L,
                   colorKey, autopaintColorKey, painted, blitVars, job,
                   imageVars, hwVars>>

(* NVPutImage and NVStopOverlayVideo return at once. *)
XvWhileGrabbed ==
    /\ Server
    /\ grabbedByV4L
    /\ isOn' \in {"off", "pending", "on"} \ {isOn}
    /\ UNCHANGED <<vtSema, portVars, keyVars, blitVars, timer, job, imageVars,
                   hwVars>>

-----------------------------------------------------------------------------
(* NVSetOverlayPortAttribute, for the attributes that have an effect here. *)

SetDoubleBuffer(value) ==
    /\ Server
    /\ doubleBuffer' = value
    /\ UNCHANGED <<vtSema, linear, videoStatus, due, currentBuffer,
                   grabbedByV4L, keyVars, blitVars, timer, isOn, job, imageVars,
                   hwVars>>

SetColorKey(key) ==
    /\ Server
    /\ colorKey' = key
    /\ clip' = FALSE
    /\ UNCHANGED <<vtSema, portVars, autopaintColorKey, painted, blitVars,
                   timer, isOn, job, imageVars, hwVars>>

SetAutopaintColorKey(value) ==
    /\ Server
    /\ autopaintColorKey' = value
    /\ UNCHANGED <<vtSema, portVars, clip, colorKey, painted, blitVars, timer,
                   isOn, job, imageVars, hwVars>>

(* NVSetPortDefaults *)
SetDefaults ==
    /\ Server
    /\ colorKey' = VideoKey
    /\ autopaintColorKey' = TRUE
    /\ doubleBuffer' = TRUE
    /\ UNCHANGED <<vtSema, linear, videoStatus, due, currentBuffer,
                   grabbedByV4L, clip, painted, blitVars, timer, isOn, job,
                   imageVars, hwVars>>

SetAttribute == \/ \E v \in BOOLEAN : SetDoubleBuffer(v) \/ SetAutopaintColorKey(v)
                \/ \E key \in Keys : SetColorKey(key)
                \/ SetDefaults

(* The window moves or is covered: its clip is another, and not painted. *)
Reclip ==
    /\ Server
    /\ clip' = FALSE
    /\ painted' = None
    /\ UNCHANGED <<vtSema, portVars, colorKey, autopaintColorKey, blitVars,
                   timer, isOn, job, imageVars, hwVars>>

-----------------------------------------------------------------------------
(* Offscreen surfaces. *)

(* Mistake: the overlay goes on showing the client's images. *)
AllocSurface_NotStopped(size) ==
    /\ Server
    /\ ~grabbedByV4L
    /\ AllocateOverlayMemory(size)
    /\ IF linear' = None
       THEN UNCHANGED <<videoStatus, clip, grabbedByV4L>>
       ELSE /\ videoStatus' = {}
            /\ clip' = FALSE
            /\ grabbedByV4L' = TRUE
    /\ UNCHANGED <<vtSema, due, currentBuffer, doubleBuffer, colorKey,
                   autopaintColorKey, painted, blitVars, timer, isOn, job,
                   newest, hwVars>>

(* Mistake: the surface handed out whether there is memory for it or not. *)
AllocSurface_NoCheck(size) ==
    /\ Server
    /\ ~grabbedByV4L
    /\ AllocateOverlayMemory(size)
    /\ enabled' = FALSE
    /\ videoStatus' = {}
    /\ clip' = FALSE
    /\ grabbedByV4L' = TRUE
    /\ UNCHANGED <<vtSema, due, currentBuffer, doubleBuffer, colorKey,
                   autopaintColorKey, painted, blitVars, timer, isOn, job,
                   newest, buf, use, shown>>

AllocSurface(size) ==
    /\ Server
    /\ ~grabbedByV4L
    /\ AllocateOverlayMemory(size)
    /\ IF linear' = None
       THEN UNCHANGED <<enabled, videoStatus, clip, grabbedByV4L>>
       ELSE /\ enabled' = FALSE
            /\ videoStatus' = {}
            /\ clip' = FALSE
            /\ grabbedByV4L' = TRUE
    /\ UNCHANGED <<vtSema, due, currentBuffer, doubleBuffer, colorKey,
                   autopaintColorKey, painted, blitVars, timer, isOn, job,
                   newest, buf, use, shown>>

DisplaySurface(size) ==
    /\ Server
    /\ grabbedByV4L
    /\ size <= linear.size
    /\ currentBuffer' = 0
    /\ PutOverlayImage(0, Layout(linear.base, size, FALSE))
    /\ UNCHANGED <<vtSema, linear, due, doubleBuffer, grabbedByV4L, blitVars,
                   timer, job, isOn>>

StopOverlayOfSurface ==
    /\ enabled' = (enabled /\ videoStatus = {})
    /\ videoStatus' = {}

StopSurface ==
    /\ Server
    /\ grabbedByV4L
    /\ StopOverlayOfSurface
    /\ UNCHANGED <<vtSema, linear, due, currentBuffer, doubleBuffer,
                   grabbedByV4L, keyVars, blitVars, timer, isOn, job, imageVars,
                   buf, use, shown>>

(* Mistake: the memory freed without NVStopSurface. *)
FreeSurface_NotStopped ==
    /\ Server
    /\ grabbedByV4L
    /\ linear' = None
    /\ grabbedByV4L' = FALSE
    /\ UNCHANGED <<vtSema, due, currentBuffer, doubleBuffer, keyVars,
                   blitVars, timer, isOn, job, imageVars, videoStatus, hwVars>>

FreeSurface ==
    /\ Server
    /\ grabbedByV4L
    /\ StopOverlayOfSurface
    /\ linear' = None
    /\ grabbedByV4L' = FALSE
    /\ UNCHANGED <<vtSema, due, currentBuffer, doubleBuffer, keyVars,
                   blitVars, timer, isOn, job, imageVars, buf, use, shown>>

-----------------------------------------------------------------------------
(* NVVideoTimerCallback, from NVBlockHandler. *)

TurnsOff == videoStatus # {} /\ due /\ OFF \in videoStatus
Frees == videoStatus # {} /\ due /\ OFF \notin videoStatus /\ FREE \in videoStatus
FreesBlit == blitStatus # {} /\ blitDue

(* Mistake: the callback stays only for timers that have not expired. *)
NeedCallback_NotAfterOff == \/ videoStatus # {} /\ ~due
                            \/ blitStatus # {} /\ ~blitDue

(* needCallback *)
NeedCallback == \/ TurnsOff
                \/ videoStatus # {} /\ ~due
                \/ blitStatus # {} /\ ~blitDue

VideoTimerCallback ==
    /\ Server
    /\ timer
    /\ enabled' = (enabled /\ ~TurnsOff)
    /\ videoStatus' = IF TurnsOff THEN {FREE}
                      ELSE IF Frees THEN {} ELSE videoStatus
    /\ due' = (due /\ ~TurnsOff)
    /\ linear' = IF Frees THEN None ELSE linear
    /\ blitStatus' = IF FreesBlit THEN {} ELSE blitStatus
    /\ timer' = NeedCallback
    /\ UNCHANGED <<vtSema, currentBuffer, doubleBuffer, grabbedByV4L, keyVars,
                   blitDue, isOn, job, imageVars, buf, use, shown>>

(* videoTime passes. *)
OverlayTime ==
    /\ ~due
    /\ due' = TRUE
    /\ UNCHANGED <<vtSema, linear, videoStatus, currentBuffer, doubleBuffer,
                   grabbedByV4L, keyVars, blitVars, timer, isOn, job, imageVars,
                   hwVars>>

BlitTime ==
    /\ ~blitDue
    /\ blitDue' = TRUE
    /\ UNCHANGED <<vtSema, portVars, keyVars, blitStatus, timer,
                   isOn, job, imageVars, hwVars>>

-----------------------------------------------------------------------------
(* Modes and VTs.  NVLoadStateExt turns the overlay off behind the back of
   videoStatus; with VBE modes nobody does. *)

LoadState == enabled' \in {FALSE, enabled}

SwitchMode ==
    /\ Server
    /\ LoadState
    /\ UNCHANGED <<vtSema, portVars, keyVars, blitVars, timer, isOn, job,
                   imageVars, buf, use, shown>>

LeaveVT ==
    /\ Server
    /\ vtSema' = FALSE
    /\ LoadState
    /\ UNCHANGED <<portVars, keyVars, blitVars, timer, isOn, job, imageVars, buf,
                   use, shown>>

EnterVT ==
    /\ ~vtSema
    /\ vtSema' = TRUE
    /\ LoadState
    /\ UNCHANGED <<portVars, keyVars, blitVars, timer, isOn, job, imageVars, buf,
                   use, shown>>

-----------------------------------------------------------------------------
(* The overlay hardware at a vertical blank: it goes on to the other buffer if
   that was handed to it and gives the old one back, taking them in order; when
   it has been turned off it gives back both. *)
VBlank ==
    /\ IF enabled
       THEN \E b \in use \ {shown} :
               /\ shown = None /\ use = Buffer => b # newest
               /\ shown' = b
               /\ use' = use \ {shown}
       ELSE /\ use # {}
            /\ shown' = None
            /\ use' = {}
    /\ UNCHANGED <<vtSema, portVars, keyVars, blitVars, timer, isOn, job,
                   imageVars, buf, enabled>>

-----------------------------------------------------------------------------
Init ==
    /\ vtSema = TRUE
    /\ linear = None /\ videoStatus = {} /\ due = TRUE
    /\ currentBuffer = 0 /\ doubleBuffer = TRUE /\ grabbedByV4L = FALSE
    /\ clip = FALSE /\ colorKey = VideoKey /\ autopaintColorKey = TRUE
    /\ painted = None
    /\ blitStatus = {} /\ blitDue = TRUE
    /\ timer = FALSE
    /\ isOn = "off"
    /\ job = None /\ newest = 0 /\ moved = FALSE
    /\ buf = [b \in Buffer |-> None] /\ use = {} /\ enabled = FALSE /\ shown = None

Client == \/ \E frame \in Frames : PutImage(frame)
          \/ PutImageBlit
          \/ StopOverlayVideo \/ StopOverlayVideoExit
          \/ XvWhileGrabbed
          \/ SetAttribute
          \/ Reclip

V4L == \/ \E size \in Frames : AllocSurface(size) \/ DisplaySurface(size)
       \/ StopSurface \/ FreeSurface

Next == \/ Client \/ V4L
        \/ PutImageCopied
        \/ VideoTimerCallback \/ OverlayTime \/ BlitTime
        \/ SwitchMode \/ LeaveVT \/ EnterVT
        \/ VBlank

Spec == Init /\ [][Next]_vars

(* Time passes, the screen is refreshed, a copy ends, and the server runs its
   block handler again and again while it has the VT. *)
FairSpec == /\ Spec
            /\ WF_vars(OverlayTime) /\ WF_vars(BlitTime)
            /\ WF_vars(VBlank) /\ WF_vars(PutImageCopied)
            /\ SF_vars(VideoTimerCallback)

-----------------------------------------------------------------------------
(* Properties. *)

Area == {None} \cup [base : 0..Memory, size : 1..Memory]
Laid == [base : 0..Memory, size : 1..Memory, double : BOOLEAN]

TypeOK ==
    /\ vtSema \in BOOLEAN /\ linear \in Area
    /\ videoStatus \in {{}, {ON}, {OFF, ON}, {FREE}}
    /\ due \in BOOLEAN
    /\ currentBuffer \in Buffer /\ doubleBuffer \in BOOLEAN
    /\ grabbedByV4L \in BOOLEAN
    /\ grabbedByV4L => linear # None /\ videoStatus \in {{}, {ON}}
    /\ clip \in BOOLEAN /\ colorKey \in Keys /\ autopaintColorKey \in BOOLEAN
    /\ painted \in Keys \cup {None}
    /\ blitStatus \in {{}, {FREE}} /\ blitDue \in BOOLEAN
    /\ timer \in BOOLEAN
    /\ isOn \in {"off", "pending", "on"}
    /\ job = None \/ job \in [layout : Laid, skip : BOOLEAN]
    /\ newest \in Buffer /\ moved \in BOOLEAN
    /\ buf \in [Buffer -> {None} \cup Laid]
    /\ use \subseteq Buffer /\ enabled \in BOOLEAN
    /\ shown \in Buffer \cup {None}

(* The overlay is never on while the driver thinks that it is off: every path
   that clears CLIENT_VIDEO_ON has stopped it, whichever of the client, V4L and
   the timer came first. *)
OffMeansOff == ON \notin videoStatus => ~enabled

(* What the overlay was given to show lies in the memory of the port for as
   long as it is on, and so does the image that is being copied.  The exception
   is a larger image of the client, whose area NVAllocateOverlayMemory may free
   under the running overlay: from there to the first image handed over in the
   new one.  V4L grabs the port and its memory only once the overlay is off. *)
ReadsOwnMemory ==
    /\ enabled /\ (moved => grabbedByV4L) =>
           linear # None /\ Inside(buf[newest], linear)
    /\ job # None => linear # None /\ Inside(job.layout, linear)

(* As long as images keep their size and place, the copy of an image neither
   touches the buffer on display, though the hardware may change buffers during
   it, nor, when no buffer is free, any other than the newest. *)
SameLayout(b) == buf[b] = job.layout /\ job.layout.double

CopyIsApart ==
    job # None =>
        LET written == Cells(JobBuffer, job.layout)
        IN  IF job.skip
            THEN SameLayout(newest) => written = Cells(newest, buf[newest])
            ELSE shown # None /\ shown \in use /\ SameLayout(shown) =>
                     written \cap Cells(shown, buf[shown]) = {}

(* A timer that runs has its callback: the two ports share it, and each may
   find the other's still pending. *)
TimersAreServed ==
    {OFF, FREE} \cap (videoStatus \cup blitStatus) # {} => timer

(* Video that its client stopped is off and its memory freed in the end, unless
   the client puts another image, V4L takes it or the VT is left. *)
StoppedIsFreed ==
    OFF \in videoStatus ~> \/ ~enabled /\ linear = None
                           \/ isOn = "on"
                           \/ grabbedByV4L
                           \/ ~vtSema

-----------------------------------------------------------------------------
(* What comments of the code say, and what it does not do. *)

(* "overwrite the newest buffer if there's not one free", while a video plays:
   without the condition that images keep their size and place. *)
NewestOverwritten ==
    job # None /\ job.skip /\ videoStatus = {ON} =>
        Cells(JobBuffer, job.layout) = Cells(newest, buf[newest])

(* "paint the color key": an image shown with autopaint finds the window painted
   with the key the hardware compares with. *)
KeyIsPainted ==
    [][PutImageCopied /\ ~job.skip /\ autopaintColorKey => painted' = colorKey]_vars
=============================================================================
