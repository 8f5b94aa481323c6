------------------------------ MODULE NVAccel ------------------------------
(***************************************************************************)
(* 2D acceleration of the nv driver (nv_xaa.c, the drawing half of         *)
(* nv_dga.c, NVPutBlitImage of nv_video.c) together with the parts of      *)
(* nv_driver.c that stop and restart the engine.                           *)
(*                                                                         *)
(* The command buffer is used through what CommandStream promises of it,   *)
(* one level up: cmds is the sequence of methods written and not yet       *)
(* executed, of which the first kicked are published to the engine.  The   *)
(* engine executes them in order.  Its state hw lives between methods: a   *)
(* drawing command uses whatever raster operation, pattern, colour,        *)
(* surface and clip were set before it.  The driver does not read that     *)
(* state back, it trusts currentRop.  Each drawing command here carries    *)
(* what the caller wanted, so that the two can be compared when it         *)
(* executes.                                                               *)
(*                                                                         *)
(* A step of the driver is one of its entry points, or the part of one     *)
(* between two waits.  The server is single threaded: no entry point and   *)
(* no block handler runs inside another, but the engine always runs.       *)
(***************************************************************************)
EXTENDS Naturals, SequencesExt

CONSTANTS Rops,        \* X raster operations, GXcopy among them
          GXcopy,
          Planemasks,  \* planemasks other than ~0
          Patterns,    \* 8x8 mono patterns with their colours
          Colors,      \* fill colours other than 0
          MaxLines,    \* scanlines of an image or of a bitmap
          MaxCmds,     \* bound on the methods outstanding
          Depth15,     \* the screen has depth 15
          DontCare,         \* a state a drawing command does not depend on
          Unknown      \* a state nobody has set

ASSUME AccelAssumption ==
    /\ GXcopy \in Rops
    /\ MaxLines \in Nat \ {0}
    /\ MaxCmds \in Nat /\ MaxCmds >= 4
    /\ Depth15 \in BOOLEAN

VARIABLES
    cmds,        \* methods not yet executed, oldest first
    kicked,      \* how many of them are published
    hw,          \* the engine's state
    scratch,     \* the line in the scratch buffer
    currentRop,  \* NVRec.currentRop
    callback,    \* NVRec.DMAKickoffCallback # NULL
    needSync,    \* XAA's NeedToSync flag
    vtSema,      \* the server owns the hardware
    op,          \* what the last Setup prepared
    remaining,   \* _remaining
    pc           \* where the driver is

driverVars == <<scratch, currentRop, callback, needSync, vtSema, op, remaining,
                pc>>
vars == <<cmds, kicked, hw, driverVars>>

(* currentRop: 0-15 solid, 16-31 pattern, 32-47 with planemask, or invalid. *)
Invalid == [table |-> "none", rop |-> GXcopy]
Rop(table, r) == [table |-> table, rop |-> r]

Ones == "ones"

(* Methods.  A drawing command carries the state it is meant for. *)
Set(field, value) == [method |-> "set", field |-> field, value |-> value]
Draw(want) == [method |-> "draw", want |-> want]
Stall == [method |-> "stall"]       \* no effect on hw or on the screen

Want(rop, pattern, color) ==
    [rop |-> rop, pattern |-> pattern, color |-> color, surface |-> "screen",
     format |-> "screen", clip |-> DontCare, line |-> DontCare]

IsDraw(c) == c.method = "draw"
NoDraws(s) == \A i \in 1..Len(s) : ~IsDraw(s[i])
Unpublished == SubSeq(cmds, kicked + 1, Len(cmds))

UnknownHw == [rop |-> Unknown, pattern |-> Unknown, color |-> Unknown,
              surface |-> Unknown, format |-> Unknown, clip |-> "off"]

NoOp == [kind |-> "none"]

-----------------------------------------------------------------------------
(* Writing methods. *)

Emit(ms) ==
    /\ vtSema
    /\ Len(cmds) + Len(ms) <= MaxCmds
    /\ cmds' = cmds \o ms
    /\ UNCHANGED <<kicked, hw>>

EmitAndKick(ms) ==
    /\ vtSema
    /\ Len(cmds) + Len(ms) <= MaxCmds
    /\ cmds' = cmds \o ms
    /\ kicked' = Len(cmds')
    /\ UNCHANGED hw

(* Areas of 512 pixels and more are kicked at once. *)
EmitArea(ms) == Emit(ms) \/ EmitAndKick(ms)

(* NVSetRopSolid: the methods, and what becomes of currentRop. *)
RopSolidMethods(r, planemask) ==
    IF planemask # Ones
    THEN <<Set("pattern", planemask)>> \o
         (IF currentRop # Rop("planemask", r)
          THEN <<Set("rop", Rop("planemask", r))>> ELSE << >>)
    ELSE IF currentRop # Rop("solid", r)
    THEN (IF currentRop.table # "solid" THEN <<Set("pattern", Ones)>> ELSE << >>)
         \o <<Set("rop", Rop("solid", r))>>
    ELSE << >>

RopSolid(r, planemask) ==
    Rop(IF planemask # Ones THEN "planemask" ELSE "solid", r)

WantSolid(r, planemask, color) ==
    Want(RopSolid(r, planemask), IF planemask # Ones THEN planemask ELSE DontCare, color)

-----------------------------------------------------------------------------
(* Setup entry points. *)

Idle == pc = "idle" /\ vtSema

(* The Setup half of copies, fills and lines; more is what follows the rop. *)
SetupSolid(kind, r, planemask, color, more) ==
    /\ Idle
    /\ Emit(RopSolidMethods(r, planemask) \o more)
    /\ currentRop' = RopSolid(r, planemask)
    /\ op' = [kind |-> kind, want |-> WantSolid(r, planemask, color)]
    /\ UNCHANGED <<scratch, needSync, vtSema, remaining, pc>>

SetupForScreenToScreenCopy(r, planemask) ==
    /\ SetupSolid("copy", r, planemask, DontCare, << >>)
    /\ callback' = TRUE

(* Mistake: the callback not armed. *)
SetupForSolidFill_NotArmed(r, planemask, color) ==
    /\ SetupSolid("fill", r, planemask, color, <<Set("color", color)>>)
    /\ UNCHANGED callback

SetupForSolidFill(r, planemask, color) ==
    /\ SetupSolid("fill", r, planemask, color, <<Set("color", color)>>)
    /\ callback' = TRUE

SetupForSolidLine(r, planemask) ==
    /\ SetupSolid("line", r, planemask, DontCare, << >>)
    /\ callback' = TRUE

SetupForScanlineColorExpand(r, planemask) ==
    /\ SetupSolid("expand", r, planemask, DontCare, << >>)
    /\ UNCHANGED callback

SetupForScanlineImageWrite(r, planemask) ==
    /\ SetupSolid("image", r, planemask, DontCare, << >>)
    /\ UNCHANGED callback

(* NO_PLANEMASK: the pattern is sent whatever currentRop is. *)
SetupForMono8x8PatternFill(r, pattern, color) ==
    /\ Idle
    /\ Emit((IF currentRop # Rop("pattern", r)
             THEN <<Set("rop", Rop("pattern", r))>> ELSE << >>)
            \o <<Set("pattern", pattern), Set("color", color)>>)
    /\ currentRop' = Rop("pattern", r)
    /\ op' = [kind |-> "fill", want |-> Want(Rop("pattern", r), pattern, color)]
    /\ callback' = TRUE
    /\ UNCHANGED <<scratch, needSync, vtSema, remaining, pc>>

Setup ==
    \E r \in Rops :
       \/ \E planemask \in Planemasks \cup {Ones} :
             \/ SetupForScreenToScreenCopy(r, planemask)
             \/ \E color \in Colors : SetupForSolidFill(r, planemask, color)
             \/ SetupForSolidLine(r, planemask)
             \/ SetupForScanlineColorExpand(r, planemask)
             \/ SetupForScanlineImageWrite(r, planemask)
       \/ \E pattern \in Patterns, color \in Colors :
             SetupForMono8x8PatternFill(r, pattern, color)

-----------------------------------------------------------------------------
(* Subsequent entry points; XAA marks the framebuffer as in use by the engine
   after each of them. *)

SubsequentArea ==       \* copy, solid fill, pattern fill
    /\ Idle /\ op.kind \in {"copy", "fill"}
    /\ EmitArea(<<Draw(op.want)>>)
    /\ needSync' = TRUE
    /\ UNCHANGED <<scratch, currentRop, callback, vtSema, op, remaining, pc>>

SubsequentLine ==       \* with LINE_COLOR in front, never kicked
    /\ Idle /\ op.kind = "line"
    /\ Emit(<<Draw([op.want EXCEPT !.clip = "off"])>>)
    /\ needSync' = TRUE
    /\ UNCHANGED <<scratch, currentRop, callback, vtSema, op, remaining, pc>>

(* NVSetClippingRectangle, a line, NVDisableClipping. *)
SubsequentClippedLine ==
    /\ Idle /\ op.kind = "line"
    /\ Emit(<<Set("clip", "on"), Draw([op.want EXCEPT !.clip = "on"]),
              Set("clip", "off")>>)
    /\ needSync' = TRUE
    /\ UNCHANGED <<scratch, currentRop, callback, vtSema, op, remaining, pc>>

(* NVSubsequentScanlineCPUToScreenColorExpandFill: the clip, the colours and
   the header of the first scanline, whose dwords XAA stores in the ring. *)
SubsequentColorExpand(h) ==
    /\ Idle /\ op.kind = "expand"
    /\ Emit(<<Stall>>)
    /\ remaining' = h
    /\ pc' = "expand"
    /\ UNCHANGED <<scratch, currentRop, callback, needSync, vtSema, op>>

(* Mistake: the scanlines counted down after the test. *)
SubsequentColorExpandScanline_OneMore ==
    /\ pc = "expand"
    /\ remaining' = remaining - 1
    /\ IF remaining # 0
       THEN /\ Emit(<<Draw(op.want)>>)
            /\ UNCHANGED <<pc, needSync>>
       ELSE /\ EmitAndKick(<<Draw(op.want), Stall>>)
            /\ pc' = "idle"
            /\ needSync' = TRUE
    /\ UNCHANGED <<scratch, currentRop, callback, vtSema, op>>

(* NVSubsequentColorExpandScanline *)
SubsequentColorExpandScanline ==
    /\ pc = "expand"
    /\ remaining' = remaining - 1
    /\ IF remaining' # 0
       THEN /\ Emit(<<Draw(op.want)>>)
            /\ UNCHANGED <<pc, needSync>>
       ELSE /\ EmitAndKick(<<Draw(op.want), Stall>>)
            /\ pc' = "idle"
            /\ needSync' = TRUE
    /\ UNCHANGED <<scratch, currentRop, callback, vtSema, op>>

-----------------------------------------------------------------------------
(* NVSync, called at the point of an entry point that pc names. *)

(* Mistake: the callback disarmed without a kick. *)
KickIfArmed_OnlyDisarms ==
    /\ kicked' = kicked
    /\ callback' = FALSE

KickIfArmed ==
    /\ kicked' = IF callback THEN Len(cmds) ELSE kicked
    /\ callback' = FALSE

SyncTo(where) ==
    /\ KickIfArmed
    /\ pc' = where
    /\ UNCHANGED <<cmds, hw>>

Synced(where) == pc = where /\ kicked = 0

(* XAA calls NVSync before the CPU touches the framebuffer, if it knows of a
   reason to; a DGA client calls it directly. *)
CpuAccess ==
    /\ Idle
    /\ IF needSync
       THEN SyncTo("syncCpu")
       ELSE pc' = "cpu" /\ UNCHANGED <<cmds, kicked, hw, callback>>
    /\ op' = NoOp
    /\ UNCHANGED <<scratch, currentRop, needSync, vtSema, remaining>>

CpuStart ==
    /\ Synced("syncCpu")
    /\ needSync' = FALSE
    /\ pc' = "cpu"
    /\ UNCHANGED <<cmds, kicked, hw, scratch, currentRop, callback, vtSema, op,
                   remaining>>

CpuDone ==
    /\ pc = "cpu"
    /\ pc' = "idle"
    /\ UNCHANGED <<cmds, kicked, hw, scratch, currentRop, callback, needSync,
                   vtSema, op, remaining>>

-----------------------------------------------------------------------------
(* Image writes go through the scratch buffer, one scanline at a time, with the
   source of blits redirected to it. *)

SubsequentImageWriteRect(h) ==
    /\ Idle /\ op.kind = "image"
    /\ remaining' = h
    /\ SyncTo("syncImage")
    /\ UNCHANGED <<scratch, currentRop, needSync, vtSema, op>>

ImageRedirect ==
    /\ Synced("syncImage")
    /\ Emit(<<Set("surface", "scratch")>>)
    /\ pc' = "line"
    /\ UNCHANGED <<scratch, currentRop, callback, needSync, vtSema, op, remaining>>

(* XAA stores a scanline; two in a row are told apart. *)
StoreLine ==
    /\ pc = "line"
    /\ scratch' = 1 - scratch
    /\ pc' = "stored"
    /\ UNCHANGED <<cmds, kicked, hw, currentRop, callback, needSync, vtSema, op,
                   remaining>>

ImageBlit == Draw([op.want EXCEPT !.surface = "scratch", !.line = scratch])

(* NVSubsequentImageWriteScanline: the blit is kicked; then NVSync, which runs
   the callback if there is one, or the redirection is undone. *)
SubsequentImageWriteScanline ==
    /\ pc = "stored"
    /\ remaining' = remaining - 1
    /\ IF remaining' # 0
       THEN /\ EmitAndKick(<<ImageBlit>>)
            /\ callback' = FALSE
            /\ pc' = "syncNextLine"
            /\ UNCHANGED needSync
       ELSE /\ Len(cmds) + 2 <= MaxCmds
            /\ cmds' = cmds \o <<ImageBlit, Set("surface", "screen")>>
            /\ kicked' = Len(cmds) + 1
            /\ pc' = "idle"
            /\ needSync' = TRUE
            /\ UNCHANGED <<hw, callback>>
    /\ UNCHANGED <<scratch, currentRop, vtSema, op>>

ImageNextLine ==
    /\ Synced("syncNextLine")
    /\ pc' = "line"
    /\ UNCHANGED <<cmds, kicked, hw, scratch, currentRop, callback, needSync,
                   vtSema, op, remaining>>

-----------------------------------------------------------------------------
(* NVPutBlitImage: its own operation, but the rectangle colour and, at depth
   15, the surface format are shared with everybody else. *)
WantVideo == [rop |-> DontCare, pattern |-> DontCare, color |-> 0, surface |-> "screen",
              format |-> IF Depth15 THEN "depth15" ELSE "screen",
              clip |-> DontCare, line |-> DontCare]

VideoMethods ==
    (IF Depth15 THEN <<Set("format", "depth15")>> ELSE << >>)
    \o <<Set("color", 0), Draw(WantVideo)>>
    \o (IF Depth15 THEN <<Set("format", "screen")>> ELSE << >>)

(* Mistake: no SET_SYNC_FLAG. *)
PutBlitImage_NoSyncFlag ==
    /\ Idle
    /\ EmitAndKick(VideoMethods)
    /\ op' = NoOp
    /\ UNCHANGED <<scratch, currentRop, callback, needSync, vtSema, remaining, pc>>

PutBlitImage ==
    /\ Idle
    /\ EmitAndKick(VideoMethods)
    /\ needSync' = TRUE
    /\ op' = NoOp
    /\ UNCHANGED <<scratch, currentRop, callback, vtSema, remaining, pc>>

(* NV_FillRect and NV_BlitRect: Setup and Subsequent in one call. *)
DGADraw(want, more) ==
    /\ Idle
    /\ EmitArea(RopSolidMethods(GXcopy, Ones) \o more \o <<Draw(want)>>)
    /\ currentRop' = Rop("solid", GXcopy)
    /\ callback' = TRUE
    /\ needSync' = TRUE
    /\ op' = NoOp
    /\ UNCHANGED <<scratch, vtSema, remaining, pc>>

DGAFillRect(color) ==
    DGADraw(WantSolid(GXcopy, Ones, color), <<Set("color", color)>>)
DGABlitRect == DGADraw(WantSolid(GXcopy, Ones, DontCare), << >>)

-----------------------------------------------------------------------------
(* NVBlockHandler, between requests: whatever Setup was done is over. *)
BlockHandler ==
    /\ pc = "idle"
    /\ KickIfArmed
    /\ op' = NoOp
    /\ UNCHANGED <<cmds, hw, scratch, currentRop, needSync, vtSema, remaining, pc>>

(* NVDmaWait, where methods are about to be written, may have to wrap, which
   publishes what is there. *)
AboutToWrite == pc \in {"idle", "expand", "stored"} \/ Synced("syncImage")

DmaWait ==
    /\ vtSema
    /\ AboutToWrite
    /\ kicked < Len(cmds)
    /\ kicked' = Len(cmds)
    /\ UNCHANGED <<cmds, hw, driverVars>>

DmaWaitFull == Len(cmds) + 4 > MaxCmds /\ DmaWait

(* NVLoadStateExt empties the FIFO and resets the engine; NVResetGraphics
   writes the state everybody relies on. *)
ResetMethods == <<Set("format", "screen"), Set("surface", "screen"),
                  Set("pattern", Ones), Set("rop", Rop("solid", GXcopy))>>

(* Mistake: currentRop survives the reset. *)
ModeInit_StaleRop ==
    /\ cmds' = ResetMethods
    /\ kicked' = Len(ResetMethods)
    /\ hw' = UnknownHw
    /\ UNCHANGED currentRop
    /\ vtSema' = TRUE

ModeInit ==
    /\ cmds' = ResetMethods
    /\ kicked' = Len(ResetMethods)
    /\ hw' = UnknownHw
    /\ currentRop' = Rop("solid", GXcopy)
    /\ vtSema' = TRUE

SwitchMode ==
    /\ Idle
    /\ SyncTo("syncSwitch")
    /\ op' = NoOp
    /\ UNCHANGED <<scratch, currentRop, needSync, vtSema, remaining>>

SwitchModeDone ==
    /\ Synced("syncSwitch")
    /\ ModeInit
    /\ pc' = "idle"
    /\ UNCHANGED <<scratch, callback, needSync, op, remaining>>

(* Mistake: no NVSync before the console's state is restored. *)
LeaveVT_NoSync ==
    /\ Idle
    /\ hw' = UnknownHw
    /\ vtSema' = FALSE
    /\ op' = NoOp
    /\ UNCHANGED <<cmds, kicked, scratch, currentRop, callback, needSync, remaining,
                   pc>>

LeaveVT ==
    /\ Idle
    /\ SyncTo("syncLeave")
    /\ op' = NoOp
    /\ UNCHANGED <<scratch, currentRop, needSync, vtSema, remaining>>

(* NVRestore loads the console's state; what was never published stays in the
   ring. *)
LeaveVTDone ==
    /\ Synced("syncLeave")
    /\ hw' = UnknownHw
    /\ vtSema' = FALSE
    /\ pc' = "idle"
    /\ UNCHANGED <<cmds, kicked, scratch, currentRop, callback, needSync, op,
                   remaining>>

EnterVT ==
    /\ pc = "idle" /\ ~vtSema
    /\ ModeInit
    /\ UNCHANGED <<scratch, callback, needSync, op, remaining, pc>>

-----------------------------------------------------------------------------
(* The engine. *)

Apply(c) == IF c.method = "set" THEN [hw EXCEPT ![c.field] = c.value] ELSE hw

Execute ==
    /\ kicked > 0
    /\ cmds' = Tail(cmds)
    /\ kicked' = kicked - 1
    /\ hw' = Apply(Head(cmds))
    /\ UNCHANGED driverVars

-----------------------------------------------------------------------------
Init ==
    /\ cmds = ResetMethods
    /\ kicked = Len(ResetMethods)
    /\ hw = UnknownHw
    /\ scratch = 0
    /\ currentRop = Rop("solid", GXcopy)
    /\ callback = FALSE
    /\ needSync = FALSE
    /\ vtSema = TRUE
    /\ op = NoOp
    /\ remaining = 0
    /\ pc = "idle"

Subsequent == \/ SubsequentArea \/ SubsequentLine \/ SubsequentClippedLine
              \/ \E h \in 1..MaxLines : \/ SubsequentColorExpand(h)
                                        \/ SubsequentImageWriteRect(h)

Request == \/ Setup \/ Subsequent
           \/ CpuAccess
           \/ PutBlitImage
           \/ \E color \in Colors : DGAFillRect(color)
           \/ DGABlitRect
           \/ SwitchMode \/ LeaveVT \/ EnterVT

(* The rest of an entry point that has begun, and of XAA's loop around it. *)
Continue == \/ SubsequentColorExpandScanline
            \/ CpuStart \/ CpuDone
            \/ ImageRedirect \/ StoreLine \/ SubsequentImageWriteScanline
            \/ ImageNextLine
            \/ SwitchModeDone \/ LeaveVTDone

Next == Request \/ Continue \/ BlockHandler \/ DmaWait \/ Execute

Spec == Init /\ [][Next]_vars

(* The engine executes what it is given, a call that has begun goes on, and
   the server reaches its block handler again and again. *)
FairSpec == /\ Spec
            /\ WF_vars(Execute) /\ WF_vars(Continue) /\ WF_vars(DmaWaitFull)
            /\ SF_vars(BlockHandler)

-----------------------------------------------------------------------------
(* Properties. *)

Field == {"rop", "pattern", "color", "surface", "format", "clip"}
RopValue == [table : {"solid", "planemask", "pattern"}, rop : Rops]
TypeOK ==
    /\ Len(cmds) <= MaxCmds /\ kicked \in 0..Len(cmds)
    /\ DOMAIN hw = Field
    /\ scratch \in 0..1
    /\ currentRop \in RopValue
    /\ callback \in BOOLEAN /\ needSync \in BOOLEAN /\ vtSema \in BOOLEAN
    /\ op.kind \in {"none", "copy", "fill", "line", "expand", "image"}
    /\ remaining \in 0..MaxLines
    /\ pc \in {"idle", "cpu", "expand", "line", "stored", "syncCpu", "syncImage",
               "syncNextLine", "syncSwitch", "syncLeave"}

(* A drawing command executes with the raster operation, pattern, colour,
   surface, format and clip its caller asked for, and a blit from the scratch
   buffer finds its own scanline there: currentRop never disagrees with what
   the engine will have seen, and every redirection is undone in time. *)
DrawnAsIntended ==
    kicked > 0 /\ IsDraw(Head(cmds)) =>
        LET want == Head(cmds).want
        IN  /\ \A f \in Field : want[f] = DontCare \/ want[f] = hw[f]
            /\ want.line = DontCare \/ want.line = scratch

(* While the CPU accesses the framebuffer no drawing is outstanding: every
   path that draws leaves NeedToSync set, and NVSync waits for everything that
   was drawn although it waits only for what was published. *)
CpuSeesDrawing == pc = "cpu" => NoDraws(cmds)

(* Drawing is kicked when somebody has to, and only then: between requests,
   drawing that is not published has the callback armed, as nobody else would
   ever publish it, and nothing is published while the console owns the
   hardware, though NVBlockHandler goes on running. *)
ArmedOrKicked == pc = "idle" /\ ~callback => NoDraws(Unpublished)
AwayIsQuiet == ~vtSema => kicked = 0

KickedInTime == ArmedOrKicked /\ AwayIsQuiet

(* Drawing once written is executed, in order: neither a mode switch nor a VT
   switch drops it. *)
NoDrawLost == [][\/ NoDraws(cmds)
                 \/ cmds' = Tail(cmds)
                 \/ IsPrefix(cmds, cmds')]_vars

(* Drawing that was not kicked is published in the end. *)
DrawsGetPublished == ~NoDraws(Unpublished) ~> NoDraws(Unpublished)
=============================================================================
