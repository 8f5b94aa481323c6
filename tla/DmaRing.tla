------------------------------ MODULE DmaRing ------------------------------
(***************************************************************************)
(* The DMA command buffer of the nv driver (nv_local.h, nv_xaa.c) and the  *)
(* engine that reads it.                                                   *)
(*                                                                         *)
(* The buffer is an array of dwords in video memory.  The driver fills it  *)
(* upwards from dmaCurrent and publishes what it wrote through the PUT     *)
(* register; the engine fetches from GET until GET = PUT.  When there is   *)
(* no room left above dmaCurrent the driver writes a jump to dword 0,      *)
(* moves PUT to Skips and goes on from there; the first Skips dwords are   *)
(* no-ops.  Both run concurrently: a step of this module is one access of  *)
(* the driver to a register or to the buffer, or one fetch of the engine.  *)
(*                                                                         *)
(* The same code, with other names and another layout of the first words,  *)
(* drives the G80 family (g80_dma.c): InitBlocks = 8 is NVResetGraphics,   *)
(* InitBlocks = 0 is G80InitHW.                                            *)
(*                                                                         *)
(* CARD32 arithmetic is modelled by integers: TypeOK says that dmaFree     *)
(* never leaves 0..DmaMax, so no subtraction of the code wraps around.     *)
(***************************************************************************)
EXTENDS Integers, Sequences

CONSTANTS Skips,       \* SKIPS, 8 in the code
          DmaMax,      \* dmaMax, 8191 (nv) or 8190 (g80)
          MaxSize,     \* the largest number of data words of one method
          InitBlocks,  \* one-word methods written by the reset code
          Payload,     \* the data words
          Garbage      \* what video memory holds before the driver writes it

ASSUME RingAssumption ==
    /\ Skips \in Nat \ {0}
    /\ MaxSize \in Nat \ {0}
    /\ InitBlocks \in Nat
    /\ DmaMax \in Nat
    /\ Skips + 2 * InitBlocks <= DmaMax
    /\ Skips + 1 + MaxSize <= DmaMax
    /\ Payload # {}
    /\ Garbage \notin Payload

VARIABLES
    mem,         \* dmaBase[0..DmaMax]
    PUT,         \* the PUT register, FIFO[0x10] >> 2
    GET,         \* the GET register, FIFO[0x11] >> 2
    dmaCurrent, dmaPut, dmaFree,   \* the fields of NVRec
    dmaGet,      \* NVDmaWait's local
    size,        \* the argument of NVDmaStart in progress
    left,        \* data words of that method still to be written
    pc,          \* where the driver is
    callback,    \* DMAKickoffCallback # NULL
    methodLeft,  \* engine: data words it still expects for its method
    pgraph       \* engine: PGRAPH[0x700] # 0

driverVars == <<dmaCurrent, dmaPut, dmaFree, dmaGet, size, left, pc, callback>>
engineVars == <<GET, methodLeft, pgraph>>
vars == <<mem, PUT, driverVars, engineVars>>

(***************************************************************************)
(* Words.  A header carries the number of data words that follow it.       *)
(***************************************************************************)
Nop == [kind |-> "nop"]
Jump == [kind |-> "jump"]
Header(n) == [kind |-> "header", count |-> n]
Data(p) == [kind |-> "data", value |-> p]
Junk == [kind |-> "data", value |-> Garbage]

Word == {Header(n) : n \in 1..MaxSize} \cup {Data(p) : p \in Payload}
Cell == Word \cup {Nop, Jump, Junk}
Address == 0..DmaMax

InitWord == Data(CHOOSE p \in Payload : TRUE)
InitTop == Skips + 2 * InitBlocks

-----------------------------------------------------------------------------
(* NVResetGraphics up to the first NVDmaStart, after NVLoadStateExt zeroed
   the engine's PUT and GET. *)
Init ==
    /\ mem = [a \in Address |->
                IF a < Skips THEN Nop
                ELSE IF a >= InitTop THEN Junk
                ELSE IF (a - Skips) % 2 = 0 THEN Header(1) ELSE InitWord]
    /\ PUT = 0 /\ GET = 0
    /\ dmaPut = 0
    /\ dmaCurrent = InitTop
    /\ dmaFree = DmaMax - InitTop
    /\ dmaGet = 0
    /\ size = 0 /\ left = 0
    /\ pc = "idle"
    /\ callback = FALSE
    /\ methodLeft = 0 /\ pgraph = FALSE

-----------------------------------------------------------------------------
(* The driver. *)

(* NVDmaNext. *)
DmaNext(w) ==
    /\ mem' = [mem EXCEPT ![dmaCurrent] = w]
    /\ dmaCurrent' = dmaCurrent + 1

-----------------------------------------------------------------------------
(* Plausible mistakes in the code, each of which some property must notice.
   The specification does not use them. *)

(* NVDmaStart compares with < : a method that fills the room exactly leaves
   none for the jump. *)
DmaStart_NoRoomForJump(n) ==
    /\ pc = "idle"
    /\ size' = n
    /\ pc' = IF dmaFree < n THEN "wait" ELSE "header"
    /\ UNCHANGED <<mem, PUT, engineVars, dmaCurrent, dmaPut, dmaFree, dmaGet,
                   left, callback>>

(* The room below GET computed one dword too large. *)
WaitBelow_OneTooMany ==
    /\ pc = "wait"
    /\ dmaFree < size + 1
    /\ dmaPut < GET
    /\ dmaGet' = GET
    /\ dmaFree' = GET - dmaCurrent
    /\ UNCHANGED <<mem, PUT, engineVars, dmaCurrent, dmaPut, size, left, pc,
                   callback>>

(* The corner case forgotten: an engine that stopped among the no-ops is not
   pushed past them. *)
WriteJump_NoCornerCase ==
    /\ pc = "jump"
    /\ DmaNext(Jump)
    /\ pc' = IF dmaGet <= Skips THEN "spin" ELSE "wrap"
    /\ UNCHANGED <<PUT, engineVars, dmaPut, dmaFree, dmaGet, size, left, callback>>

(* PUT moved to the target of the jump. *)
WrapPut_NoSkips ==
    /\ pc = "wrap"
    /\ PUT' = 0
    /\ dmaCurrent' = Skips
    /\ dmaPut' = Skips
    /\ dmaFree' = dmaGet - (Skips + 1)
    /\ pc' = "wait"
    /\ UNCHANGED <<mem, engineVars, dmaGet, size, left, callback>>

(* dmaPut not moved along with PUT. *)
WrapPut_StaleDmaPut ==
    /\ pc = "wrap"
    /\ PUT' = Skips
    /\ dmaCurrent' = Skips
    /\ dmaFree' = dmaGet - (Skips + 1)
    /\ pc' = "wait"
    /\ UNCHANGED <<mem, engineVars, dmaPut, dmaGet, size, left, callback>>

(* NVSync waits for PGRAPH only. *)
SyncGet_NoWait ==
    /\ pc = "syncGet"
    /\ pc' = "syncIdle"
    /\ UNCHANGED <<mem, PUT, engineVars, dmaCurrent, dmaPut, dmaFree, dmaGet,
                   size, left, callback>>

-----------------------------------------------------------------------------
(* The driver's operations. *)

(* NVDmaStart: check the cached room, wait for more if there is too little. *)
DmaStart(n) ==
    /\ pc = "idle"
    /\ size' = n
    /\ pc' = IF dmaFree <= n THEN "wait" ELSE "header"
    /\ UNCHANGED <<mem, PUT, engineVars, dmaCurrent, dmaPut, dmaFree, dmaGet,
                   left, callback>>

(* One turn of the loop of NVDmaWait, up to the decision to wrap. *)
WaitDone ==
    /\ pc = "wait"
    /\ dmaFree >= size + 1
    /\ pc' = "header"
    /\ UNCHANGED <<mem, PUT, engineVars, dmaCurrent, dmaPut, dmaFree, dmaGet,
                   size, left, callback>>

WaitAbove ==     \* the engine is behind PUT: the room is above dmaCurrent
    /\ pc = "wait"
    /\ dmaFree < size + 1
    /\ dmaPut >= GET
    /\ dmaGet' = GET
    /\ dmaFree' = DmaMax - dmaCurrent
    /\ pc' = IF dmaFree' < size + 1 THEN "jump" ELSE "wait"
    /\ UNCHANGED <<mem, PUT, engineVars, dmaCurrent, dmaPut, size, left,
                   callback>>

WaitBelow ==     \* the engine has not wrapped yet: the room ends before GET
    /\ pc = "wait"
    /\ dmaFree < size + 1
    /\ dmaPut < GET
    /\ dmaGet' = GET
    /\ dmaFree' = GET - dmaCurrent - 1
    /\ UNCHANGED <<mem, PUT, engineVars, dmaCurrent, dmaPut, size, left, pc,
                   callback>>

(* Write the jump; an engine still among the no-ops must leave them first,
   and one that would stop there is pushed past them. *)
WriteJump ==
    /\ pc = "jump"
    /\ DmaNext(Jump)
    /\ PUT' = IF dmaGet <= Skips /\ dmaPut <= Skips THEN Skips + 1 ELSE PUT
    /\ pc' = IF dmaGet <= Skips THEN "spin" ELSE "wrap"
    /\ UNCHANGED <<engineVars, dmaPut, dmaFree, dmaGet, size, left, callback>>

SpinRead ==
    /\ pc = "spin"
    /\ dmaGet' = GET
    /\ pc' = IF GET <= Skips THEN "spin" ELSE "wrap"
    /\ UNCHANGED <<mem, PUT, engineVars, dmaCurrent, dmaPut, dmaFree, size,
                   left, callback>>

WrapPut ==
    /\ pc = "wrap"
    /\ PUT' = Skips
    /\ dmaCurrent' = Skips
    /\ dmaPut' = Skips
    /\ dmaFree' = dmaGet - (Skips + 1)
    /\ pc' = "wait"
    /\ UNCHANGED <<mem, engineVars, dmaGet, size, left, callback>>

(* The end of NVDmaStart, then the data words of the method. *)
WriteHeader ==
    /\ pc = "header"
    /\ DmaNext(Header(size))
    /\ dmaFree' = dmaFree - (size + 1)
    /\ left' = size
    /\ pc' = "data"
    /\ UNCHANGED <<PUT, engineVars, dmaPut, dmaGet, size, callback>>

WriteData(p) ==
    /\ pc = "data"
    /\ DmaNext(Data(p))
    /\ left' = left - 1
    /\ pc' = IF left = 1 THEN "idle" ELSE "data"
    /\ UNCHANGED <<PUT, engineVars, dmaPut, dmaFree, dmaGet, size, callback>>

(* NVDmaKickoff: when dmaCurrent = dmaPut it writes nothing. *)
DmaKickoff ==
    /\ dmaPut' = dmaCurrent
    /\ PUT' = IF dmaCurrent # dmaPut THEN dmaCurrent ELSE PUT

(* An operation that draws 512 pixels or more kicks at once. *)
Kick ==
    /\ pc = "idle"
    /\ dmaCurrent # dmaPut
    /\ DmaKickoff
    /\ UNCHANGED <<mem, engineVars, dmaCurrent, dmaFree, dmaGet, size, left, pc,
                   callback>>

(* The other operations leave the kick to NVDMAKickoffCallback. *)
ArmCallback ==
    /\ pc = "idle"
    /\ ~callback
    /\ callback' = TRUE
    /\ UNCHANGED <<mem, PUT, engineVars, dmaCurrent, dmaPut, dmaFree, dmaGet,
                   size, left, pc>>

(* NVBlockHandler runs the callback before the server sleeps. *)
BlockHandler ==
    /\ pc = "idle"
    /\ callback
    /\ DmaKickoff
    /\ callback' = FALSE
    /\ UNCHANGED <<mem, engineVars, dmaCurrent, dmaFree, dmaGet, size, left, pc>>

(* NVSync: the callback if there is one, then it polls GET until GET = dmaPut,
   then PGRAPH until that is idle. *)
SyncStart ==
    /\ pc = "idle"
    /\ IF callback THEN DmaKickoff ELSE UNCHANGED <<dmaPut, PUT>>
    /\ callback' = FALSE
    /\ pc' = "syncGet"
    /\ UNCHANGED <<mem, engineVars, dmaCurrent, dmaFree, dmaGet, size, left>>

SyncGet ==
    /\ pc = "syncGet"
    /\ pc' = IF GET = dmaPut THEN "syncIdle" ELSE "syncGet"
    /\ UNCHANGED <<mem, PUT, engineVars, dmaCurrent, dmaPut, dmaFree, dmaGet,
                   size, left, callback>>

SyncIdle ==
    /\ pc = "syncIdle"
    /\ pc' = IF pgraph THEN "syncIdle" ELSE "idle"
    /\ UNCHANGED <<mem, PUT, engineVars, dmaCurrent, dmaPut, dmaFree, dmaGet,
                   size, left, callback>>

-----------------------------------------------------------------------------
(* The engine, as the driver's comments and its use of GET describe it. *)

FetchJump ==
    /\ GET # PUT /\ methodLeft = 0 /\ mem[GET] = Jump
    /\ GET' = 0
    /\ UNCHANGED <<mem, PUT, driverVars, methodLeft, pgraph>>

FetchNop ==
    /\ GET # PUT /\ methodLeft = 0 /\ mem[GET] = Nop
    /\ GET' = GET + 1
    /\ UNCHANGED <<mem, PUT, driverVars, methodLeft, pgraph>>

FetchHeader ==
    /\ GET # PUT /\ methodLeft = 0 /\ mem[GET].kind = "header"
    /\ GET' = GET + 1
    /\ methodLeft' = mem[GET].count
    /\ UNCHANGED <<mem, PUT, driverVars, pgraph>>

FetchData ==     \* any word is data while the method expects some
    /\ GET # PUT /\ methodLeft > 0
    /\ GET' = GET + 1
    /\ methodLeft' = methodLeft - 1
    /\ pgraph' = TRUE
    /\ UNCHANGED <<mem, PUT, driverVars>>

PgraphDone ==
    /\ pgraph
    /\ pgraph' = FALSE
    /\ UNCHANGED <<mem, PUT, driverVars, GET, methodLeft>>

-----------------------------------------------------------------------------
Wait == WaitDone \/ WaitAbove \/ WaitBelow \/ WriteJump \/ SpinRead \/ WrapPut
Write == WriteHeader \/ \E p \in Payload : WriteData(p)
SyncWait == SyncGet \/ SyncIdle

(* The driver runs to the end of a call it has begun. *)
Finish == Wait \/ Write \/ SyncWait

Driver == \/ \E n \in 1..MaxSize : DmaStart(n)
          \/ Finish
          \/ Kick \/ ArmCallback \/ BlockHandler \/ SyncStart

Fetch == FetchJump \/ FetchNop \/ FetchHeader \/ FetchData
Engine == Fetch \/ PgraphDone

Next == Driver \/ Engine

Spec == Init /\ [][Next]_vars

(* The engine never stalls for good, and a call that has begun goes on; no
   fairness on DmaStart, ArmCallback or SyncStart: clients may stop asking.
   The server does go to sleep now and then, which runs the callback. *)
FairSpec == /\ Spec
            /\ WF_vars(Fetch) /\ WF_vars(PgraphDone)
            /\ WF_vars(Finish) /\ SF_vars(BlockHandler)

-----------------------------------------------------------------------------
(* Properties. *)

TypeOK ==
    /\ mem \in [Address -> Cell]
    /\ PUT \in Address /\ GET \in Address
    /\ dmaCurrent \in 0..(DmaMax + 1)
    /\ dmaPut \in Address
    /\ dmaFree \in Address
    /\ dmaGet \in Address
    /\ size \in 0..MaxSize /\ left \in 0..MaxSize
    /\ pc \in {"idle", "wait", "jump", "spin", "wrap", "header", "data",
               "syncGet", "syncIdle"}
    /\ callback \in BOOLEAN
    /\ methodLeft \in 0..MaxSize /\ pgraph \in BOOLEAN

(* The jump is written and dmaCurrent not yet back at the start. *)
Wrapping == pc \in {"spin", "wrap"}

(* The engine has wrapped less often than the driver. *)
Wrapped == GET > PUT

(* The engine has yet to fetch what is at address a: either a lies between GET
   and dmaCurrent, or the way there goes through the jump. *)
Unread(a) ==
    IF Wrapped
    THEN a < dmaCurrent \/ (a >= GET /\ \A b \in GET..(a - 1) : mem[b] # Jump)
    ELSE GET <= a /\ a < dmaCurrent

(* What the driver believes it may write without looking at GET again: the
   rest of its method, dmaFree further dwords, and one more for a jump. *)
Room == dmaCurrent..(dmaCurrent + left + dmaFree)

(* The room the driver counts on lies inside the buffer and holds nothing the
   engine has yet to fetch, however old the GET it was computed from is
   (NVDmaStart and NVDmaWait, which cache it in dmaFree).  While the driver is
   between the jump and the reset of dmaCurrent it counts on no room. *)
ReservationSafe ==
    pc \notin {"spin", "wrap"} => /\ Room \subseteq Address
                                 /\ \A a \in Room : ~Unread(a)

(* The comment above SKIPS: the engine cannot jump to the location of PUT. *)
NeverJumpToPut ==
    GET # PUT /\ methodLeft = 0 /\ mem[GET] = Jump => PUT # 0

(* Whatever the engine is about to fetch is what the driver meant it to be: a
   method's data words follow its header with no jump, no-op, header or stale
   dword between them, and no data word is taken for a header. *)
Framing ==
    GET # PUT =>
        IF methodLeft > 0
        THEN mem[GET].kind = "data" /\ mem[GET] # Junk
        ELSE mem[GET].kind \in {"nop", "jump", "header"}

(* When NVSync returns, the engine has fetched all that was published, stands
   at the end of a method and is idle: reading GET before PGRAPH matters. *)
SyncComplete ==
    [][pc = "syncIdle" /\ pc' = "idle" =>
         GET = PUT /\ methodLeft = 0 /\ ~pgraph]_vars

(* NVDmaWait ends: the driver gets its room whatever it published before. *)
WaitEnds == pc \in {"wait", "jump", "spin", "wrap"} ~> pc = "header"

(* NVSync ends. *)
SyncEnds == pc \in {"syncGet", "syncIdle"} ~> pc = "idle"

-----------------------------------------------------------------------------
(* The ring implements the stream: the words on the engine's way from GET to
   dmaCurrent, behind the no-ops and without the jump. *)

JumpAt == CHOOSE a \in GET..DmaMax : /\ mem[a] = Jump
                                     /\ \A b \in GET..(a - 1) : mem[b] # Jump

(* The first word on the way, and the place behind the last. *)
From == IF GET < Skips THEN Skips ELSE GET
Top == IF Wrapping THEN dmaCurrent - 1 ELSE dmaCurrent

(* How many words come before the jump, when it is on the way and taken. *)
Before == IF Wrapped THEN JumpAt - GET ELSE 0

Count == IF Wrapped THEN Before + (Top - Skips) ELSE Top - From
Place(k) == IF Wrapped /\ k > Before THEN Skips + (k - Before) - 1 ELSE From + k - 1

OutstandingWords == [k \in 1..Count |-> mem[Place(k)]]

InitialWords == [k \in 1..(2 * InitBlocks) |->
                   IF k % 2 = 1 THEN Header(1) ELSE InitWord]

CS == INSTANCE CommandStream WITH
        stream <- OutstandingWords,
        Capacity <- DmaMax - Skips,
        Preload <- InitialWords

ImplementsCommandStream == CS!Spec
=============================================================================
