--------------------------- MODULE DmaRingProofs ---------------------------
(***************************************************************************)
(* Proofs about DmaRing, for every size of the ring and every method size. *)
(*                                                                         *)
(* The safety properties of the ring depend on each other: the engine only *)
(* follows the jump if it never takes the jump for a data word, and it     *)
(* never does so only if no unread word was overwritten, which in turn     *)
(* needs the engine to have followed the jump.  The inductive invariant    *)
(* therefore carries the room the driver counts on together with the       *)
(* framing of everything unread, given by a function e: at address a the   *)
(* engine will expect e[a] more data words.                                *)
(***************************************************************************)
EXTENDS DmaRing, SequenceTheorems, TLAPS

Expectation == [0..(DmaMax + 1) -> 0..MaxSize]

(* The word at a is what an engine expecting e[a] data words may find there,
   and leaves it expecting e[a + 1]; it is not a jump. *)
Good(e, a) ==
    IF e[a] > 0
    THEN mem[a].kind = "data" /\ mem[a] # Junk /\ e[a + 1] = e[a] - 1
    ELSE \/ mem[a] = Nop /\ e[a + 1] = 0
         \/ mem[a].kind = "header" /\ e[a + 1] = mem[a].count

GoodRange(e, from, to) == \A a \in Address : from <= a /\ a < to => Good(e, a)

(* What the driver's variables say of each other. *)
DriverInv ==
    /\ Skips <= dmaCurrent
    /\ Skips <= dmaPut \/ dmaPut = 0
    /\ dmaPut <= dmaCurrent
    /\ pc \in {"wait", "jump", "spin", "wrap", "header", "data"} => size >= 1
    /\ pc = "data" <=> left > 0
    /\ ~Wrapping => dmaCurrent + left + dmaFree <= DmaMax
    /\ pc = "header" => size + 1 <= dmaFree
    /\ pc = "jump" => Skips < dmaCurrent /\ dmaCurrent <= DmaMax
    /\ Wrapping => Skips + 1 < dmaCurrent
    /\ \A a \in Address : mem[a] = Nop <=> a < Skips

(* What they say of the engine's position. *)
PositionInv ==
    /\ PUT # dmaPut => Wrapping /\ dmaPut <= Skips /\ PUT = Skips + 1
    /\ Wrapping => PUT < dmaCurrent
    /\ Wrapped => /\ pc \notin {"jump", "spin", "wrap"}
                  /\ Skips <= PUT
                  /\ dmaCurrent + left + dmaFree < GET
    /\ pc \in {"jump", "spin", "wrap"} => dmaGet <= GET
    /\ pc = "wrap" => Skips < dmaGet
    /\ pc = "syncIdle" => GET = dmaPut

(* The framing of what is unread, J being the address of the jump if there is
   one on the way. *)
FrameInv(e, J) ==
    /\ e[GET] = methodLeft
    /\ e[dmaPut] = 0
    /\ \A a \in Address : a <= Skips => e[a] = 0
    /\ ~Wrapping => e[dmaCurrent] = left
    /\ Wrapping \/ Wrapped => /\ GET <= J
                              /\ mem[J] = Jump
                              /\ e[J] = 0
                              /\ GoodRange(e, GET, J)
    /\ Wrapping => J = dmaCurrent - 1
    /\ Wrapped => GoodRange(e, 0, dmaCurrent)
    /\ ~Wrapping /\ ~Wrapped => GoodRange(e, GET, dmaCurrent)

IInv == /\ TypeOK
        /\ DriverInv
        /\ PositionInv
        /\ \E e \in Expectation, J \in Address : FrameInv(e, J)

-----------------------------------------------------------------------------
(* What the kinds of word have to do with each other. *)
LEMMA CellFacts ==
    /\ Nop \in Cell /\ Jump \in Cell /\ Junk \in Cell
    /\ \A n \in 1..MaxSize : Header(n) \in Cell
    /\ \A p \in Payload : Data(p) \in Cell
    /\ Nop.kind = "nop" /\ Jump.kind = "jump" /\ Junk.kind = "data"
    /\ \A n : Header(n).kind = "header" /\ Header(n).count = n
    /\ \A p \in Payload : Data(p).kind = "data" /\ Data(p) # Junk
    /\ \A c \in Cell : c.kind = "header" => c.count \in 1..MaxSize
<1>1. Nop.kind = "nop" /\ Jump.kind = "jump" /\ Junk.kind = "data"
  BY DEF Nop, Jump, Junk
<1>2. \A n : Header(n).kind = "header" /\ Header(n).count = n
  BY DEF Header
<1>3. \A p \in Payload : Data(p).kind = "data" /\ Data(p) # Junk
  <2>1. TAKE p \in Payload
  <2>2. Data(p).value = p /\ Junk.value = Garbage
    BY DEF Data, Junk
  <2> QED BY <2>2, RingAssumption DEF Data
<1>4. \A c \in Cell : c.kind = "header" => c.count \in 1..MaxSize
  <2>1. TAKE c \in Cell
  <2>2. CASE \E n \in 1..MaxSize : c = Header(n)
    BY <2>2, <1>2
  <2>3. CASE c \in {Data(p) : p \in Payload} \cup {Nop, Jump, Junk}
    BY <2>3, <1>1, <1>3
  <2> QED BY <2>2, <2>3 DEF Cell, Word
<1> QED BY <1>1, <1>2, <1>3, <1>4 DEF Cell, Word

USE RingAssumption DEF Address

(* Initially everything behind the no-ops is blocks of one data word. *)
LEMMA InitIInv == Init => IInv
<1> SUFFICES ASSUME Init PROVE IInv
  OBVIOUS
<1>0. /\ InitTop \in Nat /\ Skips <= InitTop /\ InitTop <= DmaMax
      /\ InitWord \in Cell /\ InitWord.kind = "data" /\ InitWord # Junk
  BY CellFacts DEF InitTop, InitWord
<1>a. \A a \in Address :
        /\ a < Skips => mem[a] = Nop
        /\ Skips <= a /\ a < InitTop /\ (a - Skips) % 2 = 0 => mem[a] = Header(1)
        /\ Skips <= a /\ a < InitTop /\ (a - Skips) % 2 # 0 => mem[a] = InitWord
  <2>1. TAKE a \in Address
  <2>2. mem[a] = IF a < Skips THEN Nop
                 ELSE IF a >= InitTop THEN Junk
                 ELSE IF (a - Skips) % 2 = 0 THEN Header(1) ELSE InitWord
    BY DEF Init
  <2>3. a \in Int /\ Skips \in Int /\ InitTop \in Int
    BY <1>0
  <2>4. CASE a < Skips
    BY <2>2, <2>3, <2>4
  <2>5. CASE ~(a < Skips)
    <3>1. a >= InitTop \/ mem[a] = IF (a - Skips) % 2 = 0 THEN Header(1) ELSE InitWord
      BY <2>2, <2>5
    <3> QED BY <2>3, <2>5, <3>1
  <2> QED BY <2>4, <2>5
<1>1. TypeOK
  <2>1. mem \in [Address -> Cell]
    BY <1>0, CellFacts DEF Init
  <2>2. /\ PUT \in Address /\ GET \in Address /\ dmaPut \in Address
        /\ dmaCurrent \in 0..(DmaMax + 1)
        /\ dmaFree \in Address /\ dmaGet \in Address
        /\ size \in 0..MaxSize /\ left \in 0..MaxSize
        /\ methodLeft \in 0..MaxSize
    BY <1>0 DEF Init
  <2> QED BY <2>1, <2>2 DEF Init, TypeOK
<1>2. DriverInv /\ PositionInv
  <2>1. \A a \in Address : mem[a] = Nop <=> a < Skips
    <3>1. Header(1) # Nop /\ InitWord # Nop /\ Junk # Nop
      BY <1>0, CellFacts
    <3> QED BY <1>0, <3>1 DEF Init
  <2> QED BY <1>0, <2>1 DEF Init, DriverInv, PositionInv, Wrapping, Wrapped
<1>3. \E e \in Expectation, J \in Address : FrameInv(e, J)
  <2> DEFINE e == [a \in 0..(DmaMax + 1) |->
                     IF Skips <= a /\ a < InitTop /\ (a - Skips) % 2 = 1
                     THEN 1 ELSE 0]
  <2>1. e \in Expectation
    BY DEF Expectation
  <2>2. ASSUME NEW a \in Address, a < InitTop PROVE Good(e, a)
    <3>1. CASE a < Skips
      <4>1. mem[a] = Nop
        BY <3>1, <1>a
      <4>2. e[a] = 0 /\ e[a + 1] = 0
        BY <3>1
      <4> QED BY <4>1, <4>2, CellFacts DEF Good
    <3>2. CASE Skips <= a /\ (a - Skips) % 2 = 0
      <4>1. mem[a] = Header(1)
        BY <2>2, <3>2, <1>a
      <4>2. e[a] = 0 /\ e[a + 1] = 1
        <5>1. a + 1 < InitTop /\ (a + 1 - Skips) % 2 = 1
          BY <2>2, <3>2 DEF InitTop
        <5> QED BY <2>2, <3>2, <5>1, <1>0
      <4> QED BY <4>1, <4>2, CellFacts DEF Good
    <3>3. CASE Skips <= a /\ (a - Skips) % 2 = 1
      <4>1. mem[a] = InitWord
        BY <2>2, <3>3, <1>a
      <4>2. e[a] = 1 /\ e[a + 1] = 0
        <5>1. (a + 1 - Skips) % 2 = 0
          BY <2>2, <3>3
        <5> QED BY <2>2, <3>3, <5>1, <1>0
      <4> QED BY <4>1, <4>2, <1>0 DEF Good
    <3> QED BY <3>1, <3>2, <3>3
  <2>3. e[dmaCurrent] = 0 /\ e[0] = 0 /\ \A a \in Address : a <= Skips => e[a] = 0
    <3>1. dmaCurrent \in 0..(DmaMax + 1) /\ ~(dmaCurrent < InitTop)
      BY <1>0 DEF Init
    <3>2. (Skips - Skips) % 2 = 0
      OBVIOUS
    <3>3. ASSUME NEW a \in Address, a <= Skips PROVE e[a] = 0
      <4>1. CASE a < Skips
        BY <4>1
      <4>2. CASE a = Skips
        <5>1. ~((a - Skips) % 2 = 1)
          BY <4>2, <3>2
        <5> QED BY <5>1
      <4> QED BY <3>3, <4>1, <4>2
    <3>4. e[dmaCurrent] = 0
      BY <3>1
    <3>5. 0 \in Address /\ 0 <= Skips
      OBVIOUS
    <3> QED BY <3>3, <3>4, <3>5
  <2>4. FrameInv(e, 0)
    <3> HIDE DEF e
    <3> QED BY <1>0, <2>2, <2>3 DEF Init, FrameInv, Wrapping, Wrapped, GoodRange
  <2> QED BY <2>1, <2>4
<1> QED BY <1>1, <1>2, <1>3 DEF IInv

-----------------------------------------------------------------------------
(* The engine's steps. *)

(* Where the engine may fetch, the word is the expected one or the jump. *)
LEMMA AtGet ==
    ASSUME IInv, GET # PUT,
           NEW e \in Expectation, NEW J \in Address, FrameInv(e, J)
    PROVE  /\ ~Wrapped => GET < PUT /\ PUT <= dmaCurrent /\ Good(e, GET)
           /\ Wrapped => GET <= J
           /\ Wrapped /\ GET # J => GET < J /\ Good(e, GET)
<1>1. CASE ~Wrapped
  <2>1. GET < PUT /\ PUT <= dmaCurrent
    BY <1>1 DEF IInv, TypeOK, PositionInv, DriverInv, Wrapped
  <2>2. CASE Wrapping
    BY <1>1, <2>1, <2>2 DEF IInv, TypeOK, PositionInv, FrameInv, GoodRange
  <2>3. CASE ~Wrapping
    BY <1>1, <2>1, <2>3 DEF IInv, TypeOK, FrameInv, GoodRange
  <2> QED BY <1>1, <2>1, <2>2, <2>3
<1>2. CASE Wrapped
  BY <1>2 DEF IInv, TypeOK, FrameInv, GoodRange
<1> QED BY <1>1, <1>2

(* The engine takes the jump to the start: the room moves from before it   *)
(* to behind it.                                                           *)
LEMMA FetchJumpStep == ASSUME IInv, FetchJump PROVE IInv'
<1> USE CellFacts
<1>1. PICK e \in Expectation, J \in Address : FrameInv(e, J)
  BY DEF IInv
<1>2. Wrapped /\ GET = J
  <2>1. ~Good(e, GET)
    BY <1>1 DEF FetchJump, Good, FrameInv
  <2> QED BY <1>1, <2>1, AtGet DEF FetchJump
<1>3. ~Wrapped' /\ ~Wrapping'
  BY <1>2 DEF IInv, TypeOK, PositionInv, FetchJump, Wrapped, driverVars,
              Wrapping
<1>4. TypeOK'
  BY DEF IInv, TypeOK, FetchJump, driverVars
<1>5. DriverInv'
  BY DEF IInv, DriverInv, FetchJump, driverVars, Wrapping
<1>6. PositionInv'
  BY <1>2, <1>3 DEF IInv, TypeOK, PositionInv, FetchJump, driverVars, Wrapping
<1>7. FrameInv(e, J)'
  BY <1>1, <1>2, <1>3 DEF IInv, TypeOK, FrameInv, GoodRange, Good, FetchJump,
              driverVars, Wrapping, PositionInv
<1> QED BY <1>4, <1>5, <1>6, <1>7 DEF IInv

(* A fetch of anything else goes one dword up. *)
LEMMA FetchUp ==
    ASSUME IInv, GET # PUT, GET' = GET + 1,
           UNCHANGED <<mem, PUT, driverVars>>,
           methodLeft' \in 0..MaxSize, pgraph' \in BOOLEAN,
           NEW e \in Expectation, NEW J \in Address, FrameInv(e, J),
           Wrapped => GET # J,
           e[GET + 1] = methodLeft'
    PROVE  IInv'
<1>1. /\ ~Wrapped => GET < PUT /\ PUT <= dmaCurrent
      /\ Wrapped => GET < J
  BY AtGet
<1>2. GET' \in Address
  BY <1>1 DEF IInv, TypeOK
<1>3. Wrapped' <=> Wrapped
  BY <1>1 DEF IInv, TypeOK, Wrapped
<1>4. TypeOK'
  BY <1>2 DEF IInv, TypeOK, driverVars
<1>5. DriverInv'
  BY DEF IInv, DriverInv, driverVars, Wrapping
<1>6. PositionInv'
  <2>1. pc # "syncIdle"
    BY DEF IInv, PositionInv, Wrapping
  <2> QED BY <1>1, <1>3, <2>1 DEF IInv, TypeOK, PositionInv, DriverInv,
                                  driverVars, Wrapping
<1>7. FrameInv(e, J)'
  <2>1. Wrapping => GET < J
    BY <1>1 DEF IInv, TypeOK, FrameInv, PositionInv, Wrapped, Wrapping
  <2> QED BY <1>1, <1>2, <1>3, <2>1 DEF IInv, TypeOK, FrameInv, GoodRange, Good,
                                  driverVars, Wrapping
<1> QED BY <1>4, <1>5, <1>6, <1>7 DEF IInv

(* The engine takes a no-op, a header or a data word and goes up by one.   *)
LEMMA FetchUpStep ==
    ASSUME IInv, FetchNop \/ FetchHeader \/ FetchData PROVE IInv'
<1> USE CellFacts
<1>1. PICK e \in Expectation, J \in Address : FrameInv(e, J)
  BY DEF IInv
<1>2. /\ GET # PUT /\ GET' = GET + 1
      /\ UNCHANGED <<mem, PUT, driverVars>>
      /\ pgraph' \in BOOLEAN
  BY DEF IInv, TypeOK, FetchNop, FetchHeader, FetchData
<1>3. Wrapped => GET # J
  BY <1>1 DEF FrameInv, FetchNop, FetchHeader, FetchData
<1>4. Good(e, GET)
  BY <1>1, <1>2, <1>3, AtGet DEF IInv, TypeOK
<1>5. mem[GET] \in Cell /\ e[GET] = methodLeft /\ methodLeft \in 0..MaxSize
  BY <1>1 DEF IInv, TypeOK, FrameInv
<1>6. methodLeft' \in 0..MaxSize /\ e[GET + 1] = methodLeft'
  <2>1. CASE FetchNop
    BY <2>1, <1>4, <1>5 DEF FetchNop, Good
  <2>2. CASE FetchHeader
    BY <2>2, <1>4, <1>5 DEF FetchHeader, Good
  <2>3. CASE FetchData
    BY <2>3, <1>4, <1>5 DEF FetchData, Good
  <2> QED BY <2>1, <2>2, <2>3
<1> QED BY <1>1, <1>2, <1>3, <1>6, FetchUp

(* The methods on the way stay split as they were when nothing they are    *)
(* made of changes.                                                        *)
LEMMA FrameKept ==
    ASSUME NEW e, NEW J, FrameInv(e, J),
           UNCHANGED <<mem, PUT, GET, methodLeft, dmaPut, dmaCurrent, left>>,
           Wrapping' <=> Wrapping
    PROVE  FrameInv(e, J)'
<1>1. Wrapped' <=> Wrapped
  BY DEF Wrapped
<1>2. \A a : Good(e, a)' <=> Good(e, a)
  BY DEF Good
<1> QED BY <1>1, <1>2 DEF FrameInv, GoodRange

(* PGRAPH turns idle: only the waits of NVSync look at it.                 *)
LEMMA PgraphDoneStep == ASSUME IInv, PgraphDone PROVE IInv'
<1>1. PICK e \in Expectation, J \in Address : FrameInv(e, J)
  BY DEF IInv
<1>2. TypeOK' /\ (Wrapping' <=> Wrapping)
  BY DEF IInv, TypeOK, PgraphDone, driverVars, Wrapping
<1>3. DriverInv'
  BY DEF IInv, DriverInv, PgraphDone, driverVars, Wrapping
<1>4. PositionInv'
  BY DEF IInv, PositionInv, PgraphDone, driverVars, Wrapping, Wrapped
<1>5. FrameInv(e, J)'
  BY <1>1, <1>2, FrameKept DEF PgraphDone, driverVars
<1> QED BY <1>2, <1>3, <1>4, <1>5 DEF IInv

-----------------------------------------------------------------------------
(* The driver's steps that write nothing into the buffer. *)

Looking == \/ \E n \in 1..MaxSize : DmaStart(n)
           \/ WaitDone \/ WaitAbove \/ WaitBelow \/ SpinRead
           \/ ArmCallback \/ SyncGet \/ SyncIdle

(* The steps that change neither the buffer nor PUT.                       *)
LEMMA LookingStep == ASSUME IInv, Looking PROVE IInv'
<1>1. PICK e \in Expectation, J \in Address : FrameInv(e, J)
  BY DEF IInv
<1>2. /\ UNCHANGED <<mem, PUT, GET, methodLeft, dmaPut, dmaCurrent, left>>
      /\ UNCHANGED pgraph
  BY DEF Looking, DmaStart, WaitDone, WaitAbove, WaitBelow, SpinRead,
         ArmCallback, SyncGet, SyncIdle, engineVars
<1>3. Wrapping' <=> Wrapping
  BY DEF Looking, DmaStart, WaitDone, WaitAbove, WaitBelow, SpinRead,
         ArmCallback, SyncGet, SyncIdle, Wrapping
<1>4. pc # "spin" => PUT = dmaPut \/ pc = "wrap"
  BY DEF IInv, PositionInv, Wrapping
<1>5. TypeOK'
  <2>1. dmaFree' \in Address
    <3>1. CASE WaitAbove
      BY <3>1 DEF IInv, TypeOK, DriverInv, WaitAbove, Wrapping
    <3>2. CASE WaitBelow
      BY <3>2, <1>4 DEF IInv, TypeOK, DriverInv, PositionInv, WaitBelow, Wrapped
    <3>3. CASE ~WaitAbove /\ ~WaitBelow
      BY <3>3 DEF IInv, TypeOK, Looking, DmaStart, WaitDone, SpinRead,
                  ArmCallback, SyncGet, SyncIdle
    <3> QED BY <3>1, <3>2, <3>3
  <2>2. /\ dmaGet' \in {dmaGet, GET}
        /\ size' = size \/ size' \in 1..MaxSize
        /\ callback' = callback \/ callback' = TRUE
    BY DEF Looking, DmaStart, WaitDone, WaitAbove, WaitBelow,
           SpinRead, ArmCallback, SyncGet, SyncIdle
  <2>3. pc' \in {"idle", "wait", "jump", "spin", "wrap", "header", "data",
                "syncGet", "syncIdle"}
    BY DEF Looking, DmaStart, WaitDone, WaitAbove, WaitBelow,
           SpinRead, ArmCallback, SyncGet, SyncIdle
  <2>4. dmaGet' \in Address /\ size' \in 0..MaxSize
    BY <2>2 DEF IInv, TypeOK
  <2>5. callback' \in BOOLEAN
    BY <2>2, Zenon DEF IInv, TypeOK
  <2> QED BY <1>2, <2>1, <2>3, <2>4, <2>5 DEF IInv, TypeOK
<1>6. DriverInv'
  <2>1. /\ pc' \in {"wait", "jump", "spin", "wrap", "header", "data"} => size' >= 1
        /\ pc' = "data" <=> left > 0
    BY DEF IInv, TypeOK, DriverInv, Looking, DmaStart, WaitDone, WaitAbove,
           WaitBelow, SpinRead, ArmCallback, SyncGet, SyncIdle
  <2>2. ~Wrapping' => dmaCurrent + left + dmaFree' <= DmaMax
    <3>1. CASE WaitAbove
      BY <3>1 DEF IInv, TypeOK, DriverInv, WaitAbove, Wrapping
    <3>2. CASE WaitBelow
      BY <3>2 DEF IInv, TypeOK, DriverInv, WaitBelow, Wrapping
    <3>3. CASE ~WaitAbove /\ ~WaitBelow
      BY <3>3, <1>3 DEF IInv, DriverInv, Looking, DmaStart, WaitDone, SpinRead,
                  ArmCallback, SyncGet, SyncIdle
    <3> QED BY <3>1, <3>2, <3>3
  <2>3. pc' = "header" => size' + 1 <= dmaFree'
    BY DEF IInv, TypeOK, DriverInv, Looking, DmaStart, WaitDone, WaitAbove,
           WaitBelow, SpinRead, ArmCallback, SyncGet, SyncIdle
  <2>4. pc' = "jump" => Skips < dmaCurrent /\ dmaCurrent <= DmaMax
    BY DEF IInv, TypeOK, DriverInv, Looking, DmaStart, WaitDone, WaitAbove,
           WaitBelow, SpinRead, ArmCallback, SyncGet, SyncIdle, Wrapping
  <2> QED BY <1>2, <1>3, <2>1, <2>2, <2>3, <2>4 DEF IInv, DriverInv
<1>7. PositionInv'
  <2>1. Wrapped' <=> Wrapped
    BY <1>2 DEF Wrapped
  <2>2. /\ PUT' # dmaPut' =>
             Wrapping' /\ dmaPut' <= Skips /\ PUT' = Skips + 1
        /\ Wrapping' => PUT' < dmaCurrent'
    BY <1>2, <1>3 DEF IInv, PositionInv
  <2>3. Wrapped => /\ pc' \notin {"jump", "spin", "wrap"}
                   /\ Skips <= PUT
                   /\ dmaCurrent + left + dmaFree' < GET
    <3>1. CASE WaitBelow
      BY <3>1 DEF IInv, TypeOK, DriverInv, PositionInv, WaitBelow
    <3>2. CASE WaitAbove
      BY <3>2, <1>4 DEF IInv, TypeOK, WaitAbove, Wrapped
    <3>3. CASE ~WaitAbove /\ ~WaitBelow
      BY <3>3 DEF IInv, TypeOK, DriverInv, PositionInv, Looking, DmaStart,
                  WaitDone, SpinRead, ArmCallback, SyncGet, SyncIdle
    <3> QED BY <3>1, <3>2, <3>3
  <2>4. /\ pc' \in {"jump", "spin", "wrap"} => dmaGet' <= GET
        /\ pc' = "wrap" => Skips < dmaGet'
        /\ pc' = "syncIdle" => GET = dmaPut
    BY DEF IInv, TypeOK, PositionInv, Looking, DmaStart, WaitDone, WaitAbove,
           WaitBelow, SpinRead, ArmCallback, SyncGet, SyncIdle
  <2> QED BY <1>2, <2>1, <2>2, <2>3, <2>4 DEF PositionInv
<1>8. FrameInv(e, J)'
  BY <1>1, <1>2, <1>3, FrameKept
<1> QED BY <1>5, <1>6, <1>7, <1>8 DEF IInv

(* The steps that publish: PUT and dmaPut move up to dmaCurrent. *)
LEMMA PublishStep ==
    ASSUME IInv, Kick \/ BlockHandler \/ SyncStart PROVE IInv'
<1>1. PICK e \in Expectation, J \in Address : FrameInv(e, J)
  BY DEF IInv
<1>2. /\ UNCHANGED <<mem, engineVars, dmaCurrent, dmaFree, dmaGet, size, left>>
      /\ callback' \in BOOLEAN
      /\ pc = "idle" /\ pc' \in {"idle", "syncGet"}
  BY DEF IInv, TypeOK, Kick, BlockHandler, SyncStart
<1>3. ~Wrapping /\ ~Wrapping' /\ PUT = dmaPut /\ left = 0
  BY <1>2 DEF IInv, TypeOK, DriverInv, PositionInv, Wrapping
<1>4. /\ dmaCurrent <= DmaMax /\ dmaCurrent \in Address
      /\ e[dmaCurrent] = 0
  BY <1>1, <1>3 DEF IInv, TypeOK, DriverInv, FrameInv
<1>5. PUT' = dmaPut' /\ (dmaPut' = dmaCurrent \/ dmaPut' = dmaPut)
  BY <1>3 DEF Kick, BlockHandler, SyncStart, DmaKickoff
<1>6. Wrapped' <=> Wrapped
  BY <1>2, <1>3, <1>4, <1>5 DEF IInv, TypeOK, DriverInv, PositionInv, Wrapped,
                                engineVars
<1>7. TypeOK'
  BY <1>2, <1>4, <1>5 DEF IInv, TypeOK, engineVars
<1>8. DriverInv'
  BY <1>2, <1>3, <1>4, <1>5 DEF IInv, TypeOK, DriverInv
<1>9. PositionInv'
  BY <1>2, <1>3, <1>5, <1>6 DEF IInv, TypeOK, DriverInv, PositionInv, engineVars
<1>10. FrameInv(e, J)'
  <2>1. \A a : Good(e, a)' <=> Good(e, a)
    BY <1>2 DEF Good
  <2>2. /\ e[GET'] = methodLeft'
        /\ e[dmaPut'] = 0
        /\ \A a \in Address : a <= Skips => e[a] = 0
        /\ e[dmaCurrent'] = left'
    BY <1>1, <1>2, <1>3, <1>4, <1>5 DEF FrameInv, engineVars
  <2>3. Wrapped' => /\ GET' <= J
                    /\ mem'[J] = Jump
                    /\ e[J] = 0
                    /\ GoodRange(e, GET, J)'
                    /\ GoodRange(e, 0, dmaCurrent)'
    BY <1>1, <1>2, <1>6, <2>1 DEF FrameInv, engineVars, GoodRange
  <2>4. ~Wrapped' => GoodRange(e, GET, dmaCurrent)'
    BY <1>1, <1>2, <1>3, <1>6, <2>1 DEF FrameInv, engineVars, GoodRange
  <2> QED BY <1>3, <2>2, <2>3, <2>4 DEF FrameInv, GoodRange
<1> QED BY <1>7, <1>8, <1>9, <1>10 DEF IInv

-----------------------------------------------------------------------------
(* The driver's steps that write a dword. *)

(* A word that the framing allows at dmaCurrent extends it by one. *)
LEMMA AppendWord ==
    ASSUME IInv, ~Wrapping, ~Wrapping', dmaCurrent <= DmaMax,
           Wrapped => dmaCurrent + 1 < GET,
           NEW e \in Expectation, NEW J \in Address, FrameInv(e, J),
           NEW w \in Cell, DmaNext(w),
           UNCHANGED <<PUT, GET, methodLeft, dmaPut>>,
           left' \in 0..MaxSize,
           IF left > 0 THEN w.kind = "data" /\ w # Junk /\ left' = left - 1
                       ELSE w.kind = "header" /\ left' = w.count
    PROVE  \E f \in Expectation : FrameInv(f, J)'
<1>2. /\ dmaCurrent \in Address /\ Skips <= dmaCurrent
      /\ dmaPut \in Address /\ dmaPut <= dmaCurrent
      /\ GET \in Address /\ PUT = dmaPut
      /\ left \in 0..MaxSize
      /\ mem \in [Address -> Cell]
  BY DEF IInv, TypeOK, DriverInv, PositionInv
<1>3. Wrapped' <=> Wrapped
  BY DEF Wrapped
<1>4. /\ dmaCurrent' = dmaCurrent + 1
      /\ mem' \in [Address -> Cell]
      /\ \A a \in Address : a # dmaCurrent => mem'[a] = mem[a]
      /\ mem'[dmaCurrent] = w
  BY <1>2 DEF DmaNext
<1>5. PICK f \in Expectation :
             /\ f[dmaCurrent + 1] = left'
             /\ \A a \in 0..(DmaMax + 1) : a # dmaCurrent + 1 => f[a] = e[a]
  <2> DEFINE g == [e EXCEPT ![dmaCurrent + 1] = left']
  <2>1. /\ g \in Expectation
        /\ g[dmaCurrent + 1] = left'
        /\ \A a \in 0..(DmaMax + 1) : a # dmaCurrent + 1 => g[a] = e[a]
    BY <1>2 DEF Expectation
  <2> QED BY <2>1
<1>6. e[dmaCurrent] = left
  BY DEF FrameInv
<1>7. ASSUME NEW a \in Address, a # dmaCurrent, a # dmaCurrent + 1, Good(e, a)
      PROVE  Good(f, a)'
  <2>1. mem'[a] = mem[a] /\ f[a] = e[a] /\ f[a + 1] = e[a + 1]
    BY <1>2, <1>4, <1>5, <1>7
  <2> QED BY <1>7, <2>1 DEF Good
<1>8. \A a \in Address : a = dmaCurrent => Good(f, a)'
  <2>1. SUFFICES ASSUME NEW a \in Address, a = dmaCurrent PROVE Good(f, a)'
    OBVIOUS
  <2>2. f[a] = left /\ f[a + 1] = left' /\ mem'[a] = w
    BY <1>2, <1>4, <1>5, <1>6, <2>1
  <2> QED BY <1>2, <2>2 DEF Good
<1>9. /\ f[GET] = methodLeft /\ f[dmaPut] = 0
      /\ \A a \in Address : a <= Skips => f[a] = 0
  <2>1. GET # dmaCurrent + 1
    BY <1>2 DEF Wrapped
  <2> QED BY <1>2, <1>5, <2>1 DEF FrameInv
<1>10. CASE Wrapped
  <2>1. GET <= J /\ mem[J] = Jump /\ e[J] = 0
    BY <1>10 DEF FrameInv
  <2>2. mem'[J] = Jump /\ f[J] = 0
    BY <1>2, <1>4, <1>5, <1>10, <2>1
  <2>3. GoodRange(f, GET, J)'
    BY <1>2, <1>7, <1>10 DEF FrameInv, GoodRange
  <2>4. GoodRange(f, 0, dmaCurrent)'
    BY <1>2, <1>4, <1>7, <1>8, <1>10 DEF FrameInv, GoodRange
  <2> QED BY <1>3, <1>4, <1>5, <1>9, <1>10, <2>1, <2>2, <2>3, <2>4
          DEF FrameInv, GoodRange
<1>11. CASE ~Wrapped
  <2>1. GoodRange(f, GET, dmaCurrent)'
    BY <1>2, <1>4, <1>7, <1>8, <1>11 DEF FrameInv, GoodRange
  <2> QED BY <1>3, <1>4, <1>5, <1>9, <1>11, <2>1 DEF FrameInv, GoodRange
<1> QED BY <1>10, <1>11

(* The driver writes a header: a new method begins at the end of the       *)
(* stream.                                                                 *)
LEMMA WriteHeaderStep == ASSUME IInv, WriteHeader PROVE IInv'
<1>1. PICK e \in Expectation, J \in Address : FrameInv(e, J)
  BY DEF IInv
<1>2. /\ dmaCurrent \in 0..(DmaMax + 1) /\ dmaFree \in Address
      /\ size \in 1..MaxSize /\ left = 0 /\ size + 1 <= dmaFree
      /\ dmaCurrent + dmaFree <= DmaMax
      /\ Wrapped => dmaCurrent + dmaFree < GET
      /\ GET \in Address /\ PUT = dmaPut
  BY DEF IInv, TypeOK, DriverInv, PositionInv, WriteHeader, Wrapping
<1>3. /\ Header(size) \in Cell /\ DmaNext(Header(size)) /\ left' = size
      /\ dmaFree' = dmaFree - (size + 1)
      /\ pc = "header" /\ pc' = "data" /\ ~Wrapping /\ ~Wrapping'
      /\ UNCHANGED <<PUT, GET, methodLeft, pgraph, dmaPut, dmaGet, size, callback>>
  BY <1>2, CellFacts DEF WriteHeader, Wrapping, engineVars
<1>4. \E f \in Expectation : FrameInv(f, J)'
  BY <1>1, <1>2, <1>3, CellFacts, AppendWord
<1>5. dmaCurrent' = dmaCurrent + 1
  BY <1>3 DEF DmaNext
<1>6. TypeOK'
  <2>1. mem' \in [Address -> Cell]
    BY <1>3 DEF IInv, TypeOK, DmaNext
  <2> QED BY <1>2, <1>3, <1>5, <2>1 DEF IInv, TypeOK
<1>7. DriverInv'
  <2>0. Header(size) # Nop
    BY CellFacts
  <2>1. \A a \in Address : mem'[a] = Nop <=> a < Skips
    <3>1. /\ mem \in [Address -> Cell] /\ mem' = [mem EXCEPT ![dmaCurrent] = Header(size)]
          /\ Skips <= dmaCurrent
      BY <1>3 DEF IInv, TypeOK, DriverInv, DmaNext
    <3>2. TAKE a \in Address
    <3>3. mem[a] = Nop <=> a < Skips
      BY DEF IInv, DriverInv
    <3> QED BY <1>2, <2>0, <3>1, <3>3
  <2> QED BY <1>2, <1>3, <1>5, <2>1 DEF IInv, TypeOK, DriverInv
<1>8. PositionInv'
  BY <1>2, <1>3, <1>5 DEF IInv, TypeOK, PositionInv, Wrapped
<1> QED BY <1>4, <1>6, <1>7, <1>8 DEF IInv

(* The driver writes a data word of the method it is in.                   *)
LEMMA WriteDataStep ==
    ASSUME IInv, NEW p \in Payload, WriteData(p) PROVE IInv'
<1>1. PICK e \in Expectation, J \in Address : FrameInv(e, J)
  BY DEF IInv
<1>2. /\ dmaCurrent \in 0..(DmaMax + 1) /\ dmaFree \in Address
      /\ left \in 1..MaxSize
      /\ dmaCurrent + left + dmaFree <= DmaMax
      /\ Wrapped => dmaCurrent + left + dmaFree < GET
      /\ GET \in Address /\ PUT = dmaPut
  BY DEF IInv, TypeOK, DriverInv, PositionInv, WriteData, Wrapping
<1>3. /\ Data(p) \in Cell /\ DmaNext(Data(p)) /\ left' = left - 1
      /\ pc = "data" /\ pc' = (IF left = 1 THEN "idle" ELSE "data")
      /\ ~Wrapping /\ ~Wrapping'
      /\ UNCHANGED <<PUT, GET, methodLeft, pgraph, dmaPut, dmaFree, dmaGet,
                    size, callback>>
  BY <1>2, CellFacts DEF WriteData, Wrapping, engineVars
<1>4. \E f \in Expectation : FrameInv(f, J)'
  BY <1>1, <1>2, <1>3, CellFacts, AppendWord
<1>5. dmaCurrent' = dmaCurrent + 1
  BY <1>3 DEF DmaNext
<1>6. TypeOK'
  <2>1. mem' \in [Address -> Cell]
    BY <1>3 DEF IInv, TypeOK, DmaNext
  <2> QED BY <1>2, <1>3, <1>5, <2>1 DEF IInv, TypeOK
<1>7. DriverInv'
  <2>0. Data(p) # Nop
    BY CellFacts
  <2>1. \A a \in Address : mem'[a] = Nop <=> a < Skips
    <3>1. /\ mem \in [Address -> Cell] /\ mem' = [mem EXCEPT ![dmaCurrent] = Data(p)]
          /\ Skips <= dmaCurrent
      BY <1>3 DEF IInv, TypeOK, DriverInv, DmaNext
    <3>2. TAKE a \in Address
    <3>3. mem[a] = Nop <=> a < Skips
      BY DEF IInv, DriverInv
    <3> QED BY <1>2, <2>0, <3>1, <3>3
  <2> QED BY <1>2, <1>3, <1>5, <2>1 DEF IInv, TypeOK, DriverInv
<1>8. PositionInv'
  BY <1>2, <1>3, <1>5 DEF IInv, TypeOK, PositionInv, Wrapped
<1> QED BY <1>4, <1>6, <1>7, <1>8 DEF IInv

(* The driver writes the jump at the end of what it has written.           *)
LEMMA WriteJumpStep == ASSUME IInv, WriteJump PROVE IInv'
<1> USE CellFacts
<1>1. PICK e \in Expectation, J \in Address : FrameInv(e, J)
  BY DEF IInv
<1>2. /\ dmaCurrent \in Address /\ Skips < dmaCurrent
      /\ dmaPut \in Address /\ dmaPut <= dmaCurrent /\ PUT = dmaPut
      /\ GET \in Address /\ GET <= PUT /\ dmaGet <= GET /\ dmaGet \in Address
      /\ left = 0 /\ ~Wrapping /\ ~Wrapped
  BY DEF IInv, TypeOK, DriverInv, PositionInv, WriteJump, Wrapping, Wrapped
<1>3. /\ dmaCurrent' = dmaCurrent + 1
      /\ mem' \in [Address -> Cell]
      /\ \A a \in Address : a # dmaCurrent => mem'[a] = mem[a]
      /\ mem'[dmaCurrent] = Jump
  BY <1>2 DEF WriteJump, DmaNext, IInv, TypeOK
<1>4. /\ pc' \in {"spin", "wrap"} /\ Wrapping'
      /\ pc' = "wrap" => Skips < dmaGet
      /\ UNCHANGED <<GET, methodLeft, pgraph, dmaPut, dmaFree, dmaGet, size,
                    left, callback>>
  BY <1>2 DEF WriteJump, Wrapping, engineVars
<1>5. /\ PUT' \in Address /\ PUT' < dmaCurrent'
      /\ GET <= PUT'
      /\ PUT' # dmaPut => dmaPut <= Skips /\ PUT' = Skips + 1
  BY <1>2, <1>3 DEF WriteJump
<1>6. ~Wrapped'
  BY <1>2, <1>4, <1>5 DEF Wrapped
<1>7. TypeOK'
  BY <1>2, <1>3, <1>4, <1>5 DEF IInv, TypeOK
<1>8. DriverInv'
  BY <1>2, <1>3, <1>4 DEF IInv, TypeOK, DriverInv, WriteJump, Wrapping
<1>9. PositionInv'
  BY <1>2, <1>3, <1>4, <1>5, <1>6 DEF PositionInv
<1>10. PICK K \in Address : K = dmaCurrent
  BY <1>2
<1>11. FrameInv(e, K)'
  <2>1. ASSUME NEW a \in Address, GET <= a, a < dmaCurrent PROVE Good(e, a)'
    <3>1. Good(e, a) /\ mem'[a] = mem[a]
      BY <1>1, <1>2, <1>3, <2>1 DEF FrameInv, GoodRange
    <3> QED BY <3>1 DEF Good
  <2>2. e[dmaCurrent] = 0
    BY <1>1, <1>2 DEF FrameInv
  <2>3. e[GET] = methodLeft /\ e[dmaPut] = 0
    BY <1>1 DEF FrameInv
  <2> QED BY <1>1, <1>2, <1>3, <1>4, <1>6, <1>10, <2>1, <2>2, <2>3
          DEF FrameInv, GoodRange
<1> QED BY <1>7, <1>8, <1>9, <1>11 DEF IInv

(* The driver publishes the jump and goes on behind the no-ops.            *)
LEMMA WrapPutStep == ASSUME IInv, WrapPut PROVE IInv'
<1>1. PICK e \in Expectation, J \in Address : FrameInv(e, J)
  BY DEF IInv
<1>2. /\ GET \in Address /\ dmaGet \in Address
      /\ Skips < dmaGet /\ dmaGet <= GET
      /\ left = 0 /\ pc = "wrap" /\ Wrapping /\ size >= 1
  BY DEF IInv, TypeOK, DriverInv, PositionInv, WrapPut, Wrapping
<1>3. /\ PUT' = Skips /\ dmaCurrent' = Skips /\ dmaPut' = Skips
      /\ dmaFree' = dmaGet - (Skips + 1)
      /\ pc' = "wait" /\ ~Wrapping'
      /\ UNCHANGED <<mem, GET, methodLeft, pgraph, dmaGet, size, left, callback>>
  BY DEF WrapPut, Wrapping, engineVars
<1>4. Wrapped'
  BY <1>2, <1>3 DEF Wrapped
<1>5. TypeOK'
  BY <1>2, <1>3 DEF IInv, TypeOK
<1>6. DriverInv'
  BY <1>2, <1>3 DEF IInv, TypeOK, DriverInv
<1>7. PositionInv'
  BY <1>2, <1>3, <1>4 DEF PositionInv
<1>8. FrameInv(e, J)'
  <2>1. \A a : Good(e, a)' <=> Good(e, a)
    BY <1>3 DEF Good
  <2>2. ASSUME NEW a \in Address, a < Skips PROVE Good(e, a)
    BY <1>1, <2>2 DEF IInv, DriverInv, FrameInv, Good
  <2>3. /\ GET <= J /\ mem[J] = Jump /\ e[J] = 0
        /\ e[GET] = methodLeft /\ e[Skips] = 0
        /\ \A a \in Address : a <= Skips => e[a] = 0
        /\ GoodRange(e, GET, J)
    BY <1>1, <1>2 DEF FrameInv
  <2> QED BY <1>2, <1>3, <2>1, <2>2, <2>3 DEF FrameInv, GoodRange
<1> QED BY <1>5, <1>6, <1>7, <1>8 DEF IInv

-----------------------------------------------------------------------------

(* Nothing changes.                                                        *)
LEMMA StutterStep == ASSUME IInv, UNCHANGED vars PROVE IInv'
<1>1. PICK e \in Expectation, J \in Address : FrameInv(e, J)
  BY DEF IInv
<1>2. UNCHANGED <<mem, PUT, GET, methodLeft, pgraph, dmaCurrent, dmaPut, dmaFree,
                  dmaGet, size, left, pc, callback>>
  BY DEF vars, driverVars, engineVars
<1>3. Wrapping' <=> Wrapping
  BY <1>2 DEF Wrapping
<1>4. FrameInv(e, J)'
  BY <1>1, <1>2, <1>3, FrameKept
<1>5. TypeOK' /\ DriverInv' /\ PositionInv'
  BY <1>2 DEF IInv, TypeOK, DriverInv, PositionInv, Wrapping, Wrapped
<1> QED BY <1>4, <1>5 DEF IInv

(* Every step preserves the invariant.                                     *)
LEMMA NextIInv == IInv /\ [Next]_vars => IInv'
<1> SUFFICES ASSUME IInv, [Next]_vars PROVE IInv'
  OBVIOUS
<1>1. CASE Looking
  BY <1>1, LookingStep
<1>2. CASE Kick \/ BlockHandler \/ SyncStart
  BY <1>2, PublishStep
<1>3. CASE WriteHeader
  BY <1>3, WriteHeaderStep
<1>4. CASE \E p \in Payload : WriteData(p)
  BY <1>4, WriteDataStep
<1>5. CASE WriteJump
  BY <1>5, WriteJumpStep
<1>6. CASE WrapPut
  BY <1>6, WrapPutStep
<1>7. CASE FetchJump
  BY <1>7, FetchJumpStep
<1>8. CASE FetchNop \/ FetchHeader \/ FetchData
  BY <1>8, FetchUpStep
<1>9. CASE PgraphDone
  BY <1>9, PgraphDoneStep
<1>10. CASE UNCHANGED vars
  BY <1>10, StutterStep
<1> QED BY <1>1, <1>2, <1>3, <1>4, <1>5, <1>6, <1>7, <1>8, <1>9, <1>10
        DEF Next, Driver, Engine, Fetch, Finish, Wait, Write, SyncWait, Looking

(* The invariant holds in every reachable state. *)
THEOREM Inductive == Spec => []IInv
BY InitIInv, NextIInv, PTL DEF Spec
-----------------------------------------------------------------------------
(* No CARD32 computation of the driver wraps around: dmaFree and dmaCurrent
   stay inside the buffer in NVDmaStart and NVDmaWait. *)
THEOREM TypeCorrect == Spec => []TypeOK
BY Inductive, PTL DEF IInv

(* The room NVDmaStart counts on never holds a dword the engine has yet to
   fetch and never leaves the buffer. *)
THEOREM ReservationIsSafe == Spec => []ReservationSafe
<1>1. IInv => ReservationSafe
  <2> SUFFICES ASSUME IInv, ~Wrapping
               PROVE  /\ Room \subseteq Address
                      /\ \A a \in Room : ~Unread(a)
    BY DEF ReservationSafe, Wrapping
  <2>1. PICK e \in Expectation, J \in Address : FrameInv(e, J)
    BY DEF IInv
  <2>2. /\ dmaCurrent \in Nat /\ left \in Nat /\ dmaFree \in Nat
        /\ dmaCurrent + left + dmaFree <= DmaMax
        /\ Wrapped => dmaCurrent + left + dmaFree < GET
        /\ GET \in Address
    BY DEF IInv, TypeOK, DriverInv, PositionInv
  <2> QED BY <2>2 DEF Room, Unread
<1> QED BY <1>1, Inductive, PTL

(* A method's data words reach the engine right behind its header, across
   every wrap of the ring: NVDmaWait only wraps between two methods. *)
THEOREM FramingIsRespected == Spec => []Framing
<1>1. IInv => Framing
  <2> SUFFICES ASSUME IInv, GET # PUT
               PROVE  IF methodLeft > 0
                      THEN mem[GET].kind = "data" /\ mem[GET] # Junk
                      ELSE mem[GET].kind \in {"nop", "jump", "header"}
    BY DEF Framing
  <2>1. PICK e \in Expectation, J \in Address : FrameInv(e, J)
    BY DEF IInv
  <2>2. Good(e, GET) \/ (mem[GET] = Jump /\ e[GET] = 0)
    <3>1. CASE Wrapped /\ GET = J
      BY <2>1, <3>1 DEF FrameInv
    <3> QED BY <2>1, <3>1, AtGet
  <2>3. e[GET] = methodLeft /\ methodLeft \in Nat
    BY <2>1 DEF FrameInv, IInv, TypeOK
  <2> QED BY <2>2, <2>3, CellFacts DEF Good
<1> QED BY <1>1, Inductive, PTL

(* The race the SKIPS no-ops are there for cannot happen. *)
THEOREM JumpRaceAvoided == Spec => []NeverJumpToPut
<1>1. IInv => NeverJumpToPut
  <2> SUFFICES ASSUME IInv, GET # PUT, methodLeft = 0, mem[GET] = Jump
               PROVE  PUT # 0
    BY DEF NeverJumpToPut
  <2>1. PICK e \in Expectation, J \in Address : FrameInv(e, J)
    BY DEF IInv
  <2>2. ~Good(e, GET)
    BY <2>1, CellFacts DEF Good, FrameInv
  <2>3. Wrapped
    BY <2>1, <2>2, AtGet
  <2> QED BY <2>3 DEF IInv, PositionInv
<1> QED BY <1>1, Inductive, PTL

(* NVSync returns only when the engine has executed all that was published. *)
THEOREM SyncIsComplete == Spec => SyncComplete
<1>1. IInv /\ [Next]_vars =>
        [pc = "syncIdle" /\ pc' = "idle" =>
           GET = PUT /\ methodLeft = 0 /\ ~pgraph]_vars
  <2> SUFFICES ASSUME IInv, Next, pc = "syncIdle", pc' = "idle"
               PROVE  GET = PUT /\ methodLeft = 0 /\ ~pgraph
    OBVIOUS
  <2>1. PICK e \in Expectation, J \in Address : FrameInv(e, J)
    BY DEF IInv
  <2>2. GET = dmaPut /\ PUT = dmaPut
    BY DEF IInv, PositionInv, Wrapping
  <2>3. methodLeft = 0
    BY <2>1, <2>2 DEF FrameInv
  <2>4. SyncIdle
    BY DEF Next, Driver, Engine, Fetch, Finish, Wait, Write, SyncWait, DmaStart,
           WaitDone, WaitAbove, WaitBelow, WriteJump, SpinRead, WrapPut,
           WriteHeader, WriteData, Kick, ArmCallback, BlockHandler, SyncStart,
           SyncGet, FetchJump, FetchNop, FetchHeader, FetchData, PgraphDone,
           driverVars
  <2>5. ~pgraph
    BY <2>4 DEF SyncIdle
  <2> QED BY <2>2, <2>3, <2>5
<1> QED BY <1>1, Inductive, PTL DEF Spec, SyncComplete
-----------------------------------------------------------------------------
(* The ring implements the stream. *)

(* The jump on the way is the first one at or above GET.                   *)
LEMMA FirstJump ==
    ASSUME NEW m, NEW g \in Address, NEW J \in Address, g <= J, m[J] = Jump,
           \A a \in Address : g <= a /\ a < J => m[a] # Jump
    PROVE  (CHOOSE a \in g..DmaMax : /\ m[a] = Jump
                                     /\ \A b \in g..(a - 1) : m[b] # Jump) = J
<1> DEFINE First(x) == m[x] = Jump /\ \A b \in g..(x - 1) : m[b] # Jump
<1>1. J \in g..DmaMax /\ First(J)
  OBVIOUS
<1>2. ASSUME NEW x \in g..DmaMax, First(x) PROVE x = J
  <2>1. ~(x < J)
    BY <1>2
  <2>2. ~(J < x)
    <3>1. J < x => J \in g..(x - 1)
      BY <1>2
    <3> QED BY <1>2, <3>1
  <2> QED BY <1>2, <2>1, <2>2
<1> HIDE DEF First
<1>3. (CHOOSE x \in g..DmaMax : First(x)) = J
  BY <1>1, <1>2
<1> QED BY <1>3 DEF First

(* While the engine has yet to wrap, the jump ends the words that come     *)
(* first.                                                                  *)
LEMMA WrappedJump ==
    ASSUME IInv, Wrapped
    PROVE  \E J \in Address :
              /\ JumpAt = J /\ GET <= J /\ mem[J] = Jump
              /\ \A a \in Address : GET <= a /\ a < J => mem[a] # Jump
<1>1. PICK e \in Expectation, J \in Address : FrameInv(e, J)
  BY DEF IInv
<1>2. GET \in Address /\ GET <= J /\ mem[J] = Jump /\ GoodRange(e, GET, J)
  BY <1>1 DEF IInv, TypeOK, FrameInv
<1>3. ASSUME NEW a \in Address, GET <= a, a < J PROVE mem[a] # Jump
  <2>1. Good(e, a)
    BY <1>2, <1>3 DEF GoodRange
  <2>2. mem[a].kind \in {"data", "header"} \/ mem[a] = Nop
    BY <2>1 DEF Good
  <2> QED BY <2>2, CellFacts
<1>4. JumpAt = J
  BY <1>2, <1>3, FirstJump DEF JumpAt
<1> QED BY <1>2, <1>3, <1>4

(* Where the words on the way begin and end.                               *)
LEMMA Geometry ==
    ASSUME IInv
    PROVE  /\ GET \in Address /\ PUT \in Address /\ Skips <= dmaCurrent
           /\ dmaCurrent \in 0..(DmaMax + 1) /\ PUT <= dmaCurrent
           /\ Top \in Nat /\ Skips <= Top /\ Top <= dmaCurrent
           /\ From \in Nat /\ GET <= From /\ Skips <= From
           /\ Wrapped => /\ ~Wrapping /\ Top = dmaCurrent /\ From = GET
                         /\ dmaCurrent + left + dmaFree < GET
                         /\ Skips <= PUT /\ PUT < GET
           /\ ~Wrapped => /\ GET <= PUT /\ From <= Top /\ Before = 0
                          /\ Count = Top - From
           /\ PUT = dmaPut \/ Wrapping
<1>1. /\ GET \in Address /\ PUT \in Address /\ dmaPut \in Address
      /\ dmaCurrent \in 0..(DmaMax + 1)
      /\ Skips <= dmaCurrent /\ dmaPut <= dmaCurrent
      /\ Wrapping => Skips + 1 < dmaCurrent
  BY DEF IInv, TypeOK, DriverInv
<1>2. /\ Wrapping => PUT < dmaCurrent
      /\ PUT # dmaPut => Wrapping
      /\ Wrapped => /\ ~Wrapping /\ Skips <= PUT
                    /\ dmaCurrent + left + dmaFree < GET
  BY DEF IInv, PositionInv, Wrapping
<1>3. PUT <= dmaCurrent /\ (Wrapping => PUT <= dmaCurrent - 1)
  BY <1>1, <1>2
<1>4. /\ Top \in Nat /\ Skips <= Top /\ Top <= dmaCurrent
      /\ ~Wrapping => Top = dmaCurrent
      /\ PUT <= Top
  BY <1>1, <1>3 DEF Top
<1>5. From \in Nat /\ GET <= From /\ Skips <= From /\ (Skips <= GET => From = GET)
  BY <1>1 DEF From
<1>6. Wrapped => PUT < GET /\ Skips <= GET
  BY <1>1, <1>2 DEF Wrapped
<1>7. ~Wrapped => GET <= PUT
  BY <1>1 DEF Wrapped
<1>8. ~Wrapped => From <= Top
  BY <1>1, <1>4, <1>7 DEF From
<1> QED BY <1>1, <1>2, <1>3, <1>4, <1>5, <1>6, <1>7, <1>8 DEF Before, Count

(* The words on the way are cells of the buffer.                           *)
LEMMA Places ==
    ASSUME IInv
    PROVE  /\ Count \in Nat
           /\ \A k \in 1..Count : /\ Place(k) \in Address
                                  /\ Skips <= Place(k)
                                  /\ Place(k) < dmaCurrent \/ GET <= Place(k)
                                  /\ ~Wrapped => Place(k) < Top
<1>1. CASE Wrapped
  <2>1. PICK J \in Address : JumpAt = J /\ GET <= J
    BY <1>1, WrappedJump
  <2>2. Before = J - GET /\ Before \in Nat
    BY <1>1, <2>1, Geometry DEF Before
  <2>3. Count = Before + (Top - Skips) /\ Count \in Nat
    BY <1>1, <2>2, Geometry DEF Count
  <2>4. ASSUME NEW k \in 1..Count
        PROVE  /\ Place(k) \in Address /\ Skips <= Place(k)
               /\ Place(k) < dmaCurrent \/ GET <= Place(k)
    <3>1. CASE k > Before
      <4>1. Place(k) = Skips + (k - Before) - 1
        BY <1>1, <3>1 DEF Place
      <4>2. Top = dmaCurrent /\ dmaCurrent <= GET
        BY <1>1, Geometry DEF IInv, TypeOK
      <4> QED BY <2>2, <2>3, <3>1, <4>1, <4>2, Geometry
    <3>2. CASE ~(k > Before)
      <4>1. Place(k) = GET + k - 1
        BY <1>1, <3>2, Geometry DEF Place
      <4> QED BY <1>1, <2>1, <2>2, <2>3, <3>2, <4>1, Geometry
    <3> QED BY <3>1, <3>2
  <2> QED BY <1>1, <2>3, <2>4
<1>2. CASE ~Wrapped
  <2>1. Count = Top - From /\ Count \in Nat
    BY <1>2, Geometry
  <2>2. \A k : Place(k) = From + k - 1
    BY <1>2 DEF Place
  <2> QED BY <1>2, <2>1, <2>2, Geometry
<1> QED BY <1>1, <1>2

(* What is on the way is a sequence of cells.                              *)
LEMMA StreamType ==
    ASSUME IInv
    PROVE  /\ OutstandingWords \in Seq(Cell) /\ Len(OutstandingWords) = Count
           /\ \A k \in 1..Count : OutstandingWords[k] = mem[Place(k)]
<1>1. Count \in Nat /\ mem \in [Address -> Cell]
  BY Places DEF IInv, TypeOK
<1>2. OutstandingWords \in [1..Count -> Cell]
  BY <1>1, Places DEF OutstandingWords
<1>3. OutstandingWords \in Seq(Cell)
  BY <1>1, <1>2
<1>4. Len(OutstandingWords) = Count
  BY <1>1, <1>2, <1>3, LenProperties
<1> QED BY <1>3, <1>4 DEF OutstandingWords

(* The same words at other places are the same stream.                     *)
LEMMA SameStream ==
    ASSUME Count' = Count,
           \A k \in 1..Count : mem'[Place(k)'] = mem[Place(k)]
    PROVE  OutstandingWords' = OutstandingWords
BY DEF OutstandingWords

(* One word more at the end.                                               *)
LEMMA LongerStream ==
    ASSUME IInv, NEW n \in Nat, Count = n, Count' = n + 1, NEW w \in Cell,
           \A k \in 1..n : mem'[Place(k)'] = mem[Place(k)],
           mem'[Place(n + 1)'] = w
    PROVE  OutstandingWords' = Append(OutstandingWords, w)
<1> DEFINE s == OutstandingWords
           t == OutstandingWords'
<1>1. s \in Seq(Cell) /\ Len(s) = n /\ \A k \in 1..n : s[k] = mem[Place(k)]
  BY StreamType
<1>2. t \in Seq(Cell) /\ Len(t) = n + 1
      /\ \A k \in 1..(n + 1) : t[k] = mem'[Place(k)']
  <2>1. t = [k \in 1..(n + 1) |-> mem'[Place(k)']]
    BY DEF OutstandingWords
  <2>2. \A k \in 1..(n + 1) : mem'[Place(k)'] \in Cell
    <3>1. TAKE k \in 1..(n + 1)
    <3>2. CASE k \in 1..n
      BY <1>1, <3>2, ElementOfSeq
    <3>3. CASE k = n + 1
      BY <3>3
    <3> QED BY <3>2, <3>3
  <2>3. t \in [1..(n + 1) -> Cell] /\ t \in Seq(Cell)
    BY <2>1, <2>2
  <2>4. Len(t) = n + 1
    BY <2>3, LenProperties
  <2> QED BY <2>1, <2>3, <2>4
<1> HIDE DEF s, t
<1>3. Append(s, w) \in Seq(Cell) /\ Len(Append(s, w)) = n + 1
      /\ \A k \in 1..n : Append(s, w)[k] = s[k]
      /\ Append(s, w)[n + 1] = w
  BY <1>1
<1>4. \A k \in 1..(n + 1) : t[k] = Append(s, w)[k]
  BY <1>1, <1>2, <1>3
<1>5. t = Append(s, w)
  BY <1>2, <1>3, <1>4, SeqEqual
<1> QED BY <1>5 DEF s, t
(* One word less at the front.                                             *)
LEMMA ShorterStream ==
    ASSUME IInv, NEW n \in Nat, Count = n + 1, Count' = n,
           \A k \in 1..n : mem'[Place(k)'] = mem[Place(k + 1)]
    PROVE  OutstandingWords # << >> /\ OutstandingWords' = Tail(OutstandingWords)
<1> DEFINE s == OutstandingWords
           t == OutstandingWords'
<1>1. s \in Seq(Cell) /\ Len(s) = n + 1 /\ \A k \in 1..(n + 1) : s[k] = mem[Place(k)]
  BY StreamType
<1>2. t = [k \in 1..n |-> mem'[Place(k)']]
  BY DEF OutstandingWords
<1> HIDE DEF s, t
<1>3. s # << >>
  BY <1>1, EmptySeq
<1>4. Tail(s) \in Seq(Cell) /\ Len(Tail(s)) = n
      /\ \A k \in 1..n : Tail(s)[k] = s[k + 1]
  BY <1>1, <1>3, HeadTailProperties
<1>5. \A k \in 1..n : mem'[Place(k)'] = Tail(s)[k] /\ Tail(s)[k] \in Cell
  <2>1. TAKE k \in 1..n
  <2>2. k + 1 \in 1..(n + 1)
    OBVIOUS
  <2> QED BY <1>1, <1>4, <2>2, ElementOfSeq
<1>6. t \in [1..n -> Cell] /\ t \in Seq(Cell)
  <2>1. t \in [1..n -> Cell]
    BY <1>2, <1>5
  <2> QED BY <2>1
<1>7. Len(t) = n
  BY <1>6, LenProperties
<1>8. t = Tail(s)
  BY <1>2, <1>4, <1>5, <1>6, <1>7, SeqEqual
<1> QED BY <1>3, <1>8 DEF s, t

-----------------------------------------------------------------------------
(* Each step of the ring as a step of the stream. *)

(* The driver writes the next word: the stream has room for it.            *)
LEMMA WriteSends ==
    ASSUME IInv, ~Wrapping, ~Wrapping', dmaCurrent < DmaMax,
           Wrapped => dmaCurrent + 1 < GET,
           NEW w \in Word, DmaNext(w), UNCHANGED <<PUT, GET, pgraph>>
    PROVE  CS!Send(w)
<1>1. w \in Cell /\ w # Jump
  BY CellFacts DEF Cell, Word, Header, Data, Jump
<1>2. PICK n \in Nat : n = Count
  BY Places
<1>3. /\ GET \in Address /\ dmaCurrent \in Address /\ Skips <= dmaCurrent
      /\ mem \in [Address -> Cell] /\ Top = dmaCurrent
  BY Geometry DEF IInv, TypeOK, Top
<1>4. /\ dmaCurrent' = dmaCurrent + 1 /\ mem'[dmaCurrent] = w
      /\ \A a \in Address : a # dmaCurrent => mem'[a] = mem[a]
  BY <1>3 DEF DmaNext
<1>5. Top' = dmaCurrent + 1 /\ From' = From /\ (Wrapped' <=> Wrapped)
  BY <1>4 DEF Top, From, Wrapped
<1>6. CASE Wrapped
  <2>1. PICK J \in Address :
           /\ JumpAt = J /\ GET <= J /\ mem[J] = Jump
           /\ \A a \in Address : GET <= a /\ a < J => mem[a] # Jump
    BY <1>6, WrappedJump
  <2>2. mem'[J] = Jump /\ \A a \in Address : GET <= a /\ a < J => mem'[a] # Jump
    BY <1>3, <1>4, <1>6, <2>1
  <2>3. JumpAt' = J
    BY <1>3, <2>1, <2>2, FirstJump DEF JumpAt
  <2>4. Before = J - GET /\ Before' = Before /\ Before \in Nat
    BY <1>3, <1>5, <1>6, <2>1, <2>3 DEF Before
  <2>5. Count = Before + (dmaCurrent - Skips) /\ Count' = n + 1
    BY <1>2, <1>3, <1>5, <1>6, <2>4 DEF Count
  <2>6. \A k \in 1..(n + 1) : Place(k)' = Place(k)
    BY <1>5, <2>4 DEF Place
  <2>7. Place(n + 1) = dmaCurrent
    BY <1>2, <1>3, <1>6, <2>4, <2>5 DEF Place
  <2>8. \A k \in 1..n : Place(k) \in Address /\ Place(k) # dmaCurrent
    <3>1. TAKE k \in 1..n
    <3>2. Place(k) \in Address
      BY <1>2, Places
    <3>3. CASE k > Before
      BY <1>2, <1>3, <1>6, <2>4, <2>5, <3>3 DEF Place
    <3>4. CASE ~(k > Before)
      BY <1>3, <1>6, <2>4, <3>4, Geometry DEF Place
    <3> QED BY <3>2, <3>3, <3>4
  <2>9. n < DmaMax - Skips
    BY <1>2, <1>3, <1>6, <2>1, <2>4, <2>5
  <2>10. \A k \in 1..n : mem'[Place(k)'] = mem[Place(k)]
    BY <1>4, <2>6, <2>8
  <2>11. mem'[Place(n + 1)'] = w
    BY <1>4, <2>6, <2>7
  <2>12. OutstandingWords' = Append(OutstandingWords, w)
    BY <1>1, <1>2, <2>5, <2>10, <2>11, LongerStream
  <2> QED BY <1>2, <2>9, <2>12, StreamType DEF CS!Send
<1>7. CASE ~Wrapped
  <2>1. /\ Count = dmaCurrent - From /\ Count' = n + 1
        /\ From \in Nat /\ Skips <= From
    BY <1>2, <1>3, <1>5, <1>7, Geometry DEF Count
  <2>2. \A k : Place(k) = From + k - 1 /\ Place(k)' = From + k - 1
    BY <1>5, <1>7 DEF Place
  <2>3. \A k \in 1..n : Place(k) \in Address /\ Place(k) # dmaCurrent
    BY <1>2, <1>3, <2>1, <2>2
  <2>4. Place(n + 1) = dmaCurrent /\ Place(n + 1)' = dmaCurrent
    BY <1>2, <1>3, <2>1, <2>2
  <2>5. \A k \in 1..n : mem'[Place(k)'] = mem[Place(k)]
    BY <1>4, <2>2, <2>3
  <2>6. OutstandingWords' = Append(OutstandingWords, w)
    BY <1>1, <1>2, <1>4, <2>1, <2>4, <2>5, LongerStream
  <2>7. n < DmaMax - Skips
    BY <1>2, <1>3, <2>1
  <2> QED BY <1>2, <2>6, <2>7, StreamType DEF CS!Send
<1> QED BY <1>6, <1>7
(* The engine takes a word of the stream.                                  *)
LEMMA FetchConsumes ==
    ASSUME IInv, GET # PUT, GET' = GET + 1, Skips <= GET, mem[GET] # Jump,
           UNCHANGED <<mem, PUT, driverVars>>, pgraph' \in {pgraph, TRUE}
    PROVE  CS!Consume
<1>1. /\ GET \in Address /\ PUT \in Address /\ From = GET /\ From' = GET + 1
      /\ Top' = Top /\ Wrapping' = Wrapping
  <2>1. GET \in Address /\ PUT \in Address
    BY Geometry
  <2>2. Wrapping' = Wrapping
    BY DEF driverVars, Wrapping
  <2> QED BY <2>1, <2>2 DEF From, Top, driverVars
<1>2. CASE Wrapped
  <2>1. PICK J \in Address :
           /\ JumpAt = J /\ GET <= J /\ mem[J] = Jump
           /\ \A a \in Address : GET <= a /\ a < J => mem[a] # Jump
    BY <1>2, WrappedJump
  <2>2. GET + 1 <= J /\ GET + 1 \in Address
    BY <1>1, <2>1
  <2>3. JumpAt' = J
    <3>1. \A a \in Address : GET + 1 <= a /\ a < J => mem[a] # Jump
      BY <1>1, <2>1
    <3> QED BY <2>1, <2>2, <3>1, FirstJump DEF JumpAt
  <2>4. Wrapped'
    BY <1>1, <1>2 DEF Wrapped
  <2>5. /\ Before = J - GET /\ Before \in Nat /\ Before' = Before - 1
        /\ Before' \in Nat
    BY <1>1, <1>2, <2>1, <2>2, <2>3, <2>4 DEF Before
  <2>6. Count \in Nat /\ Count = Before + (Top - Skips) /\ Top \in Nat
        /\ Skips <= Top
    BY <1>2, Places, Geometry DEF Count
  <2>7. PICK n \in Nat : Count = n + 1
    BY <1>1, <2>1, <2>2, <2>5, <2>6
  <2>8. Count' = n
    BY <1>1, <2>4, <2>5, <2>6, <2>7 DEF Count
  <2>9. \A k \in 1..n : Place(k)' = Place(k + 1)
    <3>1. TAKE k \in 1..n
    <3>2. k + 1 > Before <=> k > Before'
      BY <2>5
    <3> QED BY <1>1, <1>2, <2>4, <2>5, <3>2 DEF Place
  <2>10. OutstandingWords # << >> /\ OutstandingWords' = Tail(OutstandingWords)
    BY <2>7, <2>8, <2>9, ShorterStream
  <2> QED BY <2>10 DEF CS!Consume
<1>3. CASE ~Wrapped
  <2>1. GET < PUT /\ PUT <= Top /\ Top \in Nat
    <3>1. GET <= PUT /\ PUT <= dmaCurrent /\ dmaCurrent \in Nat
      BY <1>3, Geometry
    <3>2. Wrapping => PUT < dmaCurrent
      BY DEF IInv, PositionInv
    <3> QED BY <1>1, <3>1, <3>2 DEF Top
  <2>2. ~Wrapped'
    BY <1>1, <2>1 DEF Wrapped
  <2>3. Count = Top - GET /\ Count' = Top - (GET + 1)
    BY <1>1, <1>3, <2>2 DEF Count
  <2>4. PICK n \in Nat : Count = n + 1
    BY <1>1, <2>1, <2>3
  <2>5. Count' = n
    BY <1>1, <2>1, <2>3, <2>4
  <2>6. \A k \in 1..n : Place(k)' = Place(k + 1)
    BY <1>1, <1>3, <2>2 DEF Place
  <2>7. OutstandingWords # << >> /\ OutstandingWords' = Tail(OutstandingWords)
    BY <2>4, <2>5, <2>6, ShorterStream
  <2> QED BY <2>7 DEF CS!Consume
<1> QED BY <1>2, <1>3

(* Steps that move neither the ends nor GET leave the stream alone.        *)
LEMMA StreamKept ==
    ASSUME IInv, UNCHANGED <<mem, GET, Top>>, Wrapped' <=> Wrapped
    PROVE  OutstandingWords' = OutstandingWords
<1>1. From' = From /\ JumpAt' = JumpAt
  BY DEF From, JumpAt
<1>2. Before' = Before
  BY <1>1 DEF Before
<1>3. Count' = Count /\ \A k : Place(k)' = Place(k)
  BY <1>1, <1>2 DEF Count, Place
<1> QED BY <1>3, SameStream

(* The no-ops are not part of the stream.                                  *)
LEMMA FetchNopStutters ==
    ASSUME IInv, FetchNop PROVE UNCHANGED CS!vars
<1>1. GET \in Address /\ PUT \in Address /\ GET < Skips
  BY Geometry DEF FetchNop, IInv, DriverInv
<1>2. ~Wrapped /\ ~Wrapped' /\ GET <= PUT
  <2>1. ~Wrapped /\ GET <= PUT
    BY <1>1, Geometry
  <2> QED BY <1>1, <2>1 DEF FetchNop, Wrapped
<1>3. From = Skips /\ From' = Skips
  BY <1>1 DEF From, FetchNop
<1>4. Top' = Top
  BY DEF Top, Wrapping, FetchNop, driverVars
<1>5. Count' = Count /\ \A k : Place(k)' = Place(k)
  BY <1>2, <1>3, <1>4 DEF Count, Place
<1>6. OutstandingWords' = OutstandingWords
  BY <1>5, SameStream DEF FetchNop
<1> QED BY <1>6 DEF CS!vars, FetchNop

(* Taking the jump leads from the words before it to those behind the      *)
(* no-ops.                                                                 *)
LEMMA FetchJumpStutters ==
    ASSUME IInv, FetchJump PROVE UNCHANGED CS!vars
<1>1. Wrapped
  <2>1. PICK e \in Expectation, J \in Address : FrameInv(e, J)
    BY DEF IInv
  <2>2. ~Good(e, GET)
    BY <2>1, CellFacts DEF FetchJump, Good, FrameInv
  <2> QED BY <2>1, <2>2, AtGet DEF FetchJump
<1>2. PICK J \in Address : JumpAt = J /\ GET <= J
         /\ \A a \in Address : GET <= a /\ a < J => mem[a] # Jump
  BY <1>1, WrappedJump
<1>3. GET \in Address /\ PUT \in Address /\ J = GET
  BY <1>2, Geometry DEF FetchJump
<1>4. Before = 0
  BY <1>1, <1>2, <1>3 DEF Before
<1>5. ~Wrapped'
  BY <1>3 DEF Wrapped, FetchJump
<1>6. From' = Skips /\ Top' = Top /\ Top \in Nat
  BY Geometry DEF From, Top, Wrapping, FetchJump, driverVars
<1>7. Count' = Count
  BY <1>1, <1>4, <1>5, <1>6 DEF Count
<1>8. \A k \in 1..Count : Place(k)' = Place(k)
  <2>1. Count \in Nat
    BY Places
  <2>2. TAKE k \in 1..Count
  <2>3. Place(k) = Skips + (k - 0) - 1 /\ Place(k)' = Skips + k - 1
    BY <1>1, <1>4, <1>5, <1>6, <2>1 DEF Place
  <2> QED BY <2>1, <2>3
<1>9. OutstandingWords' = OutstandingWords
  BY <1>7, <1>8, SameStream DEF FetchJump
<1> QED BY <1>9 DEF CS!vars, FetchJump

(* The jump itself is not a word of the stream.                            *)
LEMMA WriteJumpStutters ==
    ASSUME IInv, WriteJump PROVE UNCHANGED CS!vars
<1>1. /\ ~Wrapped /\ ~Wrapping /\ Wrapping' /\ dmaCurrent \in Address
      /\ dmaPut \in Address /\ GET \in Address /\ GET <= PUT /\ PUT = dmaPut
      /\ mem \in [Address -> Cell]
  <2>1. ~Wrapped /\ ~Wrapping /\ PUT = dmaPut
    BY DEF IInv, PositionInv, WriteJump, Wrapping
  <2>2. Wrapping'
    BY DEF WriteJump, Wrapping
  <2>3. dmaCurrent \in Address
    BY Geometry DEF IInv, DriverInv, WriteJump
  <2> QED BY <2>1, <2>2, <2>3, Geometry DEF IInv, TypeOK
<1>2. ~Wrapped'
  <2>1. PUT <= PUT' /\ PUT' \in Nat /\ GET' = GET
    BY <1>1 DEF WriteJump, engineVars
  <2> QED BY <1>1, <2>1 DEF Wrapped
<1>3. Top = dmaCurrent /\ Top' = dmaCurrent /\ From' = From
  BY <1>1 DEF Top, From, WriteJump, DmaNext, engineVars
<1>4. Count' = Count /\ \A k : Place(k)' = Place(k)
  BY <1>1, <1>2, <1>3 DEF Count, Place
<1>5. \A k \in 1..Count : Place(k) \in Address /\ Place(k) # dmaCurrent
  BY <1>1, <1>3, Places
<1>6. \A k \in 1..Count : mem'[Place(k)'] = mem[Place(k)]
  BY <1>1, <1>4, <1>5 DEF WriteJump, DmaNext
<1>7. OutstandingWords' = OutstandingWords
  BY <1>4, <1>6, SameStream
<1> QED BY <1>7 DEF CS!vars, WriteJump, engineVars

(* Going back to the start of the buffer moves no word.                    *)
LEMMA WrapPutStutters ==
    ASSUME IInv, WrapPut PROVE UNCHANGED CS!vars
<1>1. PICK e \in Expectation, J \in Address : FrameInv(e, J)
  BY DEF IInv
<1>2. /\ Wrapping /\ ~Wrapped /\ GET \in Address /\ dmaGet \in Address
      /\ Skips < dmaGet /\ dmaGet <= GET /\ dmaCurrent \in Nat
  BY Geometry DEF IInv, TypeOK, PositionInv, WrapPut, Wrapping
<1>3. /\ GET <= J /\ J = dmaCurrent - 1 /\ mem[J] = Jump
      /\ GoodRange(e, GET, J)
  BY <1>1, <1>2 DEF FrameInv
<1>4. ASSUME NEW a \in Address, GET <= a, a < J PROVE mem[a] # Jump
  <2>1. Good(e, a)
    BY <1>3, <1>4 DEF GoodRange
  <2>2. mem[a].kind \in {"data", "header"} \/ mem[a] = Nop
    BY <2>1 DEF Good
  <2> QED BY <2>2, CellFacts
<1>5. JumpAt' = J
  <2>1. GET' = GET /\ mem' = mem
    BY DEF WrapPut, engineVars
  <2> QED BY <1>2, <1>3, <1>4, <2>1, FirstJump DEF JumpAt
<1>6. Wrapped' /\ Top' = Skips /\ From' = GET /\ From = GET /\ Top = J
  BY <1>2, <1>3 DEF Wrapped, Top, From, Wrapping, WrapPut, engineVars
<1>7. Before' = J - GET
  BY <1>5, <1>6 DEF Before, WrapPut, engineVars
<1>8. Count = J - GET /\ Count' = J - GET
  BY <1>2, <1>3, <1>6, <1>7 DEF Count
<1>9. \A k \in 1..Count : Place(k)' = Place(k)
  <2>1. TAKE k \in 1..Count
  <2>2. ~(k > Before')
    BY <1>2, <1>3, <1>7, <1>8
  <2> QED BY <1>2, <1>6, <2>2 DEF Place
<1>10. OutstandingWords' = OutstandingWords
  BY <1>8, <1>9, SameStream DEF WrapPut
<1> QED BY <1>10 DEF CS!vars, WrapPut, engineVars
(* Looking at GET and publishing change neither the words nor their way.   *)
LEMMA LookingStutters ==
    ASSUME IInv, Looking \/ UNCHANGED vars PROVE UNCHANGED CS!vars
<1>1. /\ UNCHANGED <<mem, PUT, GET, dmaCurrent, pgraph>>
      /\ Wrapping' <=> Wrapping
  BY DEF Looking, DmaStart, WaitDone, WaitAbove, WaitBelow, SpinRead,
         ArmCallback, SyncGet, SyncIdle, engineVars, Wrapping, vars, driverVars
<1>2. Top' = Top /\ (Wrapped' <=> Wrapped)
  BY <1>1 DEF Top, Wrapped
<1> QED BY <1>1, <1>2, StreamKept DEF CS!vars

(* Publishing.                                                             *)
LEMMA PublishStutters ==
    ASSUME IInv, Kick \/ BlockHandler \/ SyncStart PROVE UNCHANGED CS!vars
<1>1. /\ UNCHANGED <<mem, GET, dmaCurrent, pgraph>>
      /\ pc = "idle" /\ pc' \in {"idle", "syncGet"}
      /\ PUT' = PUT \/ PUT' = dmaCurrent
  BY DEF Kick, BlockHandler, SyncStart, DmaKickoff, engineVars
<1>2. ~Wrapping /\ ~Wrapping'
  BY <1>1 DEF Wrapping
<1>3. Wrapped' <=> Wrapped
  <2>1. /\ GET \in Address /\ PUT \in Address /\ dmaCurrent \in Nat
        /\ left \in Nat /\ dmaFree \in Nat
    BY Geometry DEF IInv, TypeOK
  <2>2. CASE Wrapped
    BY <1>1, <2>1, <2>2, Geometry DEF Wrapped
  <2>3. CASE ~Wrapped
    BY <1>1, <2>1, <2>3, Geometry DEF Wrapped
  <2> QED BY <2>2, <2>3
<1>4. Top' = Top
  BY <1>1, <1>2 DEF Top
<1> QED BY <1>1, <1>3, <1>4, StreamKept DEF CS!vars

(* At first the stream holds what the reset wrote.                         *)
LEMMA InitStream == Init => CS!Init
<1> SUFFICES ASSUME Init PROVE CS!Init
  OBVIOUS
<1>1. /\ ~Wrapped /\ From = Skips /\ Top = InitTop
      /\ InitTop = Skips + 2 * InitBlocks
  BY DEF Init, Wrapped, Wrapping, From, Top, InitTop
<1>2. Count = 2 * InitBlocks /\ \A k : Place(k) = Skips + k - 1
  BY <1>1 DEF Count, Place
<1>3. \A k \in 1..(2 * InitBlocks) :
          mem[Skips + k - 1] = IF k % 2 = 1 THEN Header(1) ELSE InitWord
  <2>1. TAKE k \in 1..(2 * InitBlocks)
  <2>2. PICK a \in Address : a = Skips + k - 1
    OBVIOUS
  <2>3. ~(a < Skips) /\ ~(a >= InitTop)
    BY <1>1, <2>2
  <2>4. (a - Skips) % 2 = 0 <=> k % 2 = 1
    BY <2>2
  <2>5. mem[a] = IF (a - Skips) % 2 = 0 THEN Header(1) ELSE InitWord
    BY <2>3 DEF Init
  <2> QED BY <2>2, <2>4, <2>5
<1>4. OutstandingWords = InitialWords
  BY <1>2, <1>3 DEF OutstandingWords, InitialWords
<1> QED BY <1>4 DEF CS!Init, Init

(* Every step of the ring is one of the stream, or none.                   *)
LEMMA NextStream == IInv /\ [Next]_vars => [CS!Next]_CS!vars
<1> SUFFICES ASSUME IInv, [Next]_vars PROVE [CS!Next]_CS!vars
  OBVIOUS
<1>1. CASE Looking \/ UNCHANGED vars
  BY <1>1, LookingStutters
<1>2. CASE Kick \/ BlockHandler \/ SyncStart
  BY <1>2, PublishStutters
<1>3. CASE WriteHeader
  <2>1. /\ dmaCurrent \in Nat /\ dmaFree \in Nat /\ size \in 1..MaxSize /\ left = 0
        /\ size + 1 <= dmaFree /\ dmaCurrent + dmaFree <= DmaMax
        /\ GET \in Address /\ (Wrapped => dmaCurrent + dmaFree < GET)
    BY <1>3 DEF IInv, TypeOK, DriverInv, PositionInv, WriteHeader, Wrapping
  <2>2. Header(size) \in Word /\ dmaCurrent < DmaMax
        /\ (Wrapped => dmaCurrent + 1 < GET)
    BY <2>1 DEF Word
  <2>3. /\ ~Wrapping /\ ~Wrapping' /\ DmaNext(Header(size))
        /\ UNCHANGED <<PUT, GET, pgraph>>
    BY <1>3 DEF WriteHeader, Wrapping, engineVars
  <2>4. CS!Send(Header(size))
    BY <2>2, <2>3, WriteSends
  <2> QED BY <2>2, <2>4 DEF CS!Next
<1>4. CASE \E p \in Payload : WriteData(p)
  <2>1. PICK p \in Payload : WriteData(p)
    BY <1>4
  <2>2. /\ dmaCurrent \in Nat /\ dmaFree \in Nat /\ left \in 1..MaxSize
        /\ dmaCurrent + left + dmaFree <= DmaMax
        /\ GET \in Address /\ (Wrapped => dmaCurrent + left + dmaFree < GET)
    BY <2>1 DEF IInv, TypeOK, DriverInv, PositionInv, WriteData, Wrapping
  <2>3. Data(p) \in Word /\ dmaCurrent < DmaMax
        /\ (Wrapped => dmaCurrent + 1 < GET)
    BY <2>2 DEF Word
  <2>4. /\ ~Wrapping /\ ~Wrapping' /\ DmaNext(Data(p))
        /\ UNCHANGED <<PUT, GET, pgraph>>
    BY <2>1 DEF WriteData, Wrapping, engineVars
  <2>5. CS!Send(Data(p))
    BY <2>3, <2>4, WriteSends
  <2> QED BY <2>3, <2>5 DEF CS!Next
<1>5. CASE WriteJump
  BY <1>5, WriteJumpStutters
<1>6. CASE WrapPut
  BY <1>6, WrapPutStutters
<1>7. CASE FetchJump
  BY <1>7, FetchJumpStutters
<1>8. CASE FetchNop
  BY <1>8, FetchNopStutters
<1>9. CASE FetchHeader \/ FetchData
  <2>1. /\ GET # PUT /\ GET' = GET + 1 /\ UNCHANGED <<mem, PUT, driverVars>>
        /\ pgraph' \in {pgraph, TRUE}
    BY <1>9 DEF FetchHeader, FetchData
  <2>2. mem[GET] # Jump /\ mem[GET] # Nop
    <3>1. CASE FetchHeader
      BY <3>1, CellFacts DEF FetchHeader
    <3>2. CASE FetchData
      <4>1. PICK e \in Expectation, J \in Address : FrameInv(e, J)
        BY DEF IInv
      <4>2. e[GET] > 0 /\ (Wrapped => e[J] = 0)
        BY <3>2, <4>1 DEF FetchData, FrameInv
      <4>3. Good(e, GET)
        BY <2>1, <4>1, <4>2, AtGet
      <4> QED BY <4>2, <4>3, CellFacts DEF Good
    <3> QED BY <1>9, <3>1, <3>2
  <2>3. Skips <= GET
    BY <2>2, Geometry DEF IInv, DriverInv
  <2>4. CS!Consume
    BY <2>1, <2>2, <2>3, FetchConsumes
  <2> QED BY <2>4 DEF CS!Next
<1>10. CASE PgraphDone
  <2>1. /\ UNCHANGED <<mem, PUT, GET, Top>> /\ pgraph /\ pgraph' = FALSE
        /\ Wrapped' <=> Wrapped
    BY <1>10 DEF PgraphDone, driverVars, Top, Wrapping, Wrapped
  <2>2. CS!GoIdle
    BY <2>1, StreamKept DEF CS!GoIdle
  <2> QED BY <2>2 DEF CS!Next
<1> QED BY <1>1, <1>2, <1>3, <1>4, <1>5, <1>6, <1>7, <1>8, <1>9, <1>10
        DEF Next, Driver, Engine, Fetch, Finish, Wait, Write, SyncWait, Looking

(* What the driver sends through the ring reaches the engine once, in      *)
(* order, and never more than fits, for every size of the ring: DmaRing    *)
(* implements CommandStream.                                               *)
THEOREM RingIsStream == Spec => ImplementsCommandStream
<1>1. Init => CS!Init
  BY InitStream
<1>2. IInv /\ [Next]_vars => [CS!Next]_CS!vars
  BY NextStream
<1> QED BY <1>1, <1>2, Inductive, PTL DEF Spec, ImplementsCommandStream, CS!Spec
=============================================================================
