--------------------------- MODULE CommandStream ---------------------------
(***************************************************************************)
(* What the DMA command buffer promises the rest of the driver: a bounded  *)
(* first-in first-out stream of 32-bit words.  The driver appends words,   *)
(* the graphics engine consumes them one by one, in order, each exactly    *)
(* once, and works on what it consumed until it goes idle.  Nothing here   *)
(* mentions a ring, a jump, a PUT or a GET register: that is DmaRing, and  *)
(* DmaRing implements this module.                                         *)
(***************************************************************************)
EXTENDS Naturals, Sequences

CONSTANTS Word,      \* the words that can be sent
          Capacity,  \* how many words may be outstanding
          Preload    \* the words already in the stream at the start

VARIABLES stream,    \* the words sent and not yet consumed, oldest first
          pgraph     \* TRUE while the engine works on what it consumed

vars == <<stream, pgraph>>

Init == /\ stream = Preload
        /\ pgraph = FALSE

(* The driver sends a word. *)
Send(w) == /\ Len(stream) < Capacity
           /\ stream' = Append(stream, w)
           /\ UNCHANGED pgraph

(* The engine takes the oldest word; it may start working because of it. *)
Consume == /\ stream # << >>
           /\ stream' = Tail(stream)
           /\ pgraph' \in {pgraph, TRUE}

(* The engine finishes what it was doing. *)
GoIdle == /\ pgraph
          /\ pgraph' = FALSE
          /\ UNCHANGED stream

Next == \/ \E w \in Word : Send(w)
        \/ Consume
        \/ GoIdle

Spec == Init /\ [][Next]_vars
=============================================================================
