------------------------------ MODULE NVShadow ------------------------------
(***************************************************************************)
(* The refresh functions of the shadow framebuffer, nv_shadow.c and        *)
(* riva_shadow.c, as the set of words they copy.  Addresses count pixels   *)
(* from the start of the frame buffer and of the shadow.  A rotated        *)
(* refresh stores 32-bit words of Grain pixels, so it widens the box.      *)
(***************************************************************************)
EXTENDS Integers

CONSTANTS VirtualX, VirtualY,   \* the frame that is scanned out
          DisplayWidth          \* its pitch

ASSUME FrameAssumption == /\ VirtualX \in Nat \ {0} /\ VirtualY \in Nat \ {0}
                          /\ DisplayWidth \in Nat /\ DisplayWidth >= VirtualX

Rotations == {-1, 0, 1}

RoundDown(n, g) == g * (n \div g)
RoundUp(n, g) == g * ((n + g - 1) \div g)

Grain(bpp) == 32 \div bpp

(* The screen the clients see.                                             *)
Width(rotate) == IF rotate = 0 THEN VirtualX ELSE VirtualY
Height(rotate) == IF rotate = 0 THEN VirtualY ELSE VirtualX

Boxes(rotate) == {b \in [x1 : 0..Width(rotate) - 1, x2 : 1..Width(rotate),
                         y1 : 0..Height(rotate) - 1, y2 : 1..Height(rotate)] :
                     b.x1 < b.x2 /\ b.y1 < b.y2}

(* The words copied, each as the place written and the place read.         *)
RefreshArea(pitch, b) ==
    {<<y * DisplayWidth + x, y * pitch + x>> : x \in b.x1..b.x2 - 1, y \in b.y1..b.y2 - 1}

RefreshTurned(rotate, pitch, grain, b) ==
    LET y1 == RoundDown(b.y1, grain)
        y2 == RoundUp(b.y2, grain)
        dst == IF rotate = 1 THEN (b.x1 * DisplayWidth) + VirtualX - y2
               ELSE ((VirtualY - b.x2) * DisplayWidth) + y1
        src == IF rotate = 1 THEN ((y2 - 1) * pitch) + b.x1
               ELSE (y1 * pitch) + b.x2 - 1
    IN  {<<dst + (i * DisplayWidth) + j, src + (i * rotate) - (j * rotate * pitch)>> :
            i \in 0..b.x2 - b.x1 - 1, j \in 0..y2 - y1 - 1}

Copies(rotate, pitch, grain, b) == IF rotate = 0 THEN RefreshArea(pitch, b)
                                   ELSE RefreshTurned(rotate, pitch, grain, b)

(* Where the pointer is drawn that clients see at x, y.                    *)
PointerMoved(rotate, x, y) ==
    CASE rotate = 1  -> <<Height(rotate) - y - 1, x>>
      [] rotate = -1 -> <<y, Width(rotate) - x - 1>>
      [] rotate = 0  -> <<x, y>>

-----------------------------------------------------------------------------

(* The word that shows a pixel under the pointer that is on it.            *)
Pixel(rotate, pitch, x, y) ==
    LET at == PointerMoved(rotate, x, y)
    IN  <<at[2] * DisplayWidth + at[1], y * pitch + x>>

(* Refreshing any box shows all its pixels where the pointer says they     *)
(* are, and writes nothing that is not some pixel in its own place.        *)
Follows(rotate, pitch, grain) ==
    LET all == {Pixel(rotate, pitch, x, y) :
                  x \in 0..Width(rotate) - 1, y \in 0..Height(rotate) - 1}
    IN  \A b \in Boxes(rotate) :
            LET copies == Copies(rotate, pitch, grain, b)
            IN  /\ {Pixel(rotate, pitch, x, y) :
                        x \in b.x1..b.x2 - 1, y \in b.y1..b.y2 - 1} \subseteq copies
                /\ copies \subseteq all

=============================================================================
