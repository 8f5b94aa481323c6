------------------------------- MODULE NVChip -------------------------------
(***************************************************************************)
(* What the driver knows of a chip from its PCI device id, and the tables  *)
(* it keeps about the chips.  The checks of the driver mask the id with    *)
(* 0x0ff0 or with 0xfff0; the ids it knows are below 0x1000, where the two *)
(* agree.                                                                  *)
(***************************************************************************)
EXTENDS Integers

Implementation(id) == 16 * (id \div 16)

(* pNv->Architecture, as a number.                                         *)
Architecture(id) ==
    LET family == Implementation(id)
    IN  IF family \in {\h0100, \h0110, \h0150, \h0170, \h0180, \h01A0, \h01F0}
            THEN 10
        ELSE IF family \in {\h0200, \h0250, \h0280} THEN 20
        ELSE IF family \in {\h0300, \h0310, \h0320, \h0330, \h0340} THEN 30
        ELSE IF family \in {\h0040, \h00C0, \h0120, \h0140, \h0160, \h01D0, \h0090,
                            \h0210, \h0220, \h0290, \h0390, \h0240, \h0530, \h03D0}
            THEN 40
        ELSE 4

TwoHeads(id) == /\ Architecture(id) >= 10
                /\ Implementation(id) \notin {\h0100, \h0150, \h01A0, \h0200}

TwoStagePLL(id) == Implementation(id) \in {\h0310, \h0340} \/ Architecture(id) >= 40

IsNV11(id) == Implementation(id) = \h0110

WaitVSyncPossible(id) == Architecture(id) >= 10 /\ Implementation(id) # \h0100

(* Crystals the strapping of a board may name, in kHz.                     *)
Crystals(id) == {13500, 14318} \cup
                (IF TwoHeads(id) /\ ~IsNV11(id) THEN {27000} ELSE {})

MinVClockFreqKHz == 12000
MaxVClockFreqKHz(id) == IF TwoStagePLL(id) THEN 400000 ELSE 350000

(* The known laptop chips.                                                 *)
Mobile(id) ==
    id \in {\h0112, \h0174, \h0175, \h0176, \h0177, \h0179, \h017C, \h017D, \h0186,
            \h0187, \h018D, \h0228, \h0286, \h028C, \h0316, \h0317, \h031A, \h031B,
            \h031C, \h031D, \h031E, \h031F, \h0324, \h0325, \h0328, \h0329, \h032C,
            \h032D, \h0347, \h0348, \h0349, \h034B, \h034C, \h0160, \h0166, \h0169,
            \h016B, \h016C, \h016D, \h00C8, \h00CC, \h0144, \h0146, \h0148, \h0098,
            \h0099}

-----------------------------------------------------------------------------
(* The engine's tables, as NVLoadStateExt writes them.                     *)

Handles == 0..7         \* 0x80000010 + i in the code

(* The word of PRAMIN at which the entry of a handle in the hash table     *)
(* says that its object is: the entry holds the object's address in units  *)
(* of 16 bytes, and PRAMIN starts at 0x10000.                              *)
HashedWord(id, i) ==
    LET instance == IF Architecture(id) >= 40 THEN \h1202 + 2 * i ELSE \h1201 + i
    IN  (instance * 16 - \h10000) \div 4

(* The objects in PRAMIN: the class at each word where one starts.         *)
ObjectAt40(w) ==
    CASE w = \h808 -> \h62
      [] w = \h810 -> \h43
      [] w = \h818 -> \h44
      [] w = \h820 -> \h19
      [] w = \h828 -> \h5C
      [] w = \h830 -> \h9F
      [] w = \h838 -> \h4A
      [] w = \h840 -> \h77
      [] OTHER -> 0

ObjectAt4(id, w) ==
    CASE w = \h804 -> IF Architecture(id) >= 10 THEN \h62 ELSE \h42
      [] w = \h808 -> \h43
      [] w = \h80C -> \h44
      [] w = \h810 -> \h19
      [] w = \h814 -> \h5C
      [] w = \h818 -> IF WaitVSyncPossible(id) THEN \h9F ELSE \h5F
      [] w = \h81C -> \h4A
      [] w = \h820 -> \h77
      [] OTHER -> 0

ObjectOf(id, i) == IF Architecture(id) >= 40 THEN ObjectAt40(HashedWord(id, i))
                                             ELSE ObjectAt4(id, HashedWord(id, i))

(* The classes whose methods the driver sends on subchannel i: SURFACE,    *)
(* ROP, PATTERN, CLIP, LINE, BLIT, RECT and STRETCH_BLIT of nv_dma.h.      *)
ClassesOf(i) == CASE i = 0 -> {\h42, \h62}
                  [] i = 1 -> {\h43}
                  [] i = 2 -> {\h44}
                  [] i = 3 -> {\h19}
                  [] i = 4 -> {\h5C}
                  [] i = 5 -> {\h5F, \h9F}
                  [] i = 6 -> {\h4A}
                  [] i = 7 -> {\h77}

(* The tiling regions of the memory controller that are set to cover the   *)
(* whole memory, and of how many of them the graphics engine is given a    *)
(* copy (four words each).                                                 *)
TileRegions(id) ==
    IF Architecture(id) = 4 THEN 0
    ELSE IF Architecture(id) < 40 \/ Implementation(id) = \h0040 THEN 8
    ELSE IF Implementation(id) \in {\h0090, \h01D0, \h0290, \h0390, \h03D0} THEN 15
    ELSE 12

TileCopies(id) ==
    IF Architecture(id) = 4 THEN 0
    ELSE IF Architecture(id) < 40 \/ Implementation(id) = \h0040 THEN 32 \div 4
    ELSE IF Implementation(id) \in {\h0090, \h01D0, \h0290, \h0390, \h03D0} THEN 60 \div 4
    ELSE 48 \div 4

=============================================================================
