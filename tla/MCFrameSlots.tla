---------------------------- MODULE MCFrameSlots ----------------------------
(* Small instance of FrameSlots: two-valued slots, so that a 64-bit value  *)
(* has four patterns; an empty vector, the sizes around one two-slot value *)
(* and a stack of six slots, the least in which DUP2_X2 can succeed.       *)
EXTENDS FrameSlots

MCIndexes == 0 .. 2
MCNarrow == {0, 1}
MCWide == 0 .. 3
MCStackSizes == {0, 1, 2, 3, 6}
MCLocalSizes == 0 .. 2
=============================================================================
