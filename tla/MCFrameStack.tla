---------------------------- MODULE MCFrameStack ----------------------------
(* The sizes of the program itself: a 1024-byte block, 80-byte frames and  *)
(* a 20-byte header, with a method that needs no slot and one whose slots  *)
(* make the overflow check fail one frame earlier.                         *)
EXTENDS FrameStack
CONSTANTS m0, m45
MCMethods == {m0, m45}
MCSlotNeed == [m \in MCMethods |-> IF m = m0 THEN 0 ELSE 45]
=============================================================================
