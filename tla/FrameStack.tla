----------------------------- MODULE FrameStack -----------------------------
(***************************************************************************)
(* runtime::Stack (stack.cpp), the part of runtime::Thread that owns it    *)
(* (thread.cpp) and the header of runtime::Frame (frame.h, frame.cpp).     *)
(*                                                                         *)
(* A thread's stack is one malloc'ed block of max_size_ bytes.  Frames are *)
(* placed in it back to back by placement new, linked through prev_fp_;    *)
(* the local variables and operand slots of a frame live in std::vectors   *)
(* elsewhere.  Addresses are byte offsets from base_; nullptr is Null.     *)
(*                                                                         *)
(* CheckStackOverflow is asked for HeaderSize plus one byte per slot,      *)
(* while PushFrame advances sp_ by sizeof(Frame).  When the check lets a   *)
(* frame pass whose end is beyond the block, its last fields (method_ and  *)
(* next_pc_ are the last ones) lie in memory the C heap may hand to        *)
(* somebody else: undefined behaviour, modelled by Spill.                  *)
(***************************************************************************)
EXTENDS Integers

CONSTANTS
  MaxSize,      \* max_size_, 1024 in Thread::Thread
  FrameSize,    \* sizeof(Frame), 80 on the build's 64-bit target
  HeaderSize,   \* Frame::GetHeaderSize(), 8 + 8 + 4
  Methods,      \* methods that may be invoked
  SlotNeed,     \* SlotNeed[m] = max_stack + max_locals of m
  Garbage,      \* content of a method_ field overwritten by somebody else
  Null

ASSUME SizeAssumption ==
  /\ MaxSize \in Nat
  /\ FrameSize \in Nat \ {0}
  /\ HeaderSize \in 0 .. FrameSize
  /\ SlotNeed \in [Methods -> Nat]
  /\ Garbage \notin Methods
  /\ Null \notin Nat

VARIABLES
  sp,       \* sp_ - base_
  fp,       \* fp_ - base_, or Null
  mem,      \* frames in the block: address -> [prev |-> .., method |-> ..]
  status    \* "ok", "fatal" (LOG(FATAL)) or "segv"

vars == <<sp, fp, mem, status>>

Init ==
  /\ sp = 0
  /\ fp = Null
  /\ mem = [a \in {} |-> Null]
  /\ status = "ok"

-----------------------------------------------------------------------------
(* Stack *)

(* Mutant: only the new frame is compared with the limit. *)
StackOverflowsAlone(size) == size > MaxSize

StackOverflows(size) == sp + size > MaxSize

IsEmpty == fp = Null

(* Only the frames below the new sp_ are kept: the bytes above it are not  *)
(* read again before a new frame is placed over them.                      *)
Live(m, limit) == [a \in {x \in DOMAIN m : x < limit} |-> m[a]]

(* Mutant: sp_ advanced by the size that was checked, not by sizeof(Frame). *)
CreateFrameChecked(m) ==
  /\ ~StackOverflows(SlotNeed[m] + HeaderSize)
  /\ mem' = [a \in DOMAIN mem \cup {sp} |->
               IF a = sp THEN [prev |-> fp, method |-> m] ELSE mem[a]]
  /\ sp' = sp + SlotNeed[m] + HeaderSize
  /\ fp' = sp
  /\ UNCHANGED status

(* Thread::CreateFrame: the overflow check, placement new, PushFrame *)
CreateFrame(m) ==
  LET size == SlotNeed[m] + HeaderSize IN
  \/ /\ StackOverflows(size)
     /\ status' = "fatal"
     /\ UNCHANGED <<sp, fp, mem>>
  \/ /\ ~StackOverflows(size)
     /\ mem' = [a \in DOMAIN mem \cup {sp} |->
                  IF a = sp THEN [prev |-> fp, method |-> m] ELSE mem[a]]
     /\ sp' = sp + FrameSize
     /\ fp' = sp
     /\ UNCHANGED status

(* Mutant: fp_ moved to the previous frame before sp_ is set from it. *)
PopFrameSwapped ==
  /\ ~IsEmpty
  /\ fp' = mem[fp].prev
  /\ sp' = mem[fp].prev
  /\ mem' = Live(mem, fp)
  /\ UNCHANGED status

(* Its two callers, Return<T> and the exception unwinder, pop a frame they *)
(* have just read from CurrentFrame(), so fp_ is not nullptr.              *)
PopFrame ==
  /\ ~IsEmpty
  /\ sp' = fp
  /\ fp' = mem[fp].prev
  /\ mem' = Live(mem, fp)
  /\ UNCHANGED status

Clear ==
  /\ fp' = Null
  /\ sp' = 0
  /\ mem' = Live(mem, 0)
  /\ UNCHANGED status

Spilled == {a \in DOMAIN mem : a + FrameSize > MaxSize}

(* Another owner of heap memory writes over the part of a frame that lies  *)
(* outside the block ...                                                   *)
Spill ==
  /\ \E a \in Spilled : mem' = [mem EXCEPT ![a].method = Garbage]
  /\ UNCHANGED <<sp, fp, status>>

(* ... or the process dies of the damage the frame did there. *)
SpillCrash ==
  /\ Spilled /= {}
  /\ status' = "segv"
  /\ UNCHANGED <<sp, fp, mem>>

Next ==
  \/ \E m \in Methods : status = "ok" /\ CreateFrame(m)
  \/ status = "ok" /\ PopFrame
  \/ status = "ok" /\ Clear
  \/ status = "ok" /\ Spill
  \/ status = "ok" /\ SpillCrash

Spec == Init /\ [][Next]_vars

-----------------------------------------------------------------------------
(* Type invariant: the block holds frame records at frame-aligned offsets. *)
TypeOK ==
  /\ sp \in Nat
  /\ fp \in Nat \cup {Null}
  /\ DOMAIN mem \subseteq Nat
  /\ mem \in [DOMAIN mem -> [prev : Nat \cup {Null}, method : Methods \cup {Garbage}]]
  /\ status \in {"ok", "fatal", "segv"}

(* Frames lie back to back below sp_ without overlap, fp_ is the last of   *)
(* them and each prev_fp_ leads to the frame directly below, so walking    *)
(* prev_fp_ from fp_ visits every activation and ends at the first one     *)
(* (Stack::PopFrame relies on it to recover sp_ and fp_).                  *)
Chained ==
  /\ fp = IF sp = 0 THEN Null ELSE sp - FrameSize
  /\ sp /= 0 => fp \in DOMAIN mem
  /\ \A a \in DOMAIN mem :
       /\ a + FrameSize <= sp
       /\ mem[a].prev = IF a = 0 THEN Null ELSE a - FrameSize
       /\ a /= 0 => a - FrameSize \in DOMAIN mem
       /\ \A b \in DOMAIN mem : a < b => a + FrameSize <= b

(* CheckStackOverflow keeps at least the header of every frame inside the  *)
(* block, so prev_fp_, its first field, can always be trusted, and it      *)
(* keeps all of every frame but the newest inside.                         *)
OnlyNewestSpills ==
  \A a \in DOMAIN mem :
    /\ a + HeaderSize <= MaxSize
    /\ a /= fp => a + FrameSize <= MaxSize

(* The bump-allocated block with its prev_fp_ chain implements the LIFO    *)
(* call stack of CallStack.                                                *)
Calls == INSTANCE CallStack WITH
  calls <- [i \in 1 .. (sp \div FrameSize) |-> mem[(i - 1) * FrameSize].method],
  alive <- (status = "ok")
ImplementsCallStack == Calls!Spec

(* stack.cpp:14 declares it a java.lang.StackOverflowError to go beyond    *)
(* max_size_ bytes: the frames pushed never reach beyond the block.        *)
FramesInsideBlock == sp <= MaxSize
=============================================================================
