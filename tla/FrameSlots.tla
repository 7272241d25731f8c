----------------------------- MODULE FrameSlots -----------------------------
(***************************************************************************)
(* The working memory of one runtime::Frame: class Slots (slots.h), the    *)
(* operand stack built on it (operand_stack.cpp), the local variables      *)
(* (local_vars.h) and the instructions that only move data between the two *)
(* (stack_insts.h, load_insts.h, store_insts.h, const_insts.h), plus the   *)
(* two accesses made from outside a method body: the receiver peek of the  *)
(* invoke instructions and the handler entry of ATHROW.                    *)
(*                                                                         *)
(* A slot holds the bit pattern of an int32.  int and float fill one slot  *)
(* (a float by memcpy, so with the same pattern); long, double and         *)
(* reference fill two.  LOG(FATAL) ends the process: status "fatal".       *)
(* An access outside the vector behind Slots ends it too: status "segv".   *)
(***************************************************************************)
EXTENDS Integers, Sequences

CONSTANTS
  Base,           \* number of slot values, 2^32 in the program
  SizeTModulus,   \* size_t wraps here, 2^64 in the program
  StackSizes,     \* values of max_stack considered
  LocalSizes,     \* values of max_locals considered
  NarrowValues,   \* int/float patterns pushed
  WideValues,     \* long/double/reference patterns pushed
  Indexes,        \* operands of the load, store and peek operations
  NoValue

ASSUME BaseAssumption == Base \in Nat \ {0}
ASSUME SizesAssumption == StackSizes \subseteq Nat /\ LocalSizes \subseteq Nat
ASSUME ModulusAssumption ==
  /\ SizeTModulus \in Nat \ {0}
  /\ \A n \in StackSizes \cup LocalSizes \cup Indexes : n + 2 < SizeTModulus
ASSUME ValuesAssumption ==
  /\ NarrowValues \subseteq 0 .. (Base - 1)
  /\ WideValues \subseteq 0 .. (Base * Base - 1)
  /\ Indexes \subseteq Nat
  /\ NoValue \notin Nat

VARIABLES
  max_stack,    \* size of the operand stack's slot vector
  max_locals,   \* size of the local variables' slot vector
  slots,        \* operand stack slots: index -> word
  top,          \* OperandStack::top_
  locals,       \* local variable slots: index -> word
  result,       \* value returned by the latest pop or GetRefFromTop
  status        \* "ok", "fatal" (LOG(FATAL)) or "segv"

vars == <<max_stack, max_locals, slots, top, locals, result, status>>
sizes == <<max_stack, max_locals>>

Word == 0 .. (Base - 1)

Init ==
  /\ max_stack \in StackSizes
  /\ max_locals \in LocalSizes
  /\ slots = [i \in 0 .. (max_stack - 1) |-> 0]
  /\ top = 0
  /\ locals = [i \in 0 .. (max_locals - 1) |-> 0]
  /\ result = NoValue
  /\ status = "ok"

-----------------------------------------------------------------------------
(* Slots *)

(* slots_.size() - 1 in size_t arithmetic: wraps for an empty vector. *)
SizeMinusOne(n) == (n - 1) % SizeTModulus

(* The index tests of class Slots: TRUE when the access is refused. *)
OutOfIndex(n, index) == index >= n                  \* SetInt, GetInt, SetSlot
(* Mutant: the bound of a one-slot access used for a two-slot one. *)
LongOutOfIndexOneSlot(n, index) == index >= n

LongOutOfIndex(n, index) == index >= SizeMinusOne(n) \* SetLong, GetLong
SlotOutOfIndex(n, index) == index >= SizeMinusOne(n) \* GetSlot

SetLongLow(v) == v % Base
(* Mutant: the value narrowed to 32 bits before it is shifted. *)
SetLongHighNarrowed(v) == (v % Base) \div Base

SetLongHigh(v) == v \div Base
GetLong(lo, hi) == hi * Base + lo

Die(how) == status' = how /\ UNCHANGED <<sizes, slots, top, locals, result>>

(* A two-slot access that passed LongOutOfIndex is inside the vector       *)
(* unless the vector is empty.                                             *)
Wild(n, index) == ~LongOutOfIndex(n, index) /\ index + 1 >= n

-----------------------------------------------------------------------------
(* OperandStack *)

IsFull == top >= max_stack
(* Mutant: the "- 1" forgotten. *)
IsLongFullOneSlot == top >= max_stack

IsLongFull == top >= SizeMinusOne(max_stack)
IsEmpty == top <= 0
IsLongEmpty == top <= 1

PushNarrow(v) ==
  \/ /\ IsFull \/ OutOfIndex(max_stack, top)
     /\ Die("fatal")
  \/ /\ ~IsFull /\ ~OutOfIndex(max_stack, top)
     /\ slots' = [slots EXCEPT ![top] = v]
     /\ top' = top + 1
     /\ UNCHANGED <<sizes, locals, result, status>>

PopNarrow ==
  \/ /\ IsEmpty \/ OutOfIndex(max_stack, top - 1)
     /\ Die("fatal")
  \/ /\ ~IsEmpty /\ ~OutOfIndex(max_stack, top - 1)
     /\ top' = top - 1
     /\ result' = slots[top - 1]
     /\ UNCHANGED <<sizes, slots, locals, status>>

PushWide(v) ==
  \/ IsLongFull /\ Die("fatal")
  \/ ~IsLongFull /\ Wild(max_stack, top) /\ Die("segv")
  \/ /\ ~IsLongFull /\ ~Wild(max_stack, top)
     /\ slots' = [slots EXCEPT ![top] = SetLongLow(v), ![top + 1] = SetLongHigh(v)]
     /\ top' = top + 2
     /\ UNCHANGED <<sizes, locals, result, status>>

PopWide ==
  \/ /\ IsLongEmpty \/ LongOutOfIndex(max_stack, top - 2)
     /\ Die("fatal")
  \/ /\ ~IsLongEmpty /\ ~LongOutOfIndex(max_stack, top - 2)
     /\ top' = top - 2
     /\ result' = GetLong(slots[top - 2], slots[top - 1])
     /\ UNCHANGED <<sizes, slots, locals, status>>

GetRefFromTop(index) ==
  \/ /\ top <= index + 2 \/ LongOutOfIndex(max_stack, top - index - 2)
     /\ Die("fatal")
  \/ /\ ~(top <= index + 2) /\ ~LongOutOfIndex(max_stack, top - index - 2)
     /\ result' = GetLong(slots[top - index - 2], slots[top - index - 1])
     /\ UNCHANGED <<sizes, slots, top, locals, status>>

(* stack_insts.h: n PopSlot calls, the k-th giving slot k, then a PushSlot *)
(* of slot order[1], order[2], ...                                         *)
StackInst(n, order) ==
  \/ /\ \/ top < n
        \/ \E k \in 1 .. n : SlotOutOfIndex(max_stack, top - k)
        \/ top - n + Len(order) > max_stack
     /\ Die("fatal")
  \/ /\ top >= n
     /\ \A k \in 1 .. n : ~SlotOutOfIndex(max_stack, top - k)
     /\ top - n + Len(order) <= max_stack
     /\ slots' = [i \in DOMAIN slots |->
                    IF i \in (top - n) .. (top - n + Len(order) - 1)
                    THEN slots[top - order[i - (top - n) + 1]]
                    ELSE slots[i]]
     /\ top' = top - n + Len(order)
     /\ UNCHANGED <<sizes, locals, result, status>>

POP == StackInst(1, << >>)
POP2 == StackInst(2, << >>)
DUP == StackInst(1, <<1, 1>>)
DUP_X1 == StackInst(2, <<1, 2, 1>>)
(* Mutant: the two lower slots pushed back in the order they were popped. *)
DUP_X2Swapped == StackInst(3, <<1, 2, 3, 1>>)

DUP_X2 == StackInst(3, <<1, 3, 2, 1>>)
DUP2 == StackInst(2, <<2, 1, 2, 1>>)
DUP2_X1 == StackInst(3, <<2, 1, 3, 2, 1>>)
DUP2_X2 == StackInst(4, <<2, 1, 4, 3, 2, 1>>)
SWAP == StackInst(2, <<1, 2>>)

-----------------------------------------------------------------------------
(* Load<T> and Store<T>, int/float and long/double/reference instances *)

LoadNarrow(i) ==
  \/ OutOfIndex(max_locals, i) /\ Die("fatal")
  \/ ~OutOfIndex(max_locals, i) /\ PushNarrow(locals[i])

LoadWide(i) ==
  \/ LongOutOfIndex(max_locals, i) /\ Die("fatal")
  \/ Wild(max_locals, i) /\ Die("segv")
  \/ /\ ~LongOutOfIndex(max_locals, i) /\ ~Wild(max_locals, i)
     /\ PushWide(GetLong(locals[i], locals[i + 1]))

StoreNarrow(i) ==
  \/ /\ IsEmpty \/ OutOfIndex(max_locals, i)
     /\ Die("fatal")
  \/ /\ ~IsEmpty /\ ~OutOfIndex(max_locals, i)
     /\ top' = top - 1
     /\ locals' = [locals EXCEPT ![i] = slots[top - 1]]
     /\ UNCHANGED <<sizes, slots, result, status>>

StoreWide(i) ==
  \/ /\ IsLongEmpty \/ LongOutOfIndex(max_locals, i)
     /\ Die("fatal")
  \/ ~IsLongEmpty /\ Wild(max_locals, i) /\ Die("segv")
  \/ /\ ~IsLongEmpty /\ ~LongOutOfIndex(max_locals, i) /\ ~Wild(max_locals, i)
     /\ LET v == GetLong(slots[top - 2], slots[top - 1]) IN
        locals' = [locals EXCEPT ![i] = SetLongLow(v), ![i + 1] = SetLongHigh(v)]
     /\ top' = top - 2
     /\ UNCHANGED <<sizes, slots, result, status>>

(* FindAndGotoExceptionHandler: stack.Clear(); stack.PushRef(ex) *)
EnterHandler(ex) ==
  \/ 0 >= SizeMinusOne(max_stack) /\ Die("fatal")
  \/ Wild(max_stack, 0) /\ Die("segv")
  \/ /\ ~(0 >= SizeMinusOne(max_stack)) /\ ~Wild(max_stack, 0)
     /\ slots' = [slots EXCEPT ![0] = SetLongLow(ex), ![1] = SetLongHigh(ex)]
     /\ top' = 2
     /\ UNCHANGED <<sizes, locals, result, status>>

-----------------------------------------------------------------------------
(* One instruction of the running method.  A dead process takes no step. *)
Alive == status = "ok"

StackStep ==
  /\ Alive
  /\ \/ \E v \in NarrowValues : PushNarrow(v)
     \/ \E v \in WideValues : PushWide(v)
     \/ PopNarrow
     \/ PopWide
     \/ \E k \in Indexes : GetRefFromTop(k)

ShuffleStep ==
  /\ Alive
  /\ \/ POP \/ POP2 \/ DUP \/ DUP_X1 \/ DUP_X2
     \/ DUP2 \/ DUP2_X1 \/ DUP2_X2 \/ SWAP

LocalStep ==
  /\ Alive
  /\ \E i \in Indexes :
       LoadNarrow(i) \/ LoadWide(i) \/ StoreNarrow(i) \/ StoreWide(i)

HandlerStep ==
  /\ Alive
  /\ \E ex \in WideValues : EnterHandler(ex)

Next == StackStep \/ ShuffleStep \/ LocalStep \/ HandlerStep

Spec == Init /\ [][Next]_vars

-----------------------------------------------------------------------------
(* Type invariant: both vectors keep their size, every slot holds a word   *)
(* and top_ never passes the end of the operand stack's vector, whichever  *)
(* of the pushes, pops and shuffles ran.                                   *)
TypeOK ==
  /\ max_stack \in StackSizes /\ max_locals \in LocalSizes
  /\ slots \in [0 .. (max_stack - 1) -> Word]
  /\ locals \in [0 .. (max_locals - 1) -> Word]
  /\ top \in 0 .. max_stack
  /\ result \in Nat \cup {NoValue}
  /\ status \in {"ok", "fatal", "segv"}

(* The unsigned tests "index >= size() - 1" of slots.h and                 *)
(* operand_stack.h wrap to a huge bound for an empty vector, and only      *)
(* then: an access outside a vector happens only in a frame whose          *)
(* max_stack or max_locals is zero.                                        *)
WildOnlyWhenEmpty == status = "segv" => max_stack = 0 \/ max_locals = 0

(* A 64-bit value split over two slots is the value the next pop of the   *)
(* same two slots delivers, whatever its halves are (SetLong/GetLong, also *)
(* behind PushDouble and PushRef).                                         *)
WideRoundTrip ==
  [][\A v \in WideValues :
       PushWide(v) /\ status' = "ok"
         => GetLong(slots'[top' - 2], slots'[top' - 1]) = v]_vars

(* The slot array with its top_ index implements the plain word sequence   *)
(* of WordFrame: every instruction has the effect its definition gives on  *)
(* sequences of words, or the process stops.                               *)
Words == INSTANCE WordFrame WITH
  words <- [i \in 1 .. top |-> slots[i - 1]],
  vars <- locals,
  alive <- (status = "ok")
ImplementsWordFrame == Words!Spec
=============================================================================
