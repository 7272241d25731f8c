-------------------------- MODULE FrameSlotsProofs --------------------------
(***************************************************************************)
(* For every word size, vector size and set of values: the operand stack   *)
(* index stays inside its vector, the only accesses outside a vector are   *)
(* the ones the wrapped-around bound of an empty vector lets through, a    *)
(* value of two slots is read back as it was written, and the slots with   *)
(* their index implement the sequence of words of WordFrame.               *)
(***************************************************************************)
EXTENDS FrameSlots, SequenceTheorems, TLAPS

(* slots_.size() - 1 is what it looks like except for an empty vector. *)
LEMMA SizeMinusOneValue ==
  ASSUME NEW n \in Nat, n < SizeTModulus
  PROVE  SizeMinusOne(n) = IF n = 0 THEN SizeTModulus - 1 ELSE n - 1
  BY ModulusAssumption DEF SizeMinusOne

(* The two halves SetLong stores are words. *)
LEMMA LowHighWords ==
  ASSUME NEW v \in 0 .. (Base * Base - 1)
  PROVE  SetLongLow(v) \in Word /\ SetLongHigh(v) \in Word
  BY BaseAssumption DEF SetLongLow, SetLongHigh, Word

(* Two words make a 64-bit value. *)
LEMMA GetLongRange ==
  ASSUME NEW lo \in Word, NEW hi \in Word
  PROVE  GetLong(lo, hi) \in 0 .. (Base * Base - 1)
  BY BaseAssumption DEF GetLong, Word

(* A two-slot access that passes the index test lies inside the vector,    *)
(* unless the vector is empty.                                             *)
LEMMA WildMeansEmpty ==
  ASSUME NEW n \in Nat, n < SizeTModulus, NEW index \in Nat,
         ~LongOutOfIndex(n, index)
  PROVE  Wild(n, index) => n = 0
  BY SizeMinusOneValue DEF LongOutOfIndex, Wild

IInv == TypeOK /\ WildOnlyWhenEmpty

(* What the type invariant says about the sizes, in the form the steps use. *)
LEMMA SizeFacts ==
  ASSUME TypeOK
  PROVE  /\ max_stack \in Nat /\ max_stack < SizeTModulus
         /\ max_locals \in Nat /\ max_locals < SizeTModulus
         /\ top \in Nat /\ top <= max_stack
  BY SizesAssumption, ModulusAssumption DEF TypeOK

(* A new frame: both vectors zeroed, top_ at 0. *)
LEMMA InitIInv == Init => IInv
<1> SUFFICES ASSUME Init PROVE IInv
  OBVIOUS
<1>1. 0 \in Word
  BY BaseAssumption DEF Word
<1> QED
  BY <1>1, SizesAssumption DEF Init, IInv, TypeOK, WildOnlyWhenEmpty

(* LOG(FATAL) leaves the memory as it is. *)
LEMMA FatalIInv == ASSUME IInv, Die("fatal") PROVE IInv'
  BY DEF IInv, TypeOK, WildOnlyWhenEmpty, Die, sizes

(* So does an access outside a vector. *)
LEMMA SegvIInv ==
  ASSUME IInv, Die("segv"), max_stack = 0 \/ max_locals = 0
  PROVE  IInv'
  BY DEF IInv, TypeOK, WildOnlyWhenEmpty, Die, sizes

(* PushInt, PushFloat and PushSlot write below the end or die. *)
LEMMA PushNarrowIInv ==
  ASSUME IInv, Alive, NEW v \in Word, PushNarrow(v)
  PROVE  IInv'
<1>1. CASE Die("fatal")
  BY <1>1, FatalIInv
<1>2. CASE ~IsFull /\ ~Die("fatal")
  BY <1>2, SizeFacts
  DEF PushNarrow, IInv, TypeOK, WildOnlyWhenEmpty, Alive, IsFull, sizes
<1> QED
  BY <1>1, <1>2 DEF PushNarrow

(* PushLong, PushDouble and PushRef: both halves are words, and the two    *)
(* slots are inside the vector unless it is empty.                         *)
LEMMA PushWideIInv ==
  ASSUME IInv, Alive, NEW v \in 0 .. (Base * Base - 1), PushWide(v)
  PROVE  IInv'
<1>1. CASE Die("fatal")
  BY <1>1, FatalIInv
<1>2. CASE ~IsLongFull /\ Wild(max_stack, top) /\ Die("segv")
  <2>1. max_stack = 0
    BY <1>2, SizeFacts, WildMeansEmpty DEF IInv, Wild
  <2> QED
    BY <1>2, <2>1, SegvIInv
<1>3. CASE /\ ~IsLongFull /\ ~Wild(max_stack, top)
           /\ slots' = [slots EXCEPT ![top] = SetLongLow(v), ![top + 1] = SetLongHigh(v)]
           /\ top' = top + 2
           /\ UNCHANGED <<sizes, locals, result, status>>
  <2>1. top + 1 < max_stack
    BY <1>3, SizeFacts DEF IInv, Wild, IsLongFull, LongOutOfIndex
  <2> QED
    BY <1>3, <2>1, LowHighWords, SizeFacts
    DEF IInv, TypeOK, WildOnlyWhenEmpty, Alive, sizes
<1> QED
  BY <1>1, <1>2, <1>3 DEF PushWide

(* The pops and the receiver peek only read slots in use. *)
LEMMA PopIInv ==
  ASSUME IInv, Alive, PopNarrow \/ PopWide \/ \E k \in Indexes : GetRefFromTop(k)
  PROVE  IInv'
<1>1. CASE Die("fatal")
  BY <1>1, FatalIInv
<1>2. CASE PopNarrow /\ ~Die("fatal")
  <2>1. slots[top - 1] \in Nat
    BY <1>2, SizeFacts, BaseAssumption DEF PopNarrow, IsEmpty, IInv, TypeOK, Word
  <2> QED
    BY <1>2, <2>1, SizeFacts
    DEF PopNarrow, IsEmpty, IInv, TypeOK, WildOnlyWhenEmpty, Alive, sizes
<1>3. CASE PopWide /\ ~Die("fatal")
  <2>1. slots[top - 2] \in Word /\ slots[top - 1] \in Word
    BY <1>3, SizeFacts DEF PopWide, IsLongEmpty, IInv, TypeOK
  <2>2. GetLong(slots[top - 2], slots[top - 1]) \in Nat
    BY <2>1, GetLongRange, BaseAssumption
  <2> QED
    BY <1>3, <2>2, SizeFacts
    DEF PopWide, IsLongEmpty, IInv, TypeOK, WildOnlyWhenEmpty, Alive, sizes
<1>4. ASSUME NEW k \in Indexes, GetRefFromTop(k), ~Die("fatal")
      PROVE  IInv'
  <2>1. slots[top - k - 2] \in Word /\ slots[top - k - 1] \in Word
    BY <1>4, SizeFacts, ValuesAssumption DEF GetRefFromTop, IInv, TypeOK
  <2>2. GetLong(slots[top - k - 2], slots[top - k - 1]) \in Nat
    BY <2>1, GetLongRange, BaseAssumption
  <2> QED
    BY <1>4, <2>2, SizeFacts
    DEF GetRefFromTop, IInv, TypeOK, WildOnlyWhenEmpty, Alive, sizes
<1> QED
  BY <1>1, <1>2, <1>3, <1>4

(* All stack_insts.h instructions at once: order names popped slots. *)
LEMMA StackInstIInv ==
  ASSUME IInv, Alive, NEW n \in Nat, NEW order \in Seq(1 .. n),
         StackInst(n, order)
  PROVE  IInv'
<1>1. CASE Die("fatal")
  BY <1>1, FatalIInv
<1>2. CASE ~Die("fatal")
  <2> DEFINE low == top - n
             moved == low .. (low + Len(order) - 1)
             new == [i \in DOMAIN slots |->
                       IF i \in moved THEN slots[top - order[i - low + 1]]
                       ELSE slots[i]]
  <2>1. /\ top >= n /\ low + Len(order) <= max_stack
        /\ slots' = new
        /\ top' = low + Len(order)
        /\ UNCHANGED <<sizes, locals, result, status>>
    BY <1>2 DEF StackInst
  <2>2. ASSUME NEW i \in 0 .. (max_stack - 1)
        PROVE  new[i] \in Word
    <3>1. CASE i \in moved
      <4>0. i - low + 1 \in 1 .. Len(order)
        BY <3>1, <2>1, SizeFacts DEF IInv
      <4>1. order[i - low + 1] \in 1 .. n
        BY <4>0, ElementOfSeq
      <4>2. \A k \in 1 .. n : top - k \in 0 .. (max_stack - 1)
        BY <2>1, SizeFacts DEF IInv
      <4> QED
        BY <3>1, <4>1, <4>2 DEF IInv, TypeOK
    <3>2. CASE i \notin moved
      BY <3>2 DEF IInv, TypeOK
    <3> QED
      BY <3>1, <3>2
  <2>3. new \in [0 .. (max_stack - 1) -> Word]
    BY <2>2 DEF IInv, TypeOK
  <2>4. top' \in 0 .. max_stack
    BY <2>1, SizeFacts DEF IInv
  <2> HIDE DEF new
  <2> QED
    BY <2>1, <2>3, <2>4 DEF IInv, TypeOK, WildOnlyWhenEmpty, sizes
<1> QED
  BY <1>1, <1>2

(* Each instruction's order names only slots it has popped. *)
LEMMA ShuffleIInv == ASSUME IInv, ShuffleStep PROVE IInv'
<1>0. Alive
  BY DEF ShuffleStep
<1>1. CASE POP
  <2>1. << >> \in Seq(1 .. 1)
    OBVIOUS
  <2> QED
    BY <1>0, <1>1, <2>1, StackInstIInv DEF POP
<1>2. CASE POP2
  <2>1. << >> \in Seq(1 .. 2)
    OBVIOUS
  <2> QED
    BY <1>0, <1>2, <2>1, StackInstIInv DEF POP2
<1>3. CASE DUP
  <2>1. <<1, 1>> \in Seq(1 .. 1)
    OBVIOUS
  <2> QED
    BY <1>0, <1>3, <2>1, StackInstIInv DEF DUP
<1>4. CASE DUP_X1
  <2>1. <<1, 2, 1>> \in Seq(1 .. 2)
    OBVIOUS
  <2> QED
    BY <1>0, <1>4, <2>1, StackInstIInv DEF DUP_X1
<1>5. CASE DUP_X2
  <2>1. <<1, 3, 2, 1>> \in Seq(1 .. 3)
    OBVIOUS
  <2> QED
    BY <1>0, <1>5, <2>1, StackInstIInv DEF DUP_X2
<1>6. CASE DUP2
  <2>1. <<2, 1, 2, 1>> \in Seq(1 .. 2)
    OBVIOUS
  <2> QED
    BY <1>0, <1>6, <2>1, StackInstIInv DEF DUP2
<1>7. CASE DUP2_X1
  <2>1. <<2, 1, 3, 2, 1>> \in Seq(1 .. 3)
    OBVIOUS
  <2> QED
    BY <1>0, <1>7, <2>1, StackInstIInv DEF DUP2_X1
<1>8. CASE DUP2_X2
  <2>1. <<2, 1, 4, 3, 2, 1>> \in Seq(1 .. 4)
    OBVIOUS
  <2> QED
    BY <1>0, <1>8, <2>1, StackInstIInv DEF DUP2_X2
<1>9. CASE SWAP
  <2>1. <<1, 2>> \in Seq(1 .. 2)
    OBVIOUS
  <2> QED
    BY <1>0, <1>9, <2>1, StackInstIInv DEF SWAP
<1> QED
  BY <1>1, <1>2, <1>3, <1>4, <1>5, <1>6, <1>7, <1>8, <1>9 DEF ShuffleStep

(* Load<T> and Store<T> *)
LEMMA LocalIInv == ASSUME IInv, LocalStep PROVE IInv'
<1>0. Alive
  BY DEF LocalStep
<1>1. PICK i \in Indexes :
        LoadNarrow(i) \/ LoadWide(i) \/ StoreNarrow(i) \/ StoreWide(i)
  BY DEF LocalStep
<1>2. i \in Nat
  BY ValuesAssumption
<1>3. CASE Die("fatal")
  BY <1>3, FatalIInv
<1>4. CASE Die("segv") /\ Wild(max_locals, i)
  <2>1. max_locals = 0
    BY <1>2, <1>4, SizeFacts, WildMeansEmpty DEF IInv, Wild
  <2> QED
    BY <1>4, <2>1, SegvIInv
<1>5. CASE ~OutOfIndex(max_locals, i) /\ PushNarrow(locals[i])
  <2>1. locals[i] \in Word
    BY <1>2, <1>5, SizeFacts DEF OutOfIndex, IInv, TypeOK
  <2> QED
    BY <1>0, <1>5, <2>1, PushNarrowIInv
<1>6. ASSUME ~LongOutOfIndex(max_locals, i), ~Wild(max_locals, i)
      PROVE  i + 1 < max_locals
  BY <1>2, <1>6, SizeFacts DEF Wild, IInv
<1>7. CASE /\ ~LongOutOfIndex(max_locals, i) /\ ~Wild(max_locals, i)
           /\ PushWide(GetLong(locals[i], locals[i + 1]))
  <2>1. locals[i] \in Word /\ locals[i + 1] \in Word
    BY <1>2, <1>6, <1>7, SizeFacts DEF IInv, TypeOK
  <2> QED
    BY <1>0, <1>7, <2>1, GetLongRange, PushWideIInv
<1>8. CASE StoreNarrow(i) /\ ~Die("fatal")
  <2>1. slots[top - 1] \in Word
    BY <1>8, SizeFacts DEF StoreNarrow, IsEmpty, IInv, TypeOK
  <2> QED
    BY <1>2, <1>8, <2>1, SizeFacts
    DEF StoreNarrow, IsEmpty, OutOfIndex, IInv, TypeOK, WildOnlyWhenEmpty, sizes
<1>9. CASE /\ StoreWide(i) /\ ~Die("fatal")
           /\ ~(Die("segv") /\ Wild(max_locals, i))
  <2> DEFINE v == GetLong(slots[top - 2], slots[top - 1])
  <2>1. /\ ~IsLongEmpty /\ ~LongOutOfIndex(max_locals, i) /\ ~Wild(max_locals, i)
        /\ locals' = [locals EXCEPT ![i] = SetLongLow(v), ![i + 1] = SetLongHigh(v)]
        /\ top' = top - 2
        /\ UNCHANGED <<sizes, slots, result, status>>
    BY <1>9 DEF StoreWide
  <2>2. slots[top - 2] \in Word /\ slots[top - 1] \in Word
    BY <2>1, SizeFacts, SMTT(30) DEF IsLongEmpty, IInv, TypeOK
  <2>3. SetLongLow(v) \in Word /\ SetLongHigh(v) \in Word
    BY <2>2, GetLongRange, LowHighWords
  <2> HIDE DEF v
  <2> QED
    BY <1>2, <1>6, <2>1, <2>3, SizeFacts
    DEF IsLongEmpty, IInv, TypeOK, WildOnlyWhenEmpty, sizes
<1> QED
  BY <1>1, <1>3, <1>4, <1>5, <1>7, <1>8, <1>9 DEF LoadNarrow, LoadWide, StoreNarrow, StoreWide

(* Handler entry: Clear, then PushRef *)
LEMMA HandlerIInv == ASSUME IInv, HandlerStep PROVE IInv'
<1>1. PICK ex \in WideValues : EnterHandler(ex)
  BY DEF HandlerStep
<1>2. CASE Die("fatal")
  BY <1>2, FatalIInv
<1>3. CASE Die("segv") /\ Wild(max_stack, 0)
  <2>1. max_stack = 0
    BY <1>3, SizeFacts, WildMeansEmpty DEF IInv, Wild
  <2> QED
    BY <1>3, <2>1, SegvIInv
<1>4. CASE ~Die("fatal") /\ ~(Die("segv") /\ Wild(max_stack, 0))
  <2>1. /\ ~(0 >= SizeMinusOne(max_stack)) /\ ~Wild(max_stack, 0)
        /\ slots' = [slots EXCEPT ![0] = SetLongLow(ex), ![1] = SetLongHigh(ex)]
        /\ top' = 2
        /\ UNCHANGED <<sizes, locals, result, status>>
    BY <1>1, <1>4 DEF EnterHandler
  <2>2. 1 < max_stack
    BY <2>1, SizeFacts DEF Wild, LongOutOfIndex, IInv
  <2>3. SetLongLow(ex) \in Word /\ SetLongHigh(ex) \in Word
    BY ValuesAssumption, LowHighWords
  <2> QED
    BY <2>1, <2>2, <2>3, SizeFacts DEF IInv, TypeOK, WildOnlyWhenEmpty, sizes
<1> QED
  BY <1>2, <1>3, <1>4

(* The pushes, pops and the peek together *)
LEMMA StackStepIInv == ASSUME IInv, StackStep PROVE IInv'
<1>1. Alive
  BY DEF StackStep
<1>2. ASSUME NEW v \in NarrowValues, PushNarrow(v) PROVE IInv'
  BY <1>1, <1>2, PushNarrowIInv, ValuesAssumption DEF Word
<1>3. ASSUME NEW v \in WideValues, PushWide(v) PROVE IInv'
  BY <1>1, <1>3, PushWideIInv, ValuesAssumption
<1> QED
  BY <1>1, <1>2, <1>3, PopIInv DEF StackStep

(* The inductive invariant holds in every reachable state. *)
THEOREM SlotsIInv == Spec => []IInv
<1>1. IInv /\ [Next]_vars => IInv'
  <2>1. CASE UNCHANGED vars
    BY <2>1 DEF vars, IInv, TypeOK, WildOnlyWhenEmpty
  <2> QED
    BY <2>1, StackStepIInv, ShuffleIInv, LocalIInv, HandlerIInv DEF Next
<1> QED
  BY InitIInv, <1>1, PTL DEF Spec

(* Type correctness of a frame's slots; in particular top_ never leaves    *)
(* 0 .. max_stack, for every size of frame and every instruction sequence. *)
THEOREM TypeCorrect == Spec => []TypeOK
  BY SlotsIInv, PTL DEF IInv

(* The index tests of slots.h and operand_stack.h keep every access inside *)
(* its vector as long as the vector is not empty.                          *)
THEOREM NoWildAccess == Spec => []WildOnlyWhenEmpty
  BY SlotsIInv, PTL DEF IInv

(* GetLong inverts SetLong. *)
LEMMA SplitJoin ==
  ASSUME NEW v \in 0 .. (Base * Base - 1)
  PROVE  GetLong(SetLongLow(v), SetLongHigh(v)) = v
  BY BaseAssumption DEF GetLong, SetLongLow, SetLongHigh

(* A load or store of two slots takes a value apart and puts it together. *)
LEMMA JoinSplit ==
  ASSUME NEW lo \in Word, NEW hi \in Word
  PROVE  SetLongLow(GetLong(lo, hi)) = lo /\ SetLongHigh(GetLong(lo, hi)) = hi
  BY BaseAssumption DEF GetLong, SetLongLow, SetLongHigh, Word
-----------------------------------------------------------------------------
(* The refinement.  Stack is the mapping of FrameSlots to the words of     *)
(* WordFrame: the slots below top_, bottom first.                          *)
Stack == [i \in 1 .. top |-> slots[i - 1]]

(* It is a sequence of as many words as top_ says. *)
StackIsSeq ==
  /\ Stack \in Seq(Word) /\ Len(Stack) = top
  /\ \A i \in 1 .. top : Stack[i] = slots[i - 1]

LEMMA StackIs == IInv => StackIsSeq
<1> SUFFICES ASSUME IInv PROVE StackIsSeq
  OBVIOUS
<1>1. \A i \in 1 .. top : slots[i - 1] \in Word
  <2>1. ASSUME NEW i \in 1 .. top PROVE slots[i - 1] \in Word
    BY SizeFacts DEF IInv, TypeOK
  <2> QED
    BY <2>1
<1>2. top \in Nat
  BY SizeFacts DEF IInv
<1>3. Stack \in [1 .. top -> Word]
  BY <1>1 DEF Stack
<1>4. Stack \in Seq(Word)
  BY <1>2, <1>3, SeqDef
<1>5. 1 .. Len(Stack) = 1 .. top /\ Len(Stack) \in Nat
  BY <1>3, <1>4, LenProperties
<1> QED
  BY <1>2, <1>4, <1>5 DEF Stack, StackIsSeq

(* An instruction that takes n words and leaves ws in their place, and     *)
(* does not write below them, replaces the end of the sequence.            *)
LEMMA Replaced ==
  ASSUME IInv, IInv', NEW n \in 0 .. top, NEW ws \in Seq(Word),
         top' = top - n + Len(ws),
         \A i \in 0 .. (top - n - 1) : slots'[i] = slots[i],
         \A j \in 1 .. Len(ws) : slots'[top - n + j - 1] = ws[j]
  PROVE  Stack' = SubSeq(Stack, 1, top - n) \o ws
<1> DEFINE low == SubSeq(Stack, 1, top - n)
<1>0. Len(ws) \in Nat /\ top \in Nat /\ top' \in Nat
  BY SizeFacts, LenProperties DEF IInv
<1>1. /\ Stack \in Seq(Word) /\ \A i \in 1 .. top : Stack[i] = slots[i - 1]
      /\ Stack' \in Seq(Word) /\ Len(Stack') = top'
      /\ \A i \in 1 .. top' : Stack'[i] = slots'[i - 1]
  <2>1. StackIsSeq /\ StackIsSeq'
    BY StackIs, PTL
  <2> QED
    BY <2>1 DEF StackIsSeq
<1>2. \A i \in 1 .. (top - n) : Stack[i] = slots[i - 1] /\ Stack[i] \in Word
  <2>1. Len(Stack) = top
    BY StackIs DEF StackIsSeq
  <2> QED
    BY <1>0, <1>1, <2>1, ElementOfSeq
<1>3. /\ low \in Seq(Word) /\ Len(low) = top - n
      /\ \A i \in 1 .. (top - n) : low[i] = slots[i - 1]
  BY <1>0, <1>2, SubSeqProperties
<1> HIDE DEF low
<1>4. /\ low \o ws \in Seq(Word) /\ Len(low \o ws) = top'
      /\ \A i \in 1 .. top' :
           (low \o ws)[i] = IF i <= top - n THEN low[i] ELSE ws[i - (top - n)]
  <2>1. Len(low) + Len(ws) = top'
    BY <1>3
  <2> QED
    BY <1>3, <2>1, ConcatProperties
<1>5. ASSUME NEW i \in 1 .. top'
      PROVE  Stack'[i] = (low \o ws)[i]
  <2>1. CASE i <= top - n
    <3>1. i - 1 \in 0 .. (top - n - 1) /\ i \in 1 .. (top - n)
      BY <2>1, <1>0
    <3> QED
      BY <2>1, <3>1, <1>1, <1>3, <1>4
  <2>2. CASE i > top - n
    <3>1. i - (top - n) \in 1 .. Len(ws)
      BY <2>2, <1>0
    <3>2. slots'[top - n + (i - (top - n)) - 1] = ws[i - (top - n)]
      BY <3>1
    <3>3. top - n + (i - (top - n)) - 1 = i - 1 /\ ~(i <= top - n)
      BY <2>2, <1>0
    <3> QED
      BY <3>2, <3>3, <1>1, <1>4
  <2> QED
    <3>1. i <= top - n \/ i > top - n
      BY <1>0
    <3> QED
      BY <3>1, <2>1, <2>2
<1>6. Stack' = low \o ws
  BY <1>1, <1>4, <1>5, SeqEqual
<1> QED
  BY <1>6 DEF low

(* LOG(FATAL) and an access outside a vector stop the abstract machine. *)
LEMMA DieStops == ASSUME Alive, Die("fatal") \/ Die("segv") PROVE Words!Next
<1>1. UNCHANGED <<slots, top, locals, result>> /\ ~(status' = "ok")
  BY DEF Die
<1> QED
  BY <1>1 DEF Alive, Words!Next, Words!Stop

(* The case of an instruction that takes nothing. *)
LEMMA Pushed ==
  ASSUME IInv, IInv', NEW ws \in Seq(Word),
         top' = top + Len(ws),
         \A i \in 0 .. (top - 1) : slots'[i] = slots[i],
         \A j \in 1 .. Len(ws) : slots'[top + j - 1] = ws[j]
  PROVE  Stack' = Stack \o ws
<1>1. top \in Nat /\ top - 0 = top /\ 0 \in 0 .. top
  BY SizeFacts DEF IInv
<1>2. Stack' = SubSeq(Stack, 1, top) \o ws
  BY <1>1, Replaced
<1>3. SubSeq(Stack, 1, top) = Stack
  BY <1>1, StackIs, SubSeqFull DEF StackIsSeq
<1> QED
  BY <1>2, <1>3

(* The case of an instruction that leaves nothing. *)
LEMMA Popped ==
  ASSUME IInv, IInv', NEW n \in 0 .. top, top' = top - n, slots' = slots
  PROVE  Stack' = SubSeq(Stack, 1, top - n)
<1>1. top \in Nat
  BY SizeFacts DEF IInv
<1>2. << >> \in Seq(Word) /\ Len(<< >>) = 0 /\ top - n + 0 = top - n
  BY <1>1, EmptySeq
<1>3. Stack' = SubSeq(Stack, 1, top - n) \o << >>
  <2> DEFINE ws == << >>
  <2>1. ws \in Seq(Word) /\ top' = top - n + Len(ws)
    BY <1>1, <1>2
  <2>2. \A j \in 1 .. Len(ws) : slots'[top - n + j - 1] = ws[j]
    BY <1>2
  <2> HIDE DEF ws
  <2>3. Stack' = SubSeq(Stack, 1, top - n) \o ws
    BY <2>1, <2>2, Replaced
  <2> QED
    BY <2>3 DEF ws
<1>4. SubSeq(Stack, 1, top - n) \in Seq(Word)
  <2>1. \A i \in 1 .. (top - n) : Stack[i] \in Word
    <3>1. \A i \in 1 .. (top - n) : i \in 1 .. Len(Stack)
      BY <1>1, StackIs DEF StackIsSeq
    <3> QED
      BY <3>1, StackIs, ElementOfSeq DEF StackIsSeq
  <2> QED
    BY <1>1, <2>1, SubSeqProperties
<1> QED
  BY <1>3, <1>4, ConcatEmptySeq

(* PushInt, PushFloat and PushSlot append one word, *)
LEMMA NarrowWords ==
  ASSUME IInv, IInv', NEW v \in Word, PushNarrow(v), ~Die("fatal")
  PROVE  Stack' = Stack \o <<v>> /\ UNCHANGED <<locals, result, status>>
<1>1. /\ ~IsFull /\ slots' = [slots EXCEPT ![top] = v] /\ top' = top + 1
      /\ UNCHANGED <<locals, result, status>>
  BY DEF PushNarrow
<1>2. top \in 0 .. (max_stack - 1) /\ slots \in [0 .. (max_stack - 1) -> Word]
  BY <1>1, SizeFacts DEF IsFull, IInv, TypeOK
<1>3. <<v>> \in Seq(Word) /\ Len(<<v>>) = 1
  OBVIOUS
<1>4. \A i \in 0 .. (top - 1) : slots'[i] = slots[i]
  BY <1>1, <1>2
<1>5. \A j \in 1 .. Len(<<v>>) : slots'[top + j - 1] = <<v>>[j]
  BY <1>1, <1>2, <1>3
<1> QED
  BY <1>1, <1>3, <1>4, <1>5, Pushed

(* PushLong, PushDouble and PushRef two, the low word first. *)
LEMMA WideWords ==
  ASSUME IInv, IInv', NEW v \in 0 .. (Base * Base - 1), PushWide(v),
         ~Die("fatal"), ~Die("segv")
  PROVE  /\ Stack' = Stack \o <<SetLongLow(v), SetLongHigh(v)>>
         /\ UNCHANGED <<locals, result, status>>
<1> DEFINE ws == <<SetLongLow(v), SetLongHigh(v)>>
<1>1. /\ ~IsLongFull /\ ~Wild(max_stack, top) /\ top' = top + 2
      /\ slots' = [slots EXCEPT ![top] = SetLongLow(v), ![top + 1] = SetLongHigh(v)]
      /\ UNCHANGED <<locals, result, status>>
  BY DEF PushWide
<1>2. top \in 0 .. (max_stack - 2) /\ slots \in [0 .. (max_stack - 1) -> Word]
  BY <1>1, SizeFacts DEF IInv, TypeOK, Wild, IsLongFull, LongOutOfIndex
<1>3. ws \in Seq(Word) /\ Len(ws) = 2
  BY LowHighWords
<1>4. \A i \in 0 .. (top - 1) : slots'[i] = slots[i]
  <2>1. \A i \in 0 .. (top - 1) : i \in 0 .. (max_stack - 1) /\ i /= top /\ i /= top + 1
    BY <1>2, SizeFacts DEF IInv
  <2> QED
    BY <1>1, <1>2, <2>1
<1>5. \A j \in 1 .. Len(ws) : slots'[top + j - 1] = ws[j]
  <2>0. /\ top \in 0 .. (max_stack - 1) /\ top + 1 \in 0 .. (max_stack - 1) /\ top /= top + 1
        /\ top + 1 - 1 = top /\ top + 2 - 1 = top + 1
    BY <1>2, SizeFacts DEF IInv
  <2>1. slots'[top + 1 - 1] = ws[1] /\ slots'[top + 2 - 1] = ws[2]
    BY <1>1, <1>2, <2>0
  <2>2. \A j \in 1 .. Len(ws) : j = 1 \/ j = 2
    BY <1>3
  <2> HIDE DEF ws
  <2> QED
    BY <2>1, <2>2
<1> HIDE DEF ws
<1>6. Stack' = Stack \o ws
  BY <1>1, <1>3, <1>4, <1>5, Pushed
<1> QED
  BY <1>1, <1>6 DEF ws

(* The instructions of stack_insts.h replace the words they pop by the     *)
(* words their order names.                                                *)
Named(order) == [j \in 1 .. Len(order) |-> Stack[top + 1 - order[j]]]

LEMMA ShuffledWords ==
  ASSUME IInv, IInv', NEW n \in Nat, NEW order \in Seq(1 .. n),
         StackInst(n, order), ~Die("fatal")
  PROVE  /\ top >= n
         /\ Stack' = SubSeq(Stack, 1, top - n) \o Named(order)
         /\ UNCHANGED <<locals, result, status>>
<1> DEFINE ws == Named(order)
<1>1. /\ top >= n /\ top - n + Len(order) <= max_stack
      /\ slots' = [i \in DOMAIN slots |->
                     IF i \in (top - n) .. (top - n + Len(order) - 1)
                     THEN slots[top - order[i - (top - n) + 1]]
                     ELSE slots[i]]
      /\ top' = top - n + Len(order)
      /\ UNCHANGED <<locals, result, status>>
  BY DEF StackInst
<1>2. /\ top \in Nat /\ max_stack \in Nat /\ top <= max_stack
      /\ DOMAIN slots = 0 .. (max_stack - 1)
      /\ Len(order) \in Nat
  BY SizeFacts, LenProperties DEF IInv, TypeOK
<1>3. \A j \in 1 .. Len(order) : order[j] \in 1 .. n
  BY ElementOfSeq
<1>4. \A j \in 1 .. Len(order) : top + 1 - order[j] \in 1 .. top
  BY <1>1, <1>2, <1>3, SMTT(30)
<1>5. /\ Stack \in Seq(Word) /\ Len(Stack) = top
      /\ \A i \in 1 .. top : Stack[i] = slots[i - 1]
  BY StackIs DEF StackIsSeq
<1>6. \A j \in 1 .. Len(order) : /\ Stack[top + 1 - order[j]] \in Word
                                 /\ ws[j] = Stack[top + 1 - order[j]]
  BY <1>4, <1>5, ElementOfSeq DEF Named
<1>7. ws \in [1 .. Len(order) -> Word]
  BY <1>6 DEF Named
<1>8. ws \in Seq(Word) /\ Len(ws) = Len(order)
  <2>1. ws \in Seq(Word)
    BY <1>2, <1>7, SeqDef
  <2>2. Len(ws) \in Nat /\ 1 .. Len(ws) = 1 .. Len(order)
    BY <2>1, <1>7, LenProperties
  <2> QED
    BY <1>2, <2>1, <2>2
<1> HIDE DEF ws
<1>9. \A i \in 0 .. (top - n - 1) : slots'[i] = slots[i]
  BY <1>1, <1>2
<1>10. ASSUME NEW j \in 1 .. Len(ws)
       PROVE  slots'[top - n + j - 1] = ws[j]
  <2> DEFINE k == top - n + j - 1
  <2>1. j \in 1 .. Len(order) /\ k \in (top - n) .. (top - n + Len(order) - 1)
        /\ k \in DOMAIN slots /\ k - (top - n) + 1 = j
    BY <1>1, <1>2, <1>8
  <2> HIDE DEF k
  <2>2. slots'[k] = slots[top - order[j]]
    BY <2>1, <1>1
  <2>3. ws[j] = slots[(top + 1 - order[j]) - 1]
    <3>1. top + 1 - order[j] \in 1 .. top
      BY <2>1, <1>4
    <3>2. ws[j] = Stack[top + 1 - order[j]]
      BY <2>1, <1>6
    <3>3. \A i \in 1 .. top : Stack[i] = slots[i - 1]
      BY <1>5
    <3> QED
      BY <3>1, <3>2, <3>3
  <2>4. (top + 1 - order[j]) - 1 = top - order[j]
    BY <2>1, <1>2, <1>3, SMTT(30)
  <2> QED
    BY <2>2, <2>3, <2>4 DEF k
<1>11. n \in 0 .. top
  BY <1>1, <1>2
<1>12. Stack' = SubSeq(Stack, 1, top - n) \o ws
  BY <1>1, <1>8, <1>9, <1>10, <1>11, Replaced
<1> QED
  BY <1>1, <1>12 DEF ws

(* The abstract steps, in terms of Stack.  Pushes, loads and stores: *)
LEMMA PushNext ==
  ASSUME Alive, UNCHANGED <<locals, result, status>>,
         \/ \E v \in NarrowValues : Stack' = Stack \o <<v>>
         \/ \E v \in WideValues : \/ Stack' = Stack \o <<SetLongLow(v), SetLongHigh(v)>>
                                  \/ Stack' = <<SetLongLow(v), SetLongHigh(v)>>
         \/ \E i \in Indexes : i \in DOMAIN locals /\ Stack' = Stack \o <<locals[i]>>
         \/ \E i \in Indexes : /\ i \in DOMAIN locals /\ i + 1 \in DOMAIN locals
                               /\ Stack' = Stack \o <<locals[i], locals[i + 1]>>
  PROVE  Words!Next
<1>1. CASE \E v \in NarrowValues : Stack' = Stack \o <<v>>
  BY <1>1 DEF Alive, Stack, Words!Next, Words!Push
<1>2. CASE \E v \in WideValues : Stack' = Stack \o <<SetLongLow(v), SetLongHigh(v)>>
  BY <1>2 DEF Alive, Stack, Words!Next, Words!Push, Words!TwoWords, Words!LowWord,
              Words!HighWord, SetLongLow, SetLongHigh
<1>3. CASE \E v \in WideValues : Stack' = <<SetLongLow(v), SetLongHigh(v)>>
  BY <1>3 DEF Alive, Stack, Words!Next, Words!Handle, Words!TwoWords, Words!LowWord,
              Words!HighWord, SetLongLow, SetLongHigh
<1>4. CASE \E i \in Indexes : i \in DOMAIN locals /\ Stack' = Stack \o <<locals[i]>>
  BY <1>4 DEF Alive, Stack, Words!Next, Words!LoadOne, Words!Push
<1>5. CASE \E i \in Indexes : /\ i \in DOMAIN locals /\ i + 1 \in DOMAIN locals
                              /\ Stack' = Stack \o <<locals[i], locals[i + 1]>>
  BY <1>5 DEF Alive, Stack, Words!Next, Words!LoadTwo, Words!Push
<1> QED
  BY <1>1, <1>2, <1>3, <1>4, <1>5

(* pops and the peek, *)
LEMMA PopNext ==
  ASSUME IInv, Alive, UNCHANGED <<locals, status>>,
         \/ /\ top >= 1 /\ Stack' = SubSeq(Stack, 1, top - 1)
            /\ result' = Stack[top]
         \/ /\ top >= 2 /\ Stack' = SubSeq(Stack, 1, top - 2)
            /\ result' = GetLong(Stack[top - 1], Stack[top])
         \/ \E k \in Indexes : /\ top >= k + 2 /\ Stack' = Stack
                               /\ result' = GetLong(Stack[top - (k + 1)], Stack[top - k])
  PROVE  Words!Next
<1>1. Len(Stack) = top /\ top \in Nat /\ top - 0 = top
  BY StackIs, SizeFacts DEF IInv, StackIsSeq
<1>2. CASE /\ top >= 1 /\ Stack' = SubSeq(Stack, 1, top - 1)
           /\ result' = Stack[top]
  BY <1>1, <1>2 DEF Alive, Stack, Words!Next, Words!PopOne, Words!Depth, Words!FromTop,
                    Words!Below
<1>3. CASE /\ top >= 2 /\ Stack' = SubSeq(Stack, 1, top - 2)
           /\ result' = GetLong(Stack[top - 1], Stack[top])
  BY <1>1, <1>3 DEF Alive, Stack, Words!Next, Words!PopTwo, Words!Depth, Words!FromTop,
                    Words!Below, Words!Value, GetLong
<1>4. CASE \E k \in Indexes : /\ top >= k + 2 /\ Stack' = Stack
                              /\ result' = GetLong(Stack[top - (k + 1)], Stack[top - k])
  BY <1>1, <1>4 DEF Alive, Stack, Words!Next, Words!Peek, Words!Depth, Words!FromTop,
                    Words!Value, GetLong
<1> QED
  BY <1>2, <1>3, <1>4

(* stores. *)
LEMMA StoreNext ==
  ASSUME IInv, Alive, UNCHANGED <<result, status>>, NEW i \in Indexes,
         \/ /\ top >= 1 /\ i \in DOMAIN locals
            /\ Stack' = SubSeq(Stack, 1, top - 1)
            /\ locals' = [locals EXCEPT ![i] = Stack[top]]
         \/ /\ top >= 2 /\ i \in DOMAIN locals /\ i + 1 \in DOMAIN locals
            /\ Stack' = SubSeq(Stack, 1, top - 2)
            /\ locals' = [locals EXCEPT ![i] = Stack[top - 1], ![i + 1] = Stack[top]]
  PROVE  Words!Next
<1>1. Len(Stack) = top /\ top \in Nat /\ top - 0 = top
  BY StackIs, SizeFacts DEF IInv, StackIsSeq
<1>2. CASE /\ top >= 1 /\ i \in DOMAIN locals
           /\ Stack' = SubSeq(Stack, 1, top - 1)
           /\ locals' = [locals EXCEPT ![i] = Stack[top]]
  BY <1>1, <1>2 DEF Alive, Stack, Words!Next, Words!StoreOne, Words!Depth, Words!FromTop,
                    Words!Below
<1>3. CASE /\ top >= 2 /\ i \in DOMAIN locals /\ i + 1 \in DOMAIN locals
           /\ Stack' = SubSeq(Stack, 1, top - 2)
           /\ locals' = [locals EXCEPT ![i] = Stack[top - 1], ![i + 1] = Stack[top]]
  BY <1>1, <1>3 DEF Alive, Stack, Words!Next, Words!StoreTwo, Words!Depth, Words!FromTop,
                    Words!Below
<1> QED
  BY <1>2, <1>3

(* The words that the instructions name, from the top down *)
LEMMA NamedWords ==
  ASSUME IInv
  PROVE  /\ Words!FromTop(0) = Stack[top + 1 - 1]
         /\ Words!FromTop(1) = Stack[top + 1 - 2]
         /\ Words!FromTop(2) = Stack[top + 1 - 3]
         /\ Words!FromTop(3) = Stack[top + 1 - 4]
<1>1. Len(Stack) = top /\ top \in Nat
  BY StackIs, SizeFacts DEF IInv, StackIsSeq
<1>2. /\ top - 0 = top + 1 - 1 /\ top - 1 = top + 1 - 2
      /\ top - 2 = top + 1 - 3 /\ top - 3 = top + 1 - 4
  BY <1>1
<1> QED
  BY <1>1, <1>2 DEF Stack, Words!FromTop, Words!Depth

(* The instructions of stack_insts.h do what their definitions say. *)
LEMMA ShuffleCase ==
  ASSUME IInv, IInv', ShuffleStep, ~Die("fatal")
  PROVE  Words!Shuffle
<1> DEFINE a == Words!FromTop(0)
           b == Words!FromTop(1)
           c == Words!FromTop(2)
           d == Words!FromTop(3)
<1>0. /\ a = Stack[top + 1 - 1] /\ b = Stack[top + 1 - 2]
      /\ c = Stack[top + 1 - 3] /\ d = Stack[top + 1 - 4]
      /\ Alive /\ Len(Stack) = top
  BY NamedWords, StackIs DEF ShuffleStep, StackIsSeq
<1> HIDE DEF a, b, c, d
<1>1. CASE POP
  <2>1. Len(<< >>) = 0 /\ << >> \in Seq(1 .. 1)
    OBVIOUS
  <2>2. Named(<< >>) = << >>
    <3>1. Named(<< >>) = [j \in 1 .. 0 |-> << >>[j]]
      BY <1>0, <2>1 DEF Named
    <3> QED
      BY <3>1
  <2>3. /\ top >= 1 /\ Stack' = SubSeq(Stack, 1, top - 1) \o << >>
        /\ UNCHANGED <<locals, result, status>>
    BY <1>1, <2>1, <2>2, ShuffledWords DEF POP
  <2> QED
    BY <1>0, <2>3
    DEF a, b, c, d, Stack, Words!Shuffle, Words!Replace, Words!Depth, Words!Below
<1>2. CASE POP2
  <2>1. Len(<< >>) = 0 /\ << >> \in Seq(1 .. 2)
    OBVIOUS
  <2>2. Named(<< >>) = << >>
    <3>1. Named(<< >>) = [j \in 1 .. 0 |-> << >>[j]]
      BY <1>0, <2>1 DEF Named
    <3> QED
      BY <3>1
  <2>3. /\ top >= 2 /\ Stack' = SubSeq(Stack, 1, top - 2) \o << >>
        /\ UNCHANGED <<locals, result, status>>
    BY <1>2, <2>1, <2>2, ShuffledWords DEF POP2
  <2> QED
    BY <1>0, <2>3
    DEF a, b, c, d, Stack, Words!Shuffle, Words!Replace, Words!Depth, Words!Below
<1>3. CASE DUP
  <2>1. Len(<<1, 1>>) = 2 /\ <<1, 1>> \in Seq(1 .. 1)
    OBVIOUS
  <2>2. Named(<<1, 1>>) = <<a, a>>
    <3>1. Named(<<1, 1>>) = [j \in 1 .. 2 |-> <<a, a>>[j]]
      BY <1>0, <2>1 DEF Named
    <3> QED
      BY <3>1
  <2>3. /\ top >= 1 /\ Stack' = SubSeq(Stack, 1, top - 1) \o <<a, a>>
        /\ UNCHANGED <<locals, result, status>>
    BY <1>3, <2>1, <2>2, ShuffledWords DEF DUP
  <2> QED
    BY <1>0, <2>3
    DEF a, b, c, d, Stack, Words!Shuffle, Words!Replace, Words!Depth, Words!Below
<1>4. CASE DUP_X1
  <2>1. Len(<<1, 2, 1>>) = 3 /\ <<1, 2, 1>> \in Seq(1 .. 2)
    OBVIOUS
  <2>2. Named(<<1, 2, 1>>) = <<a, b, a>>
    <3>1. Named(<<1, 2, 1>>) = [j \in 1 .. 3 |-> <<a, b, a>>[j]]
      BY <1>0, <2>1 DEF Named
    <3> QED
      BY <3>1
  <2>3. /\ top >= 2 /\ Stack' = SubSeq(Stack, 1, top - 2) \o <<a, b, a>>
        /\ UNCHANGED <<locals, result, status>>
    BY <1>4, <2>1, <2>2, ShuffledWords DEF DUP_X1
  <2> QED
    BY <1>0, <2>3
    DEF a, b, c, d, Stack, Words!Shuffle, Words!Replace, Words!Depth, Words!Below
<1>5. CASE DUP_X2
  <2>1. Len(<<1, 3, 2, 1>>) = 4 /\ <<1, 3, 2, 1>> \in Seq(1 .. 3)
    OBVIOUS
  <2>2. Named(<<1, 3, 2, 1>>) = <<a, c, b, a>>
    <3>1. \A j \in 1 .. 4 : Stack[top + 1 - <<1, 3, 2, 1>>[j]] = <<a, c, b, a>>[j]
      BY <1>0
    <3>2. Named(<<1, 3, 2, 1>>) = [j \in 1 .. 4 |-> <<a, c, b, a>>[j]]
      BY <3>1, <2>1 DEF Named
    <3> QED
      BY <3>2
  <2>3. /\ top >= 3 /\ Stack' = SubSeq(Stack, 1, top - 3) \o <<a, c, b, a>>
        /\ UNCHANGED <<locals, result, status>>
    BY <1>5, <2>1, <2>2, ShuffledWords DEF DUP_X2
  <2> QED
    BY <1>0, <2>3
    DEF a, b, c, d, Stack, Words!Shuffle, Words!Replace, Words!Depth, Words!Below
<1>6. CASE DUP2
  <2>1. Len(<<2, 1, 2, 1>>) = 4 /\ <<2, 1, 2, 1>> \in Seq(1 .. 2)
    OBVIOUS
  <2>2. Named(<<2, 1, 2, 1>>) = <<b, a, b, a>>
    <3>1. Named(<<2, 1, 2, 1>>) = [j \in 1 .. 4 |-> <<b, a, b, a>>[j]]
      BY <1>0, <2>1 DEF Named
    <3> QED
      BY <3>1
  <2>3. /\ top >= 2 /\ Stack' = SubSeq(Stack, 1, top - 2) \o <<b, a, b, a>>
        /\ UNCHANGED <<locals, result, status>>
    BY <1>6, <2>1, <2>2, ShuffledWords DEF DUP2
  <2> QED
    BY <1>0, <2>3
    DEF a, b, c, d, Stack, Words!Shuffle, Words!Replace, Words!Depth, Words!Below
<1>7. CASE DUP2_X1
  <2>1. Len(<<2, 1, 3, 2, 1>>) = 5 /\ <<2, 1, 3, 2, 1>> \in Seq(1 .. 3)
    OBVIOUS
  <2>2. Named(<<2, 1, 3, 2, 1>>) = <<b, a, c, b, a>>
    <3>1. Named(<<2, 1, 3, 2, 1>>) = [j \in 1 .. 5 |-> <<b, a, c, b, a>>[j]]
      BY <1>0, <2>1 DEF Named
    <3> QED
      BY <3>1
  <2>3. /\ top >= 3 /\ Stack' = SubSeq(Stack, 1, top - 3) \o <<b, a, c, b, a>>
        /\ UNCHANGED <<locals, result, status>>
    BY <1>7, <2>1, <2>2, ShuffledWords DEF DUP2_X1
  <2> QED
    BY <1>0, <2>3
    DEF a, b, c, d, Stack, Words!Shuffle, Words!Replace, Words!Depth, Words!Below
<1>8. CASE DUP2_X2
  <2>1. Len(<<2, 1, 4, 3, 2, 1>>) = 6 /\ <<2, 1, 4, 3, 2, 1>> \in Seq(1 .. 4)
    OBVIOUS
  <2>2. Named(<<2, 1, 4, 3, 2, 1>>) = <<b, a, d, c, b, a>>
    <3>1. Named(<<2, 1, 4, 3, 2, 1>>) = [j \in 1 .. 6 |-> <<b, a, d, c, b, a>>[j]]
      BY <1>0, <2>1, SMTT(30) DEF Named
    <3> QED
      BY <3>1
  <2>3. /\ top >= 4 /\ Stack' = SubSeq(Stack, 1, top - 4) \o <<b, a, d, c, b, a>>
        /\ UNCHANGED <<locals, result, status>>
    BY <1>8, <2>1, <2>2, ShuffledWords DEF DUP2_X2
  <2> QED
    BY <1>0, <2>3
    DEF a, b, c, d, Stack, Words!Shuffle, Words!Replace, Words!Depth, Words!Below
<1>9. CASE SWAP
  <2>1. Len(<<1, 2>>) = 2 /\ <<1, 2>> \in Seq(1 .. 2)
    OBVIOUS
  <2>2. Named(<<1, 2>>) = <<a, b>>
    <3>1. Named(<<1, 2>>) = [j \in 1 .. 2 |-> <<a, b>>[j]]
      BY <1>0, <2>1 DEF Named
    <3> QED
      BY <3>1
  <2>3. /\ top >= 2 /\ Stack' = SubSeq(Stack, 1, top - 2) \o <<a, b>>
        /\ UNCHANGED <<locals, result, status>>
    BY <1>9, <2>1, <2>2, ShuffledWords DEF SWAP
  <2> QED
    BY <1>0, <2>3
    DEF a, b, c, d, Stack, Words!Shuffle, Words!Replace, Words!Depth, Words!Below
<1> QED
  BY <1>1, <1>2, <1>3, <1>4, <1>5, <1>6, <1>7, <1>8, <1>9 DEF ShuffleStep

(* Loads append the words of a variable. *)
LEMMA LoadCase ==
  ASSUME IInv, IInv', Alive, NEW i \in Indexes, LoadNarrow(i) \/ LoadWide(i)
  PROVE  Words!Next
<1>1. CASE Die("fatal") \/ Die("segv")
  BY <1>1, DieStops
<1>2. /\ max_locals \in Nat /\ i \in Nat
      /\ locals \in [0 .. (max_locals - 1) -> Word]
  BY SizeFacts, ValuesAssumption DEF IInv, TypeOK
<1>3. CASE LoadNarrow(i) /\ ~Die("fatal")
  <2>1. ~OutOfIndex(max_locals, i) /\ PushNarrow(locals[i])
    BY <1>3 DEF LoadNarrow
  <2>2. i \in DOMAIN locals /\ locals[i] \in Word
    BY <1>2, <2>1 DEF OutOfIndex
  <2>3. Stack' = Stack \o <<locals[i]>> /\ UNCHANGED <<locals, result, status>>
    BY <1>3, <2>1, <2>2, NarrowWords
  <2> QED
    BY <2>2, <2>3, PushNext
<1>4. CASE LoadWide(i) /\ ~Die("fatal") /\ ~Die("segv")
  <2> DEFINE v == GetLong(locals[i], locals[i + 1])
  <2>1. /\ ~LongOutOfIndex(max_locals, i) /\ ~Wild(max_locals, i)
        /\ PushWide(v)
    BY <1>4 DEF LoadWide
  <2>2. i \in 0 .. (max_locals - 1) /\ i + 1 \in 0 .. (max_locals - 1)
    BY <1>2, <2>1 DEF Wild
  <2>3. locals[i] \in Word /\ locals[i + 1] \in Word
    BY <1>2, <2>2
  <2>4. /\ v \in 0 .. (Base * Base - 1)
        /\ SetLongLow(v) = locals[i] /\ SetLongHigh(v) = locals[i + 1]
    BY <2>3, GetLongRange, JoinSplit
  <2> HIDE DEF v
  <2>5. /\ Stack' = Stack \o <<SetLongLow(v), SetLongHigh(v)>>
        /\ UNCHANGED <<locals, result, status>>
    BY <1>4, <2>1, <2>4, WideWords
  <2>6. /\ Stack' = Stack \o <<locals[i], locals[i + 1]>>
        /\ UNCHANGED <<locals, result, status>>
    BY <2>4, <2>5
  <2>7. i \in DOMAIN locals /\ i + 1 \in DOMAIN locals
    BY <1>2, <2>2
  <2> QED
    BY <2>6, <2>7, PushNext
<1> QED
  BY <1>1, <1>3, <1>4

(* Stores move the topmost words into a variable. *)
LEMMA StoreCase ==
  ASSUME IInv, IInv', Alive, NEW i \in Indexes, StoreNarrow(i) \/ StoreWide(i)
  PROVE  Words!Next
<1>1. CASE Die("fatal") \/ Die("segv")
  BY <1>1, DieStops
<1>2. /\ max_locals \in Nat /\ i \in Nat /\ top \in Nat
      /\ locals \in [0 .. (max_locals - 1) -> Word]
  BY SizeFacts, ValuesAssumption DEF IInv, TypeOK
<1>3. /\ Stack \in Seq(Word) /\ Len(Stack) = top
      /\ \A k \in 1 .. top : Stack[k] = slots[k - 1]
  BY StackIs DEF StackIsSeq
<1>4. CASE StoreNarrow(i) /\ ~Die("fatal")
  <2>1. /\ ~IsEmpty /\ ~OutOfIndex(max_locals, i) /\ top' = top - 1
        /\ locals' = [locals EXCEPT ![i] = slots[top - 1]]
        /\ UNCHANGED <<slots, result, status>>
    BY <1>4 DEF StoreNarrow
  <2>2. top >= 1 /\ 1 \in 0 .. top /\ top \in 1 .. top /\ i \in DOMAIN locals
    BY <1>2, <2>1 DEF IsEmpty, OutOfIndex
  <2>3. Stack' = SubSeq(Stack, 1, top - 1) /\ Stack[top] = slots[top - 1]
    BY <1>3, <2>1, <2>2, Popped
  <2> QED
    BY <2>1, <2>2, <2>3, StoreNext
<1>5. CASE StoreWide(i) /\ ~Die("fatal") /\ ~Die("segv")
  <2> DEFINE v == GetLong(slots[top - 2], slots[top - 1])
  <2>1. /\ ~IsLongEmpty /\ ~LongOutOfIndex(max_locals, i) /\ ~Wild(max_locals, i)
        /\ locals' = [locals EXCEPT ![i] = SetLongLow(v), ![i + 1] = SetLongHigh(v)]
        /\ top' = top - 2
        /\ UNCHANGED <<slots, result, status>>
    BY <1>5 DEF StoreWide
  <2>2. /\ top >= 2 /\ 2 \in 0 .. top /\ top \in 1 .. top /\ top - 1 \in 1 .. top
        /\ top - 1 - 1 = top - 2
        /\ i \in 0 .. (max_locals - 1) /\ i + 1 \in 0 .. (max_locals - 1)
    BY <1>2, <2>1 DEF IsLongEmpty, Wild
  <2>3. Stack[top] = slots[top - 1] /\ Stack[top - 1] = slots[top - 2]
    BY <1>3, <2>2
  <2>4. Stack[top] \in Word /\ Stack[top - 1] \in Word
    BY <1>3, <2>2, ElementOfSeq
  <2>5. SetLongLow(v) = Stack[top - 1] /\ SetLongHigh(v) = Stack[top]
    BY <2>3, <2>4, JoinSplit
  <2> HIDE DEF v
  <2>6. Stack' = SubSeq(Stack, 1, top - 2)
    BY <2>1, <2>2, Popped
  <2>7. locals' = [locals EXCEPT ![i] = Stack[top - 1], ![i + 1] = Stack[top]]
    BY <2>1, <2>5
  <2>8. i \in DOMAIN locals /\ i + 1 \in DOMAIN locals
    BY <1>2, <2>2
  <2> QED
    BY <2>1, <2>2, <2>6, <2>7, <2>8, StoreNext
<1> QED
  BY <1>1, <1>4, <1>5

(* Pops and the receiver peek deliver what the sequence holds. *)
LEMMA PopCase ==
  ASSUME IInv, IInv', Alive, PopNarrow \/ PopWide \/ \E k \in Indexes : GetRefFromTop(k)
  PROVE  Words!Next
<1>1. CASE Die("fatal")
  BY <1>1, DieStops
<1>2. top \in Nat /\ \A k \in 1 .. top : Stack[k] = slots[k - 1]
  BY StackIs, SizeFacts DEF IInv, StackIsSeq
<1>3. CASE PopNarrow /\ ~Die("fatal")
  <2>1. /\ ~IsEmpty /\ top' = top - 1 /\ result' = slots[top - 1]
        /\ UNCHANGED <<slots, locals, status>>
    BY <1>3 DEF PopNarrow
  <2>2. top >= 1 /\ 1 \in 0 .. top /\ top \in 1 .. top
    BY <1>2, <2>1 DEF IsEmpty
  <2>3. Stack' = SubSeq(Stack, 1, top - 1) /\ Stack[top] = slots[top - 1]
    BY <1>2, <2>1, <2>2, Popped
  <2> QED
    BY <2>1, <2>2, <2>3, PopNext
<1>4. CASE PopWide /\ ~Die("fatal")
  <2>1. /\ ~IsLongEmpty /\ top' = top - 2
        /\ result' = GetLong(slots[top - 2], slots[top - 1])
        /\ UNCHANGED <<slots, locals, status>>
    BY <1>4 DEF PopWide
  <2>2. /\ top >= 2 /\ 2 \in 0 .. top /\ top \in 1 .. top /\ top - 1 \in 1 .. top
        /\ top - 1 - 1 = top - 2
    BY <1>2, <2>1 DEF IsLongEmpty
  <2>3. Stack[top] = slots[top - 1] /\ Stack[top - 1] = slots[top - 2]
    BY <1>2, <2>2
  <2>4. Stack' = SubSeq(Stack, 1, top - 2)
    BY <2>1, <2>2, Popped
  <2> QED
    BY <2>1, <2>2, <2>3, <2>4, PopNext
<1>5. ASSUME NEW k \in Indexes, GetRefFromTop(k), ~Die("fatal")
      PROVE  Words!Next
  <2>1. /\ ~(top <= k + 2)
        /\ result' = GetLong(slots[top - k - 2], slots[top - k - 1])
        /\ UNCHANGED <<slots, top, locals, status>>
    BY <1>5 DEF GetRefFromTop
  <2>2. /\ k \in Nat /\ top >= k + 2
        /\ top - (k + 1) \in 1 .. top /\ top - k \in 1 .. top
        /\ top - (k + 1) - 1 = top - k - 2
    BY <1>2, <2>1, ValuesAssumption
  <2>3. Stack[top - k] = slots[top - k - 1] /\ Stack[top - (k + 1)] = slots[top - k - 2]
    BY <1>2, <2>2
  <2>4. Stack' = Stack
    BY <2>1 DEF Stack
  <2> QED
    BY <2>1, <2>2, <2>3, <2>4, PopNext
<1> QED
  BY <1>1, <1>3, <1>4, <1>5

(* Handler entry leaves the exception alone on the stack. *)
LEMMA HandlerCase == ASSUME IInv, IInv', HandlerStep PROVE Words!Next
<1>0. Alive
  BY DEF HandlerStep
<1>1. PICK ex \in WideValues : EnterHandler(ex)
  BY DEF HandlerStep
<1>2. CASE Die("fatal") \/ Die("segv")
  BY <1>0, <1>2, DieStops
<1>3. CASE ~Die("fatal") /\ ~Die("segv")
  <2> DEFINE ws == <<SetLongLow(ex), SetLongHigh(ex)>>
  <2>1. /\ ~(0 >= SizeMinusOne(max_stack)) /\ ~Wild(max_stack, 0)
        /\ slots' = [slots EXCEPT ![0] = SetLongLow(ex), ![1] = SetLongHigh(ex)]
        /\ top' = 2
        /\ UNCHANGED <<locals, result, status>>
    BY <1>1, <1>3 DEF EnterHandler
  <2>2. /\ 0 \in 0 .. (max_stack - 1) /\ 1 \in 0 .. (max_stack - 1)
        /\ slots \in [0 .. (max_stack - 1) -> Word]
    BY <2>1, SizeFacts DEF Wild, LongOutOfIndex, IInv, TypeOK
  <2>3. slots'[0] = ws[1] /\ slots'[1] = ws[2]
    BY <2>1, <2>2
  <2>4. Stack' = [i \in 1 .. 2 |-> slots'[i - 1]]
    BY <2>1 DEF Stack
  <2>5. Stack' = [i \in 1 .. 2 |-> ws[i]]
    BY <2>3, <2>4
  <2>6. Stack' = ws
    BY <2>5
  <2> QED
    BY <1>0, <2>1, <2>6, PushNext
<1> QED
  BY <1>2, <1>3

(* Every instruction is a step of the word machine. *)
LEMMA StepCase == ASSUME IInv, IInv', Next PROVE Words!Next
<1>0. Alive
  BY DEF Next, StackStep, ShuffleStep, LocalStep, HandlerStep
<1>1. CASE Die("fatal") \/ Die("segv")
  BY <1>0, <1>1, DieStops
<1>2. ASSUME NEW v \in NarrowValues, PushNarrow(v), ~Die("fatal") PROVE Words!Next
  <2>1. v \in Word
    BY ValuesAssumption DEF Word
  <2>2. Stack' = Stack \o <<v>> /\ UNCHANGED <<locals, result, status>>
    BY <1>2, <2>1, NarrowWords
  <2> QED
    BY <1>0, <2>2, PushNext
<1>3. ASSUME NEW v \in WideValues, PushWide(v), ~Die("fatal"), ~Die("segv")
      PROVE  Words!Next
  <2>1. v \in 0 .. (Base * Base - 1)
    BY ValuesAssumption
  <2>2. /\ Stack' = Stack \o <<SetLongLow(v), SetLongHigh(v)>>
        /\ UNCHANGED <<locals, result, status>>
    BY <1>3, <2>1, WideWords
  <2> QED
    BY <1>0, <2>2, PushNext
<1>4. CASE PopNarrow \/ PopWide \/ \E k \in Indexes : GetRefFromTop(k)
  BY <1>0, <1>4, PopCase
<1>5. CASE ShuffleStep /\ ~Die("fatal")
  BY <1>0, <1>5, ShuffleCase DEF Alive, Words!Next
<1>6. CASE LocalStep
  BY <1>0, <1>6, LoadCase, StoreCase DEF LocalStep
<1>7. CASE HandlerStep
  BY <1>7, HandlerCase
<1> QED
  BY <1>1, <1>2, <1>3, <1>4, <1>5, <1>6, <1>7 DEF Next, StackStep

(* The slot vector with its top_ index implements the sequence of words:   *)
(* for every size of frame, every base and every run of push, pop,         *)
(* shuffle, load, store and handler operations, the effect is the one      *)
(* WordFrame defines, or the process stops.                                *)
THEOREM SlotsAreWords == Spec => ImplementsWordFrame
<1>1. Init => Words!Init
  <2> SUFFICES ASSUME Init PROVE Words!Init
    OBVIOUS
  <2>1. Stack = << >>
    BY DEF Init, Stack
  <2> QED
    BY <2>1 DEF Init, Stack, Words!Init
<1>2. IInv /\ IInv' /\ [Next]_vars => [Words!Next]_(Words!absvars)
  <2> SUFFICES ASSUME IInv, IInv', [Next]_vars
               PROVE  [Words!Next]_(Words!absvars)
    OBVIOUS
  <2>1. CASE UNCHANGED vars
    BY <2>1 DEF vars, Words!absvars
  <2> QED
    BY <2>1, StepCase
<1> QED
  BY <1>1, <1>2, SlotsIInv, PTL DEF Spec, ImplementsWordFrame, Words!Spec

(* PushLong, PushDouble and PushRef store what the next two-slot pop        *)
(* delivers, for every value.                                               *)
THEOREM WideValuesKept == Spec => WideRoundTrip
<1>1. IInv /\ IInv' /\ [Next]_vars =>
        [\A v \in WideValues :
           PushWide(v) /\ status' = "ok"
             => GetLong(slots'[top' - 2], slots'[top' - 1]) = v]_vars
  <2> SUFFICES ASSUME IInv, NEW v \in WideValues, PushWide(v), status' = "ok"
               PROVE  GetLong(slots'[top' - 2], slots'[top' - 1]) = v
    OBVIOUS
  <2>1. /\ ~IsLongFull /\ ~Wild(max_stack, top) /\ top' = top + 2
        /\ slots' = [slots EXCEPT ![top] = SetLongLow(v), ![top + 1] = SetLongHigh(v)]
    BY DEF PushWide, Die
  <2>2. /\ top \in 0 .. (max_stack - 1) /\ top + 1 \in 0 .. (max_stack - 1)
        /\ top /= top + 1 /\ top' - 2 = top /\ top' - 1 = top + 1
    BY <2>1, SizeFacts DEF IInv, Wild, IsLongFull, LongOutOfIndex
  <2>3. slots'[top] = SetLongLow(v) /\ slots'[top + 1] = SetLongHigh(v)
    BY <2>1, <2>2 DEF IInv, TypeOK
  <2> QED
    BY <2>2, <2>3, SplitJoin, ValuesAssumption
<1> QED
  BY <1>1, SlotsIInv, PTL DEF Spec, WideRoundTrip

=============================================================================
