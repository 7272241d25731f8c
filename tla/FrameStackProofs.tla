-------------------------- MODULE FrameStackProofs --------------------------
(***************************************************************************)
(* For every block size, frame size, header size and set of methods: the   *)
(* frame chain of a thread is intact in every reachable state, at most the *)
(* newest frame reaches outside the block, and the block implements the    *)
(* sequence of methods of CallStack.                                       *)
(***************************************************************************)
EXTENDS FrameStack, Sequences, TLAPS

FrameRecord == [prev : Nat \cup {Null}, method : Methods \cup {Garbage}]

(* The inductive invariant.  OnlyNewestSpills needs Chained (to know that  *)
(* the frame below a new one ends at sp_), Chained needs the types.        *)
IInv == TypeOK /\ Chained /\ OnlyNewestSpills

(* The initial, empty stack satisfies the invariant. *)
LEMMA InitIInv == Init => IInv
  BY SizeAssumption DEF Init, IInv, TypeOK, Chained, OnlyNewestSpills

(* Thread::CreateFrame keeps the chain intact, and its overflow check      *)
(* fails whenever the frame below already reaches outside the block.       *)
LEMMA CreateFrameIInv ==
  ASSUME IInv, NEW m \in Methods, CreateFrame(m)
  PROVE  IInv'
<1> USE SizeAssumption
<1>1. CASE StackOverflows(SlotNeed[m] + HeaderSize)
  <2>1. UNCHANGED <<sp, fp, mem>> /\ status' = "fatal"
    BY <1>1 DEF CreateFrame
  <2> QED
    BY <2>1 DEF IInv, TypeOK, Chained, OnlyNewestSpills
<1>2. CASE ~StackOverflows(SlotNeed[m] + HeaderSize)
  <2> DEFINE new == [prev |-> fp, method |-> m]
  <2>1. /\ mem' = [a \in DOMAIN mem \cup {sp} |-> IF a = sp THEN new ELSE mem[a]]
        /\ sp' = sp + FrameSize
        /\ fp' = sp
        /\ status' = status
    BY <1>2 DEF CreateFrame
  <2>2. sp + HeaderSize <= MaxSize
    BY <1>2 DEF StackOverflows, IInv, TypeOK
  <2>3. /\ DOMAIN mem' = DOMAIN mem \cup {sp}
        /\ mem'[sp] = new
        /\ \A a \in DOMAIN mem : a < sp /\ mem'[a] = mem[a]
    BY <2>1 DEF IInv, TypeOK, Chained
  <2>4. TypeOK'
    BY <2>1, <2>3 DEF IInv, TypeOK
  <2>5. Chained'
    BY <2>1, <2>3 DEF IInv, TypeOK, Chained
  <2>6. OnlyNewestSpills'
    <3> SUFFICES ASSUME NEW a \in DOMAIN mem'
                 PROVE  /\ a + HeaderSize <= MaxSize
                        /\ a /= fp' => a + FrameSize <= MaxSize
      BY DEF OnlyNewestSpills
    <3>1. CASE a = sp
      BY <3>1, <2>1, <2>2
    <3>2. CASE a \in DOMAIN mem
      BY <3>2, <2>2 DEF IInv, TypeOK, Chained, OnlyNewestSpills
    <3> QED
      BY <3>1, <3>2, <2>3
  <2> QED
    BY <2>4, <2>5, <2>6 DEF IInv
<1> QED
  BY <1>1, <1>2

(* Stack::PopFrame finds the caller's frame and gives its space back. *)
LEMMA PopFrameIInv ==
  ASSUME IInv, PopFrame
  PROVE  IInv'
<1> USE SizeAssumption
<1>1. fp \in DOMAIN mem /\ fp \in Nat /\ fp = sp - FrameSize /\ sp /= 0
  BY DEF IInv, TypeOK, Chained, PopFrame, IsEmpty
<1>2. /\ sp' = fp
      /\ fp' = mem[fp].prev
      /\ DOMAIN mem' = {x \in DOMAIN mem : x < fp}
      /\ \A a \in DOMAIN mem' : mem'[a] = mem[a]
      /\ mem' = [a \in {x \in DOMAIN mem : x < fp} |-> mem[a]]
      /\ status' = status
  BY DEF PopFrame, Live
<1>3. TypeOK'
  BY <1>1, <1>2 DEF IInv, TypeOK
<1>4. Chained'
  BY <1>1, <1>2 DEF IInv, TypeOK, Chained
<1>5. OnlyNewestSpills'
  BY <1>1, <1>2 DEF IInv, TypeOK, OnlyNewestSpills
<1> QED
  BY <1>3, <1>4, <1>5 DEF IInv

(* Every other step leaves the chain as it is or drops it altogether. *)
LEMMA OtherIInv ==
  ASSUME IInv, Clear \/ Spill \/ SpillCrash \/ UNCHANGED vars
  PROVE  IInv'
<1> USE SizeAssumption
<1>1. CASE Clear
  <2>1. sp' = 0 /\ fp' = Null /\ DOMAIN mem' = {} /\ status' = status
    BY <1>1 DEF Clear, Live, IInv, TypeOK
  <2>2. mem' = [a \in DOMAIN mem' |-> mem'[a]]
    BY <1>1 DEF Clear, Live
  <2> QED
    BY <2>1, <2>2 DEF IInv, TypeOK, Chained, OnlyNewestSpills
<1>2. CASE Spill
  <2>1. PICK a \in Spilled : mem' = [mem EXCEPT ![a].method = Garbage]
    BY <1>2 DEF Spill
  <2>2. /\ DOMAIN mem' = DOMAIN mem
        /\ \A b \in DOMAIN mem : mem'[b] \in FrameRecord /\ mem'[b].prev = mem[b].prev
        /\ mem' = [b \in DOMAIN mem' |-> mem'[b]]
    BY <2>1 DEF IInv, TypeOK, FrameRecord, Spilled
  <2>3. UNCHANGED <<sp, fp, status>>
    BY <1>2 DEF Spill
  <2>4. TypeOK'
    BY <2>2, <2>3 DEF IInv, TypeOK, FrameRecord
  <2>5. Chained' /\ OnlyNewestSpills'
    BY <2>2, <2>3 DEF IInv, TypeOK, Chained, OnlyNewestSpills
  <2> QED
    BY <2>4, <2>5 DEF IInv
<1>3. CASE SpillCrash
  BY <1>3 DEF SpillCrash, IInv, TypeOK, Chained, OnlyNewestSpills
<1>4. CASE UNCHANGED vars
  BY <1>4 DEF vars, IInv, TypeOK, Chained, OnlyNewestSpills
<1> QED
  BY <1>1, <1>2, <1>3, <1>4

(* The invariant holds in every reachable state. *)
THEOREM StackIInv == Spec => []IInv
<1>1. IInv /\ [Next]_vars => IInv'
  BY CreateFrameIInv, PopFrameIInv, OtherIInv DEF Next
<1> QED
  BY InitIInv, <1>1, PTL DEF Spec

(* Type correctness of the frame stack. *)
THEOREM TypeCorrect == Spec => []TypeOK
  BY StackIInv, PTL DEF IInv

(* Whatever sequence of calls, returns, unwindings and overruns happens,   *)
(* the prev_fp_ chain that Stack::PopFrame follows is intact.              *)
THEOREM ChainIntact == Spec => []Chained
  BY StackIInv, PTL DEF IInv

(* Although CheckStackOverflow asks for fewer bytes than PushFrame takes,  *)
(* no frame but the newest ever reaches outside the block, and the header  *)
(* of that one is inside.                                                  *)
THEOREM OverrunLimited == Spec => []OnlyNewestSpills
  BY StackIInv, PTL DEF IInv
-----------------------------------------------------------------------------
(* The refinement.  Frame i, counted from 0, is at At(i). *)
At(i) == i * FrameSize
Depth == sp \div FrameSize
Content == [i \in 1 .. Depth |-> mem[(i - 1) * FrameSize].method]

(* The block is filled with Depth frames from its start to sp_. *)
Filled ==
  /\ Depth \in Nat
  /\ sp = At(Depth)
  /\ \A i \in Nat : i < Depth => At(i) \in DOMAIN mem

(* Frames follow each other at the distance of their size. *)
LEMMA AtSteps ==
  /\ At(0) = 0
  /\ \A i \in Nat : At(i) \in Nat /\ At(i + 1) = At(i) + FrameSize
  BY SizeAssumption DEF At

(* An older frame ends where a newer one begins, or before. *)
LEMMA AtOrder ==
  ASSUME NEW i \in Nat, NEW j \in Nat, i < j
  PROVE  At(i) + FrameSize <= At(j)
<1>1. PICK d \in Nat : j = i + 1 + d
  <2> WITNESS j - i - 1 \in Nat
  <2> QED OBVIOUS
<1>2. d * FrameSize >= 0
  BY SizeAssumption
<1>3. (i + 1 + d) * FrameSize = i * FrameSize + FrameSize + d * FrameSize
  BY SizeAssumption
<1> QED
  BY <1>1, <1>2, <1>3, SizeAssumption DEF At

(* The depth of a stack that ends where frame n would begin is n. *)
LEMMA AtDepth ==
  ASSUME NEW n \in Nat, NEW s \in Nat, s = At(n)
  PROVE  s \div FrameSize = n
  BY SizeAssumption DEF At

(* The depth after a step that leaves sp_ at the end of n frames. *)
LEMMA DepthAfter ==
  ASSUME NEW n \in Nat, sp' = At(n)
  PROVE  Depth' = n /\ sp' = At(Depth')
<1>1. sp' \in Nat
  BY AtSteps
<1> QED
  BY <1>1, AtDepth DEF Depth

(* The content is as long as the stack is deep and gives the methods of    *)
(* the frames from the first on.                                           *)
LEMMA ContentIs ==
  ASSUME Depth \in Nat
  PROVE  /\ Content = [i \in 1 .. Depth |-> mem[At(i - 1)].method]
         /\ DOMAIN Content = 1 .. Depth
  BY DEF Content, At

(* The same of the state after a step. *)
LEMMA ContentAfter ==
  ASSUME Depth' \in Nat
  PROVE  Content' = [i \in 1 .. Depth' |-> mem'[At(i - 1)].method]
  BY DEF Content, At

(* A call enters its method, or ends the process. *)
LEMMA CreateFrameCalls ==
  ASSUME IInv, Filled, NEW m \in Methods, CreateFrame(m)
  PROVE  /\ Filled'
         /\ \/ Content' = Append(Content, m) /\ status' = status
            \/ Content' = Content /\ status' = "fatal"
<1> USE SizeAssumption
<1>1. CASE StackOverflows(SlotNeed[m] + HeaderSize)
  <2>1. UNCHANGED <<sp, fp, mem>> /\ status' = "fatal"
    BY <1>1 DEF CreateFrame
  <2> QED
    BY <2>1 DEF Filled, Depth, Content
<1>2. CASE ~StackOverflows(SlotNeed[m] + HeaderSize)
  <2>1. /\ mem' = [a \in DOMAIN mem \cup {sp} |->
                      IF a = sp THEN [prev |-> fp, method |-> m] ELSE mem[a]]
        /\ sp' = sp + FrameSize
        /\ status' = status
    BY <1>2 DEF CreateFrame
  <2>2. Depth \in Nat /\ sp = At(Depth) /\ \A i \in Nat : i < Depth => At(i) \in DOMAIN mem
    BY DEF Filled
  <2>3. Depth' = Depth + 1 /\ sp' = At(Depth')
    <3>1. sp' = At(Depth + 1)
      BY <2>1, <2>2, AtSteps
    <3> QED
      BY <3>1, <2>2, DepthAfter
  <2>4. \A i \in Nat : i < Depth => At(i) /= sp /\ mem'[At(i)] = mem[At(i)]
    <3> SUFFICES ASSUME NEW i \in Nat, i < Depth
                 PROVE  At(i) /= sp /\ mem'[At(i)] = mem[At(i)]
      OBVIOUS
    <3>1. At(i) + FrameSize <= sp /\ At(i) \in Nat
      BY <2>2, AtOrder, AtSteps
    <3> QED
      BY <3>1, <2>1, <2>2
  <2>5. DOMAIN mem' = DOMAIN mem \cup {sp} /\ mem'[sp].method = m
    BY <2>1
  <2>6. Filled'
    <3>1. ASSUME NEW i \in Nat, i < Depth' PROVE At(i) \in DOMAIN mem'
      <4>1. CASE i = Depth
        BY <4>1, <2>2, <2>5
      <4>2. CASE i < Depth
        BY <4>2, <2>2, <2>5
      <4> QED
        BY <3>1, <4>1, <4>2, <2>2, <2>3
    <3> QED
      BY <3>1, <2>2, <2>3 DEF Filled, At
  <2>7. Content' = Append(Content, m)
    <3>1. Content = [i \in 1 .. Depth |-> mem[At(i - 1)].method]
      BY <2>2, ContentIs
    <3>2. Content' = [i \in 1 .. Depth + 1 |-> mem'[At(i - 1)].method]
      BY <2>2, <2>3, ContentAfter
    <3>3. Append(Content, m) =
            [i \in 1 .. Depth + 1 |-> IF i = Depth + 1 THEN m ELSE mem[At(i - 1)].method]
      BY <3>1, <2>2
    <3>4. ASSUME NEW i \in 1 .. Depth + 1
          PROVE  mem'[At(i - 1)].method = IF i = Depth + 1 THEN m ELSE mem[At(i - 1)].method
      <4>1. CASE i = Depth + 1
        BY <4>1, <2>2, <2>5
      <4>2. CASE i /= Depth + 1
        <5>1. i - 1 \in Nat /\ i - 1 < Depth
          BY <4>2, <2>2
        <5> QED
          BY <5>1, <4>2, <2>4
      <4> QED
        BY <4>1, <4>2
    <3> QED
      BY <3>2, <3>3, <3>4
  <2> QED
    BY <2>1, <2>6, <2>7
<1> QED
  BY <1>1, <1>2

(* A return leaves the newest method. *)
LEMMA PopFrameCalls ==
  ASSUME IInv, Filled, PopFrame
  PROVE  /\ Filled'
         /\ Depth /= 0 /\ status' = status
         /\ Content' = SubSeq(Content, 1, Depth - 1)
<1> USE SizeAssumption
<1>1. /\ sp' = fp /\ status' = status
      /\ mem' = [a \in {x \in DOMAIN mem : x < fp} |-> mem[a]]
  BY DEF PopFrame, Live
<1>2. sp /= 0 /\ fp = sp - FrameSize /\ fp \in Nat
  BY DEF IInv, TypeOK, Chained, PopFrame, IsEmpty
<1>3. Depth \in Nat /\ sp = At(Depth) /\ \A i \in Nat : i < Depth => At(i) \in DOMAIN mem
  BY DEF Filled
<1>4. Depth /= 0
  BY <1>2, <1>3, AtSteps
<1>5. Depth - 1 \in Nat /\ (Depth - 1) + 1 = Depth
  BY <1>3, <1>4
<1>6. fp = At(Depth - 1)
  <2>1. At(Depth) = At(Depth - 1) + FrameSize /\ At(Depth - 1) \in Nat
    BY <1>5, AtSteps
  <2> QED
    BY <2>1, <1>2, <1>3
<1>7. Depth' = Depth - 1 /\ sp' = At(Depth')
  BY <1>1, <1>5, <1>6, DepthAfter
<1>8. ASSUME NEW i \in Nat, i < Depth - 1
      PROVE  At(i) \in DOMAIN mem' /\ mem'[At(i)] = mem[At(i)]
  <2>1. At(i) < fp
    BY <1>5, <1>6, <1>8, AtOrder, AtSteps
  <2>2. At(i) \in DOMAIN mem
    BY <1>3, <1>8
  <2> QED
    BY <1>1, <2>1, <2>2
<1>9. Filled'
  BY <1>5, <1>7, <1>8 DEF Filled, At
<1>10. Content' = SubSeq(Content, 1, Depth - 1)
  <2>1. Content = [i \in 1 .. Depth |-> mem[At(i - 1)].method]
    BY <1>3, ContentIs
  <2>2. Content' = [i \in 1 .. Depth - 1 |-> mem'[At(i - 1)].method]
    BY <1>5, <1>7, ContentAfter
  <2>3. SubSeq(Content, 1, Depth - 1) = [i \in 1 .. Depth - 1 |-> mem[At(i - 1)].method]
    BY <2>1, <1>3, <1>4
  <2>4. \A i \in 1 .. Depth - 1 : mem'[At(i - 1)].method = mem[At(i - 1)].method
    BY <1>3, <1>8
  <2> QED
    BY <2>2, <2>3, <2>4
<1> QED
  BY <1>1, <1>4, <1>9, <1>10

(* The other steps: unwinding to nothing, damage to the newest frame, the  *)
(* end of the process, or no change.                                       *)
LEMMA ClearCalls ==
  ASSUME IInv, Filled, Clear
  PROVE  Filled' /\ Content' = << >> /\ status' = status
<1>1. sp' = 0 /\ status' = status
  BY DEF Clear
<1>2. Depth' = 0 /\ sp' = At(Depth')
  BY <1>1, AtSteps, DepthAfter
<1>3. Filled'
  BY <1>2 DEF Filled, At
<1>4. Content' = << >>
  BY <1>2, ContentAfter
<1> QED
  BY <1>1, <1>3, <1>4

(* Damage beyond the block shows in the newest method only. *)
LEMMA SpillCalls ==
  ASSUME IInv, Filled, Spill
  PROVE  /\ Filled'
         /\ Depth /= 0 /\ status' = status
         /\ Content' = [Content EXCEPT ![Depth] = Garbage]
<1> USE SizeAssumption
<1>1. PICK a \in Spilled : mem' = [mem EXCEPT ![a].method = Garbage]
  BY DEF Spill
<1>2. sp' = sp /\ status' = status /\ Depth' = Depth
  BY DEF Spill, Depth
<1>3. Depth \in Nat /\ sp = At(Depth) /\ \A i \in Nat : i < Depth => At(i) \in DOMAIN mem
  BY DEF Filled
<1>4. a = fp /\ a \in DOMAIN mem /\ a \in Nat
  BY DEF Spilled, IInv, TypeOK, OnlyNewestSpills
<1>5. sp /= 0 /\ fp = sp - FrameSize
  BY <1>4 DEF IInv, TypeOK, Chained
<1>6. Depth /= 0
  BY <1>3, <1>5, AtSteps
<1>7. a = At(Depth - 1)
  <2>1. Depth - 1 \in Nat /\ (Depth - 1) + 1 = Depth
    BY <1>3, <1>6
  <2>2. At(Depth) = At(Depth - 1) + FrameSize /\ At(Depth - 1) \in Nat
    BY <2>1, AtSteps
  <2> QED
    BY <2>2, <1>3, <1>4, <1>5
<1>8. /\ DOMAIN mem' = DOMAIN mem
      /\ mem'[a].method = Garbage
      /\ \A b \in DOMAIN mem : b /= a => mem'[b] = mem[b]
  BY <1>1, <1>4 DEF IInv, TypeOK
<1>9. Filled'
  BY <1>2, <1>3, <1>8 DEF Filled, At
<1>10. Content' = [Content EXCEPT ![Depth] = Garbage]
  <2>1. Content = [i \in 1 .. Depth |-> mem[At(i - 1)].method]
    BY <1>3, ContentIs
  <2>2. Content' = [i \in 1 .. Depth |-> mem'[At(i - 1)].method]
    BY <1>2, <1>3, ContentAfter
  <2>3. ASSUME NEW i \in 1 .. Depth
        PROVE  mem'[At(i - 1)].method =
                 IF i = Depth THEN Garbage ELSE mem[At(i - 1)].method
    <3>1. CASE i = Depth
      BY <3>1, <1>7, <1>8
    <3>2. CASE i /= Depth
      <4>1. i - 1 \in Nat /\ Depth - 1 \in Nat /\ i - 1 < Depth - 1
        BY <3>2, <1>3
      <4>2. At(i - 1) + FrameSize <= a /\ At(i - 1) \in Nat
        BY <4>1, <1>7, AtOrder, AtSteps
      <4>3. At(i - 1) \in DOMAIN mem
        BY <4>1, <1>3
      <4> QED
        BY <3>2, <4>2, <4>3, <1>4, <1>8
    <3> QED
      BY <3>1, <3>2
  <2> QED
    BY <2>1, <2>2, <2>3
<1> QED
  BY <1>2, <1>6, <1>9, <1>10

(* A step that changes nothing of the block changes no method. *)
LEMMA IdleCalls ==
  ASSUME Filled, UNCHANGED <<sp, mem>>
  PROVE  Filled' /\ Content' = Content
  BY DEF Filled, Depth, Content, At

(* The substitution of the refinement, in the terms above. *)
LEMMA CallsNext ==
  ASSUME Depth \in Nat, status = "ok",
         \/ \E m \in Methods : Content' = Append(Content, m) /\ status' = status
         \/ Depth /= 0 /\ Content' = SubSeq(Content, 1, Depth - 1) /\ status' = status
         \/ Content' = << >> /\ status' = status
         \/ Depth /= 0 /\ Content' = [Content EXCEPT ![Depth] = Garbage] /\ status' = status
         \/ Content' = Content /\ status' /= "ok"
  PROVE  Calls!Next
<1>1. Len(Content) = Depth /\ (Depth /= 0 => Content /= << >>)
  BY ContentIs
<1>2. CASE \E m \in Methods : Content' = Append(Content, m) /\ status' = status
  BY <1>2 DEF Calls!Next, Calls!Enter, Content, Depth
<1>3. CASE Depth /= 0 /\ Content' = SubSeq(Content, 1, Depth - 1) /\ status' = status
  BY <1>1, <1>3 DEF Calls!Next, Calls!Leave, Calls!Newest, Content, Depth
<1>4. CASE Content' = << >> /\ status' = status
  BY <1>4 DEF Calls!Next, Calls!Unwind, Content, Depth
<1>5. CASE Depth /= 0 /\ Content' = [Content EXCEPT ![Depth] = Garbage] /\ status' = status
  BY <1>1, <1>5 DEF Calls!Next, Calls!Damage, Calls!Newest, Content, Depth
<1>6. CASE Content' = Content /\ status' /= "ok"
  BY <1>6 DEF Calls!Next, Calls!Overflow, Content, Depth
<1> QED
  BY <1>2, <1>3, <1>4, <1>5, <1>6

(* The bump-allocated block implements the LIFO call stack, for all sizes  *)
(* of block, frame and header: calls, returns, unwinding and damage act on *)
(* the methods in the frames as they do on a sequence, and the overrun of  *)
(* the block shows in no frame but the newest.                             *)
THEOREM BlockIsCallStack == Spec => ImplementsCallStack
<1>1. Init => Filled /\ Calls!Init
  <2> SUFFICES ASSUME Init PROVE Filled /\ Calls!Init
    OBVIOUS
  <2>1. sp = 0 /\ status = "ok"
    BY DEF Init
  <2>2. Depth = 0
    BY <2>1, AtSteps, AtDepth DEF Depth
  <2>3. Filled
    BY <2>1, <2>2, AtSteps DEF Filled
  <2>4. Content = << >>
    BY <2>2, ContentIs
  <2> QED
    BY <2>1, <2>3, <2>4 DEF Calls!Init, Content, Depth
<1>2. IInv /\ Filled /\ [Next]_vars => Filled' /\ [Calls!Next]_(Calls!callvars)
  <2> SUFFICES ASSUME IInv, Filled, [Next]_vars
               PROVE  Filled' /\ [Calls!Next]_(Calls!callvars)
    OBVIOUS
  <2>0. Depth \in Nat
    BY DEF Filled
  <2>1. ASSUME NEW m \in Methods, status = "ok", CreateFrame(m)
        PROVE  Filled' /\ Calls!Next
    BY <2>0, <2>1, CreateFrameCalls, CallsNext
  <2>2. CASE status = "ok" /\ PopFrame
    BY <2>0, <2>2, PopFrameCalls, CallsNext
  <2>3. CASE status = "ok" /\ Clear
    BY <2>0, <2>3, ClearCalls, CallsNext
  <2>4. CASE status = "ok" /\ Spill
    BY <2>0, <2>4, SpillCalls, CallsNext
  <2>5. CASE status = "ok" /\ SpillCrash
    <3>1. UNCHANGED <<sp, mem>> /\ status' /= "ok"
      BY <2>5 DEF SpillCrash
    <3> QED
      BY <2>0, <2>5, <3>1, IdleCalls, CallsNext
  <2>6. CASE UNCHANGED vars
    <3>1. UNCHANGED <<sp, mem>> /\ status' = status
      BY <2>6 DEF vars
    <3>2. Filled' /\ Content' = Content
      BY <3>1, IdleCalls
    <3> QED
      BY <3>1, <3>2 DEF Calls!callvars, Content, Depth
  <2> QED
    BY <2>1, <2>2, <2>3, <2>4, <2>5, <2>6 DEF Next
<1> QED
  BY <1>1, <1>2, StackIInv, PTL DEF Spec, ImplementsCallStack, Calls!Spec

=============================================================================
