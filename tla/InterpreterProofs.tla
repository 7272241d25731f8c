-------------------------- MODULE InterpreterProofs --------------------------
(***************************************************************************)
(* Proofs about Interpreter for every class hierarchy, every set of        *)
(* well-formed programs and every stack size: every frame resumes at an    *)
(* instruction (TypeCorrect), the call chain is never mixed up by          *)
(* class initialisation (ChainKept), no initialiser runs twice             *)
(* (InitialisedOnce), superclasses begin first (SupersBegin), an           *)
(* instruction takes effect only when its class has begun or is held up by *)
(* a superclass (UsedWhenBegun), and exceptions are caught where the table *)
(* protects the instruction (CaughtInRegion).                              *)
(***************************************************************************)
EXTENDS Interpreter, SequenceTheorems, TLAPS

(* Frames that may stand on the stack of program p *)
FrameSet(p) ==
  {f \in [method : Methods, next : Nat, at : Nat] : f.at \in DOMAIN Code[p][f.method]}

ClinitsActive(fs, ph) ==
  \A i \in 1 .. Len(fs) : fs[i].method \in Clinit =>
    /\ ph[ClassOf[fs[i].method]] \in {"scheduled", "running"}
    /\ ph[ClassOf[fs[i].method]] = "scheduled" => fs[i].next = 0 /\ fs[i].at = 0

ClinitsDistinct(fs) ==
  \A i, j \in 1 .. Len(fs) :
    fs[i].method \in Clinit /\ fs[j].method = fs[i].method => i = j

Linked(p, fs, ph) ==
  /\ fs /= << >> => fs[1].method = Main
  /\ \A i \in 1 .. Len(fs) - 1 : Link(p, ph, fs[i], fs[i + 1])

(* The part of the invariant about the stack: the frames are linked, and a *)
(* frame of an initialiser belongs to a class in initialisation, has not   *)
(* moved if it has not begun, and is the only one of its class.            *)
StackOK(p, fs, ph) ==
  /\ p \in Programs
  /\ fs \in Seq(FrameSet(p))
  /\ ph \in [Classes -> Phases]
  /\ Linked(p, fs, ph)
  /\ ClinitsActive(fs, ph)
  /\ ClinitsDistinct(fs)

(* The inductive invariant.  CallChain alone is not inductive: that the    *)
(* frame InitClass pushes is linked to the one below depends on what       *)
(* InitClass was called for, and that fetching the first instruction of an *)
(* initialiser disturbs no lower frame depends on initialisers being       *)
(* distinct, which in turn depends on clinit_started_.                     *)
IInv ==
  /\ StackOK(prog, frames, phase)
  /\ Alive => frames /= << >>
  /\ pc \in Nat
  /\ mode \in Modes
  /\ subject \in IF mode \in {"init", "unwind"} THEN Classes ELSE Classes \cup {NoClass}
  /\ started \subseteq Classes
  /\ Alive => \A k \in Classes : k \in started <=> phase[k] /= "untouched"
  /\ mode \in {"run", "init"} => Top.next \in DOMAIN Code[prog][Top.method]
  /\ mode = "init" => subject \notin started /\ Awaits(prog, phase, Top, subject)

-----------------------------------------------------------------------------
(* What WellFormed says of one instruction: its type, and where control    *)
(* may go from it.                                                         *)
LEMMA InstrFacts ==
  ASSUME NEW p \in Programs, NEW m \in Methods, NEW x \in DOMAIN Code[p][m],
         NEW i, i = Code[p][m][x]
  PROVE  /\ x \in Nat /\ i \in Instrs
         /\ i.op \notin {"return", "athrow", "branch"} => x + i.len \in DOMAIN Code[p][m]
         /\ \A o \in i.offs : x + o \in DOMAIN Code[p][m]
         /\ i.op \in {"invokestatic", "invoke"} => i.m \in Methods \ Clinit
         /\ i.op = "classop" => i.cls \in Classes
<1>1. WellFormed(p)
  BY ProgramAssumption
<1>2. QED
  BY <1>1, Zenon DEF WellFormed, Instrs

(* A new frame of any method starts at its first instruction *)
LEMMA NewFrameFacts ==
  ASSUME NEW p \in Programs, NEW m \in Methods
  PROVE  /\ NewFrame(m) \in FrameSet(p)
         /\ NewFrame(m).method = m /\ NewFrame(m).next = 0 /\ NewFrame(m).at = 0
<1>1. 0 \in DOMAIN Code[p][m]
  BY ProgramAssumption, Zenon DEF WellFormed
<1>2. QED
  BY <1>1 DEF NewFrame, FrameSet

(* Frames below the newest are linked as before when the history changes   *)
(* only for classes that have no initialiser among them.                   *)
LEMMA PhaseKeepsStack ==
  ASSUME NEW p, NEW fs, NEW ph, NEW ph2,
         StackOK(p, fs, ph), fs /= << >>, ph2 \in [Classes -> Phases],
         \A j \in 1 .. Len(fs) - 1 : fs[j].method \in Clinit
            => ph2[ClassOf[fs[j].method]] = ph[ClassOf[fs[j].method]],
         fs[Len(fs)].method \in Clinit
            => \/ ph2[ClassOf[fs[Len(fs)].method]] = ph[ClassOf[fs[Len(fs)].method]]
               \/ ph2[ClassOf[fs[Len(fs)].method]] = "running"
  PROVE  StackOK(p, fs, ph2)
<1>1. fs \in Seq(FrameSet(p)) /\ Len(fs) \in Nat
  BY DEF StackOK
<1>2. Linked(p, fs, ph2)
  <2>1. ASSUME NEW j \in 1 .. Len(fs) - 1
        PROVE  Link(p, ph2, fs[j], fs[j + 1])
    <3>1. Link(p, ph, fs[j], fs[j + 1])
      BY <2>1 DEF StackOK, Linked
    <3>2. fs[j].method \in Clinit => ph2[ClassOf[fs[j].method]] = ph[ClassOf[fs[j].method]]
      BY <2>1
    <3>3. QED
      BY <3>1, <3>2, Zenon DEF Link, Awaits, Unbegun
  <2>2. QED
    BY <2>1, Zenon DEF StackOK, Linked
<1>3. ClinitsActive(fs, ph2)
  <2>1. ASSUME NEW j \in 1 .. Len(fs), fs[j].method \in Clinit
        PROVE  \/ ph2[ClassOf[fs[j].method]] = ph[ClassOf[fs[j].method]]
               \/ ph2[ClassOf[fs[j].method]] = "running"
    <3>1. j \in 1 .. Len(fs) - 1 \/ j = Len(fs)
      BY <1>1, <2>1
    <3>2. QED
      BY <3>1, <2>1
  <2>2. QED
    BY <2>1 DEF StackOK, ClinitsActive
<1>4. QED
  BY <1>2, <1>3 DEF StackOK

(* The newest frame may be moved within its method *)
LEMMA SetTopKeepsStack ==
  ASSUME NEW p, NEW fs, NEW ph, NEW f,
         StackOK(p, fs, ph), fs /= << >>, f \in FrameSet(p),
         f.method = fs[Len(fs)].method,
         f.method \in Clinit /\ ph[ClassOf[f.method]] = "scheduled" => f.next = 0 /\ f.at = 0
  PROVE  /\ StackOK(p, [fs EXCEPT ![Len(fs)] = f], ph)
         /\ [fs EXCEPT ![Len(fs)] = f] /= << >>
         /\ Len([fs EXCEPT ![Len(fs)] = f]) = Len(fs)
         /\ [fs EXCEPT ![Len(fs)] = f][Len(fs)] = f
<1> DEFINE gs == [fs EXCEPT ![Len(fs)] = f]
<1>1. fs \in Seq(FrameSet(p)) /\ Len(fs) \in Nat \ {0} /\ DOMAIN fs = 1 .. Len(fs)
  BY EmptySeq DEF StackOK
<1>a. Len(fs) \in 1 .. Len(fs) /\ 1 \in 1 .. Len(fs)
  BY <1>1
<1>2. gs \in Seq(FrameSet(p)) /\ Len(gs) = Len(fs)
  <2> DEFINE S == FrameSet(p)
  <2> HIDE DEF S, gs
  <2>1. fs \in Seq(S) /\ f \in S
    BY <1>1 DEF S
  <2>2. [fs EXCEPT ![Len(fs)] = f] \in Seq(S) /\ Len([fs EXCEPT ![Len(fs)] = f]) = Len(fs)
    BY <2>1, <1>a, ExceptSeq
  <2>3. QED
    BY <2>2 DEF S, gs
<1>b. Len(gs) = Len(fs) /\ Len(fs) \in Nat
  BY <1>1, <1>2
<1>3. \A j \in 1 .. Len(fs) : gs[j] = IF j = Len(fs) THEN f ELSE fs[j]
  BY <1>1
<1> HIDE DEF gs
<1>4. \A j \in 1 .. Len(fs) : gs[j].method = fs[j].method
  BY <1>3
<1>5. Linked(p, gs, ph)
  <2>1. gs[1].method = Main
    <3>1. fs[1].method = Main
      BY Zenon DEF StackOK, Linked
    <3>2. QED
      BY <3>1, <1>a, <1>4
  <2>2. ASSUME NEW j \in 1 .. Len(gs) - 1 PROVE Link(p, ph, gs[j], gs[j + 1])
    <3>1. /\ j \in 1 .. Len(fs) - 1 /\ j \in 1 .. Len(fs) /\ j + 1 \in 1 .. Len(fs)
          /\ j /= Len(fs)
      BY <2>2, <1>b
    <3>2. gs[j] = fs[j] /\ gs[j + 1].method = fs[j + 1].method
      BY <3>1, <1>3, <1>4
    <3>3. Link(p, ph, fs[j], fs[j + 1])
      BY <3>1 DEF StackOK, Linked
    <3>4. QED
      BY <3>2, <3>3, Zenon DEF Link
  <2>3. QED
    BY <2>1, <2>2, Zenon DEF Linked
<1>6. ClinitsActive(gs, ph)
  <2>1. ASSUME NEW j \in 1 .. Len(gs), gs[j].method \in Clinit
        PROVE  /\ ph[ClassOf[gs[j].method]] \in {"scheduled", "running"}
               /\ ph[ClassOf[gs[j].method]] = "scheduled" => gs[j].next = 0 /\ gs[j].at = 0
    <3>1. j \in 1 .. Len(fs) /\ gs[j].method = fs[j].method
      BY <2>1, <1>2, <1>4
    <3>2. /\ ph[ClassOf[fs[j].method]] \in {"scheduled", "running"}
          /\ ph[ClassOf[fs[j].method]] = "scheduled" => fs[j].next = 0 /\ fs[j].at = 0
      BY <2>1, <3>1 DEF StackOK, ClinitsActive
    <3>3. CASE j = Len(fs)
      <4>1. gs[j] = f
        BY <3>1, <3>3, <1>3
      <4>2. QED
        BY <4>1, <3>1, <3>2, <2>1
    <3>4. CASE j /= Len(fs)
      <4>1. gs[j] = fs[j]
        BY <3>1, <3>4, <1>3
      <4>2. QED
        BY <4>1, <3>2
    <3>5. QED
      BY <3>3, <3>4
  <2>2. QED
    BY <2>1, Zenon DEF ClinitsActive
<1>7. ClinitsDistinct(gs)
  BY <1>2, <1>4, Zenon DEF StackOK, ClinitsDistinct
<1>8. gs /= << >> /\ gs[Len(fs)] = f
  <2>1. gs[Len(fs)] = f
    BY <1>a, <1>3
  <2>2. Len(gs) /= 0
    BY <1>1, <1>b
  <2>3. QED
    BY <2>1, <2>2, EmptySeq
<1>9. StackOK(p, gs, ph)
  BY <1>2, <1>5, <1>6, <1>7, Zenon DEF StackOK
<1>10. QED
  BY <1>2, <1>8, <1>9, Zenon DEF gs

(* A frame for m may be pushed on a frame that waits for it *)
LEMMA PushKeepsStack ==
  ASSUME NEW p, NEW fs, NEW ph, NEW m \in Methods,
         StackOK(p, fs, ph), fs /= << >>,
         Link(p, ph, fs[Len(fs)], NewFrame(m)),
         m \in Clinit => /\ ph[ClassOf[m]] = "scheduled"
                         /\ \A j \in 1 .. Len(fs) : fs[j].method /= m
  PROVE  /\ StackOK(p, Append(fs, NewFrame(m)), ph)
         /\ Append(fs, NewFrame(m)) /= << >>
         /\ Append(fs, NewFrame(m))[Len(Append(fs, NewFrame(m)))] = NewFrame(m)
<1> DEFINE g == NewFrame(m)
<1> DEFINE gs == Append(fs, g)
<1>1. fs \in Seq(FrameSet(p)) /\ Len(fs) \in Nat \ {0} /\ p \in Programs
  BY EmptySeq DEF StackOK
<1>2. g \in FrameSet(p) /\ g.method = m /\ g.next = 0 /\ g.at = 0
  BY <1>1, NewFrameFacts
<1> HIDE DEF g
<1>3. /\ gs \in Seq(FrameSet(p)) /\ gs /= << >> /\ Len(gs) = Len(fs) + 1
      /\ \A j \in 1 .. Len(fs) : gs[j] = fs[j]
      /\ gs[Len(fs) + 1] = g
  BY <1>1, <1>2, AppendProperties
<1> HIDE DEF gs
<1>4. ASSUME NEW j \in 1 .. Len(gs)
      PROVE  j \in 1 .. Len(fs) \/ j = Len(fs) + 1
  BY <1>1, <1>3, <1>4
<1>5. Linked(p, gs, ph)
  <2>1. gs[1].method = Main
    <3>1. fs[1].method = Main /\ 1 \in 1 .. Len(fs)
      BY <1>1 DEF StackOK, Linked
    <3>2. QED
      BY <3>1, <1>3
  <2>2. ASSUME NEW j \in 1 .. Len(gs) - 1 PROVE Link(p, ph, gs[j], gs[j + 1])
    <3>1. CASE j = Len(fs)
      <4>1. gs[j] = fs[Len(fs)] /\ gs[j + 1] = g
        BY <3>1, <1>1, <1>3
      <4>2. QED
        BY <4>1, Zenon DEF g
    <3>2. CASE j /= Len(fs)
      <4>1. j \in 1 .. Len(fs) - 1 /\ j \in 1 .. Len(fs) /\ j + 1 \in 1 .. Len(fs)
        BY <3>2, <2>2, <1>1, <1>3
      <4>2. Link(p, ph, fs[j], fs[j + 1])
        BY <4>1 DEF StackOK, Linked
      <4>3. gs[j] = fs[j] /\ gs[j + 1] = fs[j + 1]
        BY <4>1, <1>3
      <4>4. QED
        BY <4>2, <4>3, Zenon
    <3>3. QED
      BY <3>1, <3>2
  <2>3. QED
    BY <2>1, <2>2, Zenon DEF Linked
<1>6. ClinitsActive(gs, ph)
  <2>1. ASSUME NEW j \in 1 .. Len(gs), gs[j].method \in Clinit
        PROVE  /\ ph[ClassOf[gs[j].method]] \in {"scheduled", "running"}
               /\ ph[ClassOf[gs[j].method]] = "scheduled" => gs[j].next = 0 /\ gs[j].at = 0
    <3>1. CASE j \in 1 .. Len(fs)
      <4>1. gs[j] = fs[j]
        BY <3>1, <1>3
      <4>2. QED
        BY <4>1, <3>1, <2>1 DEF StackOK, ClinitsActive
    <3>2. CASE j = Len(fs) + 1
      <4>1. gs[j] = g
        BY <3>2, <1>3
      <4>2. QED
        BY <4>1, <1>2, <2>1
    <3>3. QED
      BY <3>1, <3>2, <1>4
  <2>2. QED
    BY <2>1, Zenon DEF ClinitsActive
<1>7. ClinitsDistinct(gs)
  <2>1. ASSUME NEW j \in 1 .. Len(gs), NEW l \in 1 .. Len(gs),
               gs[j].method \in Clinit, gs[l].method = gs[j].method
        PROVE  j = l
    <3>1. CASE j \in 1 .. Len(fs) /\ l \in 1 .. Len(fs)
      <4>1. gs[j] = fs[j] /\ gs[l] = fs[l]
        BY <3>1, <1>3
      <4>2. QED
        BY <4>1, <3>1, <2>1 DEF StackOK, ClinitsDistinct
    <3>2. CASE j = Len(fs) + 1 /\ l \in 1 .. Len(fs)
      <4>1. gs[j] = g /\ gs[l] = fs[l]
        BY <3>2, <1>3
      <4>2. QED
        BY <4>1, <3>2, <2>1, <1>2
    <3>3. CASE j \in 1 .. Len(fs) /\ l = Len(fs) + 1
      <4>1. gs[j] = fs[j] /\ gs[l] = g
        BY <3>3, <1>3
      <4>2. QED
        BY <4>1, <3>3, <2>1, <1>2
    <3>4. QED
      BY <3>1, <3>2, <3>3, <1>4
  <2>2. QED
    BY <2>1, Zenon DEF ClinitsDistinct
<1>8. StackOK(p, gs, ph)
  BY <1>3, <1>5, <1>6, <1>7, Zenon DEF StackOK
<1>9. QED
  BY <1>3, <1>8, Zenon DEF g, gs

(* The newest frame may be popped, whatever becomes of its class *)
LEMMA PopKeepsStack ==
  ASSUME NEW p, NEW fs, NEW ph, NEW ph2,
         StackOK(p, fs, ph), fs /= << >>, ph2 \in [Classes -> Phases],
         \A j \in 1 .. Len(fs) - 1 : fs[j].method \in Clinit
            => ph2[ClassOf[fs[j].method]] = ph[ClassOf[fs[j].method]]
  PROVE  /\ StackOK(p, Pop(fs), ph2)
         /\ Len(fs) /= 1 => Pop(fs) /= << >>
<1> DEFINE gs == Pop(fs)
<1>1. /\ fs \in Seq(FrameSet(p)) /\ Len(fs) \in Nat \ {0} /\ p \in Programs
      /\ \A j \in 1 .. Len(fs) - 1 : fs[j] \in FrameSet(p)
  BY EmptySeq DEF StackOK
<1>2. /\ gs \in Seq(FrameSet(p)) /\ Len(gs) = Len(fs) - 1
      /\ \A j \in 1 .. Len(gs) : gs[j] = fs[j]
  <2>1. /\ gs \in Seq(FrameSet(p))
        /\ Len(gs) = IF 1 <= Len(fs) - 1 THEN Len(fs) - 1 - 1 + 1 ELSE 0
        /\ \A j \in 1 .. Len(fs) - 1 - 1 + 1 : gs[j] = fs[1 + j - 1]
    BY <1>1, SubSeqProperties DEF Pop
  <2>2. Len(gs) = Len(fs) - 1
    <3>1. Len(fs) \in Nat \ {0}
      BY <1>1
    <3>2. Len(gs) = IF 1 <= Len(fs) - 1 THEN Len(fs) - 1 - 1 + 1 ELSE 0
      BY <2>1
    <3>3. \A n \in Nat \ {0} : (IF 1 <= n - 1 THEN n - 1 - 1 + 1 ELSE 0) = n - 1
      OBVIOUS
    <3>4. QED
      BY <3>1, <3>2, <3>3, Zenon
  <2>3. ASSUME NEW j \in 1 .. Len(gs) PROVE gs[j] = fs[j]
    <3>1. j \in 1 .. Len(fs) - 1 - 1 + 1 /\ 1 + j - 1 = j
      BY <2>2, <2>3, <1>1
    <3>2. gs[j] = fs[1 + j - 1]
      BY <2>1, <3>1
    <3>3. QED
      BY <3>1, <3>2
  <2>4. QED
    BY <2>1, <2>2, <2>3
<1> HIDE DEF gs
<1>3. ASSUME NEW j \in 1 .. Len(gs) - 1 PROVE Link(p, ph2, gs[j], gs[j + 1])
  <2>1. /\ j \in 1 .. Len(fs) - 1 /\ j \in 1 .. Len(gs) /\ j + 1 \in 1 .. Len(gs)
    BY <1>1, <1>2, <1>3
  <2>2. Link(p, ph, fs[j], fs[j + 1])
    BY <2>1 DEF StackOK, Linked
  <2>3. fs[j].method \in Clinit => ph2[ClassOf[fs[j].method]] = ph[ClassOf[fs[j].method]]
    BY <2>1
  <2>4. Link(p, ph2, fs[j], fs[j + 1])
    BY <2>2, <2>3, Zenon DEF Link, Awaits, Unbegun
  <2>5. gs[j] = fs[j] /\ gs[j + 1] = fs[j + 1]
    BY <2>1, <1>2
  <2>6. QED
    BY <2>4, <2>5, Zenon
<1>4. gs /= << >> => gs[1].method = Main
  <2>1. ASSUME gs /= << >> PROVE gs[1].method = Main
    <3>1. 1 \in 1 .. Len(gs)
      BY <2>1, <1>2, EmptySeq
    <3>2. fs[1].method = Main
      BY Zenon DEF StackOK, Linked
    <3>3. QED
      BY <3>1, <3>2, <1>2
  <2>2. QED
    BY <2>1
<1>5. ClinitsActive(gs, ph2)
  <2>1. ASSUME NEW j \in 1 .. Len(gs), gs[j].method \in Clinit
        PROVE  /\ ph2[ClassOf[gs[j].method]] \in {"scheduled", "running"}
               /\ ph2[ClassOf[gs[j].method]] = "scheduled" => gs[j].next = 0 /\ gs[j].at = 0
    <3>1. gs[j] = fs[j] /\ j \in 1 .. Len(fs) /\ j \in 1 .. Len(fs) - 1
      BY <2>1, <1>1, <1>2
    <3>2. ph2[ClassOf[fs[j].method]] = ph[ClassOf[fs[j].method]]
      BY <3>1, <2>1
    <3>3. QED
      BY <3>1, <3>2, <2>1 DEF StackOK, ClinitsActive
  <2>2. QED
    BY <2>1, Zenon DEF ClinitsActive
<1>6. ClinitsDistinct(gs)
  <2>1. ASSUME NEW j \in 1 .. Len(gs), NEW l \in 1 .. Len(gs),
               gs[j].method \in Clinit, gs[l].method = gs[j].method
        PROVE  j = l
    <3>1. j \in 1 .. Len(fs) /\ l \in 1 .. Len(fs) /\ gs[j] = fs[j] /\ gs[l] = fs[l]
      BY <2>1, <1>1, <1>2
    <3>2. QED
      BY <3>1, <2>1 DEF StackOK, ClinitsDistinct
  <2>2. QED
    BY <2>1, Zenon DEF ClinitsDistinct
<1>7. Len(fs) /= 1 => gs /= << >>
  BY <1>1, <1>2, EmptySeq
<1>8. StackOK(p, gs, ph2)
  BY <1>1, <1>2, <1>3, <1>4, <1>5, <1>6, Zenon DEF StackOK, Linked
<1>9. QED
  BY <1>7, <1>8 DEF gs

(* A frame that is not the newest resumes at an instruction *)
LEMMA LowerFrameResumes ==
  ASSUME NEW p, NEW fs, NEW ph, StackOK(p, fs, ph), NEW j \in 1 .. Len(fs) - 1
  PROVE  fs[j].next \in DOMAIN Code[p][fs[j].method]
<1>1. p \in Programs /\ fs \in Seq(FrameSet(p)) /\ Len(fs) \in Nat
  BY DEF StackOK
<1>2. fs[j] \in FrameSet(p)
  <2>1. j \in 1 .. Len(fs)
    BY <1>1
  <2>2. QED
    BY <1>1, <2>1, ElementOfSeq
<1>3. Link(p, ph, fs[j], fs[j + 1])
  BY DEF StackOK, Linked
<1>4. /\ fs[j].method \in Methods
      /\ fs[j].at \in DOMAIN Code[p][fs[j].method]
  BY <1>2 DEF FrameSet
<1>5. CASE fs[j].next = fs[j].at
  BY <1>4, <1>5
<1>6. CASE fs[j].next = 0
  <2>1. 0 \in DOMAIN Code[p][fs[j].method]
    BY <1>1, <1>4, ProgramAssumption, Zenon DEF WellFormed
  <2>2. QED
    BY <1>6, <2>1
<1>7. CASE Called(p, fs[j], fs[j + 1].method)
  <2> DEFINE x == fs[j].at
             i == Code[p][fs[j].method][x]
  <2>1. i.op \notin {"return", "athrow", "branch"} => x + i.len \in DOMAIN Code[p][fs[j].method]
    BY <1>1, <1>4, InstrFacts, Zenon
  <2>2. i.op \in {"invokestatic", "invoke"} /\ fs[j].next = x + i.len
    BY <1>7 DEF Called, InstrAt
  <2>3. QED
    BY <2>1, <2>2
<1>8. QED
  BY <1>3, <1>5, <1>6, <1>7 DEF Link, Awaits, Unbegun

(* The newest frame and the instruction it is about to execute *)
LEMMA TopFacts ==
  ASSUME IInv, frames /= << >>
  PROVE  /\ prog \in Programs /\ frames \in Seq(FrameSet(prog))
         /\ Len(frames) \in Nat \ {0} /\ Len(frames) \in 1 .. Len(frames)
         /\ Top \in FrameSet(prog)
         /\ Top.method \in Methods /\ Top.next \in Nat
         /\ Top.at \in DOMAIN Code[prog][Top.method]
<1>1. prog \in Programs /\ frames \in Seq(FrameSet(prog))
  BY DEF IInv, StackOK
<1>2. Len(frames) \in Nat \ {0} /\ Len(frames) \in 1 .. Len(frames)
  BY <1>1, EmptySeq
<1>3. Top \in FrameSet(prog)
  BY <1>1, <1>2, ElementOfSeq DEF Top
<1>4. QED
  BY <1>1, <1>2, <1>3 DEF FrameSet

(* While the loop runs, the newest frame has an instruction to fetch *)
LEMMA RunFacts ==
  ASSUME IInv, mode = "run"
  PROVE  /\ frames /= << >>
         /\ Top.next \in DOMAIN Code[prog][Top.method]
         /\ Top.next \in Nat /\ Instr \in Instrs
         /\ Instr.op \notin {"return", "athrow", "branch"}
              => Top.next + Instr.len \in DOMAIN Code[prog][Top.method]
         /\ \A o \in Instr.offs : Top.next + o \in DOMAIN Code[prog][Top.method]
         /\ Instr.op \in {"invokestatic", "invoke"} => Instr.m \in Methods \ Clinit
         /\ Instr.op = "classop" => Instr.cls \in Classes
<1>1. frames /= << >> /\ Top.next \in DOMAIN Code[prog][Top.method]
  BY DEF IInv, Alive
<1>2. prog \in Programs /\ Top.method \in Methods
  BY <1>1, TopFacts
<1>3. QED
  BY <1>1, <1>2, InstrFacts, Zenon DEF Instr

(* Of two initialisers on the stack only the newest frame's class is Top's *)
LEMMA TopClassUnique ==
  ASSUME IInv, frames /= << >>, Top.method \in Clinit,
         NEW j \in 1 .. Len(frames) - 1, frames[j].method \in Clinit
  PROVE  ClassOf[frames[j].method] /= ClassOf[Top.method]
<1>1. j \in 1 .. Len(frames) /\ Len(frames) \in 1 .. Len(frames) /\ j /= Len(frames)
  <2>1. Len(frames) \in Nat \ {0}
    BY TopFacts
  <2>2. QED
    BY <2>1
<1>2. ClinitsDistinct(frames)
  BY DEF IInv, StackOK
<1>3. frames[j].method /= Top.method
  BY <1>1, <1>2, Zenon DEF ClinitsDistinct, Top
<1>4. QED
  BY <1>3, MethodAssumption

(* Fetching the first instruction of an initialiser disturbs no frame *)
LEMMA BegunFacts ==
  ASSUME IInv, frames /= << >>
  PROVE  /\ StackOK(prog, frames, Begun)
         /\ Top.method \in Clinit => Begun[ClassOf[Top.method]] = "running"
         /\ \A k \in Classes : phase[k] = "untouched" <=> Begun[k] = "untouched"
<1>1. phase \in [Classes -> Phases] /\ StackOK(prog, frames, phase)
  BY DEF IInv, StackOK
<1>2. Begun \in [Classes -> Phases]
  BY <1>1 DEF Begun, Phases
<1>3. \A m \in Methods : ClassOf[m] \in Classes
  BY MethodAssumption
<1>4. ASSUME NEW j \in 1 .. Len(frames) - 1, frames[j].method \in Clinit
      PROVE  Begun[ClassOf[frames[j].method]] = phase[ClassOf[frames[j].method]]
  <2>1. ClassOf[frames[j].method] \in Classes
    BY <1>3, <1>4, MethodAssumption
  <2>2. Top.method \in Clinit => ClassOf[frames[j].method] /= ClassOf[Top.method]
    BY <1>4, TopClassUnique, Zenon
  <2>3. QED
    BY <2>1, <2>2 DEF Begun
<1>5. Top.method \in Clinit => Begun[ClassOf[Top.method]] = "running"
  <2>1. ASSUME Top.method \in Clinit PROVE phase[ClassOf[Top.method]] \in {"scheduled", "running"}
    BY <2>1, <1>1, TopFacts, Zenon DEF StackOK, ClinitsActive, Top
  <2>2. Top.method \in Methods /\ ClassOf[Top.method] \in Classes
    BY <1>3, TopFacts
  <2>3. QED
    BY <2>1, <2>2 DEF Begun
<1>6. StackOK(prog, frames, Begun)
  BY <1>1, <1>2, <1>4, <1>5, PhaseKeepsStack, Zenon DEF Top
<1>7. \A k \in Classes : phase[k] = "untouched" <=> Begun[k] = "untouched"
  BY DEF Begun
<1>8. QED
  BY <1>5, <1>6, <1>7

-----------------------------------------------------------------------------
(* What the turns of the loop have in common.  Each of these lemmas is one *)
(* way a fetched instruction can end.                                      *)

(* The process ends *)
LEMMA EndsIInv ==
  ASSUME IInv, mode = "run", pc' = Top.next, prog' = prog,
         NEW how \in {"fatal", "abort"}, Ends(how)
  PROVE  IInv'
<1>1. frames /= << >> /\ Top.next \in Nat
  BY RunFacts
<1>2. /\ frames' = frames /\ started' = started /\ subject' = subject
      /\ mode' = how /\ phase' = Begun
  BY DEF Ends
<1>3. StackOK(prog', frames', phase')
  BY <1>1, <1>2, BegunFacts
<1>4. \A k \in Classes : k \in started' <=> phase'[k] /= "untouched"
  BY <1>1, <1>2, BegunFacts DEF IInv, Alive
<1>5. subject \in Classes \cup {NoClass} /\ started \subseteq Classes
  BY DEF IInv
<1>6. QED
  BY <1>1, <1>2, <1>3, <1>4, <1>5 DEF IInv, Alive, Modes

(* The newest frame with another next_pc_ after a fetch *)
LEMMA FetchedFacts ==
  ASSUME IInv, mode = "run", NEW n \in Nat
  PROVE  LET f == [Fetched EXCEPT !.next = n] IN
         /\ f \in FrameSet(prog)
         /\ f.method = Top.method /\ f.next = n /\ f.at = Top.next
         /\ StackOK(prog, SetTop(f), Begun)
         /\ SetTop(f) /= << >>
         /\ Len(SetTop(f)) = Len(frames)
         /\ SetTop(f)[Len(frames)] = f
<1> DEFINE f == [Fetched EXCEPT !.next = n]
<1>1. /\ frames /= << >> /\ Top.next \in Nat /\ Top.next \in DOMAIN Code[prog][Top.method]
      /\ Instr \in Instrs
  BY RunFacts
<1>2. Top \in [method : Methods, next : Nat, at : Nat]
  BY <1>1, TopFacts DEF FrameSet
<1>3. /\ f \in [method : Methods, next : Nat, at : Nat]
      /\ f.method = Top.method /\ f.next = n /\ f.at = Top.next
  BY <1>1, <1>2 DEF Fetched, Instrs
<1> HIDE DEF f
<1>4. f \in FrameSet(prog)
  BY <1>1, <1>3 DEF FrameSet
<1>5. StackOK(prog, frames, Begun)
  BY <1>1, BegunFacts
<1>6. f.method \in Clinit => Begun[ClassOf[f.method]] = "running"
  BY <1>1, <1>3, BegunFacts
<1>7. /\ StackOK(prog, [frames EXCEPT ![Len(frames)] = f], Begun)
      /\ [frames EXCEPT ![Len(frames)] = f] /= << >>
      /\ Len([frames EXCEPT ![Len(frames)] = f]) = Len(frames)
      /\ [frames EXCEPT ![Len(frames)] = f][Len(frames)] = f
  <2>1. f.method = frames[Len(frames)].method
    BY <1>3 DEF Top
  <2>2. f.method \in Clinit /\ Begun[ClassOf[f.method]] = "scheduled" => f.next = 0 /\ f.at = 0
    BY <1>6
  <2>3. QED
    BY <1>1, <1>4, <1>5, <2>1, <2>2, SetTopKeepsStack
<1>8. QED
  BY <1>3, <1>4, <1>7 DEF f, SetTop

(* The frame goes on at an instruction of its method *)
LEMMA GoesOnIInv ==
  ASSUME IInv, mode = "run", pc' = Top.next, prog' = prog,
         NEW n \in DOMAIN Code[prog][Top.method], n \in Nat, GoesOn(n)
  PROVE  IInv'
<1> DEFINE f == [Fetched EXCEPT !.next = n]
<1>1. /\ f.method = Top.method /\ f.next = n
      /\ StackOK(prog, SetTop(f), Begun) /\ SetTop(f) /= << >>
      /\ Len(SetTop(f)) = Len(frames) /\ SetTop(f)[Len(frames)] = f
  BY FetchedFacts
<1>2. /\ frames' = SetTop(f) /\ phase' = Begun
      /\ started' = started /\ mode' = mode /\ subject' = subject
  BY DEF GoesOn
<1> HIDE DEF f
<1>3. Top' = f
  BY <1>1, <1>2 DEF Top
<1>4. \A k \in Classes : k \in started' <=> phase'[k] /= "untouched"
  BY <1>2, BegunFacts, RunFacts DEF IInv, Alive
<1>5. Top.next \in Nat
  BY RunFacts
<1>6. QED
  BY <1>1, <1>2, <1>3, <1>4, <1>5 DEF IInv

(* InvokeMethod, called with the method of an invoke instruction *)
LEMMA InvokeIInv ==
  ASSUME IInv, mode = "run", pc' = Top.next, prog' = prog,
         Instr.op \in {"invokestatic", "invoke"}, InvokeMethod(Instr.m)
  PROVE  IInv'
<1>1. CASE Ends("fatal")
  BY <1>1, EndsIInv
<1>2. CASE /\ frames' = Append(SetTop(Fetched), NewFrame(Instr.m))
           /\ phase' = Begun
           /\ UNCHANGED <<started, mode, subject>>
  <2> DEFINE n == Top.next + Instr.len
             f == [Fetched EXCEPT !.next = n]
             m == Instr.m
  <2>1. /\ Top.next \in Nat /\ Instr \in Instrs /\ m \in Methods /\ m \notin Clinit
        /\ frames /= << >>
    BY RunFacts
  <2>2. n \in Nat
    BY <2>1 DEF Instrs
  <2>3. f = Fetched
    <3>1. Top \in [method : Methods, next : Nat, at : Nat]
      BY <2>1, TopFacts DEF FrameSet
    <3>2. QED
      BY <3>1 DEF Fetched
  <2>4. /\ f.method = Top.method /\ f.next = n /\ f.at = Top.next
        /\ StackOK(prog, SetTop(f), Begun) /\ SetTop(f) /= << >>
        /\ Len(SetTop(f)) = Len(frames) /\ SetTop(f)[Len(frames)] = f
    BY <2>2, FetchedFacts
  <2> HIDE DEF f
  <2>5. InstrAt(prog, f) = Instr
    BY <2>4 DEF InstrAt, Instr
  <2>6. NewFrame(m).method = m /\ NewFrame(m).next = 0
    BY DEF NewFrame
  <2>7. Link(prog, Begun, f, NewFrame(m))
    BY <2>1, <2>4, <2>5, <2>6 DEF Link, Called
  <2>8. /\ StackOK(prog, Append(SetTop(f), NewFrame(m)), Begun)
        /\ Append(SetTop(f), NewFrame(m)) /= << >>
        /\ Append(SetTop(f), NewFrame(m))[Len(Append(SetTop(f), NewFrame(m)))] = NewFrame(m)
    BY <2>1, <2>4, <2>7, PushKeepsStack
  <2>9. frames' = Append(SetTop(f), NewFrame(m))
    BY <1>2, <2>3
  <2>10. Top' = NewFrame(m)
    BY <2>8, <2>9 DEF Top
  <2>11. 0 \in DOMAIN Code[prog][m]
    <3>1. prog \in Programs
      BY <2>1, TopFacts
    <3>2. QED
      BY <3>1, <2>1, ProgramAssumption, Zenon DEF WellFormed
  <2>12. \A k \in Classes : k \in started' <=> phase'[k] /= "untouched"
    BY <1>2, <2>1, BegunFacts DEF IInv, Alive
  <2>13. QED
    BY <1>2, <2>1, <2>6, <2>8, <2>9, <2>10, <2>11, <2>12 DEF IInv
<1>3. QED
  BY <1>1, <1>2 DEF InvokeMethod

(* RevertNextPc and the call of InitClass for a class not yet started *)
LEMMA NeedsInitIInv ==
  ASSUME IInv, mode = "run", pc' = Top.next, prog' = prog,
         Instr.op \in {"invokestatic", "classop"}, Needs(Instr) \notin started,
         Needs(Instr) \in Classes, NeedsInit(Needs(Instr))
  PROVE  IInv'
<1> DEFINE f == [Fetched EXCEPT !.next = Top.next]
           k == Needs(Instr)
<1>1. Top.next \in Nat /\ frames /= << >> /\ Top.next \in DOMAIN Code[prog][Top.method]
  BY RunFacts
<1>2. /\ f.method = Top.method /\ f.next = Top.next /\ f.at = Top.next
      /\ StackOK(prog, SetTop(f), Begun) /\ SetTop(f) /= << >>
      /\ Len(SetTop(f)) = Len(frames) /\ SetTop(f)[Len(frames)] = f
  BY <1>1, FetchedFacts
<1>3. /\ frames' = SetTop(f) /\ phase' = Begun /\ mode' = "init" /\ subject' = k
      /\ started' = started
  BY DEF NeedsInit
<1> HIDE DEF f
<1>4. Top' = f
  BY <1>2, <1>3 DEF Top
<1>5. InstrAt(prog, f) = Instr
  BY <1>2 DEF InstrAt, Instr
<1>6. Awaits(prog, phase', f, k)
  BY <1>2, <1>5 DEF Awaits, KindOf
<1>7. \A c \in Classes : c \in started' <=> phase'[c] /= "untouched"
  BY <1>1, <1>3, BegunFacts DEF IInv, Alive
<1>8. QED
  BY <1>1, <1>2, <1>3, <1>4, <1>6, <1>7 DEF IInv, Modes

(* One turn of the recursion of InitClass *)
LEMMA InitClassIInv ==
  ASSUME IInv, InitClass
  PROVE  IInv'
<1> DEFINE k == subject
           clinit == {m \in Clinit : ClassOf[m] = k}
           next == IF k \in Interfaces \/ Super[k] = NoClass \/ Super[k] \in started
                   THEN NoClass ELSE Super[k]
<1>1. /\ mode = "init" /\ prog' = prog /\ pc' = pc /\ started' = started \cup {k}
      /\ pc \in Nat
  BY DEF InitClass, IInv
<1>2. /\ k \in Classes /\ k \notin started /\ started \subseteq Classes /\ frames /= << >>
      /\ Awaits(prog, phase, Top, k) /\ StackOK(prog, frames, phase)
      /\ Top.next \in DOMAIN Code[prog][Top.method]
      /\ \A c \in Classes : c \in started <=> phase[c] /= "untouched"
  BY <1>1 DEF IInv, Alive
<1>3. /\ prog \in Programs /\ Top \in FrameSet(prog) /\ Len(frames) \in Nat \ {0}
      /\ Len(frames) \in 1 .. Len(frames)
  BY <1>2, TopFacts
<1>4. CASE mode' = "fatal" /\ UNCHANGED <<frames, subject, phase>>
  BY <1>1, <1>2, <1>4 DEF IInv, Alive, Modes
<1>5. CASE /\ frames' = IF clinit = {} THEN frames
                        ELSE Append(frames, NewFrame(CHOOSE m \in clinit : TRUE))
           /\ phase' = [phase EXCEPT ![k] = IF clinit = {} THEN "completed" ELSE "scheduled"]
           /\ subject' = next
           /\ mode' = IF next = NoClass THEN "run" ELSE "init"
  <2>1. /\ phase \in [Classes -> Phases] /\ phase' \in [Classes -> Phases]
        /\ \A c \in Classes \ {k} : phase'[c] = phase[c]
        /\ phase'[k] = IF clinit = {} THEN "completed" ELSE "scheduled"
    BY <1>2, <1>5 DEF StackOK, Phases
  <2>2. \A c \in Classes : c \in started' <=> phase'[c] /= "untouched"
    BY <1>1, <1>2, <2>1
  <2>3. ASSUME NEW j \in 1 .. Len(frames), frames[j].method \in Clinit
        PROVE  /\ ClassOf[frames[j].method] /= k
               /\ phase'[ClassOf[frames[j].method]] = phase[ClassOf[frames[j].method]]
    <3>1. phase[ClassOf[frames[j].method]] \in {"scheduled", "running"}
      BY <1>2, <2>3 DEF StackOK, ClinitsActive
    <3>2. phase[k] = "untouched"
      BY <1>2
    <3>3. ClassOf[frames[j].method] \in Classes
      BY <2>3, MethodAssumption
    <3>4. QED
      BY <3>1, <3>2, <3>3, <2>1
  <2>4. StackOK(prog, frames, phase')
    <3>1. \A j \in 1 .. Len(frames) - 1 : j \in 1 .. Len(frames)
      BY <1>3
    <3>2. QED
      BY <1>2, <1>3, <2>1, <2>3, <3>1, PhaseKeepsStack, Zenon
  <2>5. next /= NoClass => /\ next \in Classes /\ next \notin started'
                           /\ next \in SuperClasses[k]
                           /\ next = Super[k]
    BY <1>1, <1>2, HierarchyAssumption
  <2>6. subject' \in IF mode' \in {"init", "unwind"} THEN Classes ELSE Classes \cup {NoClass}
    BY <1>5, <2>5
  <2>7. mode' \in {"run", "init"} /\ started' \subseteq Classes
    BY <1>1, <1>2, <1>5
  <2>8. CASE clinit = {}
    <3>1. frames' = frames /\ Top' = Top
      BY <1>5, <2>8 DEF Top
    <3>2. ASSUME mode' = "init" PROVE Awaits(prog, phase', Top, next)
      <4>1. next \in SuperClasses[k]
        BY <1>5, <3>2, <2>5
      <4>2. \A c \in Classes : k \in SuperClasses[c] => next \in SuperClasses[c]
        BY <4>1, <1>2, HierarchyAssumption
      <4>3. CASE Unbegun(phase, Top) /\ k \in SuperClasses[ClassOf[Top.method]]
        <5>1. Top.method \in Clinit /\ ClassOf[Top.method] \in Classes
          BY <4>3, MethodAssumption DEF Unbegun
        <5>2. phase'[ClassOf[Top.method]] = phase[ClassOf[Top.method]]
          BY <5>1, <1>3, <2>3 DEF Top
        <5>3. QED
          BY <4>2, <4>3, <5>1, <5>2 DEF Unbegun, Awaits
      <4>4. CASE /\ Top.next = Top.at
                 /\ InstrAt(prog, Top).op \in {"invokestatic", "classop"}
                 /\ k \in KindOf(Needs(InstrAt(prog, Top)))
        <5>1. Needs(InstrAt(prog, Top)) \in Classes
          <6>1. Top.method \in Methods /\ Top.at \in DOMAIN Code[prog][Top.method]
            BY <1>2, TopFacts
          <6>2. /\ InstrAt(prog, Top).op = "invokestatic" => InstrAt(prog, Top).m \in Methods
                /\ InstrAt(prog, Top).op = "classop" => InstrAt(prog, Top).cls \in Classes
            BY <6>1, <1>3, InstrFacts DEF InstrAt
          <6>3. QED
            BY <4>4, <6>2, MethodAssumption DEF Needs
        <5>2. next \in KindOf(Needs(InstrAt(prog, Top)))
          BY <4>1, <4>2, <4>4, <5>1 DEF KindOf
        <5>3. QED
          BY <4>4, <5>2 DEF Awaits
      <4>5. QED
        BY <1>2, <4>3, <4>4 DEF Awaits
    <3>3. QED
      BY <1>1, <1>2, <1>5, <2>2, <2>4, <2>5, <2>6, <2>7, <3>1, <3>2 DEF IInv, Modes
  <2>9. CASE clinit /= {}
    <3> DEFINE m == CHOOSE m \in clinit : TRUE
               gs == Append(frames, NewFrame(m))
    <3>1. m \in Clinit /\ ClassOf[m] = k /\ m \in Methods
      BY <2>9, MethodAssumption
    <3> HIDE DEF m
    <3>2. frames' = gs /\ phase'[k] = "scheduled"
      BY <1>5, <2>1, <2>9 DEF m
    <3>3. NewFrame(m).method = m /\ NewFrame(m).next = 0
      BY DEF NewFrame
    <3>4. Link(prog, phase', Top, NewFrame(m))
      <4>1. Awaits(prog, phase', Top, k)
        <5>1. Top.method \in Clinit
              => phase'[ClassOf[Top.method]] = phase[ClassOf[Top.method]]
          BY <1>3, <2>3 DEF Top
        <5>2. QED
          BY <1>2, <5>1 DEF Awaits, Unbegun
      <4>2. QED
        BY <4>1, <3>1, <3>3 DEF Link
    <3>5. \A j \in 1 .. Len(frames) : frames[j].method /= m
      BY <2>3, <3>1
    <3>6. /\ StackOK(prog, gs, phase') /\ gs /= << >>
          /\ gs[Len(gs)] = NewFrame(m)
      BY <1>2, <2>4, <3>1, <3>2, <3>4, <3>5, PushKeepsStack DEF Top
    <3>7. Top' = NewFrame(m)
      BY <3>2, <3>6 DEF Top
    <3> HIDE DEF gs
    <3>8. 0 \in DOMAIN Code[prog][m]
      BY <1>3, <3>1, ProgramAssumption, Zenon DEF WellFormed
    <3>9. mode' = "init" => Awaits(prog, phase', NewFrame(m), next)
      BY <1>5, <2>5, <3>1, <3>2, <3>3 DEF Awaits, Unbegun
    <3>10. QED
      BY <1>1, <1>2, <1>5, <2>2, <2>5, <2>6, <2>7, <3>2, <3>3, <3>6, <3>7, <3>8, <3>9
         DEF IInv, Modes
  <2>10. QED
    BY <2>8, <2>9
<1>6. QED
  BY <1>4, <1>5 DEF InitClass

(* Popping the newest frame, whatever is recorded of its class *)
LEMMA PopFacts ==
  ASSUME IInv, frames /= << >>, NEW how \in {"completed", "abandoned"}
  PROVE  /\ StackOK(prog, Pop(frames), Ended(phase, how))
         /\ Len(frames) /= 1 =>
              /\ Pop(frames) /= << >>
              /\ LET f == Pop(frames)[Len(Pop(frames))] IN
                 f.next \in DOMAIN Code[prog][f.method]
         /\ \A k \in Classes : phase[k] = "untouched" <=> Ended(phase, how)[k] = "untouched"
<1> DEFINE ph == Ended(phase, how)
           n == Len(frames)
<1>1. StackOK(prog, frames, phase) /\ phase \in [Classes -> Phases]
  BY DEF IInv, StackOK
<1>2. n \in Nat \ {0} /\ n \in 1 .. n /\ frames \in Seq(FrameSet(prog))
  BY TopFacts
<1>3. ph \in [Classes -> Phases]
  BY <1>1 DEF Ended, Phases
<1>4. ASSUME NEW j \in 1 .. n - 1, frames[j].method \in Clinit
      PROVE  ph[ClassOf[frames[j].method]] = phase[ClassOf[frames[j].method]]
  <2>1. ClassOf[frames[j].method] \in Classes
    BY <1>4, MethodAssumption
  <2>2. Top.method \in Clinit => ClassOf[frames[j].method] /= ClassOf[Top.method]
    BY <1>4, TopClassUnique, Zenon
  <2>3. QED
    BY <2>1, <2>2 DEF Ended
<1>5. \A k \in Classes : phase[k] = "untouched" <=> ph[k] = "untouched"
  <2>1. Top.method \in Clinit => phase[ClassOf[Top.method]] \in {"scheduled", "running"}
    BY <1>1, <1>2, Zenon DEF StackOK, ClinitsActive, Top
  <2>2. QED
    BY <2>1 DEF Ended
<1> HIDE DEF ph
<1>6. StackOK(prog, Pop(frames), ph) /\ (n /= 1 => Pop(frames) /= << >>)
  BY <1>1, <1>3, <1>4, PopKeepsStack
<1>7. ASSUME n /= 1
      PROVE  LET f == Pop(frames)[Len(Pop(frames))] IN
             f.next \in DOMAIN Code[prog][f.method]
  <2>1. n - 1 \in 1 .. n - 1 /\ 1 <= n - 1 /\ n - 1 \in Int /\ n - 1 - 1 + 1 = n - 1
        /\ 1 + (n - 1) - 1 = n - 1
    <3>1. \A l \in Nat \ {0} : l /= 1 =>
            /\ l - 1 \in 1 .. l - 1 /\ 1 <= l - 1 /\ l - 1 \in Int /\ l - 1 - 1 + 1 = l - 1
            /\ 1 + (l - 1) - 1 = l - 1
      OBVIOUS
    <3>2. QED
      BY <1>2, <1>7, <3>1, Zenon
  <2>2. \A j \in 1 .. n - 1 : frames[j] \in FrameSet(prog)
    BY <1>2
  <2>3. /\ Len(SubSeq(frames, 1, n - 1)) = n - 1
        /\ SubSeq(frames, 1, n - 1)[n - 1] = frames[n - 1]
    BY <1>2, <2>1, <2>2, SubSeqProperties
  <2>4. frames[n - 1].next \in DOMAIN Code[prog][frames[n - 1].method]
    BY <1>1, <2>1, LowerFrameResumes
  <2>5. QED
    BY <2>3, <2>4 DEF Pop
<1>8. QED
  BY <1>5, <1>6, <1>7 DEF ph

(* Return<T> *)
LEMMA ReturnIInv ==
  ASSUME IInv, ReturnStep
  PROVE  IInv'
<1>1. /\ mode = "run" /\ prog' = prog /\ pc' = Top.next
      /\ frames' = Pop(frames) /\ phase' = Ended(phase, "completed")
      /\ mode' \in IF Len(frames) = 1 THEN {"done"} ELSE {"run", "fatal"}
      /\ started' = started /\ subject' = subject
  BY DEF ReturnStep, Fetch
<1>2. frames /= << >> /\ Top.next \in Nat
  BY <1>1, RunFacts
<1>3. /\ StackOK(prog', frames', phase')
      /\ Len(frames) /= 1 => /\ frames' /= << >>
                             /\ Top'.next \in DOMAIN Code[prog'][Top'.method]
      /\ \A k \in Classes : phase[k] = "untouched" <=> phase'[k] = "untouched"
  BY <1>1, <1>2, PopFacts DEF Top
<1>4. \A k \in Classes : k \in started' <=> phase'[k] /= "untouched"
  BY <1>1, <1>3 DEF IInv, Alive
<1>5. subject' \in Classes \cup {NoClass} /\ started' \subseteq Classes
  BY <1>1 DEF IInv
<1>6. mode' \in {"run", "done", "fatal"} /\ (mode' = "run" => Len(frames) /= 1)
  BY <1>1
<1>7. QED
  BY <1>1, <1>2, <1>3, <1>4, <1>5, <1>6 DEF IInv, Alive, Modes

(* athrow, up to the search for a handler *)
LEMMA ThrowIInv ==
  ASSUME IInv, ATHROW
  PROVE  IInv'
<1>1. mode = "run" /\ prog' = prog /\ pc' = Top.next
  BY DEF ATHROW, Fetch
<1>2. CASE Ends("fatal")
  BY <1>1, <1>2, EndsIInv
<1>3. CASE /\ Instr.cls /= NoClass /\ frames' = SetTop(Fetched) /\ phase' = Begun
           /\ mode' = "unwind" /\ subject' = Instr.cls /\ started' = started
  <2> DEFINE n == Top.next + Instr.len
             f == [Fetched EXCEPT !.next = n]
  <2>1. Top.next \in Nat /\ Instr \in Instrs /\ frames /= << >>
    BY <1>1, RunFacts
  <2>2. n \in Nat /\ Instr.cls \in Classes
    BY <2>1, <1>3 DEF Instrs
  <2>3. f = Fetched
    <3>1. Top \in [method : Methods, next : Nat, at : Nat]
      BY <2>1, TopFacts DEF FrameSet
    <3>2. QED
      BY <3>1 DEF Fetched
  <2>4. StackOK(prog, SetTop(f), Begun) /\ SetTop(f) /= << >>
    BY <1>1, <2>2, FetchedFacts
  <2> HIDE DEF f
  <2>5. \A k \in Classes : k \in started' <=> phase'[k] /= "untouched"
    BY <1>1, <1>3, <2>1, BegunFacts DEF IInv, Alive
  <2>6. QED
    BY <1>1, <1>3, <2>1, <2>2, <2>3, <2>4, <2>5 DEF IInv, Alive, Modes
<1>4. QED
  BY <1>2, <1>3 DEF ATHROW

(* A handler is an instruction of the method, and there is none for a      *)
(* frame that has not fetched anything: it asks for address -1.            *)
LEMMA HandlerFacts ==
  ASSUME NEW p \in Programs, NEW m \in Methods, NEW ex, NEW q \in Int,
         NEW h \in FindExceptionHandler(Table[p][m], ex, q)
  PROVE  h \in DOMAIN Code[p][m] /\ h \in Nat /\ q >= 0
<1>1. PICK j \in DOMAIN Table[p][m] : /\ h = Table[p][m][j].handler
                                      /\ Catches(Table[p][m][j], q, ex)
  BY DEF FindExceptionHandler
<1>2. /\ DOMAIN Code[p][m] \subseteq Nat
      /\ Table[p][m] \in Seq(ExceptionHandlers)
      /\ \A l \in DOMAIN Table[p][m] : Table[p][m][l].handler \in DOMAIN Code[p][m]
  BY ProgramAssumption, Zenon DEF WellFormed
<1>3. Table[p][m][j] \in ExceptionHandlers
  BY <1>2
<1>4. QED
  BY <1>1, <1>2, <1>3 DEF Catches, ExceptionHandlers

(* One turn of the search for a handler *)
LEMMA UnwindIInv ==
  ASSUME IInv, Unwind
  PROVE  IInv'
<1> DEFINE found == FindExceptionHandler(Table[prog][Top.method], subject, Top.next - 1)
<1>1. /\ mode = "unwind" /\ prog' = prog /\ pc' = pc /\ started' = started
      /\ frames /= << >> /\ subject \in Classes /\ started \subseteq Classes /\ pc \in Nat
      /\ \A k \in Classes : k \in started <=> phase[k] /= "untouched"
      /\ StackOK(prog, frames, phase)
  BY DEF Unwind, IInv, Alive
<1>2. /\ prog \in Programs /\ Top \in FrameSet(prog) /\ Top.method \in Methods
      /\ Top.next \in Nat /\ Len(frames) \in 1 .. Len(frames)
  BY <1>1, TopFacts
<1>3. ASSUME NEW h \in found, frames' = SetTop([Top EXCEPT !.next = h]),
             mode' \in {"run", "fatal"}, subject' = NoClass, phase' = phase
      PROVE  IInv'
  <2> DEFINE f == [Top EXCEPT !.next = h]
  <2>1. h \in DOMAIN Code[prog][Top.method] /\ h \in Nat /\ Top.next - 1 >= 0
    <3>1. Top.next - 1 \in Int
      BY <1>2
    <3>2. QED
      BY <1>2, <1>3, <3>1, HandlerFacts, Zenon
  <2>2. f \in FrameSet(prog) /\ f.method = Top.method /\ f.next = h
    BY <1>2, <2>1 DEF FrameSet
  <2> HIDE DEF f
  <2>3. ~(Top.method \in Clinit /\ phase[ClassOf[Top.method]] = "scheduled")
    <3>1. Top.method \in Clinit /\ phase[ClassOf[Top.method]] = "scheduled" => Top.next = 0
      BY <1>1, <1>2 DEF StackOK, ClinitsActive, Top
    <3>2. QED
      BY <3>1, <2>1
  <2>4. /\ StackOK(prog, [frames EXCEPT ![Len(frames)] = f], phase)
        /\ [frames EXCEPT ![Len(frames)] = f] /= << >>
        /\ Len([frames EXCEPT ![Len(frames)] = f]) = Len(frames)
        /\ [frames EXCEPT ![Len(frames)] = f][Len(frames)] = f
    <3>1. f.method = frames[Len(frames)].method
      BY <2>2 DEF Top
    <3>2. f.method \in Clinit /\ phase[ClassOf[f.method]] = "scheduled" => f.next = 0 /\ f.at = 0
      BY <2>2, <2>3
    <3>3. QED
      BY <1>1, <2>2, <3>1, <3>2, SetTopKeepsStack
  <2>5. frames' = [frames EXCEPT ![Len(frames)] = f]
    BY <1>3 DEF SetTop, f
  <2>6. Top' = f
    BY <2>4, <2>5 DEF Top
  <2>7. QED
    BY <1>1, <1>3, <2>1, <2>2, <2>4, <2>5, <2>6 DEF IInv, Alive, Modes
<1>4. CASE /\ frames' = Pop(frames) /\ phase' = Ended(phase, "abandoned")
           /\ mode' \in IF Len(frames) = 1 THEN {"done", "fatal"} ELSE {"unwind"}
           /\ subject' = subject
  <2>1. /\ StackOK(prog', frames', phase')
        /\ Len(frames) /= 1 => frames' /= << >>
        /\ \A k \in Classes : phase[k] = "untouched" <=> phase'[k] = "untouched"
    BY <1>1, <1>4, PopFacts
  <2>2. mode' \in {"done", "fatal", "unwind"} /\ (mode' = "unwind" => Len(frames) /= 1)
    BY <1>4
  <2>3. QED
    BY <1>1, <1>4, <2>1, <2>2 DEF IInv, Alive, Modes
<1>5. QED
  BY <1>3, <1>4 DEF Unwind

(* The initial state: one frame, for main, and no class started *)
LEMMA InitIInv ==
  ASSUME Init
  PROVE  IInv
<1> DEFINE g == NewFrame(Main)
<1>1. prog \in Programs /\ Main \in Methods /\ Main \notin Clinit
  BY MethodAssumption DEF Init
<1>2. g \in FrameSet(prog) /\ g.method = Main /\ g.next = 0
  BY <1>1, NewFrameFacts
<1> HIDE DEF g
<1>3. frames = <<g>>
  BY DEF Init, g
<1>4. frames \in Seq(FrameSet(prog)) /\ Len(frames) = 1 /\ frames[1] = g /\ frames /= << >>
  BY <1>2, <1>3
<1>5. phase = [k \in Classes |-> "untouched"]
  BY DEF Init
<1>6. \A j \in 1 .. Len(frames) : j = 1
  BY <1>4
<1>7. StackOK(prog, frames, phase)
  <2>1. phase \in [Classes -> Phases]
    BY <1>5 DEF Phases
  <2>2. Linked(prog, frames, phase)
    BY <1>2, <1>4 DEF Linked
  <2>3. ClinitsActive(frames, phase) /\ ClinitsDistinct(frames)
    BY <1>1, <1>2, <1>4, <1>6 DEF ClinitsActive, ClinitsDistinct
  <2>4. QED
    BY <1>1, <1>4, <2>1, <2>2, <2>3 DEF StackOK
<1>8. Top = g
  BY <1>4 DEF Top
<1>9. 0 \in DOMAIN Code[prog][Main]
  BY <1>1, ProgramAssumption, Zenon DEF WellFormed
<1>10. QED
  BY <1>2, <1>4, <1>5, <1>7, <1>8, <1>9 DEF Init, IInv, Modes, Alive

-----------------------------------------------------------------------------
(* A fetched instruction of any kind keeps the invariant *)
LEMMA NextIInv ==
  ASSUME IInv, [Next]_vars
  PROVE  IInv'
<1>1. ASSUME mode = "run", prog' = prog, pc' = Top.next
      PROVE  /\ \A how \in {"fatal", "abort"} : Ends(how) => IInv'
             /\ \A n \in DOMAIN Code[prog][Top.method] : n \in Nat /\ GoesOn(n) => IInv'
  BY <1>1, EndsIInv, GoesOnIInv
<1>2. ASSUME mode = "run"
      PROVE  /\ DOMAIN Code[prog][Top.method] \subseteq Nat
             /\ Top.next \in DOMAIN Code[prog][Top.method]
  <2>1. prog \in Programs /\ Top.method \in Methods /\ Top.next \in DOMAIN Code[prog][Top.method]
    BY <1>2, RunFacts, TopFacts
  <2>2. QED
    BY <2>1, ProgramAssumption, Zenon DEF WellFormed
<1>3. ASSUME mode = "run", Instr.op \notin {"return", "athrow", "branch"}
      PROVE  Top.next + Instr.len \in DOMAIN Code[prog][Top.method]
  BY <1>3, RunFacts
<1>4. CASE DataStep \/ REF_OP
  BY <1>1, <1>2, <1>3, <1>4 DEF DataStep, REF_OP, Fetch
<1>5. CASE BranchStep
  <2>1. mode = "run" /\ prog' = prog /\ pc' = Top.next
    BY <1>5 DEF BranchStep, Fetch
  <2>2. ASSUME NEW o \in Instr.offs, GoesOn(Top.next + o)
        PROVE  IInv'
    <3>1. Top.next + o \in DOMAIN Code[prog][Top.method]
      BY <2>1, RunFacts
    <3>2. QED
      BY <1>1, <1>2, <2>1, <2>2, <3>1
  <2>3. CASE Ends("fatal")
    BY <1>1, <2>1, <2>3
  <2>4. QED
    BY <1>5, <2>2, <2>3 DEF BranchStep
<1>6. CASE SwitchStep \/ SwitchRunsDry
  BY <1>1, <1>2, <1>6 DEF SwitchStep, SwitchRunsDry, Fetch
<1>7. CASE INVOKE_STATIC
  <2>1. mode = "run" /\ prog' = prog /\ pc' = Top.next /\ Instr.op = "invokestatic"
    BY <1>7 DEF INVOKE_STATIC, Fetch
  <2>2. CASE Ends("fatal")
    BY <1>1, <2>1, <2>2
  <2>3. CASE ClassOf[Instr.m] \notin started /\ NeedsInit(ClassOf[Instr.m])
    <3>1. Needs(Instr) = ClassOf[Instr.m] /\ Needs(Instr) \in Classes
      BY <2>1, RunFacts, MethodAssumption DEF Needs
    <3>2. QED
      BY <2>1, <2>3, <3>1, NeedsInitIInv
  <2>4. CASE GoesOn(Top.next + Instr.len)
    BY <1>1, <1>2, <1>3, <2>1, <2>4
  <2>5. CASE InvokeMethod(Instr.m)
    BY <2>1, <2>5, InvokeIInv
  <2>6. QED
    BY <1>7, <2>2, <2>3, <2>4, <2>5 DEF INVOKE_STATIC, HackPrintln
<1>8. CASE INVOKE_INSTANCE
  <2>1. mode = "run" /\ prog' = prog /\ pc' = Top.next /\ Instr.op = "invoke"
    BY <1>8 DEF INVOKE_INSTANCE, Fetch
  <2>2. CASE Ends("fatal")
    BY <1>1, <2>1, <2>2
  <2>3. CASE GoesOn(Top.next + Instr.len)
    BY <1>1, <1>2, <1>3, <2>1, <2>3
  <2>4. CASE InvokeMethod(Instr.m)
    BY <2>1, <2>4, InvokeIInv
  <2>5. QED
    BY <1>8, <2>2, <2>3, <2>4 DEF INVOKE_INSTANCE, HackPrintln
<1>9. CASE CLASS_OP
  <2>1. mode = "run" /\ prog' = prog /\ pc' = Top.next /\ Instr.op = "classop"
    BY <1>9 DEF CLASS_OP, Fetch
  <2>2. CASE Ends("abort") \/ Ends("fatal")
    BY <1>1, <2>1, <2>2
  <2>3. CASE Instr.cls \notin started /\ NeedsInit(Instr.cls)
    <3>1. Needs(Instr) = Instr.cls /\ Needs(Instr) \in Classes
      BY <2>1, RunFacts DEF Needs
    <3>2. QED
      BY <2>1, <2>3, <3>1, NeedsInitIInv
  <2>4. CASE GoesOn(Top.next + Instr.len)
    BY <1>1, <1>2, <1>3, <2>1, <2>4
  <2>5. QED
    BY <1>9, <2>2, <2>3, <2>4 DEF CLASS_OP
<1>10. CASE InitClass
  BY <1>10, InitClassIInv
<1>11. CASE ReturnStep
  BY <1>11, ReturnIInv
<1>12. CASE ATHROW
  BY <1>12, ThrowIInv
<1>13. CASE Unwind
  BY <1>13, UnwindIInv
<1>14. CASE SpillCrash
  BY <1>14 DEF SpillCrash, IInv, Alive, Modes
<1>15. CASE UNCHANGED vars
  BY <1>15 DEF vars, IInv, Alive, Top
<1>16. QED
  BY <1>4, <1>5, <1>6, <1>7, <1>8, <1>9, <1>10, <1>11, <1>12, <1>13, <1>14, <1>15 DEF Next

(* The inductive invariant holds throughout *)
THEOREM InterpreterIInv == Spec => []IInv
<1>1. Init => IInv
  BY InitIInv
<1>2. IInv /\ [Next]_vars => IInv'
  BY NextIInv
<1>3. QED
  BY <1>1, <1>2, PTL DEF Spec

(* Every frame always resumes at the start of an instruction of its method *)
(* and LoopExecute never finds an empty stack, whatever classes are        *)
(* initialised and exceptions thrown on the way.                           *)
THEOREM TypeCorrect == Spec => []TypeOK
<1>1. IInv => TypeOK
  <2>1. ASSUME IInv PROVE TypeOK
    <3>1. /\ StackOK(prog, frames, phase) /\ prog \in Programs
          /\ frames \in Seq(FrameSet(prog)) /\ phase \in [Classes -> Phases]
      BY <2>1 DEF IInv, StackOK
    <3>2. frames \in Seq([method : Methods, next : Nat, at : Nat])
      <4> DEFINE R == [method : Methods, next : Nat, at : Nat]
      <4>1. FrameSet(prog) \subseteq R
        BY DEF FrameSet
      <4> HIDE DEF R
      <4>2. \A S, T : S \subseteq T => \A t \in Seq(S) : t \in Seq(T)
        OBVIOUS
      <4>3. QED
        BY <3>1, <4>1, <4>2, Zenon DEF R
    <3>3. ASSUME NEW j \in DOMAIN frames, j < Len(frames) \/ mode \in {"run", "init"}
          PROVE  frames[j].next \in DOMAIN Code[prog][frames[j].method]
      <4>1. j \in 1 .. Len(frames) /\ Len(frames) \in Nat
        BY <3>1, <3>3
      <4>2. CASE j < Len(frames)
        <5>1. j \in 1 .. Len(frames) - 1
          BY <4>1, <4>2
        <5>2. QED
          BY <5>1, <3>1, LowerFrameResumes
      <4>3. CASE ~(j < Len(frames))
        <5>1. j = Len(frames)
          BY <4>1, <4>3
        <5>2. QED
          BY <5>1, <2>1, <3>3, <4>3 DEF IInv, Top
      <4>4. QED
        BY <4>2, <4>3
    <3>4. QED
      BY <2>1, <3>1, <3>2, <3>3 DEF IInv, TypeOK
  <2>2. QED
    BY <2>1
<1>2. QED
  BY <1>1, InterpreterIInv, PTL

(* A suspended caller always stands just after the invoke instruction that *)
(* created the frame above it, and a frame below an initialiser always     *)
(* comes back to the instruction that triggered the initialisation.        *)
THEOREM ChainKept == Spec => []CallChain
<1>1. IInv => CallChain
  BY DEF IInv, StackOK, Linked, CallChain
<1>2. QED
  BY <1>1, InterpreterIInv, PTL

(* An initialiser that has begun is never scheduled again *)
THEOREM InitialisedOnce == Spec => ClinitOnce
<1> DEFINE Once == \A k \in Classes : phase[k] \in {"running", "completed", "abandoned"}
                     => phase'[k] \notin {"untouched", "scheduled"}
<1>1. IInv /\ [Next]_vars => [Once]_vars
  <2> SUFFICES ASSUME IInv, [Next]_vars, NEW k \in Classes,
                      phase[k] \in {"running", "completed", "abandoned"}
               PROVE  phase'[k] \notin {"untouched", "scheduled"}
    OBVIOUS
  <2>1. CASE phase' = Begun
    BY <2>1 DEF Begun
  <2>2. CASE phase' = phase
    BY <2>2
  <2>3. CASE \E how \in {"completed", "abandoned"} : phase' = Ended(phase, how)
    BY <2>3 DEF Ended
  <2>4. CASE InitClass
    <3>1. subject \in Classes /\ phase[subject] = "untouched" /\ phase \in [Classes -> Phases]
      BY <2>4 DEF InitClass, IInv, Alive, StackOK
    <3>2. phase' = phase \/ \E v : phase' = [phase EXCEPT ![subject] = v]
      BY <2>4 DEF InitClass
    <3>3. QED
      BY <3>1, <3>2
  <2>5. ASSUME DataStep \/ REF_OP \/ BranchStep \/ SwitchStep \/ SwitchRunsDry
        PROVE  phase' = Begun
    BY <2>5 DEF DataStep, REF_OP, BranchStep, SwitchStep, SwitchRunsDry, GoesOn, Ends
  <2>6. ASSUME INVOKE_STATIC \/ INVOKE_INSTANCE \/ CLASS_OP \/ ATHROW
        PROVE  phase' = Begun
    BY <2>6 DEF INVOKE_STATIC, INVOKE_INSTANCE, CLASS_OP, ATHROW, GoesOn, Ends,
                InvokeMethod, NeedsInit, HackPrintln
  <2>7. QED
    BY <2>1, <2>2, <2>3, <2>4, <2>5, <2>6
       DEF Next, vars, ReturnStep, Unwind, SpillCrash
<1>2. QED
  BY <1>1, InterpreterIInv, PTL DEF Spec, ClinitOnce

-----------------------------------------------------------------------------
(* The order of initialisation, and unwinding *)

(* The initialiser in frame i of fs is scheduled but has not begun *)
WaitingAt(fs, ph, i) == fs[i].method \in Clinit /\ ph[ClassOf[fs[i].method]] = "scheduled"
RunningAt(fs, ph, i) == fs[i].method \in Clinit /\ ph[ClassOf[fs[i].method]] = "running"

(* A waiting initialiser below frame l waits for a superclass: one whose   *)
(* initialiser runs, in a frame above it and not above l, or the one that  *)
(* waits in l itself.                                                      *)
HeldAt(fs, ph, j, l) ==
  \/ \E i \in j + 1 .. l : /\ RunningAt(fs, ph, i)
                           /\ ClassOf[fs[i].method] \in SuperClasses[ClassOf[fs[j].method]]
  \/ /\ WaitingAt(fs, ph, l)
     /\ ClassOf[fs[l].method] \in SuperClasses[ClassOf[fs[j].method]]

Held(fs, ph) ==
  \A l \in 1 .. Len(fs) : \A j \in 1 .. l - 1 :
    WaitingAt(fs, ph, j) => HeldAt(fs, ph, j, l)

(* A class scheduled has its initialiser on the stack *)
OnStack(fs, ph) ==
  \A k \in Classes : ph[k] = "scheduled" =>
    \E i \in 1 .. Len(fs) : fs[i].method \in Clinit /\ ClassOf[fs[i].method] = k

(* Superclasses of a started class are started, or InitClass is on its way *)
(* to them.                                                                *)
SupersStarted ==
  \A k \in started \ Interfaces :
    \/ SuperClasses[k] \subseteq started
    \/ /\ mode = "init" /\ subject \in SuperClasses[k]
       /\ SuperClasses[k] \subseteq started \cup KindOf(subject)

(* InitClass goes on from a waiting initialiser to its superclasses *)
InitAbove ==
  mode = "init" /\ WaitingAt(frames, phase, Len(frames))
    => subject \in SuperClasses[ClassOf[Top.method]]

(* The invariant about the order of initialisation *)
OrderInv ==
  /\ Held(frames, phase)
  /\ OnStack(frames, phase)
  /\ Alive => SupersStarted
  /\ InitAbove

(* The frame an exception is about to leave is executing an athrow,        *)
(* waiting for a callee, or waiting for an initialiser.                    *)
Paused ==
  mode = "unwind" => \/ Top.next = Top.at
                     \/ Top.next = Top.at + InstrAt(prog, Top).len

-----------------------------------------------------------------------------
(* The ways a turn of the loop can change the stack.  An instruction is    *)
(* fetched, and then the process stops, the frame moves, or a method is    *)
(* called;                                                                 *)
Stops == frames' = frames /\ mode' \in {"fatal", "abort"}
Moves == \E n : /\ frames' = SetTop([Fetched EXCEPT !.next = n])
                /\ mode' = "unwind" => n = Top.next + Instr.len
                /\ mode' \in {"run", "init", "unwind"}
CallsMethod == \E m \in Methods \ Clinit : /\ frames' = Append(SetTop(Fetched), NewFrame(m))
                                           /\ mode' = "run"
Turn ==
  /\ mode = "run" /\ prog' = prog /\ started' = started /\ phase' = Begun
  /\ Stops \/ Moves \/ CallsMethod

(* a frame is left, by return or by an exception; *)
Leaves ==
  /\ mode \in {"run", "unwind"} /\ prog' = prog /\ started' = started
  /\ frames' = Pop(frames)
  /\ \E how \in {"completed", "abandoned"} : phase' = Ended(phase, how)
  /\ mode' \in {"run", "unwind", "done", "fatal"}
  /\ mode = "run" => mode' /= "unwind"
  /\ mode' \in {"run", "unwind"} => Len(frames) /= 1

(* an exception is handled; or the process ends. *)
Enters ==
  /\ mode = "unwind" /\ prog' = prog /\ started' = started /\ phase' = phase
  /\ \E h : frames' = SetTop([Top EXCEPT !.next = h])
  /\ mode' \in {"run", "fatal"}
Halts == UNCHANGED <<prog, frames, phase>> /\ mode' = "fatal"

LEMMA Steps ==
  ASSUME IInv, Next
  PROVE  Turn \/ Leaves \/ Enters \/ Halts \/ InitClass
<1> DEFINE Goes == \/ \E how \in {"fatal", "abort"} : Ends(how)
                   \/ \E n : GoesOn(n)
<1>1. ASSUME mode = "run", prog' = prog, Goes PROVE Turn
  BY <1>1 DEF Turn, Stops, Moves, Ends, GoesOn
<1>2. CASE DataStep \/ REF_OP \/ BranchStep \/ SwitchStep \/ SwitchRunsDry
  <2>1. mode = "run" /\ prog' = prog
    BY <1>2 DEF DataStep, REF_OP, BranchStep, SwitchStep, SwitchRunsDry, Fetch
  <2>2. Goes
    BY <1>2 DEF DataStep, REF_OP, BranchStep, SwitchStep, SwitchRunsDry
  <2>3. QED
    BY <1>1, <2>1, <2>2
<1>3. ASSUME mode = "run", prog' = prog, NEW k, NeedsInit(k) PROVE Turn
  BY <1>3 DEF Turn, Moves, NeedsInit
<1>4. ASSUME mode = "run", prog' = prog, InvokeMethod(Instr.m),
             Instr.op \in {"invokestatic", "invoke"}
      PROVE  Turn
  <2>1. Instr.m \in Methods \ Clinit
    BY <1>4, RunFacts
  <2>2. QED
    BY <1>4, <2>1 DEF InvokeMethod, Turn, Stops, CallsMethod, Ends
<1>5. CASE INVOKE_STATIC
  <2>1. mode = "run" /\ prog' = prog /\ Instr.op = "invokestatic"
    BY <1>5 DEF INVOKE_STATIC, Fetch
  <2>2. Goes \/ NeedsInit(ClassOf[Instr.m]) \/ InvokeMethod(Instr.m)
    BY <1>5 DEF INVOKE_STATIC, HackPrintln
  <2>3. QED
    BY <1>1, <1>3, <1>4, <2>1, <2>2
<1>6. CASE INVOKE_INSTANCE
  <2>1. mode = "run" /\ prog' = prog /\ Instr.op = "invoke"
    BY <1>6 DEF INVOKE_INSTANCE, Fetch
  <2>2. Goes \/ InvokeMethod(Instr.m)
    BY <1>6 DEF INVOKE_INSTANCE, HackPrintln
  <2>3. QED
    BY <1>1, <1>4, <2>1, <2>2
<1>7. CASE CLASS_OP
  <2>1. mode = "run" /\ prog' = prog
    BY <1>7 DEF CLASS_OP, Fetch
  <2>2. Goes \/ NeedsInit(Instr.cls)
    BY <1>7 DEF CLASS_OP
  <2>3. QED
    BY <1>1, <1>3, <2>1, <2>2
<1>8. CASE ATHROW
  <2>1. mode = "run" /\ prog' = prog
    BY <1>8 DEF ATHROW, Fetch
  <2>2. CASE Ends("fatal")
    BY <1>1, <2>1, <2>2
  <2>3. CASE /\ frames' = SetTop(Fetched) /\ phase' = Begun
             /\ mode' = "unwind" /\ started' = started
    <3>1. Top \in [method : Methods, next : Nat, at : Nat]
      BY <2>1, RunFacts, TopFacts DEF FrameSet
    <3>2. Fetched = [Fetched EXCEPT !.next = Top.next + Instr.len]
      BY <3>1 DEF Fetched
    <3>3. QED
      BY <2>1, <2>3, <3>2 DEF Turn, Moves
  <2>4. QED
    BY <1>8, <2>2, <2>3 DEF ATHROW
<1>9. CASE ReturnStep
  <2>1. mode' \in {"run", "done", "fatal"} /\ (mode' = "run" => Len(frames) /= 1)
    BY <1>9 DEF ReturnStep
  <2>2. QED
    BY <1>9, <2>1 DEF ReturnStep, Fetch, Leaves
<1>10. CASE Unwind
  <2>1. CASE \E h : /\ frames' = SetTop([Top EXCEPT !.next = h])
                    /\ mode' \in {"run", "fatal"} /\ phase' = phase
    BY <1>10, <2>1 DEF Unwind, Enters
  <2>2. CASE /\ frames' = Pop(frames) /\ phase' = Ended(phase, "abandoned")
             /\ mode' \in IF Len(frames) = 1 THEN {"done", "fatal"} ELSE {"unwind"}
    <3>1. mode' \in {"unwind", "done", "fatal"} /\ (mode' = "unwind" => Len(frames) /= 1)
      BY <2>2
    <3>2. QED
      BY <1>10, <2>2, <3>1 DEF Unwind, Leaves
  <2>3. QED
    BY <1>10, <2>1, <2>2 DEF Unwind
<1>11. CASE SpillCrash
  BY <1>11 DEF SpillCrash, Halts
<1>12. QED
  BY <1>2, <1>5, <1>6, <1>7, <1>8, <1>9, <1>10, <1>11 DEF Next

-----------------------------------------------------------------------------
(* Replacing the newest frame by one of the same method *)
LEMMA SetTopMethods ==
  ASSUME IInv, frames /= << >>, NEW f, f.method = Top.method
  PROVE  /\ Len(SetTop(f)) = Len(frames) /\ SetTop(f)[Len(frames)] = f
         /\ \A i \in 1 .. Len(frames) : SetTop(f)[i].method = frames[i].method
<1> DEFINE S == FrameSet(prog) \cup {f}
           n == Len(frames)
<1>1. frames \in Seq(FrameSet(prog)) /\ n \in 1 .. n /\ f \in S
  BY TopFacts
<1>2. frames \in Seq(S)
  BY <1>1, SeqMonotonic
<1> HIDE DEF S
<1>3. /\ Len([frames EXCEPT ![n] = f]) = n
      /\ \A i \in 1 .. n : [frames EXCEPT ![n] = f][i] = IF i = n THEN f ELSE frames[i]
  BY <1>1, <1>2, ExceptSeq
<1>4. f.method = frames[n].method
  BY DEF Top
<1>5. QED
  BY <1>1, <1>3, <1>4 DEF SetTop

(* Held is about the methods of the frames and the phases of their         *)
(* classes, and holds of every lower part of the stack.                    *)
LEMMA HeldSame ==
  ASSUME NEW fs, NEW ph, NEW gs, NEW ph2, Len(fs) \in Nat, Len(gs) \in Nat,
         Len(gs) <= Len(fs), Held(fs, ph),
         \A i \in 1 .. Len(gs) : gs[i].method = fs[i].method,
         \A i \in 1 .. Len(gs) : fs[i].method \in Clinit
            => ph2[ClassOf[fs[i].method]] = ph[ClassOf[fs[i].method]]
  PROVE  Held(gs, ph2)
<1> SUFFICES ASSUME NEW l \in 1 .. Len(gs), NEW j \in 1 .. l - 1, WaitingAt(gs, ph2, j)
             PROVE  HeldAt(gs, ph2, j, l)
  BY Zenon DEF Held
<1>1. \A i \in 1 .. Len(gs) : /\ WaitingAt(gs, ph2, i) <=> WaitingAt(fs, ph, i)
                              /\ RunningAt(gs, ph2, i) <=> RunningAt(fs, ph, i)
  BY Zenon DEF WaitingAt, RunningAt
<1>2. l \in 1 .. Len(fs) /\ j \in 1 .. Len(gs)
  OBVIOUS
<1>3. HeldAt(fs, ph, j, l)
  BY <1>1, <1>2, Zenon DEF Held
<1>4. \A i \in j + 1 .. l : i \in 1 .. Len(gs)
  OBVIOUS
<1>5. QED
  BY <1>1, <1>2, <1>3, <1>4, Zenon DEF HeldAt

(* When the newest initialiser begins, those that waited for it still do *)
LEMMA HeldBegun ==
  ASSUME IInv, frames /= << >>, Held(frames, phase)
  PROVE  Held(frames, Begun)
<1> SUFFICES ASSUME NEW l \in 1 .. Len(frames), NEW j \in 1 .. l - 1,
                    WaitingAt(frames, Begun, j)
             PROVE  HeldAt(frames, Begun, j, l)
  BY Zenon DEF Held
<1>0. Len(frames) \in Nat /\ l \in Nat
  BY TopFacts
<1>1. ASSUME NEW k \in Classes
      PROVE  /\ Begun[k] = "scheduled" => phase[k] = "scheduled"
             /\ phase[k] = "running" => Begun[k] = "running"
             /\ phase[k] = "scheduled" => Begun[k] \in {"scheduled", "running"}
  BY DEF Begun
<1>2. \A m \in Clinit : ClassOf[m] \in Classes
  BY MethodAssumption
<1>3. WaitingAt(frames, phase, j)
  BY <1>1, <1>2 DEF WaitingAt
<1>4. HeldAt(frames, phase, j, l)
  BY <1>3, Zenon DEF Held
<1>5. CASE \E i \in j + 1 .. l : /\ RunningAt(frames, phase, i)
                                 /\ ClassOf[frames[i].method] \in SuperClasses[ClassOf[frames[j].method]]
  BY <1>1, <1>2, <1>5 DEF HeldAt, RunningAt
<1>6. CASE /\ WaitingAt(frames, phase, l)
           /\ ClassOf[frames[l].method] \in SuperClasses[ClassOf[frames[j].method]]
  <2>1. WaitingAt(frames, Begun, l) \/ RunningAt(frames, Begun, l)
    BY <1>1, <1>2, <1>6 DEF WaitingAt, RunningAt
  <2>2. l \in j + 1 .. l
    BY <1>0
  <2>3. QED
    BY <1>6, <2>1, <2>2 DEF HeldAt
<1>7. QED
  BY <1>4, <1>5, <1>6 DEF HeldAt

(* A frame pushed on a waiting initialiser is that of a superclass *)
LEMMA HeldPush ==
  ASSUME NEW fs, NEW ph, NEW gs, Len(fs) \in Nat \ {0}, Len(gs) = Len(fs) + 1,
         Held(fs, ph), \A i \in 1 .. Len(fs) : gs[i].method = fs[i].method,
         WaitingAt(fs, ph, Len(fs)) =>
           /\ WaitingAt(gs, ph, Len(gs))
           /\ ClassOf[gs[Len(gs)].method] \in SuperClasses[ClassOf[fs[Len(fs)].method]]
  PROVE  Held(gs, ph)
<1> DEFINE n == Len(fs)
<1> SUFFICES ASSUME NEW l \in 1 .. Len(gs), NEW j \in 1 .. l - 1, WaitingAt(gs, ph, j)
             PROVE  HeldAt(gs, ph, j, l)
  BY Zenon DEF Held
<1>1. \A i \in 1 .. n : /\ WaitingAt(gs, ph, i) <=> WaitingAt(fs, ph, i)
                        /\ RunningAt(gs, ph, i) <=> RunningAt(fs, ph, i)
  BY Zenon DEF WaitingAt, RunningAt
<1>2. j \in 1 .. n /\ n \in 1 .. n
  OBVIOUS
<1>3. WaitingAt(fs, ph, j)
  BY <1>1, <1>2
<1>4. CASE l \in 1 .. n
  <2>1. HeldAt(fs, ph, j, l)
    BY <1>3, <1>4, Zenon DEF Held
  <2>2. \A i \in j + 1 .. l : i \in 1 .. n
    BY <1>4
  <2>3. QED
    BY <1>1, <1>2, <1>4, <2>1, <2>2, Zenon DEF HeldAt
<1>5. CASE l = n + 1
  <2>1. CASE j = n
    BY <1>3, <1>5, <2>1, <1>2 DEF HeldAt
  <2>2. CASE j /= n
    <3>1. j \in 1 .. n - 1 /\ \A i \in j + 1 .. n : i \in 1 .. n /\ i \in j + 1 .. l
      BY <1>5, <2>2
    <3>2. HeldAt(fs, ph, j, n)
      BY <1>2, <1>3, <3>1, Zenon DEF Held
    <3>3. CASE \E i \in j + 1 .. n : /\ RunningAt(fs, ph, i)
                                     /\ ClassOf[fs[i].method] \in SuperClasses[ClassOf[fs[j].method]]
      BY <1>1, <1>2, <3>1, <3>3, Zenon DEF HeldAt
    <3>4. CASE /\ WaitingAt(fs, ph, n)
               /\ ClassOf[fs[n].method] \in SuperClasses[ClassOf[fs[j].method]]
      <4>1. ClassOf[fs[j].method] \in Classes
        BY <1>3, MethodAssumption DEF WaitingAt
      <4>2. SuperClasses[ClassOf[fs[n].method]] \subseteq SuperClasses[ClassOf[fs[j].method]]
        BY <3>4, <4>1, HierarchyAssumption
      <4>3. QED
        BY <1>2, <1>5, <3>4, <4>2 DEF HeldAt
    <3>5. QED
      BY <3>2, <3>3, <3>4 DEF HeldAt
  <2>3. QED
    BY <2>1, <2>2
<1>6. QED
  BY <1>4, <1>5

-----------------------------------------------------------------------------
(* One turn of the loop *)
LEMMA TurnOrder ==
  ASSUME IInv, OrderInv, Turn
  PROVE  OrderInv'
<1>1. /\ mode = "run" /\ started' = started /\ phase' = Begun
      /\ frames /= << >> /\ (Stops \/ Moves \/ CallsMethod)
  BY RunFacts DEF Turn
<1>2. /\ Len(frames) \in Nat \ {0} /\ Top \in [method : Methods, next : Nat, at : Nat]
      /\ frames \in Seq(FrameSet(prog))
  BY <1>1, TopFacts DEF FrameSet
<1>3. Held(frames, Begun)
  BY <1>1, HeldBegun DEF OrderInv
<1>4. \A k \in Classes : Begun[k] = "scheduled" => phase[k] = "scheduled"
  BY DEF Begun
<1>5. OnStack(frames, Begun)
  BY <1>4 DEF OrderInv, OnStack
<1>6. ~WaitingAt(frames, Begun, Len(frames))
  BY <1>1, BegunFacts DEF WaitingAt, Top
<1>7. SupersStarted'
  BY <1>1 DEF OrderInv, Alive, SupersStarted
<1>8. CASE Stops
  BY <1>1, <1>3, <1>5, <1>7, <1>8 DEF Stops, OrderInv, InitAbove
<1>9. ASSUME NEW f, f.method = Top.method
      PROVE  /\ Len(SetTop(f)) = Len(frames)
             /\ \A i \in 1 .. Len(frames) : SetTop(f)[i].method = frames[i].method
             /\ Held(SetTop(f), Begun) /\ OnStack(SetTop(f), Begun)
             /\ ~WaitingAt(SetTop(f), Begun, Len(frames))
  <2>1. /\ Len(SetTop(f)) = Len(frames) /\ Len(frames) \in 1 .. Len(frames)
        /\ \A i \in 1 .. Len(frames) : SetTop(f)[i].method = frames[i].method
    BY <1>1, <1>2, <1>9, SetTopMethods
  <2>2. Held(SetTop(f), Begun)
    <3>1. Len(frames) \in Nat /\ Len(SetTop(f)) \in Nat /\ Len(SetTop(f)) <= Len(frames)
      BY <1>2, <2>1
    <3>2. QED
      BY <1>3, <2>1, <3>1, HeldSame
  <2>3. OnStack(SetTop(f), Begun)
    BY <1>5, <2>1 DEF OnStack
  <2>4. ~WaitingAt(SetTop(f), Begun, Len(frames))
    BY <1>6, <2>1 DEF WaitingAt
  <2>5. QED
    BY <2>1, <2>2, <2>3, <2>4
<1>10. CASE Moves
  <2>1. PICK n : frames' = SetTop([Fetched EXCEPT !.next = n])
    BY <1>10 DEF Moves
  <2> DEFINE f == [Fetched EXCEPT !.next = n]
  <2>2. f.method = Top.method
    BY <1>2 DEF Fetched
  <2> HIDE DEF f
  <2>3. /\ Held(frames', phase') /\ OnStack(frames', phase')
        /\ ~WaitingAt(frames', phase', Len(frames'))
    BY <1>1, <1>9, <2>1, <2>2 DEF f
  <2>4. QED
    BY <1>7, <2>3 DEF OrderInv, InitAbove
<1>11. CASE CallsMethod
  <2>1. PICK m \in Methods \ Clinit : frames' = Append(SetTop(Fetched), NewFrame(m))
    BY <1>11 DEF CallsMethod
  <2> DEFINE fs == SetTop(Fetched)
             gs == Append(fs, NewFrame(m))
  <2>2. Fetched.method = Top.method
    BY <1>2 DEF Fetched
  <2>3. /\ Len(fs) = Len(frames) /\ Held(fs, Begun) /\ OnStack(fs, Begun)
        /\ ~WaitingAt(fs, Begun, Len(fs))
        /\ \A i \in 1 .. Len(frames) : fs[i].method = frames[i].method
    BY <1>9, <2>2
  <2>4. fs \in Seq(FrameSet(prog) \cup {Fetched})
    <3> DEFINE S == FrameSet(prog) \cup {Fetched}
    <3>1. frames \in Seq(S) /\ Fetched \in S /\ Len(frames) \in 1 .. Len(frames)
      BY <1>2, SeqMonotonic
    <3> HIDE DEF S
    <3>2. [frames EXCEPT ![Len(frames)] = Fetched] \in Seq(S)
      BY <3>1, ExceptSeq
    <3>3. QED
      BY <3>2 DEF S, SetTop
  <2> HIDE DEF fs
  <2>5. Len(gs) = Len(fs) + 1 /\ \A i \in 1 .. Len(fs) : gs[i] = fs[i]
    <3> DEFINE S == FrameSet(prog) \cup {Fetched} \cup {NewFrame(m)}
    <3>1. fs \in Seq(S) /\ NewFrame(m) \in S
      BY <2>4, SeqMonotonic
    <3> HIDE DEF S
    <3>2. QED
      BY <3>1, AppendProperties
  <2> HIDE DEF gs
  <2>6. Held(gs, Begun)
    BY <1>2, <2>3, <2>5, HeldPush
  <2>7. OnStack(gs, Begun)
    <3>1. \A i \in 1 .. Len(fs) : i \in 1 .. Len(gs)
      BY <1>2, <2>3, <2>5
    <3>2. QED
      BY <2>3, <2>5, <3>1 DEF OnStack
  <2>8. frames' = gs /\ mode' = "run"
    BY <1>11, <2>1 DEF fs, gs, CallsMethod
  <2>9. QED
    BY <1>1, <1>7, <2>6, <2>7, <2>8 DEF OrderInv, InitAbove
<1>12. QED
  BY <1>1, <1>8, <1>10, <1>11

(* A frame is left *)
LEMMA LeavesOrder ==
  ASSUME IInv, OrderInv, Leaves
  PROVE  OrderInv'
<1>1. PICK how \in {"completed", "abandoned"} : phase' = Ended(phase, how)
  BY DEF Leaves
<1>2. /\ mode \in {"run", "unwind"} /\ started' = started /\ frames' = Pop(frames)
      /\ mode' /= "init" /\ frames /= << >>
  BY DEF Leaves, IInv, Alive
<1> DEFINE n == Len(frames)
<1>3. n \in Nat \ {0} /\ n \in 1 .. n /\ frames \in Seq(FrameSet(prog))
  BY <1>2, TopFacts
<1>4. /\ Len(frames') = n - 1
      /\ \A i \in 1 .. n - 1 : frames'[i] = frames[i]
  <2>1. \A i \in 1 .. n - 1 : frames[i] \in FrameSet(prog)
    BY <1>3
  <2>2. /\ Len(SubSeq(frames, 1, n - 1)) = IF 1 <= n - 1 THEN (n - 1) - 1 + 1 ELSE 0
        /\ \A i \in 1 .. (n - 1) - 1 + 1 : SubSeq(frames, 1, n - 1)[i] = frames[1 + i - 1]
    BY <1>3, <2>1, SubSeqProperties
  <2>3. \A i \in 1 .. n - 1 : i \in 1 .. (n - 1) - 1 + 1 /\ 1 + i - 1 = i
    BY <1>3
  <2>4. Len(SubSeq(frames, 1, n - 1)) = n - 1
    <3>1. \A l \in Nat \ {0} : (IF 1 <= l - 1 THEN (l - 1) - 1 + 1 ELSE 0) = l - 1
      OBVIOUS
    <3>2. QED
      BY <1>3, <2>2, <3>1, Zenon
  <2>5. QED
    BY <1>2, <2>2, <2>3, <2>4 DEF Pop
<1>5. ASSUME NEW i \in 1 .. n - 1, frames[i].method \in Clinit
      PROVE  phase'[ClassOf[frames[i].method]] = phase[ClassOf[frames[i].method]]
  <2>1. ClassOf[frames[i].method] \in Classes
    BY <1>5, MethodAssumption
  <2>2. Top.method \in Clinit => ClassOf[frames[i].method] /= ClassOf[Top.method]
    BY <1>2, <1>5, TopClassUnique, Zenon
  <2>3. QED
    BY <1>1, <2>1, <2>2 DEF Ended
<1>6. Held(frames', phase')
  <2>1. Len(frames) \in Nat /\ Len(frames') \in Nat /\ Len(frames') <= Len(frames)
    BY <1>3, <1>4
  <2>2. \A i \in 1 .. Len(frames') : frames'[i].method = frames[i].method
    BY <1>4
  <2>3. Held(frames, phase)
    BY DEF OrderInv
  <2>4. QED
    BY <1>4, <1>5, <2>1, <2>2, <2>3, HeldSame
<1>7. OnStack(frames', phase')
  <2> SUFFICES ASSUME NEW k \in Classes, phase'[k] = "scheduled"
               PROVE  \E i \in 1 .. Len(frames') :
                        frames'[i].method \in Clinit /\ ClassOf[frames'[i].method] = k
    BY DEF OnStack
  <2>1. phase[k] = "scheduled" /\ ~(Top.method \in Clinit /\ ClassOf[Top.method] = k)
    BY <1>1 DEF Ended
  <2>2. PICK i \in 1 .. n : frames[i].method \in Clinit /\ ClassOf[frames[i].method] = k
    BY <2>1 DEF OrderInv, OnStack
  <2>3. i /= n
    BY <2>1, <2>2 DEF Top
  <2>4. i \in 1 .. n - 1
    BY <1>3, <2>2, <2>3
  <2>5. QED
    BY <1>4, <2>2, <2>4
<1>8. SupersStarted'
  BY <1>2 DEF OrderInv, Alive, SupersStarted
<1>9. QED
  BY <1>2, <1>6, <1>7, <1>8 DEF OrderInv, InitAbove

(* An exception handler is entered *)
LEMMA EntersOrder ==
  ASSUME IInv, OrderInv, Enters
  PROVE  OrderInv'
<1>1. PICK h : frames' = SetTop([Top EXCEPT !.next = h])
  BY DEF Enters
<1>2. /\ mode = "unwind" /\ started' = started /\ phase' = phase
      /\ mode' \in {"run", "fatal"} /\ frames /= << >>
  BY DEF Enters, IInv, Alive
<1> DEFINE f == [Top EXCEPT !.next = h]
<1>3. f.method = Top.method
  BY <1>2, TopFacts DEF FrameSet
<1> HIDE DEF f
<1>4. /\ Len(frames') = Len(frames) /\ Len(frames) \in Nat
      /\ \A i \in 1 .. Len(frames) : frames'[i].method = frames[i].method
  BY <1>1, <1>2, <1>3, TopFacts, SetTopMethods DEF f
<1>5. Held(frames', phase')
  <2>1. Len(frames') \in Nat /\ Len(frames') <= Len(frames) /\ Held(frames, phase)
    BY <1>4 DEF OrderInv
  <2>2. QED
    BY <1>2, <1>4, <2>1, HeldSame
<1>6. OnStack(frames', phase')
  BY <1>2, <1>4 DEF OrderInv, OnStack
<1>7. SupersStarted'
  BY <1>2 DEF OrderInv, Alive, SupersStarted
<1>8. QED
  BY <1>2, <1>5, <1>6, <1>7 DEF OrderInv, InitAbove

(* What InitClass goes on to *)
NextSubject(k) ==
  IF k \in Interfaces \/ Super[k] = NoClass \/ Super[k] \in started
  THEN NoClass ELSE Super[k]

(* InitClass leaves no superclass of a started class behind *)
LEMMA InitClassStarts ==
  ASSUME IInv, OrderInv, mode = "init", started' = started \cup {subject},
         subject' = NextSubject(subject),
         mode' = IF NextSubject(subject) = NoClass THEN "run" ELSE "init"
  PROVE  SupersStarted'
<1> DEFINE k == subject
           s == Super[k]
<1>1. k \in Classes /\ k \notin started /\ started \subseteq Classes
  BY DEF IInv
<1>2. ASSUME NEW c \in Classes
      PROVE  /\ SuperClasses[c] = IF Super[c] = NoClass THEN {}
                                  ELSE {Super[c]} \cup SuperClasses[Super[c]]
             /\ Super[c] /= NoClass => Super[c] \in Classes
             /\ c \notin SuperClasses[c]
             /\ \A a \in SuperClasses[c] : /\ SuperClasses[a] \subseteq SuperClasses[c]
                                           /\ a \notin Interfaces
  BY HierarchyAssumption
<1>3. SupersStarted
  BY DEF OrderInv, Alive
<1>4. CASE NextSubject(k) = NoClass
  <2>1. k \notin Interfaces => SuperClasses[k] \subseteq started
    <3> SUFFICES ASSUME k \notin Interfaces, s /= NoClass
                 PROVE  SuperClasses[k] \subseteq started
      BY <1>1, <1>2
    <3>1. s \in started /\ s \in SuperClasses[k] /\ s \in Classes
      BY <1>1, <1>2, <1>4 DEF NextSubject
    <3>2. k \notin SuperClasses[s] /\ s \notin Interfaces
      BY <1>1, <1>2, <3>1
    <3>3. SuperClasses[s] \subseteq started
      BY <1>3, <3>1, <3>2 DEF SupersStarted
    <3>4. QED
      BY <1>1, <1>2, <3>1, <3>3
  <2>2. ASSUME NEW c \in started \ Interfaces
        PROVE  SuperClasses[c] \subseteq started \cup {k}
    <3>1. CASE SuperClasses[c] \subseteq started
      BY <3>1
    <3>2. CASE k \in SuperClasses[c] /\ SuperClasses[c] \subseteq started \cup KindOf(k)
      <4>1. k \notin Interfaces
        BY <1>1, <1>2, <3>2
      <4>2. QED
        BY <2>1, <3>2, <4>1 DEF KindOf
    <3>3. QED
      BY <1>3, <3>1, <3>2 DEF SupersStarted
  <2>3. QED
    BY <2>1, <2>2 DEF SupersStarted
<1>5. CASE NextSubject(k) /= NoClass
  <2>1. /\ subject' = s /\ mode' = "init" /\ s \in Classes
        /\ SuperClasses[k] = KindOf(s) /\ s \in SuperClasses[k]
    BY <1>1, <1>2, <1>5 DEF NextSubject, KindOf
  <2>2. ASSUME NEW c \in started \ Interfaces
        PROVE  \/ SuperClasses[c] \subseteq started'
               \/ /\ s \in SuperClasses[c]
                  /\ SuperClasses[c] \subseteq started' \cup KindOf(s)
    <3>1. CASE SuperClasses[c] \subseteq started
      BY <3>1
    <3>2. CASE k \in SuperClasses[c] /\ SuperClasses[c] \subseteq started \cup KindOf(k)
      <4>1. s \in SuperClasses[c]
        BY <1>1, <1>2, <2>1, <3>2
      <4>2. KindOf(k) = {k} \cup KindOf(s)
        BY <2>1 DEF KindOf
      <4>3. QED
        BY <3>2, <4>1, <4>2
    <3>3. QED
      BY <1>3, <3>1, <3>2 DEF SupersStarted
  <2>3. QED
    BY <2>1, <2>2 DEF SupersStarted
<1>6. QED
  BY <1>4, <1>5

(* One turn of the recursion of InitClass *)
LEMMA InitClassOrder ==
  ASSUME IInv, OrderInv, InitClass
  PROVE  OrderInv'
<1> DEFINE k == subject
           n == Len(frames)
           clinit == {m \in Clinit : ClassOf[m] = k}
<1>1. /\ mode = "init" /\ started' = started \cup {k}
      /\ k \in Classes /\ phase[k] = "untouched" /\ frames /= << >>
      /\ phase \in [Classes -> Phases] /\ ClinitsActive(frames, phase)
      /\ Held(frames, phase) /\ OnStack(frames, phase)
  BY DEF InitClass, IInv, Alive, StackOK, OrderInv
<1>2. n \in Nat \ {0} /\ n \in 1 .. n /\ frames \in Seq(FrameSet(prog))
  BY <1>1, TopFacts
<1>3. CASE mode' = "fatal" /\ UNCHANGED <<frames, phase>>
  BY <1>1, <1>3 DEF OrderInv, InitAbove, Alive
<1>4. CASE /\ frames' = IF clinit = {} THEN frames
                        ELSE Append(frames, NewFrame(CHOOSE m \in clinit : TRUE))
           /\ phase' = [phase EXCEPT ![k] = IF clinit = {} THEN "completed" ELSE "scheduled"]
           /\ subject' = NextSubject(k)
           /\ mode' = IF NextSubject(k) = NoClass THEN "run" ELSE "init"
  <2>1. SupersStarted'
    BY <1>1, <1>4, InitClassStarts
  <2>2. /\ \A c \in Classes \ {k} : phase'[c] = phase[c]
        /\ phase'[k] = IF clinit = {} THEN "completed" ELSE "scheduled"
    BY <1>1, <1>4
  <2>3. ASSUME NEW i \in 1 .. n, frames[i].method \in Clinit
        PROVE  phase'[ClassOf[frames[i].method]] = phase[ClassOf[frames[i].method]]
    <3>1. phase[ClassOf[frames[i].method]] \in {"scheduled", "running"}
      BY <1>1, <2>3 DEF ClinitsActive
    <3>2. ClassOf[frames[i].method] \in Classes
      BY <2>3, MethodAssumption
    <3>3. QED
      BY <1>1, <2>2, <3>1, <3>2
  <2>4. Held(frames, phase')
    <3>1. n \in Nat /\ n <= n
      BY <1>2
    <3>2. QED
      BY <1>1, <2>3, <3>1, HeldSame
  <2>5. mode' = "init" => subject' \in SuperClasses[k]
    BY <1>1, <1>4, HierarchyAssumption DEF NextSubject
  <2>6. ASSUME WaitingAt(frames, phase', n)
        PROVE  /\ ClassOf[Top.method] \in Classes
               /\ k \in SuperClasses[ClassOf[Top.method]]
    <3>1. WaitingAt(frames, phase, n)
      BY <1>2, <2>3, <2>6 DEF WaitingAt
    <3>2. QED
      BY <1>1, <3>1, MethodAssumption DEF OrderInv, InitAbove, WaitingAt, Top
  <2>7. CASE clinit = {}
    <3>1. frames' = frames /\ Top' = Top
      BY <1>4, <2>7 DEF Top
    <3>2. OnStack(frames, phase')
      BY <1>1, <2>2, <2>7 DEF OnStack
    <3>3. InitAbove'
      <4> SUFFICES ASSUME mode' = "init", WaitingAt(frames', phase', Len(frames'))
                   PROVE  subject' \in SuperClasses[ClassOf[Top'.method]]
        BY DEF InitAbove
      <4>1. /\ ClassOf[Top.method] \in Classes
            /\ k \in SuperClasses[ClassOf[Top.method]]
        BY <2>6, <3>1
      <4>2. SuperClasses[k] \subseteq SuperClasses[ClassOf[Top.method]]
        BY <4>1, HierarchyAssumption
      <4>3. QED
        BY <2>5, <3>1, <4>2
    <3>4. QED
      BY <2>1, <2>4, <3>1, <3>2, <3>3 DEF OrderInv
  <2>8. CASE clinit /= {}
    <3> DEFINE m == CHOOSE m \in clinit : TRUE
               gs == Append(frames, NewFrame(m))
    <3>1. m \in Clinit /\ ClassOf[m] = k /\ m \in Methods
      BY <2>8, MethodAssumption
    <3> HIDE DEF m
    <3>2. frames' = gs /\ phase'[k] = "scheduled"
      BY <1>4, <2>2, <2>8 DEF m
    <3>3. NewFrame(m).method = m
      BY DEF NewFrame
    <3>4. /\ Len(gs) = n + 1 /\ gs[n + 1] = NewFrame(m)
          /\ \A i \in 1 .. n : gs[i] = frames[i]
      <4> DEFINE S == FrameSet(prog) \cup {NewFrame(m)}
      <4>1. frames \in Seq(S) /\ NewFrame(m) \in S
        BY <1>2, SeqMonotonic
      <4> HIDE DEF S
      <4>2. QED
        BY <4>1, AppendProperties
    <3> HIDE DEF gs
    <3>5. Held(gs, phase')
      <4>1. WaitingAt(gs, phase', Len(gs)) /\ ClassOf[gs[Len(gs)].method] = k
        BY <3>1, <3>2, <3>3, <3>4 DEF WaitingAt
      <4>2. WaitingAt(frames, phase', n) => k \in SuperClasses[ClassOf[frames[n].method]]
        BY <2>6 DEF Top
      <4>3. QED
        BY <1>2, <2>4, <3>4, <4>1, <4>2, HeldPush
    <3>6. OnStack(gs, phase')
      <4> SUFFICES ASSUME NEW c \in Classes, phase'[c] = "scheduled"
                   PROVE  \E i \in 1 .. Len(gs) : /\ gs[i].method \in Clinit
                                                  /\ ClassOf[gs[i].method] = c
        BY DEF OnStack
      <4>1. CASE c = k
        <5>1. n + 1 \in 1 .. Len(gs)
          BY <1>2, <3>4
        <5>2. QED
          BY <3>1, <3>3, <3>4, <4>1, <5>1
      <4>2. CASE c /= k
        <5>1. PICK i \in 1 .. n : frames[i].method \in Clinit /\ ClassOf[frames[i].method] = c
          BY <1>1, <2>2, <4>2 DEF OnStack
        <5>2. i \in 1 .. Len(gs)
          BY <1>2, <3>4
        <5>3. QED
          BY <3>4, <5>1, <5>2
      <4>3. QED
        BY <4>1, <4>2
    <3>7. Top'.method = m
      BY <3>2, <3>3, <3>4 DEF Top
    <3>8. InitAbove'
      BY <2>5, <3>1, <3>7 DEF InitAbove
    <3>9. QED
      BY <2>1, <3>2, <3>5, <3>6, <3>8 DEF OrderInv
  <2>9. QED
    BY <2>7, <2>8
<1>5. QED
  BY <1>3, <1>4 DEF InitClass, NextSubject

(* The order of initialisation is kept throughout *)
LEMMA OrderKept == Spec => []OrderInv
<1>1. Init => OrderInv
  <2> SUFFICES ASSUME Init PROVE OrderInv
    OBVIOUS
  <2>1. /\ frames = <<NewFrame(Main)>> /\ started = {} /\ mode = "run"
        /\ phase = [k \in Classes |-> "untouched"]
    BY DEF Init
  <2>2. Len(frames) = 1
    BY <2>1
  <2>3. Held(frames, phase)
    <3>1. \A l \in 1 .. 1 : \A j \in 1 .. l - 1 : FALSE
      OBVIOUS
    <3>2. QED
      BY <2>2, <3>1 DEF Held
  <2>4. OnStack(frames, phase) /\ SupersStarted /\ InitAbove
    BY <2>1 DEF OnStack, SupersStarted, InitAbove
  <2>5. QED
    BY <2>3, <2>4 DEF OrderInv
<1>2. IInv /\ OrderInv /\ [Next]_vars => OrderInv'
  <2> SUFFICES ASSUME IInv, OrderInv, [Next]_vars PROVE OrderInv'
    OBVIOUS
  <2>1. CASE UNCHANGED vars
    BY <2>1 DEF vars, OrderInv, Held, OnStack, HeldAt, WaitingAt, RunningAt, Alive,
                SupersStarted, InitAbove, Top
  <2>2. CASE Halts
    BY <2>2 DEF Halts, OrderInv, Alive, InitAbove
  <2>3. QED
    BY <2>1, <2>2, Steps, TurnOrder, LeavesOrder, EntersOrder, InitClassOrder
<1>3. QED
  BY <1>1, <1>2, InterpreterIInv, PTL DEF Spec

-----------------------------------------------------------------------------
(* A scheduled class is held up by a superclass, unless its initialiser is *)
(* the newest frame or the newest frame waits too.                         *)
LEMMA ScheduledHeld ==
  ASSUME IInv, frames /= << >>, NEW ph, Held(frames, ph), OnStack(frames, ph),
         NEW a \in Classes, ph[a] = "scheduled",
         WaitingAt(frames, ph, Len(frames)) =>
           /\ ClassOf[Top.method] /= a
           /\ ClassOf[Top.method] \notin SuperClasses[a]
  PROVE  UnderWay(ph, a)
<1> DEFINE n == Len(frames)
<1>1. n \in Nat \ {0} /\ n \in 1 .. n
  BY TopFacts
<1>2. PICK j \in 1 .. n : frames[j].method \in Clinit /\ ClassOf[frames[j].method] = a
  BY DEF OnStack
<1>3. WaitingAt(frames, ph, j)
  BY <1>2 DEF WaitingAt
<1>4. j /= n
  BY <1>2, <1>3 DEF Top
<1>5. j \in 1 .. n - 1
  BY <1>1, <1>4
<1>6. HeldAt(frames, ph, j, n)
  BY <1>1, <1>3, <1>5, Zenon DEF Held
<1>7. ~(WaitingAt(frames, ph, n) /\ ClassOf[frames[n].method] \in SuperClasses[a])
  BY DEF Top
<1>8. \E i \in j + 1 .. n : /\ RunningAt(frames, ph, i)
                            /\ ClassOf[frames[i].method] \in SuperClasses[a]
  BY <1>2, <1>6, <1>7, Zenon DEF HeldAt
<1>9. QED
  BY <1>8 DEF RunningAt, UnderWay

(* When an initialiser begins, those of its superclasses have begun, or    *)
(* the thread is in the middle of their initialisation.                    *)
THEOREM SupersBegin == Spec => SuperFirst
<1> DEFINE First == \A k \in Classes \ Interfaces :
              phase[k] = "scheduled" /\ phase'[k] = "running"
                => \A a \in SuperClasses[k] :
                     a \in started /\ (phase[a] /= "scheduled" \/ UnderWay(phase, a))
<1>1. IInv /\ OrderInv /\ [Next]_vars => [First]_vars
  <2> SUFFICES ASSUME IInv, OrderInv, Next,
                      NEW k \in Classes \ Interfaces, phase[k] = "scheduled", phase'[k] = "running",
                      NEW a \in SuperClasses[k]
               PROVE  a \in started /\ (phase[a] /= "scheduled" \/ UnderWay(phase, a))
    BY DEF vars
  <2>1. Turn
    <3>1. ~Leaves /\ ~Enters /\ ~Halts
      BY DEF Leaves, Enters, Halts, Ended
    <3>2. ~InitClass
      <4>1. phase \in [Classes -> Phases]
        BY DEF IInv, StackOK
      <4>2. QED
        BY <4>1 DEF InitClass
    <3>3. QED
      BY <3>1, <3>2, Steps
  <2>2. /\ mode = "run" /\ phase' = Begun /\ frames /= << >>
        /\ Top.method \in Clinit /\ ClassOf[Top.method] = k
    BY <2>1, RunFacts DEF Turn, Begun
  <2>3. /\ a \in Classes /\ k \notin SuperClasses[k]
        /\ SuperClasses[a] \subseteq SuperClasses[k]
    BY HierarchyAssumption
  <2>4. k \in started
    BY <2>2 DEF IInv, Alive
  <2>5. SuperClasses[k] \subseteq started
    BY <2>2, <2>4 DEF OrderInv, Alive, SupersStarted
  <2>6. ASSUME phase[a] = "scheduled" PROVE UnderWay(phase, a)
    BY <2>2, <2>3, <2>6, ScheduledHeld DEF OrderInv
  <2>7. QED
    BY <2>5, <2>6
<1>2. QED
  BY <1>1, InterpreterIInv, OrderKept, PTL DEF Spec, SuperFirst

(* An instruction takes effect only when the class it needs has begun, or  *)
(* is held up by a superclass's initialiser on this thread.                *)
THEOREM UsedWhenBegun == Spec => UseAfterInit
<1> DEFINE Use == mode = "run" /\ Instr.op \in {"invokestatic", "classop"} /\ mode' = "run"
                    => LET k == Needs(Instr) IN
                       \/ phase'[k] \in {"running", "completed", "abandoned"}
                       \/ UnderWay(phase', k)
<1>1. IInv /\ OrderInv /\ [Next]_vars => [Use]_vars
  <2> DEFINE k == Needs(Instr)
  <2> SUFFICES ASSUME IInv, OrderInv, Next, mode = "run", mode' = "run",
                      Instr.op \in {"invokestatic", "classop"}
               PROVE  \/ phase'[k] \in {"running", "completed", "abandoned"}
                      \/ UnderWay(phase', k)
    BY DEF vars
  <2>1. INVOKE_STATIC \/ CLASS_OP
    BY DEF Next, DataStep, REF_OP, BranchStep, SwitchStep, SwitchRunsDry, INVOKE_INSTANCE,
           InitClass, ReturnStep, ATHROW, Unwind, SpillCrash, Fetch
  <2>2. k \in started
    <3>1. CASE INVOKE_STATIC
      BY <3>1 DEF INVOKE_STATIC, Fetch, Ends, NeedsInit, Needs
    <3>2. CASE CLASS_OP
      BY <3>2 DEF CLASS_OP, Fetch, Ends, NeedsInit, Needs
    <3>3. QED
      BY <2>1, <3>1, <3>2
  <2>3. frames /= << >> /\ started \subseteq Classes /\ phase[k] /= "untouched"
    BY <2>2, RunFacts DEF IInv, Alive
  <2>4. phase' = Begun
    <3>1. Instr.op /= "return" /\ mode /= "init" /\ mode /= "unwind"
      OBVIOUS
    <3>2. QED
      BY <2>1, <3>1 DEF INVOKE_STATIC, CLASS_OP, Ends, NeedsInit, HackPrintln, GoesOn, InvokeMethod
  <2>5. k \in Classes /\ Begun[k] \in Phases /\ Begun[k] /= "untouched"
    <3>1. k \in Classes
      BY <2>2, <2>3
    <3>2. Begun[k] /= "untouched"
      BY <2>3, <3>1, BegunFacts
    <3>3. Begun \in [Classes -> Phases]
      BY <2>3, BegunFacts DEF StackOK
    <3>4. QED
      BY <3>1, <3>2, <3>3
  <2>6. ASSUME Begun[k] = "scheduled" PROVE UnderWay(Begun, k)
    <3>1. Held(frames, Begun)
      BY <2>3, HeldBegun DEF OrderInv
    <3>2. OnStack(frames, Begun)
      <4>1. \A c \in Classes : Begun[c] = "scheduled" => phase[c] = "scheduled"
        BY DEF Begun
      <4>2. QED
        BY <4>1 DEF OrderInv, OnStack
    <3>3. ~WaitingAt(frames, Begun, Len(frames))
      BY <2>3, BegunFacts DEF WaitingAt, Top
    <3>4. QED
      BY <2>3, <2>5, <2>6, <3>1, <3>2, <3>3, ScheduledHeld
  <2>7. QED
    BY <2>4, <2>5, <2>6 DEF Phases
<1>2. QED
  BY <1>1, InterpreterIInv, OrderKept, PTL DEF Spec, UseAfterInit

-----------------------------------------------------------------------------
(* Frames below another one are paused *)
LEMMA LowerPaused ==
  ASSUME IInv, NEW j \in 1 .. Len(frames) - 1
  PROVE  \/ frames[j].next = frames[j].at
         \/ frames[j].next = frames[j].at + InstrAt(prog, frames[j]).len
<1>1. /\ Link(prog, phase, frames[j], frames[j + 1])
      /\ ClinitsActive(frames, phase) /\ Len(frames) \in Nat
  BY DEF IInv, StackOK, Linked
<1>2. j \in 1 .. Len(frames)
  BY <1>1
<1>3. ASSUME Unbegun(phase, frames[j]) PROVE frames[j].next = frames[j].at
  BY <1>1, <1>2, <1>3 DEF Unbegun, ClinitsActive
<1>4. QED
  BY <1>1, <1>3 DEF Link, Awaits, Called

(* The frame an exception is about to leave is paused *)
LEMMA PausedKept == Spec => []Paused
<1>1. Init => Paused
  BY DEF Init, Paused
<1>2. IInv /\ Paused /\ [Next]_vars => Paused'
  <2> SUFFICES ASSUME IInv, Paused, [Next]_vars, mode' = "unwind"
               PROVE  \/ Top'.next = Top'.at
                      \/ Top'.next = Top'.at + InstrAt(prog', Top').len
    BY DEF Paused
  <2>1. CASE UNCHANGED vars
    BY <2>1 DEF vars, Paused, Top, InstrAt
  <2>2. CASE Turn
    <3>1. Moves /\ mode = "run" /\ prog' = prog
      BY <2>2 DEF Turn, Stops, CallsMethod
    <3>2. frames' = SetTop([Fetched EXCEPT !.next = Top.next + Instr.len])
      BY <3>1 DEF Moves
    <3> DEFINE n == Top.next + Instr.len
               f == [Fetched EXCEPT !.next = n]
    <3>3. n \in Nat
      BY <3>1, RunFacts DEF Instrs
    <3> HIDE DEF n
    <3>4. /\ f.method = Top.method /\ f.next = n /\ f.at = Top.next
          /\ Len(SetTop(f)) = Len(frames) /\ SetTop(f)[Len(frames)] = f
      BY <3>1, <3>3, FetchedFacts
    <3>5. Top' = f
      BY <3>2, <3>4 DEF Top, n
    <3>6. InstrAt(prog', Top') = Instr
      BY <3>1, <3>4, <3>5 DEF InstrAt, Instr
    <3>7. QED
      BY <3>4, <3>5, <3>6 DEF n
  <2>3. CASE Leaves
    <3>1. /\ mode = "unwind" /\ prog' = prog /\ frames' = Pop(frames)
          /\ Len(frames) /= 1 /\ frames /= << >>
      BY <2>3 DEF Leaves, IInv, Alive
    <3> DEFINE n == Len(frames)
    <3>2. n \in Nat \ {0} /\ n /= 1 /\ frames \in Seq(FrameSet(prog))
      BY <3>1, TopFacts
    <3>3. n - 1 \in 1 .. n - 1 /\ n - 1 \in Nat
      <4>1. \A l \in Nat \ {0} : l /= 1 => l - 1 \in 1 .. l - 1 /\ l - 1 \in Nat
        OBVIOUS
      <4>2. QED
        BY <3>2, <4>1, Zenon
    <3>4. Len(frames') = n - 1 /\ frames'[n - 1] = frames[n - 1]
      <4>1. \A i \in 1 .. n - 1 : frames[i] \in FrameSet(prog)
        BY <3>2
      <4>2. /\ Len(SubSeq(frames, 1, n - 1)) = IF 1 <= n - 1 THEN (n - 1) - 1 + 1 ELSE 0
            /\ \A i \in 1 .. (n - 1) - 1 + 1 : SubSeq(frames, 1, n - 1)[i] = frames[1 + i - 1]
        BY <3>2, <4>1, SubSeqProperties
      <4>3. /\ n - 1 \in 1 .. (n - 1) - 1 + 1 /\ 1 + (n - 1) - 1 = n - 1
            /\ (IF 1 <= n - 1 THEN (n - 1) - 1 + 1 ELSE 0) = n - 1
        BY <3>3
      <4>4. QED
        BY <3>1, <4>2, <4>3 DEF Pop
    <3>5. Top' = frames[n - 1]
      BY <3>4 DEF Top
    <3>6. QED
      BY <3>1, <3>3, <3>5, LowerPaused
  <2>4. ~Enters /\ ~Halts /\ ~InitClass
    BY DEF Enters, Halts, InitClass
  <2>5. QED
    BY <2>1, <2>2, <2>3, <2>4, Steps
<1>3. QED
  BY <1>1, <1>2, InterpreterIInv, PTL DEF Spec

(* A region made of whole instructions holds the last byte of one exactly  *)
(* when it holds the first.                                                *)
LEMMA WholeInstructions ==
  ASSUME NEW p \in Programs, NEW m \in Methods, NEW x \in DOMAIN Code[p][m],
         NEW j \in DOMAIN Table[p][m], NEW ex
  PROVE  Catches(Table[p][m][j], x + Code[p][m][x].len - 1, ex)
           <=> Catches(Table[p][m][j], x, ex)
<1> DEFINE h == Table[p][m][j]
           i == Code[p][m][x]
<1>1. WellFormed(p)
  BY ProgramAssumption
<1>2. /\ Table[p][m] \in Seq(ExceptionHandlers)
      /\ h.start \notin x + 1 .. x + i.len - 1
      /\ h.end \notin x + 1 .. x + i.len - 1
  BY <1>1, Zenon DEF WellFormed
<1>3. h \in ExceptionHandlers
  BY <1>2
<1>4. x \in Nat /\ i \in Instrs
  BY InstrFacts
<1>5. h.start \in Nat /\ h.end \in Nat /\ i.len \in 1 .. 5
  BY <1>3, <1>4 DEF ExceptionHandlers, Instrs
<1> HIDE DEF h, i
<1>6. /\ h.start <= x + i.len - 1 <=> h.start <= x
      /\ x + i.len - 1 < h.end <=> x < h.end
  BY <1>2, <1>4, <1>5
<1>7. QED
  BY <1>6 DEF Catches, h, i

(* The unwinder's decision by next_pc_ - 1 is the decision by the          *)
(* instruction the frame is executing.                                     *)
THEOREM CaughtInRegion == Spec => CaughtWhereProtected
<1> DEFINE table == Table[prog][Top.method]
           hits == {j \in DOMAIN table : Catches(table[j], Top.at, subject)}
           Caught == mode = "unwind" /\ Top.next /= Top.at
             => \/ /\ Len(frames') = Len(frames)
                   /\ \E j \in hits : /\ \A l \in hits : j <= l
                                      /\ frames'[Len(frames)].next = table[j].handler
                \/ /\ Len(frames') < Len(frames)
                   /\ \A j \in hits : (\A l \in hits : j <= l) => table[j].handler = 0
                \/ mode' = "fatal"
<1>1. IInv /\ Paused /\ [Next]_vars => [Caught]_vars
  <2> SUFFICES ASSUME IInv, Paused, Next, mode = "unwind", Top.next /= Top.at,
                      mode' /= "fatal"
               PROVE  \/ /\ Len(frames') = Len(frames)
                         /\ \E j \in hits : /\ \A l \in hits : j <= l
                                            /\ frames'[Len(frames)].next = table[j].handler
                      \/ /\ Len(frames') < Len(frames)
                         /\ \A j \in hits : (\A l \in hits : j <= l) => table[j].handler = 0
    BY DEF vars
  <2>1. Unwind
    BY DEF Next, DataStep, REF_OP, BranchStep, SwitchStep, SwitchRunsDry, INVOKE_STATIC,
           INVOKE_INSTANCE, CLASS_OP, InitClass, ReturnStep, ATHROW, SpillCrash, Fetch
  <2>2. frames /= << >>
    BY DEF IInv, Alive
  <2>3. /\ prog \in Programs /\ Len(frames) \in Nat \ {0} /\ Top \in FrameSet(prog)
        /\ Top.method \in Methods /\ Top.at \in DOMAIN Code[prog][Top.method]
        /\ frames \in Seq(FrameSet(prog))
    BY <2>2, TopFacts
  <2>4. Top.next = Top.at + Code[prog][Top.method][Top.at].len
    BY DEF Paused, InstrAt
  <2>5. \A j \in DOMAIN table :
          Catches(table[j], Top.next - 1, subject) <=> Catches(table[j], Top.at, subject)
    <3>1. Top.at \in Nat /\ Code[prog][Top.method][Top.at] \in Instrs
      BY <2>3, InstrFacts
    <3>2. Top.next - 1 = Top.at + Code[prog][Top.method][Top.at].len - 1
      BY <2>4, <3>1 DEF Instrs
    <3>3. QED
      BY <2>3, <3>2, WholeInstructions, Zenon
  <2> DEFINE found == FindExceptionHandler(table, subject, Top.next - 1)
  <2>6. found = {table[j].handler : j \in {j \in hits : \A l \in hits : j <= l}}
    BY <2>5 DEF FindExceptionHandler
  <2>7. \A h \in found : h \in Nat
    <3>1. Top.next - 1 \in Int
      BY <2>3 DEF FrameSet
    <3>2. QED
      BY <2>3, <3>1, HandlerFacts
  <2> HIDE DEF table, found
  <2>8. CASE \E h \in found : frames' = SetTop([Top EXCEPT !.next = h])
    <3>1. PICK h \in found : frames' = SetTop([Top EXCEPT !.next = h])
      BY <2>8
    <3> DEFINE f == [Top EXCEPT !.next = h]
    <3>2. f.method = Top.method /\ f.next = h
      BY <2>3 DEF FrameSet
    <3> HIDE DEF f
    <3>3. Len(frames') = Len(frames) /\ frames'[Len(frames)] = f
      BY <2>2, <3>1, <3>2, SetTopMethods DEF f
    <3>4. QED
      BY <2>6, <3>1, <3>2, <3>3
  <2>9. CASE (\A h \in found : h <= 0) /\ frames' = Pop(frames)
    <3>1. Len(frames') < Len(frames)
      BY <2>3, <2>9 DEF Pop
    <3>2. \A h \in found : h = 0
      BY <2>7, <2>9
    <3>3. QED
      BY <2>6, <3>1, <3>2
  <2>10. QED
    BY <2>1, <2>8, <2>9 DEF Unwind, found, table
<1>2. QED
  BY <1>1, InterpreterIInv, PausedKept, PTL DEF Spec, CaughtWhereProtected

=============================================================================
