---------------------------- MODULE Interpreter ----------------------------
(***************************************************************************)
(* The bytecode loop of the virtual machine (LoopExecute in jvm.cpp) with  *)
(* the instructions that change control: branches, the invoke family,      *)
(* returns, athrow and the instructions that initialise a class before     *)
(* they run (new, getstatic, putstatic, invokestatic).                     *)
(*                                                                         *)
(* A class is initialised in a peculiar way.  The instruction that needs   *)
(* it resets next_pc_ of its own frame to itself (RevertNextPc), marks the *)
(* class started, pushes a frame for <clinit>, goes on to the superclass   *)
(* and returns to the loop.  The loop then runs whatever is on top: the    *)
(* initialisers, superclass first, and at last the same instruction again. *)
(*                                                                         *)
(* One action is one turn of the loop.  The recursion InitClass /          *)
(* InitSuperClass and the while loop of FindAndGotoExceptionHandler take   *)
(* one action per turn (modes "init" and "unwind").  What instructions do  *)
(* to operands and local variables is FrameSlots' subject; here a data     *)
(* instruction either completes or ends the process.                       *)
(***************************************************************************)
EXTENDS Integers, Sequences

CONSTANTS
  Classes, NoClass,
  Super,         \* Super[k] = super_class_, NoClass for java.lang.Object
  SuperClasses,  \* SuperClasses[k] = all proper superclasses of k
  Interfaces,    \* classes with ACC_INTERFACE
  Methods,
  ClassOf,       \* ClassOf[m] = the class that declares m
  Static,        \* methods with ACC_STATIC
  Println,       \* methods with the name println
  Clinit,        \* methods named <clinit>
  Main,
  SlotNeed, MaxSize, FrameSize, HeaderSize,   \* as in FrameStack
  Programs,      \* names of the programs considered
  Code,          \* Code[p][m] = bytecode of m in p: a function from the
                 \* addresses of instructions to instructions
  Table,         \* Table[p][m] = exception table of m in p
  Debug          \* programs run by a build that evaluates assertions

Ops == {"data", "refop", "branch", "switch", "invokestatic", "invoke",
        "classop", "athrow", "return"}

Instrs == [op : Ops, len : 1 .. 5, m : Methods, cls : Classes \cup {NoClass},
           offs : SUBSET Int]

ExceptionHandlers == [start : Nat, end : Nat, handler : Nat, catch : Classes \cup {NoClass}]

(* The class an instruction may have to initialise *)
Needs(i) == IF i.op = "invokestatic" THEN ClassOf[i.m] ELSE i.cls

(* What a compiler guarantees of a program: control stays on instruction   *)
(* boundaries, protected regions are made of whole instructions, and       *)
(* <clinit> is never called by name.                                       *)
WellFormed(p) ==
  \A m \in Methods :
    LET code == Code[p][m]  table == Table[p][m] IN
    /\ DOMAIN code \subseteq Nat /\ 0 \in DOMAIN code
    /\ table \in Seq(ExceptionHandlers)
    /\ \A j \in DOMAIN table : table[j].handler \in DOMAIN code
    /\ \A a \in DOMAIN code : LET i == code[a] IN
         /\ i \in Instrs
         /\ \A j \in DOMAIN table :
              /\ table[j].start \notin a + 1 .. a + i.len - 1
              /\ table[j].end \notin a + 1 .. a + i.len - 1
         /\ i.op \notin {"return", "athrow", "branch"} => a + i.len \in DOMAIN code
         /\ \A o \in i.offs : a + o \in DOMAIN code
         /\ i.op \in {"invokestatic", "invoke"} => i.m \notin Clinit
         /\ i.op = "classop" => i.cls \in Classes

ASSUME HierarchyAssumption ==
  /\ NoClass \notin Classes
  /\ Super \in [Classes -> Classes \cup {NoClass}]
  /\ SuperClasses \in [Classes -> SUBSET Classes]
  /\ \A k \in Classes :
       /\ k \notin SuperClasses[k]
       /\ SuperClasses[k] = IF Super[k] = NoClass THEN {}
                            ELSE {Super[k]} \cup SuperClasses[Super[k]]
       /\ \A s \in SuperClasses[k] : SuperClasses[s] \subseteq SuperClasses[k]
  /\ Interfaces \subseteq Classes
  /\ \A k \in Classes : SuperClasses[k] \cap Interfaces = {}

ASSUME MethodAssumption ==
  /\ ClassOf \in [Methods -> Classes]
  /\ Static \subseteq Methods /\ Println \subseteq Methods
  /\ Clinit \subseteq Methods
  /\ \A m, n \in Clinit : ClassOf[m] = ClassOf[n] => m = n
  /\ Main \in Methods \ Clinit

ASSUME StackAssumption ==
  /\ MaxSize \in Nat /\ FrameSize \in Nat \ {0} /\ HeaderSize \in Nat
  /\ SlotNeed \in [Methods -> Nat]
  /\ HeaderSize + SlotNeed[Main] <= MaxSize

ASSUME ProgramAssumption == \A p \in Programs : WellFormed(p)

VARIABLES
  prog,     \* the program that runs; never changes
  frames,   \* the call stack, newest frame last
  pc,       \* Thread::pc_
  started,  \* classes with clinit_started_
  mode,     \* what the machine is doing
  subject,  \* mode "init": the class; mode "unwind": the exception's class
  phase     \* history: how far the initialisation of each class got

vars == <<prog, frames, pc, started, mode, subject, phase>>

(* at is the instruction last fetched in the frame, kept as history *)
NewFrame(m) == [method |-> m, next |-> 0, at |-> 0]

(* JVM::Start: main runs without its class being initialised *)
Init ==
  /\ prog \in Programs
  /\ frames = <<NewFrame(Main)>>
  /\ pc = 0
  /\ started = {}
  /\ mode = "run"
  /\ subject = NoClass
  /\ phase = [k \in Classes |-> "untouched"]

-----------------------------------------------------------------------------
Top == frames[Len(frames)]
Instr == Code[prog][Top.method][Top.next]
SetTop(f) == [frames EXCEPT ![Len(frames)] = f]
Pop(s) == SubSeq(s, 1, Len(s) - 1)

(* FrameStack proves that n frames occupy n * FrameSize bytes *)
Overflows(n, m) == n * FrameSize + SlotNeed[m] + HeaderSize > MaxSize

(* Mutant: the operand bytes are not read completely. *)
FetchedShort == [Top EXCEPT !.next = @ + Instr.len - 1, !.at = Top.next]

(* LoopExecute's fetch: pc_ is the instruction, next_pc_ the one after it *)
Fetched == [Top EXCEPT !.next = @ + Instr.len, !.at = Top.next]

(* history: a scheduled initialiser has begun *)
Begun ==
  [k \in Classes |->
     IF phase[k] = "scheduled" /\ Top.method \in Clinit /\ ClassOf[Top.method] = k
     THEN "running" ELSE phase[k]]

(* history: the initialiser in the newest frame ended as how says *)
Ended(ph, how) ==
  [k \in Classes |->
     IF Top.method \in Clinit /\ ClassOf[Top.method] = k THEN how ELSE ph[k]]

Fetch(op) ==
  /\ mode = "run"
  /\ Instr.op = op
  /\ pc' = Top.next
  /\ UNCHANGED prog

(* LOG(FATAL), abort, or an uncaught C++ exception *)
Ends(how) ==
  /\ mode' = how
  /\ phase' = Begun
  /\ UNCHANGED <<frames, started, subject>>

(* The frame goes on at next *)
GoesOn(next) ==
  /\ frames' = SetTop([Fetched EXCEPT !.next = next])
  /\ phase' = Begun
  /\ UNCHANGED <<started, mode, subject>>

(* InvokeMethod: a frame for m above the caller, CheckStackOverflow first *)
InvokeMethod(m) ==
  \/ /\ Overflows(Len(frames), m)
     /\ Ends("fatal")
  \/ /\ ~Overflows(Len(frames), m)
     /\ frames' = Append(SetTop(Fetched), NewFrame(m))
     /\ phase' = Begun
     /\ UNCHANGED <<started, mode, subject>>

(* Mutant: RevertNextPc forgotten. *)
NeedsInitNoRevert(k) ==
  /\ frames' = SetTop(Fetched)
  /\ phase' = Begun
  /\ mode' = "init"
  /\ subject' = k
  /\ UNCHANGED started

(* frame->RevertNextPc(); Class::InitClass(k); return *)
NeedsInit(k) ==
  /\ frames' = SetTop([Fetched EXCEPT !.next = Top.next])
  /\ phase' = Begun
  /\ mode' = "init"
  /\ subject' = k
  /\ UNCHANGED started

-----------------------------------------------------------------------------
(* Constants, loads, stores, arithmetic, array elements, natives *)
DataStep ==
  /\ Fetch("data")
  /\ GoesOn(Top.next + Instr.len) \/ Ends("fatal")

(* GET_FIELD, PUT_FIELD, INSTANCE_OF, CHECK_CAST, ANEW_ARRAY and           *)
(* MULTI_ANEW_ARRAY resolve a constant and need no initialised class.      *)
(* Errors of the program are C++ exceptions that nobody catches.  Those    *)
(* that create arrays or read a field assert that the constant is null.    *)
REF_OP ==
  /\ Fetch("refop")
  /\ \/ GoesOn(Top.next + Instr.len)
     \/ Ends("fatal")
     \/ prog \in Debug /\ Ends("abort")

(* goto has one offset; an if pops its operands, and has its offset and    *)
(* its own length.                                                         *)
BranchStep ==
  /\ Fetch("branch")
  /\ (\E o \in Instr.offs : GoesOn(Top.next + o)) \/ Ends("fatal")

(* tableswitch and lookupswitch pick an offset from their tables and then  *)
(* call Branch, which adds offset_, still 0: the instruction repeats until *)
(* it has popped the operand stack empty (SwitchRunsDry).                  *)
SwitchStep == Fetch("switch") /\ GoesOn(Top.next)
SwitchRunsDry == Fetch("switch") /\ Ends("fatal")

(* A method named println is not invoked: its argument is popped and       *)
(* printed in place, or the process dies of it.                            *)
HackPrintln == GoesOn(Top.next + Instr.len) \/ Ends("fatal")

(* LOG(FATAL) for a method that cannot be resolved or is not static, and   *)
(* for arguments that do not fit their slots.                              *)
INVOKE_STATIC ==
  /\ Fetch("invokestatic")
  /\ LET m == Instr.m IN
     \/ Ends("fatal")
     \/ m \in Static /\ ClassOf[m] \notin started /\ NeedsInit(ClassOf[m])
     \/ m \in Static /\ ClassOf[m] \in started /\ m \in Println /\ HackPrintln
     \/ m \in Static /\ ClassOf[m] \in started /\ m \notin Println /\ InvokeMethod(m)

(* INVOKE_SPECIAL, INVOKE_VIRTUAL, INVOKE_INTERFACE.  m is the method that *)
(* LookupMethodInClass selects for the receiver; a null receiver and the   *)
(* access and lookup errors are LOG(FATAL).  Only INVOKE_VIRTUAL looks for *)
(* println.                                                                *)
INVOKE_INSTANCE ==
  /\ Fetch("invoke")
  /\ LET m == Instr.m IN
     \/ Ends("fatal")
     \/ m \notin Static /\ m \in Println /\ HackPrintln
     \/ m \notin Static /\ InvokeMethod(m)

(* Mutant: no look at IsClinitStarted. *)
CLASS_OPUnchecked ==
  /\ Fetch("classop")
  /\ GoesOn(Top.next + Instr.len)

(* NEW, GET_STATIC, PUT_STATIC.  Each begins with assert(x == nullptr) on  *)
(* the pointer it dereferences next, so a build with assertions aborts.    *)
CLASS_OP ==
  /\ Fetch("classop")
  /\ \/ prog \in Debug /\ Ends("abort")
     \/ prog \notin Debug /\ Instr.cls \notin started /\ NeedsInit(Instr.cls)
     \/ prog \notin Debug /\ Instr.cls \in started /\ GoesOn(Top.next + Instr.len)
     \/ prog \notin Debug /\ Ends("fatal")

(* Mutants: StartClinit left out; InitSuperClass left out; StartClinit     *)
(* moved into ScheduleClinit, after its early return for a class without   *)
(* <clinit>.                                                               *)
InitClassWith(marked, next) ==
  /\ mode = "init"
  /\ started' = started \cup marked
  /\ LET clinit == {m \in Clinit : ClassOf[m] = subject} IN
     /\ \A m \in clinit : ~Overflows(Len(frames), m)
     /\ frames' = IF clinit = {} THEN frames
                  ELSE Append(frames, NewFrame(CHOOSE m \in clinit : TRUE))
     /\ phase' = [phase EXCEPT ![subject] = IF clinit = {} THEN "completed" ELSE "scheduled"]
  /\ subject' = next
  /\ mode' = IF next = NoClass THEN "run" ELSE "init"
  /\ UNCHANGED <<prog, pc>>
NextSuper == IF subject \in Interfaces \/ Super[subject] \in started
             THEN NoClass ELSE Super[subject]
InitClassUnmarked == InitClassWith({}, NoClass)
InitClassNoSuper == InitClassWith({subject}, NoClass)
InitClassMarksClinit == InitClassWith({subject} \cap {ClassOf[m] : m \in Clinit}, NextSuper)

(* Class::InitClass, one turn of its recursion through InitSuperClass *)
InitClass ==
  /\ mode = "init"
  /\ started' = started \cup {subject}
  /\ LET k == subject
         clinit == {m \in Clinit : ClassOf[m] = k}
         next == IF k \in Interfaces \/ Super[k] = NoClass \/ Super[k] \in started
                 THEN NoClass ELSE Super[k]
     IN
     \/ /\ \E m \in clinit : Overflows(Len(frames), m)
        /\ mode' = "fatal"
        /\ UNCHANGED <<frames, subject, phase>>
     \/ /\ \A m \in clinit : ~Overflows(Len(frames), m)
        /\ frames' = IF clinit = {} THEN frames
                     ELSE Append(frames, NewFrame(CHOOSE m \in clinit : TRUE))
        /\ phase' = [phase EXCEPT ![k] = IF clinit = {} THEN "completed" ELSE "scheduled"]
        /\ subject' = next
        /\ mode' = IF next = NoClass THEN "run" ELSE "init"
  /\ UNCHANGED <<prog, pc>>

(* Return<T>: PopFrame, then the value, if any, goes to the frame below *)
ReturnStep ==
  /\ Fetch("return")
  /\ frames' = Pop(frames)
  /\ phase' = Ended(phase, "completed")
  /\ mode' \in IF Len(frames) = 1 THEN {"done"} ELSE {"run", "fatal"}
  /\ UNCHANGED <<started, subject>>

(* A null reference throws a C++ exception nobody catches *)
ATHROW ==
  /\ Fetch("athrow")
  /\ IF Instr.cls = NoClass THEN Ends("fatal")
     ELSE /\ frames' = SetTop(Fetched)
          /\ phase' = Begun
          /\ mode' = "unwind"
          /\ subject' = Instr.cls
          /\ UNCHANGED started

(* An entry of the exception table catches ex at p; a null catch type      *)
(* catches everything.                                                     *)
Catches(h, p, ex) ==
  /\ h.start <= p /\ p < h.end
  /\ h.catch \in {NoClass, ex} \cup SuperClasses[ex]

(* Mutant: the pc after the instruction is looked up. *)
FindExceptionHandlerAfter(table, ex, p) ==
  {table[j].handler : j \in {j \in DOMAIN table :
     /\ Catches(table[j], p + 1, ex)
     /\ \A l \in DOMAIN table : Catches(table[l], p + 1, ex) => j <= l}}

(* Method::FindExceptionHandler: the handler of the first entry that       *)
(* catches; the empty set stands for -1.                                   *)
FindExceptionHandler(table, ex, p) ==
  {table[j].handler : j \in {j \in DOMAIN table :
     /\ Catches(table[j], p, ex)
     /\ \A l \in DOMAIN table : Catches(table[l], p, ex) => j <= l}}

(* One turn of FindAndGotoExceptionHandler.  A handler at 0 is taken for   *)
(* none; PushRef dies in a frame without two operand slots.                *)
(* HandleUncaughtException clears the stack, or dies on the message.       *)
Unwind ==
  /\ mode = "unwind"
  /\ LET found == FindExceptionHandler(Table[prog][Top.method], subject, Top.next - 1) IN
     \/ \E h \in found :
          /\ h > 0
          /\ frames' = SetTop([Top EXCEPT !.next = h])
          /\ mode' \in {"run", "fatal"}
          /\ subject' = NoClass
          /\ UNCHANGED phase
     \/ /\ \A h \in found : h <= 0
        /\ frames' = Pop(frames)
        /\ phase' = Ended(phase, "abandoned")
        /\ mode' \in IF Len(frames) = 1 THEN {"done", "fatal"} ELSE {"unwind"}
        /\ UNCHANGED subject
  /\ UNCHANGED <<prog, pc, started>>

(* FrameStack's Spill: the newest frame reaches beyond the block *)
SpillCrash ==
  /\ mode \in {"run", "init", "unwind"}
  /\ Len(frames) * FrameSize > MaxSize
  /\ mode' = "fatal"
  /\ UNCHANGED <<prog, frames, pc, started, subject, phase>>

Next ==
  \/ DataStep \/ REF_OP \/ BranchStep \/ SwitchStep \/ SwitchRunsDry
  \/ INVOKE_STATIC \/ INVOKE_INSTANCE \/ CLASS_OP \/ InitClass
  \/ ReturnStep \/ ATHROW \/ Unwind \/ SpillCrash

Spec == Init /\ [][Next]_vars

(* The loop keeps turning, and a repeating switch pops a finite stack *)
Fairness == WF_vars(Next) /\ WF_vars(SwitchRunsDry)
FairSpec == Spec /\ Fairness

-----------------------------------------------------------------------------
Modes == {"run", "init", "unwind", "done", "fatal", "abort"}
Alive == mode \in {"run", "init", "unwind"}
Phases == {"untouched", "scheduled", "running", "completed", "abandoned"}

(* Type invariant.  It includes that every frame resumes at the start of   *)
(* an instruction of its method (LoopExecute decodes whatever byte         *)
(* next_pc_ points at; only the frame an exception is leaving may point    *)
(* elsewhere) and that the loop finds a current frame ("get frame failed"  *)
(* in jvm.cpp).                                                            *)
TypeOK ==
  /\ prog \in Programs
  /\ frames \in Seq([method : Methods, next : Nat, at : Nat])
  /\ \A i \in DOMAIN frames : i < Len(frames) \/ mode \in {"run", "init"} =>
       frames[i].next \in DOMAIN Code[prog][frames[i].method]
  /\ Alive => frames /= << >>
  /\ pc \in Nat
  /\ started \subseteq Classes
  /\ mode \in Modes
  /\ subject \in IF mode \in {"init", "unwind"} THEN Classes ELSE Classes \cup {NoClass}
  /\ phase \in [Classes -> Phases]

InstrAt(p, f) == Code[p][f.method][f.at]
KindOf(k) == {k} \cup SuperClasses[k]

(* f is an initialiser whose first instruction has not been fetched *)
Unbegun(ph, f) == f.method \in Clinit /\ f.next = 0 /\ ph[ClassOf[f.method]] = "scheduled"

(* f was suspended by the initialisation of class k: it will execute again *)
(* the instruction that found the class not started, or it is itself the   *)
(* initialiser of a subclass.                                              *)
Awaits(p, ph, f, k) ==
  \/ /\ f.next = f.at
     /\ InstrAt(p, f).op \in {"invokestatic", "classop"}
     /\ k \in KindOf(Needs(InstrAt(p, f)))
  \/ Unbegun(ph, f) /\ k \in SuperClasses[ClassOf[f.method]]

(* f was suspended by invoking m and resumes after the instruction *)
Called(p, f, m) ==
  /\ InstrAt(p, f).op \in {"invokestatic", "invoke"}
  /\ InstrAt(p, f).m = m
  /\ f.next = f.at + InstrAt(p, f).len

Link(p, ph, f, g) ==
  IF g.method \in Clinit THEN Awaits(p, ph, f, ClassOf[g.method])
                         ELSE Called(p, f, g.method)

(* Of two neighbours on the stack the lower one is either suspended just   *)
(* after the invoke instruction that created the upper one, so a value     *)
(* that Return<T> pushes goes to the caller that expects it, or the upper  *)
(* one is an initialiser and the lower one will run the instruction that   *)
(* triggered it again, or is the initialiser of a subclass.  It takes      *)
(* RevertNextPc, InitClass, both ways of leaving a frame and handler entry *)
(* to keep this.                                                           *)
CallChain ==
  /\ frames /= << >> => frames[1].method = Main
  /\ \A i \in 1 .. Len(frames) - 1 : Link(prog, phase, frames[i], frames[i + 1])

(* An initialiser runs at most once: once it has begun, its class is never *)
(* scheduled again, however often the instruction that needs the class is  *)
(* executed again (IsClinitStarted).                                       *)
ClinitOnce ==
  [][\A k \in Classes : phase[k] \in {"running", "completed", "abandoned"}
                          => phase'[k] \notin {"untouched", "scheduled"}]_vars

(* Class k is not ready, but this thread is inside its initialisation: the *)
(* initialiser of one of its superclasses is still running.                *)
UnderWay(ph, k) == ph[k] = "scheduled" /\ \E b \in SuperClasses[k] : ph[b] = "running"

(* When an initialiser begins, those of the superclasses have begun before *)
(* it (InitSuperClass pushes theirs above it), except for a superclass     *)
(* whose own initialisation the same thread is in the middle of.           *)
SuperFirst ==
  [][\A k \in Classes \ Interfaces : phase[k] = "scheduled" /\ phase'[k] = "running"
       => \A a \in SuperClasses[k] : a \in started /\ (phase[a] /= "scheduled" \/ UnderWay(phase, a))]_vars

(* An instruction that needs a class takes effect only when the class's    *)
(* initialiser has begun, or is held up by a superclass's on this thread:  *)
(* what new, getstatic, putstatic and invokestatic revert next_pc_ for.    *)
UseAfterInit ==
  [][mode = "run" /\ Instr.op \in {"invokestatic", "classop"} /\ mode' = "run"
       => LET k == Needs(Instr) IN
          phase'[k] \in {"running", "completed", "abandoned"} \/ UnderWay(phase', k)]_vars

(* The unwinder decides by next_pc_ - 1.  In every frame that is executing *)
(* an athrow or waiting for a callee it enters the first handler whose     *)
(* region holds the instruction last fetched and that catches the          *)
(* exception, and drops the frame only when there is none (or none but one *)
(* at 0).  Frames that wait for an initialiser have next_pc_ on the        *)
(* instruction itself and are excepted: there the byte before it counts.   *)
CaughtWhereProtected ==
  [][mode = "unwind" /\ Top.next /= Top.at
       => LET table == Table[prog][Top.method]
              hits == {j \in DOMAIN table : Catches(table[j], Top.at, subject)}
          IN \/ /\ Len(frames') = Len(frames)
                /\ \E j \in hits : /\ \A l \in hits : j <= l
                                   /\ frames'[Len(frames)].next = table[j].handler
             \/ /\ Len(frames') < Len(frames)
                /\ \A j \in hits : (\A l \in hits : j <= l) => table[j].handler = 0
             \/ mode' = "fatal"]_vars

(* A program without backward branches comes to an end: recursion ends in  *)
(* the overflow check, an instruction executed again after initialisation  *)
(* finds the class started, unwinding empties the stack.                   *)
Termination == <>(~Alive)
=============================================================================
