# A TLA+ model of the jvm-demo virtual machine

jvm-demo is a small Java virtual machine in C++: it finds class files on a class path,
parses them, loads and links classes, and interprets bytecode in one thread. This
directory models its core in TLA+. TLC checks the models on small instances, TLAPS
proves most of the properties for all instances. `PROJECT.json` maps every
definition to the source lines it stands for.

Run from this directory:

    tlc -config MCInterpreter.cfg MCInterpreter
    tlapm InterpreterProofs.tla

## 1. The system

`main.cpp` builds a `JVM` and calls `JVM::Start`, which creates the heap and the class
loaders, loads `java/lang/Class` and what it depends on, makes the primitive classes,
loads the class named on the command line, finds its `main`, and enters `LoopExecute`.
From there on everything happens inside the bytecode loop: each turn takes the newest
frame of the thread, decodes the instruction at `next_pc_` and executes it.

| Component | State | Operations | Talks to |
|---|---|---|---|
| Frame memory: `slots.h`, `operand_stack.*`, `local_vars.h`, constant, load, store and stack instructions | two vectors of 32-bit slots, `top_` | push, pop, peek, shuffle, load, store, handler entry | the interpreter, through every instruction |
| Thread stack: `stack.*`, `thread.*`, `frame.*` | one 1024-byte block, `sp_`, `fp_`, `prev_fp_` of each frame | overflow check, push, pop, clear | created by invoke and `<clinit>` scheduling, popped by return and unwinding |
| Bytecode loop: `jvm.cpp`, `invoke_insts.cpp`, `reference_insts.cpp`, `return_insts.h`, `control_insts.*` | `pc_`, `next_pc_` of each frame, `clinit_started_` of each class | fetch, branch, switch, invoke, return, athrow, class initialisation | all of the others |
| Class hierarchy queries: `class.cpp` | `super_class_`, `interfaces_`, members | subclass, interface and assignment tests, member lookup | `instanceof`, `checkcast`, invoke, handler selection |
| Class loading: `class_loader.*`, `Class::StartLoad`, `LinkClass` | `loaded_classes_` of each loader, class objects | `LoadClass` (recursive), array and primitive classes, field layout | class path, parser, heap; called from resolution at any instruction |
| Class path: `classpath/` | directory, archive and composite readers | `ReadClass` | class loading |
| Class file parser: `classfile/` | read position | decode | class loading |
| Run-time constant pool: `constant_pool.*` | resolved classes and members | resolve on first use, cache | the instructions that name a class or member |
| Methods and descriptors: `method.*`, `class_member.*` | code and exception table, placed in one malloc block | construction, argument count, handler search | loading, calls, unwinding |
| Heap, objects and arrays: `alloc/`, `object.*`, `array.h` | one block with a free pointer; field slots | allocate, get and set fields | `new`, class objects, strings |
| Natives, string pool, command line | a fixed table; a map of strings | empty stubs, option parsing | invoke; start-up |

### What is hard here

There is one thread, and nothing is persisted, so there are no interleavings inside the
program and no crash recovery. The only other actors are processes that write or remove class
files while the program reads them. What a unit test hardly reaches is mostly elsewhere, and
the list "hazards" of `PROJECT.json` gives it line by line:

* *Class initialisation by re-execution.* The instruction that needs a class resets
  `next_pc_` to itself, pushes frames for the initialisers and returns to the loop. The
  loop then runs them, in the reverse of the order in which they were pushed, and executes
  the instruction again. The frames of initialisers stand between caller and callee, and
  an exception, a recursive call or another initialisation can come from inside them.
* *Unwinding by `next_pc_ - 1`*, through frames that are suspended at a call and through
  frames that are about to repeat an instruction.
* *A stack block whose overflow check counts other bytes than its push*, and a heap whose
  objects are smaller than what their accessors address.
* *Unsigned bounds* (`size() - 1`) on vectors that may be empty, and two-slot values in
  one-slot arrays.
* *Recursive loading* with a cache that is filled only when the recursion returns, an
  `operator[]` lookup that enters null pointers, and two loaders of which one resolves for
  both.
* *Lookups cached for ever* over a hierarchy that grows.
* *A parser that trusts its position.* It skips an attribute by its length only if it does
  not know it; one field read too short shifts everything behind it. Constants of two
  entries shift every number behind them, in two pools that are built separately.
* *The order of search* on a class path made of directories, archives, wildcards and empty
  entries, the gap between `lstat` and `open`, and options anywhere on a command line.

For each component the properties that make it correct: frame memory must behave as a
sequence of words and stay inside its vectors; the stack block must behave as a LIFO call
stack; the loop must keep callers and callees matched, initialise each class once,
superclass first and before use, catch exceptions where they are protected, and end; every
slot of a call must be accounted for; the queries must agree with reachability in the
hierarchy and refuse no legal use of a member; the loader must resolve supers first, give one object per
name, lay fields out disjointly, and end; the parser must stay in step with the file and a
number must mean the same constant everywhere; the heap must account for its bytes, stores
into objects must not spoil classes, and static fields must read back what was written; the first class path entry that has a class must win.

## 2. Modules

| Module | Models | State and actions |
|---|---|---|
| `FrameSlots` | frame memory | `slots`, `top`, `locals`: one action per group of instructions with the same effect (`PushNarrow` for int and float, `PushWide` for long, double and reference, `DUP_X2`, `LoadWide`, `EnterHandler`, ...) |
| `WordFrame` | what frame memory promises | a sequence of words and a function of variables |
| `FrameStack` | thread stack | byte offsets `sp`, `fp`, frame records in `mem`: `CreateFrame`, `PopFrame`, `Clear`; `Spill` and `SpillCrash` for a frame that reaches beyond the block |
| `CallStack` | what the thread stack promises | a sequence of methods |
| `Interpreter` | the loop, calls, initialisation, exceptions | `frames`, `pc`, `started`, `mode`: one action per kind of instruction, `InitClass` and `Unwind` for one turn of the two inner loops |
| `Calls` | arguments and results | operand stacks and locals of all frames, slot by slot, and what their bytecode expects in them: `Push`, `Load`, `INVOKE_STATIC`, `INVOKE_INSTANCE`, `HackPrintln`, `INVOKE_NATIVE`, `Return` |
| `ClassRelations` | hierarchy queries, access checks | a hierarchy that grows by `Define` (`HierarchySpec`); the queries, `MemberIsAccessibleTo` and the resolution of members are operators compared with reference definitions |
| `ClassLoading` | loaders and start-up | `objects` (with their field `layout`), `cache`, `calls` (the recursion), `stage`: `Cached`, `StartLoad`, `Resolve`, `DefineClass` with `LinkClass`, and the stages of `JVM::Start` |
| `ClassFormat` | class files as compilers write them (the input) | fields of one to eight bytes at their offsets, constant numbers; `WellFormed`, what a compiler makes sure of |
| `ClassFile` | the parser and the run-time constant pool | `pos`, `work` (the parse functions in progress), `infos`, `pool`: one step per parse function or turn of its loop, then one per run-time constant |
| `Fields` | heap, objects, static variables | `pos`, `allocated`, `block`, `heap` (class objects and objects), `statics`: `Load` (a class object and the static variables), `New`, `NotInPlace` (a `realloc` that moves or fails), `PutField`, `PutStatic` |
| `ClassPath` | command line, class path, readers | `command`, `readers`, `left` (readers not asked yet), `size` (from `lstat`), `answer`: `ParseCommand`, `ParseClassPaths`, `ReadClass`, `Lstat`, `ReadFile`, `ReadArchive`, `OpenMissing`, `NotFound`; `WriteFile`, `RemoveFile`, `RemoveArchive`, `DamageArchive` by other processes |
| `FrameSlotsProofs`, `FrameStackProofs`, `InterpreterProofs`, `CallsProofs`, `ClassLoadingProofs`, `ClassFileProofs`, `ClassPathProofs` | | theorems about the module named |
| `RuntimeClassProofs` | | theorems about `ClassRelations` and `Fields`, what `class.cpp` and its objects do |
| `MC*` | | instances for TLC |

How they fit together: `Interpreter` uses `FrameStack` through its proved facts. Its stack
is a sequence, as `ImplementsCallStack` allows; n frames take n * `FrameSize` bytes, which is
`Chained`; and a frame beyond the block may end the process, which is `SpillCrash`.
Instructions that move data are `FrameSlots`' subject, and appear in `Interpreter` as steps
that complete or end the process. `Calls` looks at the same invoke and return instructions
from the side of the data, on operand stacks with the behaviour that `ImplementsWordFrame`
establishes. `ClassRelations` starts from the hierarchies that
`ClassLoading` establishes: superclasses and interfaces are complete before a class that
needs them (`SupersReady`). `ClassLoading` sees a class path by what its readers answer, which
is what `ClassPath` models step by step, and a class file by the names and fields that
`ClassFile` shows the pools to agree on. `Fields` takes from `ClassLoading` that the slots of a
class's instance fields are disjoint and within its slot count (`LayoutNests`): that is
`ClassesAssumption`.

Conventions. `LOG(FATAL)`, an uncaught C++ exception and `exit` end the process: status or
mode "fatal". An access through a null pointer or outside a vector is "segv". A data error
of the running program that the code answers with `LOG(FATAL)` (null receiver, failed access
check, argument that does not fit) is a nondeterministic "fatal" outcome of the instruction.
Definitions called "Mutant" are the faulty variants that show that a property can fail; no
specification uses them.

Variables that are not in the program: `result` in `FrameSlots` (the last value popped);
`at` of a frame (the last instruction fetched) and `phase` (how far a class's initialisation
got) in `Interpreter`; `shadow`, `args`, `this`, `left`, `clean` and
`invoked` of a frame in `Calls` (the values its bytecode expects on the stack, the values passed to
it, the object its method was looked up in, the slots that its calls left on the stack less
those they failed to push, and whether any reference passed, or any println with a result or
other than one parameter, has touched it or, when it was called, its invoker); `damage` (which
stores into objects hit which class objects) and `wrote` (the value last given to each static
field) in `Fields`; `changed` in `ClassPath` (when another process touched the file system). They are
written by actions and read by properties; `shadow` and `args` also decide which programs are
considered, namely those that use only what they have, as compiled code does, `damage` ends a
behaviour, `wrote` bounds the run by the number of static fields written (`MaxWritten`), and `changed` bounds it to one
disturbance. `prog`, `files`, `file` (with its `bytes`) and `line` pick the program, class files or command line
of a behaviour and never change.

## 3. Runs

| Run | What it shows |
|---|---|
| `frame_slots` | all sequences of stack, local and handler operations keep `top_` and the slots in range (`TypeOK`), leave a vector only when it is empty (`WildOnlyWhenEmpty`), deliver 64-bit values as pushed (`WideRoundTrip`) and refine `WordFrame` |
| `frame_stack` | with the program's sizes, frames stay chained (`Chained`), at most the newest goes beyond the block, with its header inside (`OnlyNewestSpills`), and the block refines `CallStack` |
| `interpreter` | 5184 programs: `CallChain`, `ClinitOnce`, `SuperFirst`, `UseAfterInit`, `CaughtWhereProtected`, `Termination` |
| `calls` | nested calls of all kinds of methods, println of any descriptor among them: every slot is accounted for (`SlotsAccounted`); a frame that no reference was passed to or from, and that called no println with a result or other than one parameter, has its arguments and results in place (`ValuesArrive`), and a call from it finds its receiver below arguments without references (`ReceiverFound`) |
| `class_relations` | all hierarchies of up to five classes: `SubclassIsReachability`, `AssignableByShape` (the assignment test is right for the shapes that avoid its reversed subclass test), `OverrideWins`, `FieldFoundIffReachable`, `LegalUseResolves` (no use that Java allows of a field, or of a method that classes declare, is refused), `AnswersStay` |
| `class_loading` | all small class paths and hierarchies, circles included: `SupersReady`, `LayoutNests`, `ClassOfClasses`, `DiesOnlyWithReason`, `AnswersStay`, `LoadEnds` |
| `class_file` | class files with all constants and attributes: the parser reads every field where it was written and ends at the last byte (`InStep`), both pools give each number the constant the compiler meant (`PoolsAgree`), numbers arrive bit by bit where the shifts are defined (`ConstantsExact`) |
| `fields` | classes loaded and objects made in any order up to a full heap, with writes in between: pointer, count and what was allocated agree (`FreshAccounted`), no store into an object reaches a class object that was there before it (`EarlierClassesWhole`), static fields read back what was written (`StaticsReadBack`) |
| `class_path` | command lines start the class they name (`CommandMeant`), the first entry that has a class gives it, through archives that are missing, made anew or damaged (`FirstEntryWins`), and whole (`WholeFile`), links and files written to while they are read excepted |

Three runs end in a violation. Each states what a comment, a message or a test of the
repository says, and shows that the code does otherwise:

| Run | Statement | What the code does |
|---|---|---|
| `frame_stack_overrun` | exceeding `max_size_` is a `StackOverflowError` | the thirteenth frame ends 16 bytes beyond the block, unnoticed |
| `class_relations_assign` | "s can assign from t", "t implements s" | the subclass and implements tests are asked the other way round |
| `class_loading_stored` | `LoadClass("java/lang/Object")` finds the class | the name is passed on without ".class", which every reader refuses |

### Bounds, and why they are enough

* `MCFrameSlots`: slots of two values, so that a 64-bit value has four patterns and a mixed-up
  half is seen; stacks of 0, 1, 2, 3 and 6 slots: the empty vector, both sides of one two-slot
  value, and the least size in which `DUP2_X2` (four slots popped, six pushed) can succeed.
* `MCFrameStack`: the real sizes (1024, 80, 20) and two methods on either side of the point
  where the overflow check decides differently. The stack is bounded by the code itself.
* `MCInterpreter`: classes o <- a <- b (a chain of three is the least in which an
  initialisation can be entered in the middle), an interface, the main class. A program
  picks one of a few bodies for each method and initialiser, and one of four exception
  tables; between them they start every initialiser from every other one, throw in and
  through initialisers, recurse to the overflow and branch. `MCDebug` are the programs
  run with assertions.
* `MCCalls`: three nested calls, so that a result passes through a frame that was itself
  called; five operand slots in main, so that there is one below a receiver and one above its
  argument, without which the peek or the pop refuses; every kind of argument before and after
  every other one that matters: an array of long before a long, a reference before references;
  println of a long, a string and nothing, and one of two parameters with a result.
* `MCClassRelations`: five classes give every shape with two classes and an interface beyond
  Object and Cloneable, and diamonds of interfaces; two direct interfaces (`MaxInterfaces`), the
  least with an order among them; two array dimensions decide all cases of
  `IsAssignableFrom`, since it removes them pairwise.
* `MCClassLoading`: five library classes and two application classes. `MaxDepth` exceeds the
  number of class names, so that only a circle can use it up (`NamesAssumption`).
  `MaxObjects` is enough for all of them; an allocation may fail at any time.
* `MCClassFile`: every kind of constant before and behind what it refers to (the pool forwards
  and backwards), a long or double first, amid and last, two in a row and two apart; numbers
  with the bits that the shifts of `ParseUnsignedInt` treat differently (none, 30, 31, 40, the
  exponent, all); every attribute with zero, one and several entries, nested in Code and
  beside it; files with the wrong magic and versions on both sides of the limits. The parser
  has no state but its position, so longer files repeat these cases.
* `MCFields`: the heap of the unit test, 4097 bytes asked for, which is rounded up; a class of
  one slot, one with one- and two-word fields and static constants of both sizes, and one of which
  the second object, or a class object behind the first, finds the fresh space full; four
  allocations (`MaxObjects`), so that classes and objects come in all orders; any two static
  fields written (`MaxWritten`), again and again, since one field is spoilt by a write to one
  other; words of both signs.
* `MCClassPath`: ten starts and five ends of command lines, with options twice, without their
  argument, unknown, behind the class and behind "--"; class paths with two entries in both orders, a
  wildcard and an empty entry; the class in a directory, linked, in an archive, in both, in
  none, in an entry that is damaged or locked, or the archive missing, in a directory in which
  it can be made and in one in which it cannot; one disturbance by another process at any step.

`SuffixTests` is {TRUE, FALSE} in `class_loading`: with this commit's readers start-up dies
at `java/lang/Object` (run `class_loading_stored`), so nothing behind that point would be
checked. FALSE models a reader that answers plain names too, with the loader unchanged.

Deadlock is not checked: in every model the process may end, and then takes no step.

### Fairness

`Interpreter` assumes WF of `Next`, since `LoopExecute` is a loop in the only thread and
nothing in it waits, and WF of `SwitchRunsDry`, since a switch that repeats itself pops one
operand each time from a finite stack. The second is needed because the operand stack is not
part of that module. The programs of `MCInterpreter` have no backward branch, so
`Termination` is a property of the machine: of recursion, initialisation and unwinding.
`ClassLoading` assumes WF of the steps inside `LoadClass`, which is a plain recursion; nothing
makes a program ask for classes, so the other steps have no fairness. `FrameSlots`,
`FrameStack`, `Calls`, `ClassRelations`, `ClassFile`, `Fields` and `ClassPath` are checked for
safety only.

## 4. Proofs

| Module | Theorem | States |
|---|---|---|
| `FrameSlotsProofs` | `TypeCorrect` | `TypeOK`: top_ in range, every slot a word |
| | `NoWildAccess` | `WildOnlyWhenEmpty` |
| | `WideValuesKept` | `WideRoundTrip` |
| | `SlotsAreWords` | `ImplementsWordFrame`: the refinement of `WordFrame` |
| `FrameStackProofs` | `TypeCorrect`, `ChainIntact`, `OverrunLimited` | `TypeOK`, `Chained`, `OnlyNewestSpills` |
| | `BlockIsCallStack` | `ImplementsCallStack`: the refinement of `CallStack` |
| `InterpreterProofs` | `TypeCorrect`, `ChainKept`, `InitialisedOnce` | `TypeOK`, `CallChain`, `ClinitOnce` |
| | `SupersBegin`, `UsedWhenBegun`, `CaughtInRegion` | `SuperFirst`, `UseAfterInit`, `CaughtWhereProtected` |
| `CallsProofs` | `DescriptorParsed`, `ArgSlotCount` | the descriptor parser and `CalcArgSlotCount` compute what a compiler counts, for every method |
| | `NoSlotLost`, `ArgumentsArrive`, `ReceiverIsFound` | `SlotsAccounted`, `ValuesArrive`, `ReceiverFound` |
| `RuntimeClassProofs` | `SubclassAlways`, `AssignableAlways` | `SubclassIsReachability`, `AssignableByShape` |
| | `OverrideAlwaysWins`, `FieldAlwaysFound` | `OverrideWins`, `FieldFoundIffReachable` |
| | `LegalUseAlwaysResolves`, `AnswersStayAlways` | `LegalUseResolves`, `AnswersStay` |
| | `FreshAccountedAlways`, `EarlierClassesAlwaysWhole`, `StaticsReadBackAlways` | `FreshAccounted`, `EarlierClassesWhole`, `StaticsReadBack` |
| `ClassLoadingProofs` | `TypeCorrect`, `SupersReadyAlways`, `ClassOfClassesAlways`, `DiesOnlyWithReasonAlways`, `AnswersStayAlways` | `TypeOK`, `SupersReady`, `ClassOfClasses`, `DiesOnlyWithReason`, `AnswersStay` |
| | `LayoutNestsAlways` | `LayoutNests` |
| `ClassFileProofs` | `ParserInStep`, `ConstantPoolsAgree`, `NumbersExact` | `InStep`, `PoolsAgree`, `ConstantsExact` |
| `ClassPathProofs` | `CommandAlwaysMeant`, `FirstEntryAlwaysWins`, `WholeFileAlways` | `CommandMeant`, `FirstEntryWins`, `WholeFile` |

*Frame memory.* The inductive invariant is `TypeOK` with `WildOnlyWhenEmpty`. The core is the
lemma `SizeMinusOneValue`: `size() - 1` in `size_t` is the number below, except for an empty
vector. `StackInstIInv` treats all shuffles at once, from the fact that each pushes only slots
it has popped. For the refinement the abstract stack is the slots below `top_`; `Replaced` says
what taking some slots off and putting others on means for it, and each group of instructions
is an instance. `WideRoundTrip` rests on two facts of arithmetic, `SplitJoin` and `JoinSplit`:
splitting a value in two words and joining them are inverse. Assumptions: the sizes and indexes
are far below the wrap of `size_t`.

*Thread stack.* The inductive invariant is the conjunction of the three properties:
`OnlyNewestSpills` needs `Chained` to know that the frame below a new one ends at `sp_`, and
`Chained` needs the types. The refinement adds that the block is filled with `sp_ / FrameSize`
frames from its start (`Filled`), so that the abstract stack can be read off by position; it
needs `OnlyNewestSpills`, since damage that reached an older frame would change the middle of
the abstract stack. Assumptions: a header is not larger than a frame; nothing about
their values, so the theorems hold for any build.

*Interpreter.* `CallChain` is not inductive. `IInv` adds that an initialiser's frame belongs to
a class in initialisation, has not moved if it has not begun, and is the only frame of its
class (`ClinitsActive`, `ClinitsDistinct`); that a class is marked started exactly when its
initialisation was touched; and that in mode "init" the newest frame waits for the class
that is about to be scheduled. Lemmas say what a move of the newest frame, a push and a pop do to this
invariant, and one lemma per action applies them. `InitialisedOnce` follows, since a class is
scheduled only when it is not started. Assumptions: superclass chains have no circles
(`HierarchyAssumption`, which `ClassLoading` shows of classes that were loaded), a class has
at most one `<clinit>`, and programs are well-formed as a compiler makes them (`WellFormed`):
control stays on instruction boundaries and `<clinit>` is never called by name.

*Order of initialisation and unwinding.* The second half of `InterpreterProofs` reduces `Next` to five ways in
which the stack changes (`Steps`: a turn of the loop, a frame left, a handler entered, a halt,
`InitClass`). `OrderInv` then holds what `SuperFirst` and `UseAfterInit` need: below any frame l
of the stack an initialiser that waits is held up by a superclass, one that runs at or below l
or the one that waits in l (`Held`); a scheduled class has its frame (`OnStack`); the superclasses
of a started class are started or `InitClass` is on its way to them (`SupersStarted`). The
quantifier over l makes it inductive: popping a frame leaves a lower part of the stack of which
the same was already known. `CaughtInRegion` needs `Paused`: the frame that an exception reaches
has `next_pc_` behind or on its last instruction, which for a frame below another one is
`CallChain`; the rest is that a region made of whole instructions holds the last byte of one
exactly when it holds the first (`WholeInstructions`). Further assumption: no superclass is an
interface, which compilers guarantee and the loader does not check; `InitSuperClass` stops at an
interface, so the superclasses of one would be left out.

*Hierarchy queries.* The inductive invariant is `Ordered`: the classes are numbered without gaps,
and a superclass or interface has a smaller number than the class that names it, because `Define`
is given classes that are there already. The walks of `class.cpp` are recursive functions over
classes; `Recursion` shows that a function whose values are computed from those at smaller numbers
exists, so that each walk satisfies its own equation (`WalkSteps`, `SubInterfaceSteps`,
`MethodSteps`, `FieldSteps`). The reference definition, reachability as the least set closed under
the edges, is unfolded one edge at a time, and a `StrongInduction` over the classes compares the
two. `AnswersStay` compares the equations before and after a step in the same way: `Kept` says that
the old classes have their superclass, interfaces and members still. `LegalUseResolves` compares
the lookups with `MeantFields`, `MeantMethods` and `Legal`, which say by reachability alone which
declarations Java can mean and which uses it allows; it rests on all classes having the same
package name. Assumptions:
`BoundAssumption`, which says that `Cloneable` and `Serializable` are the first classes behind
Object; nothing about the number of classes, interfaces or dimensions.

*Class loading.* `LoadInv` has the class objects and caches (`World`: types, pointers lead to
class objects, cached classes are complete, their supers are the boot loader's answers), the calls
in progress (`Stack`: each waits for the next; `CallOK`: what a call holds so far is what its
class needs), and where `JVM::Start` is (`Stages`, `Classes`). Its centre is that a class is not in
the cache while the boot loader loads it; otherwise a class that is entered twice would leave two
objects for one name. `DiesOnlyWithReason` counts: the names of the calls in progress are distinct
unless there is a circle, so the recursion is not deeper than there are names. Assumptions: names
of classes, arrays and primitive types are kept apart, `MaxDepth` exceeds the number of names.

*Field layout.* `LayoutInv` says of every cached class that its instance fields are numbered from
its superclass's slot count on, each behind the one before, and end at its own slot count. It is
kept because a class is linked when its superclass is complete and cached (`SupersReady`), and a
cached class's layout never changes. `FieldSlots`, the recursive function over the fields of a
class, is treated by induction over their number.

*Heap and fields.* `HeapInv` is `FreshAccounted` and `EarlierClassesWhole` with the kinds of what
was allocated. A new object begins at the bump pointer, behind everything before it
(`NothingBehind`), and its header and fields, far outside it as they lie, have offsets from its
start that are never negative, so what they can hit was allocated later (`OnlyAhead`,
`FieldBehind`). This is about the outcome in which no `realloc` moves what was allocated; the model stops
at every other one. `StaticsInv` says that the static slots of a class hold what was last written to
each of its fields; it is kept since `StaticSlot` gives two fields disjoint slots (`SlotsApart`).
Assumptions: sizes are numbers, field slots lie within the slot count of their class, and
constants have the width of their field.

*Arguments and results.* First the computations: the descriptor parser gives one type per parameter
(`DescriptorParsed`: after the tokens of the parameter i the flag `is_array` is reset again), hence
the slot count is the compiler's (`ArgSlotCount`), and a compiler's count differs from the slots of
the values by one per reference (`FlattenLength`). The invariant then has, for each frame, the types,
that its operand stack has the slots of its shadow and `left` more, an integer, since a println
with a result takes away slots that the bytecode counts on (`PrintlnLength`), and, while
it is `clean`, that it has exactly those slots in order and its arguments in its locals. A call takes
the slots above a point at which, in a clean frame, the values of the shadow split too; a return
gives the invoker the slots of the value it expects, if the callee was clean. Assumptions:
`MethodAssumption`, what a class file says about its methods; of println nothing is assumed.

*Class files.* A written file is a list of cells, fields of some bytes with a value. `At(p, s)` says
that the cells s are what is left of the file from byte p on. From it `Reads` concludes what
`ValueAt` and `Fits` give at p, so each parse function gets a lemma of the form: when what is left
begins with the cells written for it, it takes exactly these and leaves the rest (`ConstantReads`,
`PlainReads`, `CodeReads`, `MemberReads` and so on; the offsets are sums of widths, `StartsStep` and
`StartsShift`). Work that is left and cells that are left are related by `Matches`: the cells split
into one list for each task, and each list is `Good` for its task, for example the attributes that
a loop has still to read. The nesting of attributes in code in members needs no induction, because
a parse function that meets a nested list puts a task on `work` and its cells on the front of
the list. `FileInv` has the stages before, in and behind the constants (`Stage`), `Parsed`
(entry `Number(cs)[i]` of `infos` is what the parser makes of constant i, for the constants read) and
`Made` (the same for the run-time pool). `ConstantPoolsAgree` follows since numbers increase by one or two
(`NumberOrder`) and leave no gaps but the second entries (`NumberCovers`), and since the references of
a constant lead to entries of the kinds they are cast to (`CastsRight`); `NumbersExact` since the
byte at each place of `ParseUnsignedInt` ends up where it was (`LowByte`, `HighByte`), with either
outcome of the undefined shift. Assumption: `FilesAssumption`, the files are `WellFormed`:
references lead to constants of the kinds they should, an attribute has its name in the pool, code
is not empty. There is no bound on constants, members, attributes or attributes in code.

*Class path.* `WholeFile` needs only that the size asked for is the size of the file as long as no
other process has written to it (`ReadInv`). `SearchInv` for `FirstEntryWins` says that the readers
not asked yet are the readers of the entries from some position on, and that those passed hold
nothing; an archive that the search makes anew holds nothing either, and may be named again
later. An ordering of the readers by entry (`Ranked`) is kept when the lists of several entries are
joined. `CommandMeant` is an induction over the tokens: up to the class each option has its
argument taken and the last of each kind is kept (`BeforeClass`), behind it each word is added
(`AfterClass`). Assumptions: tokens and entries have the kinds listed, every class path given is
defined, and a file system has no listing for an empty path, since `lstat("")` fails.

*Induction over data.* The library's induction theorems take an operator and cannot be used here.
The proof modules that need it prove the same for sets: a set of numbers that is not empty has
a least element (`LeastNat`, from the well-foundedness of <), hence `Induction` and
`SeqInduction`; from these `RecursionExists` and `Recursion`, that a recursive function over an
interval has the values its equation says. A statement about all n is proved by applying them to the set of those n for which it holds.

Model-checked only: liveness (`Termination`, `LoadEnds`), which is out of the prover's reach.
Every other property of a passing run is a theorem. The `FileInv` of class files quantifies over
all lists of cells and cannot be evaluated by TLC; the runs check its consequences.

## 5. What the properties leave open

* `UseAfterInit` and `SuperFirst` except a class whose superclass is initialising on the same
  stack, which the Java language allows, and `UseAfterInit` accepts an abandoned class:
  unwinding drops a scheduled initialiser, but the class stays marked started. The repository
  does not say what should happen then.
* `CaughtWhereProtected` excepts frames that will repeat their instruction. There
  `next_pc_ - 1` is the byte before it, and a handler that protects the instruction may be missed.
* `ValuesArrive` and `ReceiverFound` are about frames that no reference was passed to or from, nor
  in what computed their results, whatever happens in other frames. When one is passed
  `InvokeMethod` takes one slot of the two, as `SlotsAccounted` states: the callee finds half a
  pointer, and the other half stays with the caller. No line of the repository says how many
  slots an argument should have, so there is no run that ends in a violation of it. They also
  except frames that called a println with a result or other than one parameter: the code takes
  any method of that name for one of `java.io.PrintStream`, pops what `descriptor[1]` says and
  pushes nothing (`invoke_insts.cpp:60`, `:122`).
* `ClassOfClasses` states what is: the classes of the base loader keep a null class pointer,
  because that loader never caches `java/lang/Class`.
* `EarlierClassesWhole` is half of what one would want. `new` asks for the slots of the class
  only, without room for the header, and the accessors scale slot numbers twice
  (`object.cpp:47`), so the header and the fields of an object lie over what is allocated
  behind it, classes included: a class loaded after an object can be overwritten by it.
  Instance fields therefore do not read back in general, and their values are not modelled, nor is the
  sign extension by which a long whose low word is negative loses its high word
  (`object.cpp:64`).
* `AssignableByShape` leaves out class elements in equal dimensions, `String[]` to `Object[]` as
  well as `String` to `Object`: there `class.cpp:248` comes down to the reversed subclass test of
  line 229, the subject of the run `class_relations_assign`. An Object as value for an array is
  left out too.
* `ConstantsExact` leaves out long and double constants with bits above 30:
  `class_parser.h:85` shifts them out of an `int`.
* `LegalUseResolves` leaves out methods that only interfaces declare: `LookupMethod` keeps the
  answer of the last interface asked, found or not (`class.cpp:157`), so a legal call of such a
  method can end in `NoSuchMethodError`. It says nothing of illegal uses but private ones: `package_name_` is never set,
  so all classes are in one package, and the subclass test of a protected member asks whether
  the declaring class is a subclass of the accessing one (`class_member.cpp:20`).
* `WholeFile` excepts links, of which as many bytes are read as the link's own name is long
  (`class_reader.cpp:132`), and files written to between `lstat` and the read; a file made in
  between is read with an uninitialised size. `FirstEntryWins` treats an empty entry as the
  code does, as a wildcard of the root directory (`class_reader.cpp:47`). An archive that is
  missing is created by `ZipFile::Open` as an empty file (`ZipFile.cpp:36`), a damaged one has no
  entries, and in both cases the search goes on; it ends in a C++ exception that nothing catches only where
  the file can be neither opened nor made (`class_reader.cpp:164`), and in a null pointer at an
  entry that needs a password (`class_reader.cpp:173`).
* `CommandMeant` is about lines without options behind the class and without "--" before it; an
  empty class name prints the help (`main.cpp:62`);
  anything behind "--", an option too, is taken for the class. `getopt_long_only` takes
  arguments of the program that begin with "-" for options of the machine, and `-Xmx512m` for an
  unknown option, which prints the help (`command.cpp:17`).

Facts met while modelling that the models contain as they are: `GetSlot` and `GetRefFromTop`
refuse the last index they could serve (`slots.h:95`, `operand_stack.cpp:76`); the assertions in
`reference_insts.cpp` (lines 79, 111, 139, 150, 197, 238) say that a pointer is null which the next
line dereferences, so a build with assertions aborts there (`MCDebug`); static String constants
are compared with the descriptor "L/java/lang/String;" and never set (`class_loader.cpp:238`).

## 6. Not modelled

* Array load and store instructions, and elements of arrays: no instruction of this version
  reads or writes one.
* Values of arithmetic, comparison and conversion instructions; the MUTF-8 decoder.
* Behaviour that the C++ standard leaves undefined from its first step, where any outcome would
  be a guess: `NewClassObject` casts memory that was never constructed (`class.cpp:363`), methods keep
  two vectors in a malloc block without their constructors (`method.cpp:26`). `AllocObject` calls
  `realloc` (`heap.cpp:35`): its first call, for the first class object, shrinks the whole heap
  block to that object, every later one is given a pointer into the middle of the block, and
  stores behind the block follow. `Fields` keeps the size of the block, follows the outcome that
  leaves the memory in place, and ends in status "moved" or "undefined" for all others. Field offsets are those of a 64-bit build, where the data begins at byte 28.
* Damaged class files: the parser checks no bounds, so what it does with them is undefined. An
  attribute named "DepreCated", the code's spelling of Deprecated (`class_parser.cpp:87`), is
  taken to have an empty body, since the code reads none.
* The string pool, a map that only `NewJString` fills; natives, a fixed table of stubs that are
  mostly empty; the ext class loader, which is created and never asked.
* The vendored libraries (glog, ZipLib, jemalloc, googletest), which are unchanged third-party code
  with tests of their own. The program uses logging, the reading of an archive entry and the
  allocator; they appear as the outcomes of those calls, `ZipFile::Open` with the file it makes as
  `OpenMissing`.

## 7. Plan

Done, in this order: frame memory, thread stack, interpreter, argument passing, hierarchy queries,
class loading, the class file parser, heap and fields, class path and command line, and the
theorems of section 4. Left, in the order of what it would add:

1. The MUTF-8 decoder against a reference definition over short byte sequences.
