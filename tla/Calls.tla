------------------------------- MODULE Calls -------------------------------
(***************************************************************************)
(* How arguments and results travel between frames: the descriptor parser  *)
(* and CalcArgSlotCount (method.cpp), InvokeMethod, the receiver peek,     *)
(* HackPrintln and INVOKE_NATIVE (invoke_insts.cpp), Return<T>             *)
(* (return_insts.h).                                                       *)
(*                                                                         *)
(* A compiler counts one slot for a reference, in descriptors, max_stack   *)
(* and max_locals; the frames keep a reference in two (see FrameSlots).    *)
(* Each frame has, as history, the values its bytecode believes to be on   *)
(* the operand stack (shadow) and to have been passed (args); programs are *)
(* those a compiler makes, which use only what they believe to have.       *)
(* Overflow of the thread's stack is FrameStack's subject.                 *)
(***************************************************************************)
EXTENDS Integers, Sequences, FiniteSets

CONSTANTS
  Methods, Main,
  Static,      \* methods with ACC_STATIC
  Native,      \* methods with ACC_NATIVE
  Println,     \* methods named println
  Params,      \* Params[m] = parameter types: [dims |-> .., base |-> ..]
  Result,      \* Result[m] \in {"V", "I", "J", "R"}
  MaxStack,    \* max_stack in the class file
  MaxLocals,   \* max_locals in the class file
  MaxDepth     \* bound on nested calls

(* Values by the slots they take here: one, two, and two for a reference.  *)
(* Base types of a descriptor: I stands for B, C, F, I, S and Z, J for J   *)
(* and D, L for a class name with its semicolon.                           *)
Kinds == {"I", "J", "R"}
Bases == {"I", "J", "L"}

(* The kinds of a method's arguments, the receiver first *)
KindOf(t) == IF t.dims > 0 \/ t.base = "L" THEN "R" ELSE t.base
ParamKinds(m) == [i \in 1 .. Len(Params[m]) |-> KindOf(Params[m][i])]
ArgKinds(m) == (IF m \in Static THEN << >> ELSE <<"R">>) \o ParamKinds(m)

Count(kinds, kind) == Cardinality({i \in 1 .. Len(kinds) : kinds[i] = kind})
References(kinds) == Count(kinds, "R")

(* The first n elements, and the rest *)
First(s, n) == SubSeq(s, 1, n)
Rest(s, n) == SubSeq(s, n + 1, Len(s))

(* Slots as a compiler counts them, two for a long or double: of values of *)
(* these kinds, and the local variable of the argument k of these kinds.   *)
(* The frames keep values of these kinds in SlotCount slots.               *)
CompilerDepth(kinds) == Len(kinds) + Count(kinds, "J")
SlotCount(kinds) == CompilerDepth(kinds) + References(kinds)
LocalIndex(kinds, k) == CompilerDepth(First(kinds, k - 1))

ASSUME MethodAssumption ==
  /\ Static \subseteq Methods /\ Native \subseteq Methods /\ Println \subseteq Methods
  /\ Main \in Static \ (Native \cup Println)
  /\ Params \in [Methods -> Seq([dims : Nat, base : Bases])]
  /\ Result \in [Methods -> Kinds \cup {"V"}]
  /\ Params[Main] = <<[dims |-> 1, base |-> "L"]>> /\ Result[Main] = "V"
  /\ MaxStack \in [Methods -> Nat] /\ MaxLocals \in [Methods -> Nat]
  /\ \A m \in Methods \ Native : MaxLocals[m] >= CompilerDepth(ArgKinds(m))
  /\ MaxDepth \in Nat \ {0}

VARIABLES
  frames,   \* the call stack, newest frame last
  status    \* "ok", "done", "segv" (a wild receiver) or "fatal" (LOG(FATAL),
            \* or println of a string that is null or no string)

vars == <<frames, status>>

-----------------------------------------------------------------------------
(* Method::Method *)

(* The descriptor of a method, as tokens: a "[" for each dimension, then   *)
(* the base type.                                                          *)
Descriptor(m) ==
  LET tokens[i \in 0 .. Len(Params[m])] ==
        IF i = 0 THEN << >>
        ELSE tokens[i - 1] \o [j \in 1 .. Params[m][i].dims |-> "["] \o <<Params[m][i].base>>
  IN tokens[Len(Params[m])]

(* Mutant: is_array not reset. *)
ParseMethodDescriptorNoReset(d) ==
  LET parsed[i \in 0 .. Len(d)] ==
        IF i = 0 THEN [types |-> << >>, is_array |-> FALSE]
        ELSE LET p == parsed[i - 1] IN
             IF d[i] = "[" THEN [p EXCEPT !.is_array = TRUE]
             ELSE [p EXCEPT !.types = Append(@, IF p.is_array THEN "[" ELSE d[i])]
  IN parsed[Len(d)].types

(* ParseMethodDescriptor: the type of an array, whatever its dimension and *)
(* base, is a string that begins with "[".                                 *)
ParseMethodDescriptor(d) ==
  LET parsed[i \in 0 .. Len(d)] ==
        IF i = 0 THEN [types |-> << >>, is_array |-> FALSE]
        ELSE LET p == parsed[i - 1] IN
             IF d[i] = "[" THEN [types |-> p.types, is_array |-> TRUE]
             ELSE [types |-> Append(p.types, IF p.is_array THEN "[" ELSE d[i]),
                   is_array |-> FALSE]
  IN parsed[Len(d)].types

CalcArgSlotCount(m) ==
  LET types == ParseMethodDescriptor(Descriptor(m))
      count[i \in 0 .. Len(types)] ==
        IF i = 0 THEN (IF m \in Static THEN 0 ELSE 1)
        ELSE count[i - 1] + (IF types[i] = "J" THEN 2 ELSE 1)
  IN count[Len(types)]

(* InjectCodeAttribute gives native methods their sizes *)
MaxStackOf(m) == IF m \in Native THEN 4 ELSE MaxStack[m]
MaxLocalsOf(m) == IF m \in Native THEN CalcArgSlotCount(m) ELSE MaxLocals[m]

-----------------------------------------------------------------------------
(* Values and slots.  A value is known by where it was made. *)
Half(v, n) == [at |-> v.at, kind |-> v.kind, half |-> n]
Slots(v) == IF v.kind = "I" THEN <<Half(v, 1)>> ELSE <<Half(v, 1), Half(v, 2)>>

Zero == [at |-> <<0, 0>>, kind |-> "I", half |-> 0]

KindsIn(values) == [i \in 1 .. Len(values) |-> values[i].kind]

(* The slots of a sequence of values *)
Flatten(values) ==
  LET slots[i \in 0 .. Len(values)] ==
        IF i = 0 THEN << >> ELSE slots[i - 1] \o Slots(values[i])
  IN slots[Len(values)]

Newest == frames[Len(frames)]
SetNewest(f) == [frames EXCEPT ![Len(frames)] = f]

(* As history, left counts the slots that calls of the frame have left on  *)
(* its stack, less those they failed to push; clean tells that there was   *)
(* no such call, that no reference was passed in the one that made the     *)
(* frame, and the same of what computed a result it has got; invoked tells *)
(* that the invoker was clean when it made the call.                       *)
NewFrame(m, locals, args, this, invoked) ==
  [method |-> m, locals |-> locals, stack |-> << >>, args |-> args, this |-> this,
   shadow |-> << >>, left |-> 0, invoked |-> invoked,
   clean |-> invoked /\ References(KindsIn(args)) = 0]

(* CreateFrame: the local variables of m, the first of them set to slots *)
LocalVars(m, slots) ==
  [i \in 0 .. MaxLocalsOf(m) - 1 |-> IF i < Len(slots) THEN slots[i + 1] ELSE Zero]

(* JVM::Start: the argument of main is stored with SetRef, as two slots *)
Init ==
  LET v == [at |-> <<0, 1>>, kind |-> "R"]
      fits == MaxLocals[Main] >= 2
      entry == NewFrame(Main, LocalVars(Main, IF fits THEN Slots(v) ELSE << >>), <<v>>, Zero, fits)
  IN /\ frames = <<[entry EXCEPT !.clean = fits]>>
     /\ status = IF fits THEN "ok" ELSE "fatal"

Die(how) == status' = how /\ UNCHANGED frames

(* PushInt, PushLong and so on: the slots fit on the operand stack of f *)
Fits(f, slots) == Len(f.stack) + Len(slots) <= MaxStackOf(f.method)

(* f with a value pushed that its bytecode takes for v *)
Pushed(f, slots, v) == [f EXCEPT !.stack = @ \o slots, !.shadow = Append(@, v)]

(* The compiler has provided for one more value of this kind *)
Provided(f, shadow, kind) ==
  CompilerDepth(Append(KindsIn(shadow), kind)) <= MaxStackOf(f.method)

-----------------------------------------------------------------------------
(* Instructions of the newest frame *)

(* A constant or a new object *)
Push(kind) ==
  /\ Newest.method \notin Native
  /\ Provided(Newest, Newest.shadow, kind)
  /\ LET v == [at |-> <<Len(frames), Len(Newest.shadow) + 1>>, kind |-> kind] IN
     \/ ~Fits(Newest, Slots(v)) /\ Die("fatal")
     \/ /\ Fits(Newest, Slots(v))
        /\ frames' = SetNewest(Pushed(Newest, Slots(v), v))
        /\ UNCHANGED status

(* Load<T> of argument k from the local variable the compiler chose *)
Load(k) ==
  /\ Newest.method \notin Native
  /\ LET v == Newest.args[k]
         index == LocalIndex(KindsIn(Newest.args), k)
         n == Len(Slots(v))
         slots == [j \in 1 .. n |-> Newest.locals[index + j - 1]]
     IN /\ Provided(Newest, Newest.shadow, v.kind)
        /\ \/ /\ index + n > MaxLocalsOf(Newest.method)
              /\ Die("fatal")
           \/ /\ index + n <= MaxLocalsOf(Newest.method)
              /\ IF Fits(Newest, slots)
                 THEN frames' = SetNewest(Pushed(Newest, slots, v)) /\ UNCHANGED status
                 ELSE Die("fatal")

(* The newest frame may call m: its bytecode has the arguments, and room   *)
(* for the result.                                                         *)
MayCall(m) ==
  LET kinds == ArgKinds(m)
      below == Len(Newest.shadow) - Len(kinds)
  IN /\ Newest.method \notin Native
     /\ below >= 0
     /\ KindsIn(Rest(Newest.shadow, below)) = kinds
     /\ Result[m] /= "V" => Provided(Newest, First(Newest.shadow, below), Result[m])

(* f when m has been invoked from it: so many slots and values stay *)
Called(f, m, slots, values) ==
  LET references == References(ArgKinds(m)) IN
  [f EXCEPT !.stack = First(@, slots), !.shadow = First(@, values),
            !.left = @ + references, !.clean = @ /\ references = 0]

(* Mutant: the slots are stored in the order they are popped. *)
InvokeMethodReversed(m, this) ==
  LET n == CalcArgSlotCount(m)
      f == Newest
      below == Len(f.stack) - n
      passed == Len(f.shadow) - Len(ArgKinds(m))
  IN /\ below >= 0 /\ (n > 0 => Len(f.stack) < MaxStackOf(f.method)) /\ n <= MaxLocalsOf(m)
     /\ frames' = Append(SetNewest(Called(f, m, below, passed)),
                         NewFrame(m, LocalVars(m, [i \in 1 .. n |-> f.stack[Len(f.stack) + 1 - i]]),
                                  Rest(f.shadow, passed), this, f.clean))
     /\ UNCHANGED status

(* InvokeMethod: a frame for m, then arg_slot_count_ times PopSlot, which  *)
(* refuses the last slot of a full stack, and SetSlot.                     *)
InvokeMethod(m, this) ==
  LET n == CalcArgSlotCount(m)
      f == Newest
      below == Len(f.stack) - n
      passed == Len(f.shadow) - Len(ArgKinds(m))
      dies == below < 0 \/ (n > 0 /\ Len(f.stack) = MaxStackOf(f.method)) \/ n > MaxLocalsOf(m)
  IN \/ dies /\ Die("fatal")
     \/ /\ ~dies
        /\ frames' = Append(SetNewest(Called(f, m, below, passed)),
                            NewFrame(m, LocalVars(m, Rest(f.stack, below)),
                                     Rest(f.shadow, passed), this, f.clean))
        /\ UNCHANGED status

INVOKE_STATIC(m) ==
  /\ m \in Static \ Println
  /\ MayCall(m)
  /\ InvokeMethod(m, Zero)

(* Mutant: the receiver looked for below arg_slot_count_ slots. *)
PeekedBelowAll(m) ==
  LET top == Len(Newest.stack)  n == CalcArgSlotCount(m)
  IN <<Newest.stack[top - n - 1], Newest.stack[top - n]>>

(* GetRefFromTop(arg_slot_count_ - 1) *)
Peeked(m) ==
  LET top == Len(Newest.stack)  n == CalcArgSlotCount(m)
  IN <<Newest.stack[top - n], Newest.stack[top - n + 1]>>

(* INVOKE_SPECIAL, INVOKE_VIRTUAL, INVOKE_INTERFACE: the method invoked is *)
(* looked up in the class of the object peeked at and has m's descriptor.  *)
(* The peek may meet two halves that make no reference: a wild pointer.    *)
INVOKE_INSTANCE(m) ==
  /\ m \notin Static
  /\ MayCall(m)
  /\ \/ /\ Len(Newest.stack) <= CalcArgSlotCount(m) + 1
        /\ Die("fatal")
     \/ /\ Len(Newest.stack) > CalcArgSlotCount(m) + 1
        /\ LET ref == Peeked(m) IN
           IF ref[1].kind = "R" /\ ref[1].half = 1 /\ ref[2] = [ref[1] EXCEPT !.half = 2]
           THEN Die("fatal") \/ InvokeMethod(m, ref[1]) ELSE Die("segv")

(* f when m, a println, has been printed: so many slots and values stay.   *)
(* Only the first parameter is popped, and no result is pushed, whatever   *)
(* the bytecode expects.                                                   *)
Printed(f, m, slots, values) ==
  LET result == IF Result[m] = "V" THEN << >>
                ELSE <<[at |-> <<Len(frames), values + 1>>, kind |-> Result[m]]>>
  IN [f EXCEPT !.stack = First(@, slots), !.shadow = First(@, values) \o result,
               !.left = @ + SlotCount(Rest(ParamKinds(m), 1)) - Len(Flatten(result)),
               !.clean = @ /\ Len(Params[m]) = 1 /\ result = << >>]

(* HackPrintln, from INVOKE_STATIC and INVOKE_VIRTUAL, of any method of    *)
(* that name: what descriptor[1] says is popped, and the receiver; a       *)
(* println without parameters is not supported.                            *)
HackPrintln(m) ==
  /\ m \in Println
  /\ MayCall(m)
  /\ LET f == Newest
         values == Len(f.shadow) - Len(ArgKinds(m))
         popped == (IF KindOf(Params[m][1]) = "I" THEN 1 ELSE 2) + (IF m \in Static THEN 0 ELSE 2)
         below == Len(f.stack) - popped
         string == Params[m] = <<[dims |-> 0, base |-> "L"]>> /\ Result[m] = "V"
     IN \/ (Params[m] = << >> \/ string) /\ Die("fatal")
        \/ /\ Params[m] /= << >>
           /\ IF below < 0 THEN Die("fatal")
              ELSE frames' = SetNewest(Printed(f, m, below, values)) /\ UNCHANGED status

(* INVOKE_NATIVE, in the code injected for a native method, and the method *)
(* behind it: not registered, or it pushes a result of its type; what it   *)
(* reads of reference arguments may be a wild pointer.                     *)
INVOKE_NATIVE ==
  /\ Newest.method \in Native
  /\ Newest.shadow = << >>
  /\ \/ Die("fatal")
     \/ References(ArgKinds(Newest.method)) > 0 /\ Die("segv")
     \/ /\ Result[Newest.method] /= "V"
        /\ LET v == [at |-> <<Len(frames), 1>>, kind |-> Result[Newest.method]] IN
           frames' = SetNewest(Pushed(Newest, Slots(v), v))
        /\ UNCHANGED status

(* The slots a result of this kind is popped and pushed as *)
ResultSlots(kind) == IF kind = "I" THEN 1 ELSE 2

(* The invoker of f with the result of f pushed that it takes for v *)
Resumed(invoker, f, value, v) == [Pushed(invoker, value, v) EXCEPT !.clean = @ /\ f.clean]

(* Return<T>: PopFrame, and the value goes from the operand stack of the   *)
(* frame popped to that of the one below.                                  *)
Return ==
  LET f == Newest
      kind == Result[f.method]
      v == f.shadow[Len(f.shadow)]
      n == ResultSlots(kind)
      value == Rest(f.stack, Len(f.stack) - n)
      below == First(frames, Len(frames) - 1)
      invoker == below[Len(below)]
  IN \/ /\ kind = "V"
        /\ frames' = below
        /\ status' = IF below = << >> THEN "done" ELSE "ok"
     \/ /\ kind /= "V"
        /\ f.shadow /= << >> /\ v.kind = kind
        /\ IF Len(f.stack) < n \/ ~Fits(invoker, value) THEN Die("fatal")
           ELSE /\ frames' = [below EXCEPT ![Len(below)] = Resumed(invoker, f, value, v)]
                /\ UNCHANGED status

Running == status = "ok"

Next ==
  \/ \E kind \in Kinds : Running /\ Push(kind)
  \/ Running /\ \E k \in 1 .. Len(Newest.args) : Load(k)
  \/ \E m \in Methods \ {Main} : Running /\ Len(frames) < MaxDepth /\ INVOKE_STATIC(m)
  \/ \E m \in Methods \ {Main} : Running /\ Len(frames) < MaxDepth /\ INVOKE_INSTANCE(m)
  \/ \E m \in Println : Running /\ HackPrintln(m)
  \/ Running /\ INVOKE_NATIVE
  \/ Running /\ Return

Spec == Init /\ [][Next]_vars

-----------------------------------------------------------------------------
(* Slots are neither lost nor made up by calls and returns: an operand     *)
(* stack holds the slots of the values its bytecode expects, and exactly   *)
(* one more for each reference it has passed to InvokeMethod, which takes  *)
(* one slot of the two.  Each println called adds the slots of the         *)
(* parameters behind its first and takes away those of its result.         *)
SlotsAccounted ==
  \A i \in DOMAIN frames :
    Len(frames[i].stack) = Len(Flatten(frames[i].shadow)) + frames[i].left

(* As long as only int, long, float and double arguments are passed, and   *)
(* no println has a result or other than one parameter, every callee has   *)
(* them in the local variables its bytecode loads them from, and every     *)
(* operand stack, results included, holds what its bytecode expects,       *)
(* however calls are nested.                                               *)
ValuesArrive ==
  \A i \in DOMAIN frames : LET f == frames[i] IN
    f.clean => /\ f.stack = Flatten(f.shadow)
               /\ \A j \in 1 .. Len(Flatten(f.args)) : f.locals[j - 1] = Flatten(f.args)[j]

(* GetRefFromTop(arg_slot_count_ - 1) finds the receiver as long as no     *)
(* reference has been passed before, nor such a println called, and no     *)
(* reference is among the arguments above the receiver: the method is      *)
(* looked up in the receiver's class, and the pointer is never a wild one. *)
ReceiverFound ==
  /\ \A i \in 2 .. Len(frames) : LET f == frames[i] IN
       f.invoked /\ f.method \notin Static /\ References(ArgKinds(f.method)) = 1
       => f.this = Half(f.args[1], 1)
  /\ status = "segv" /\ Newest.clean
       => \E m \in Methods \ Static : MayCall(m) /\ References(ArgKinds(m)) > 1
=============================================================================
