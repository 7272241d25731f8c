------------------------------- MODULE Fields -------------------------------
(***************************************************************************)
(* Where fields live: the heap with its class objects and objects          *)
(* (heap.cpp, object.cpp, Class::NewClassObject) and the static variables  *)
(* of a class (class_loader.cpp), as NEW, PUT_FIELD and PUT_STATIC         *)
(* (reference_insts.cpp) use them.                                         *)
(*                                                                         *)
(* Offsets are bytes from the start of the heap block.  Everything comes   *)
(* from one bump pointer, a class object when its class is loaded, so one  *)
(* is there before any object.  NEW asks for the slots of the class only,  *)
(* so the header and the fields, which are spread four times as far as the *)
(* slots, lie beyond the end of the object, over whatever is allocated     *)
(* there next.  Of what is stored in the heap only the place is kept.      *)
(*                                                                         *)
(* The first AllocObject shrinks the block to the object it makes; with    *)
(* every later one, and with every store behind the block, the behaviour   *)
(* is undefined.  What is followed is the outcome in which the memory is   *)
(* still there and nothing moves; all others end the behaviour.            *)
(***************************************************************************)
EXTENDS Integers, Sequences, FiniteSets

CONSTANTS
  MaxSize,      \* the size the heap is made with
  ClassSize,    \* sizeof(Class)
  Classes,      \* by class: count, which is instance_slot_count_, the set of
                \* instance fields [slot, width, final], and statics, the
                \* static fields in order, [width, final, kind, constant]
  Words,        \* words that are stored in static fields
  MaxObjects,   \* allocations of a run
  MaxWritten    \* static fields that a run writes to

VARIABLES
  pos,        \* fresh_pos_
  allocated,  \* bytes_allocated_
  block,      \* how long the block at heap_base_ is
  heap,       \* what was allocated, [of, class, at] with of "class" or
              \* "object", or Null for an object a full heap did not give
  damage,     \* <<r, k>> when a store into object r hit class object k
  statics,    \* static_vars_ of each class, once it is loaded
  wrote,      \* the value last given to each static field (not in the code)
  status      \* "ok", "thrown" (a C++ exception nothing catches), "dead" (no
              \* room for a class object), "moved" or "undefined"

vars == <<pos, allocated, block, heap, damage, statics, wrote, status>>

-----------------------------------------------------------------------------
(* heap_util.h, Heap::Heap *)
RoundDown(x) == (x \div 8) * 8
RoundUp(x) == RoundDown(x + 7)

Larger(a, b) == IF a > b THEN a ELSE b
MinHeapSize == 4096
HeapSize == Larger(MinHeapSize, RoundUp(MaxSize))
SurvivorSize == RoundDown((HeapSize \div 4) \div 10)
FreshSize == RoundDown(SurvivorSize * 8)
FromStart == FreshSize
ToStart == FromStart + SurvivorSize
OldStart == ToStart + SurvivorSize

SlotSize == 4
DataOffset == 28        \* of data_ in a DataObject
ObjectSize(c) == Classes[c].count * SlotSize

(* Mutant: fields counted downwards. *)
FieldOffsetDown(f) == DataOffset - f.slot * SlotSize * SlotSize

(* The slot number is scaled by hand and again as an index of Slots *)
FieldOffset(f) == DataOffset + f.slot * SlotSize * SlotSize

(* The words AllocObject writes: age, forwarded and remembered; the class *)
HeaderOffsets == {8, 16, 20}

ASSUME SizesAssumption == MaxSize \in Nat /\ ClassSize \in Nat \ {0}

ASSUME ClassesAssumption ==
  \A c \in DOMAIN Classes :
    /\ Classes[c].count \in Nat
    /\ \A f \in Classes[c].fields :
         f.slot \in Nat /\ f.width \in {1, 2} /\ f.slot + f.width <= Classes[c].count

ASSUME StaticsAssumption ==
  \A c \in DOMAIN Classes :
    /\ Len(Classes[c].statics) \in Nat
    /\ DOMAIN Classes[c].statics = 1 .. Len(Classes[c].statics)
    /\ \A i \in DOMAIN Classes[c].statics :
         LET f == Classes[c].statics[i] IN
         /\ f.width \in {1, 2} /\ f.final \in BOOLEAN
         /\ f.kind \in {"number", "assertionsDisabled", "reference"}
         /\ f.constant \in [1 .. f.width -> Words] \cup {<< >>}

-----------------------------------------------------------------------------
Null == [of |-> "null", class |-> "", at |-> -1]
Zero == 0

Init ==
  /\ pos = 0
  /\ allocated = 0
  /\ block = HeapSize
  /\ heap = << >>
  /\ damage = {}
  /\ statics = << >>
  /\ wrote = << >>
  /\ status = "ok"

Stop(how) ==
  status' = how /\ UNCHANGED <<pos, allocated, block, heap, damage, statics, wrote>>

(* m with the value v under key k *)
Put(m, k, v) == [x \in DOMAIN m \cup {k} |-> IF x = k THEN v ELSE m[x]]

(* The class objects that have a byte of the word at p *)
Hit(p) ==
  {k \in DOMAIN heap : /\ heap[k].of = "class"
                       /\ heap[k].at < p + SlotSize /\ p < heap[k].at + RoundUp(ClassSize)}

(* Words are stored for entry r of the heap; what happens once a class     *)
(* object is hit is not followed.                                          *)
StoreAll(r, words) ==
  /\ damage' = damage \cup ({r} \X UNION {Hit(p) : p \in words})
  /\ status' = IF damage' = {} THEN status ELSE "undefined"

(* Mutant: the whole block taken for the fresh space. *)
FullBlock(size) == pos + size > HeapSize

Full(size) == pos + size > FreshSize

(* The rest of Heap::AllocObject, where there is room.  realloc of the     *)
(* start of the block, the first call, is defined, shrinks the block and   *)
(* may move it; of any other place it is undefined.                        *)
AllocObject(of, c, size) ==
  /\ pos' = pos + size
  /\ allocated' = allocated + size
  /\ block' = IF pos = 0 THEN size ELSE block
  /\ heap' = Append(heap, [of |-> of, class |-> c, at |-> pos])
  /\ StoreAll(Len(heap) + 1, {pos + o : o \in HeaderOffsets})
Realloced == Stop(IF pos = 0 THEN "moved" ELSE "undefined")

(* NEW of a class that is loaded and initialised: a full heap gives a null *)
(* reference.                                                              *)
NEW_OBJECT(c) ==
  LET size == RoundUp(ObjectSize(c)) IN
  /\ Len(heap) < MaxObjects /\ c \in DOMAIN statics
  /\ IF Full(size)
     THEN heap' = Append(heap, Null) /\ UNCHANGED <<pos, allocated, block, damage, status>>
     ELSE AllocObject("object", c, size)
  /\ UNCHANGED <<statics, wrote>>

(* PUT_FIELD to field f of reference r; a final field is written by the    *)
(* constructors of its class only.  A store behind the block is undefined. *)
FieldWords(r, f) == {heap[r].at + FieldOffset(f) + SlotSize * (i - 1) : i \in 1 .. f.width}
PUT_FIELD(r, f, own) ==
  IF (f.final /\ ~own) \/ heap[r] = Null THEN Stop("thrown")
  ELSE \/ /\ StoreAll(r, FieldWords(r, f))
          /\ UNCHANGED <<pos, allocated, block, heap, statics, wrote>>
       \/ /\ \E p \in FieldWords(r, f) : p + SlotSize > block
          /\ Stop("undefined")

-----------------------------------------------------------------------------
(* Static variables *)

(* Mutant: a long counted as one slot. *)
StaticSlotSingle(fs, i) == i - 1

(* CalcStaticFieldSlotIds: the slots before static field i, of which the   *)
(* ones of two words have two                                              *)
StaticSlot(fs, i) == i - 1 + Cardinality({j \in 1 .. i - 1 : fs[j].width = 2})

ZeroWords(f) == [i \in 1 .. f.width |-> Zero]

(* InitStaticFinalVar: a number gets its constant, or zero without one;    *)
(* $assertionsDisabled and references are left as they are, strings too,   *)
(* whose descriptor the code spells with a slash in front.                 *)
FirstValue(f) ==
  IF f.final /\ f.kind = "number" /\ f.constant /= << >> THEN f.constant ELSE ZeroWords(f)

(* AllocAndInitStaticVars *)
FirstStatics(c) ==
  LET fs == Classes[c].statics
      slots == UNION {{<<StaticSlot(fs, i) + j, FirstValue(fs[i])[j]>> : j \in 1 .. fs[i].width} :
                        i \in DOMAIN fs}
  IN [s \in {x[1] : x \in slots} |-> (CHOOSE x \in slots : x[1] = s)[2]]

(* DefineClass and LinkClass: a class object, which has to be given, and   *)
(* the static variables                                                    *)
LoadClass(c) ==
  LET size == RoundUp(ClassSize) IN
  /\ Len(heap) < MaxObjects /\ c \notin DOMAIN statics
  /\ IF Full(size) THEN Stop("dead")
     ELSE /\ AllocObject("class", c, size)
          /\ statics' = Put(statics, c, FirstStatics(c))
          /\ UNCHANGED wrote

(* The bound on the fields written *)
MayWrite(k) == Cardinality(DOMAIN wrote \cup {k}) <= MaxWritten

(* PUT_STATIC; a final field is written by <clinit> of its class only. *)
PUT_STATIC(c, i, ws, own) ==
  LET fs == Classes[c].statics
      at == StaticSlot(fs, i)
  IN /\ c \in DOMAIN statics /\ MayWrite(<<c, i>>)
     /\ IF fs[i].final /\ ~own THEN Stop("thrown")
        ELSE /\ statics' = [statics EXCEPT ![c] = [s \in DOMAIN @ |->
                              IF s - at \in DOMAIN ws THEN ws[s - at] ELSE @[s]]]
             /\ wrote' = Put(wrote, <<c, i>>, ws)
             /\ UNCHANGED <<pos, allocated, block, heap, damage, status>>

(* GET_STATIC *)
StaticValue(c, i) ==
  LET fs == Classes[c].statics IN
  [j \in 1 .. fs[i].width |-> statics[c][StaticSlot(fs, i) + j]]

-----------------------------------------------------------------------------
Load == \E c \in DOMAIN Classes : LoadClass(c)
New == \E c \in DOMAIN Classes : NEW_OBJECT(c)

(* The realloc of either does not leave the object where it was. *)
NotInPlace ==
  /\ Len(heap) < MaxObjects
  /\ \E c \in DOMAIN Classes :
       \/ c \notin DOMAIN statics /\ ~Full(RoundUp(ClassSize))
       \/ c \in DOMAIN statics /\ ~Full(RoundUp(ObjectSize(c)))
  /\ Realloced

PutField ==
  \E r \in DOMAIN heap, own \in BOOLEAN :
    /\ heap[r].of /= "class"
    /\ \E f \in IF heap[r] = Null THEN UNION {Classes[c].fields : c \in DOMAIN Classes}
                 ELSE Classes[heap[r].class].fields : PUT_FIELD(r, f, own)
PutStatic ==
  \E c \in DOMAIN statics, own \in BOOLEAN :
    \E i \in DOMAIN Classes[c].statics :
      \E ws \in [1 .. Classes[c].statics[i].width -> Words] : PUT_STATIC(c, i, ws, own)

Next == status = "ok" /\ (Load \/ New \/ NotInPlace \/ PutField \/ PutStatic)

Spec == Init /\ [][Next]_vars

-----------------------------------------------------------------------------
(* Properties *)

Real == {r \in DOMAIN heap : heap[r] /= Null}
SizeOf(e) == RoundUp(IF e.of = "class" THEN ClassSize ELSE ObjectSize(e.class))

(* The bump pointer, the byte count and what was allocated agree however   *)
(* large the heap and whatever is allocated: what AllocObject gave out for *)
(* classes and objects lies aligned, in order and apart within the fresh   *)
(* space, and the survivor and old spaces follow it within the size asked  *)
(* for.                                                                    *)
FreshAccounted ==
  /\ allocated = pos /\ pos % 8 = 0 /\ pos <= FreshSize
  /\ FreshSize <= ToStart /\ ToStart <= OldStart /\ OldStart <= HeapSize
  /\ \A r \in Real : heap[r].at + SizeOf(heap[r]) <= pos
  /\ \A q, r \in Real : q < r => heap[q].at + SizeOf(heap[q]) <= heap[r].at

(* Headers and fields lie outside what NEW asked for, but only ahead of    *)
(* the object: no store into an object reaches a class object that was     *)
(* there before it, so the classes loaded before the first NEW stay whole  *)
(* and only a class loaded behind an object can be overwritten by it.      *)
EarlierClassesWhole == \A d \in damage : d[1] < d[2]

(* A static field holds what was last put into it, and before that its     *)
(* constant, whatever was put into the fields around it.                   *)
StaticsReadBack ==
  \A c \in DOMAIN statics :
    \A i \in DOMAIN Classes[c].statics :
      LET f == Classes[c].statics[i]  k == <<c, i>> IN
      IF k \in DOMAIN wrote THEN StaticValue(c, i) = wrote[k]
      ELSE f.final /\ f.kind = "number" /\ f.constant /= << >>
             => StaticValue(c, i) = f.constant
=============================================================================
