---------------------------- MODULE ClassLoading ----------------------------
(***************************************************************************)
(* runtime::ClassLoader (class_loader.cpp) with Class::StartLoad and       *)
(* StartLoadArrayClass (class.cpp), the start-up sequence of JVM::Start    *)
(* that drives them (jvm.cpp) and the suffix test every class path reader  *)
(* begins with (class_reader.cpp).                                         *)
(*                                                                         *)
(* LoadClass is recursive: StartLoad loads the superclass and the          *)
(* interfaces of a class before DefineClass enters the class in the cache  *)
(* of the loader and LinkClass lays out its fields.  calls is the stack of *)
(* the LoadClass calls in progress, and one action is one stage of the     *)
(* innermost call.  Whatever loader LoadClass runs in, what it loads on    *)
(* the way is loaded by the boot loader, since StartLoad sets loader_ to   *)
(* it.                                                                     *)
(***************************************************************************)
EXTENDS Integers, Sequences, FiniteSets

CONSTANTS
  Names,         \* names of classes that have class files
  Object, Jlc,   \* java/lang/Object and java/lang/Class, among the Names
  JlcFile,       \* kJlcClassString, the key java/lang/Class.class
  ArrayInterfaces, \* <<java/lang/Cloneable, java/io/Serializable>>
  Arrays,        \* names of array classes
  PrimitiveTypes,  \* the names of the primitive types, in order
  StringClass, StringArray,  \* the classes JVM::CreateArgs asks for
  Hierarchies,   \* what the class files say: [super |-> .., interfaces |-> ..]
  Paths,         \* which class files each loader's reader holds
  SuffixTests,   \* whether the readers test the name for ".class"
  Widths,        \* Widths[n] = slots of the instance fields n declares, in order
  MainClass,     \* the class named on the command line
  MaxDepth,      \* calls of LoadClass the native stack has room for
  MaxObjects     \* class objects the heap has room for

Loaders == {"boot", "base"}
Primitives == {PrimitiveTypes[i] : i \in DOMAIN PrimitiveTypes}
Keys == Names \cup {JlcFile} \cup Arrays \cup Primitives

ASSUME NamesAssumption ==
  /\ IsFiniteSet(Names)
  /\ {Object, Jlc, StringClass, MainClass} \subseteq Names
  /\ JlcFile \notin Names
  /\ Arrays \cap (Names \cup {JlcFile}) = {}
  /\ Primitives \cap (Names \cup Arrays \cup {JlcFile}) = {}
  /\ ArrayInterfaces \in Seq(Names) /\ StringArray \in Arrays
  /\ PrimitiveTypes \in Seq(Primitives)
  /\ Widths \in [Names -> Seq({1, 2})]
  /\ MaxDepth \in Nat /\ MaxDepth > Cardinality(Names) + 1
  /\ MaxObjects \in Nat

ASSUME FilesAssumption ==
  /\ \A h \in Hierarchies : /\ h.super \in [Names -> Names]
                            /\ h.interfaces \in [Names -> Seq(Names)]
  /\ Paths \subseteq [Loaders -> SUBSET Names]
  /\ SuffixTests \subseteq BOOLEAN

Null == 0      \* a null Class*, where class objects are positions in objects

VARIABLES
  files,     \* the class files and readers of this run; never changes
  objects,   \* the class objects allocated, oldest first
  layout,    \* layout[o] = the slots of the fields object o declares and its
             \* inst_slot_count_, from LinkClass on
  cache,     \* cache[l] = loaded_classes_ of loader l
  calls,     \* the LoadClass calls in progress, innermost last
  stage,     \* how far JVM::Start has got
  status     \* "ok", "fatal" (LOG(FATAL)), "segv" or "nomem"

vars == <<files, objects, layout, cache, calls, stage, status>>

Call(l, k) == [loader |-> l, key |-> k, object |-> Null, got |-> << >>]

(* JVM::Start has entered LoadBasicClass *)
Init ==
  /\ files \in [hierarchy : Hierarchies, path : Paths, suffixTest : SuffixTests]
  /\ objects = << >>
  /\ layout = << >>
  /\ cache = [l \in Loaders |-> [k \in {} |-> Null]]
  /\ calls = <<Call("boot", JlcFile)>>
  /\ stage = "basic"
  /\ status = "ok"

-----------------------------------------------------------------------------
(* Class files *)

(* The class in the file that a key leads to *)
ClassNamed(k) == IF k = JlcFile THEN Jlc ELSE k

(* ReadClass of the loader's reader: a reader with the suffix test finds   *)
(* nothing for a name without ".class"; the answer then has no data, and   *)
(* Parse reads through its null pointer.                                   *)
ReadClass(l, k) ==
  /\ files.suffixTest => k = JlcFile
  /\ ClassNamed(k) \in files.path[l]

(* What StartLoad and StartLoadArrayClass load, in order; Object is the    *)
(* one class without a superclass (ResolveSuperClass).                     *)
Needed(k) ==
  IF k \in Arrays THEN <<Object>> \o ArrayInterfaces
  ELSE LET n == ClassNamed(k) IN
       (IF n = Object THEN << >> ELSE <<files.hierarchy.super[n]>>)
          \o files.hierarchy.interfaces[n]

(* Mutant: the superclass's fields not counted. *)
FieldSlotsFromZero(widths, start) ==
  LET slot[i \in 1 .. Len(widths) + 1] ==
        IF i = 1 THEN 0 ELSE slot[i - 1] + widths[i - 1]
  IN slot

(* CalcInstanceFieldSlotIds: the fields follow the superclass's slots *)
FieldSlots(widths, start) ==
  LET slot[i \in 1 .. Len(widths) + 1] ==
        IF i = 1 THEN start ELSE slot[i - 1] + widths[i - 1]
  IN slot

(* A class object whose constructor has run.  NewClassObject runs none on  *)
(* the memory it casts to Class*; the tests replace it by one that does    *)
(* (class_loader_test.cpp), and so does this module.                       *)
NewObject(n) == [name |-> n, super |-> Null, interfaces |-> << >>, class |-> Null,
                 loaded |-> FALSE]

Die(how) == status' = how /\ UNCHANGED <<files, objects, layout, cache, calls, stage>>

-----------------------------------------------------------------------------
(* LoadClass *)

Innermost == calls[Len(calls)]
Outer == SubSeq(calls, 1, Len(calls) - 1)

(* m with the value v under key k *)
Put(m, k, v) == [x \in DOMAIN m \cup {k} |-> IF x = k THEN v ELSE m[x]]

(* Mutant: the loop over the interfaces does not advance. *)
ReturnToSame(outer, o) == outer

(* LoadClass returns o to the call that is waiting for it, if there is one *)
ReturnTo(outer, o) ==
  IF outer = << >> THEN << >>
  ELSE [outer EXCEPT ![Len(outer)].got = Append(@, o)]

(* Mutants: the classes loaded before java/lang/Class left as they are;    *)
(* the loop over the cache before java/lang/Class is entered.              *)
BasicDoneNoLoop(objs, boot, jlc) ==
  /\ cache' = [cache EXCEPT !["boot"] = Put(boot, JlcFile, jlc)]
  /\ objects' = objs
  /\ calls' = << >>
  /\ stage' = "primitive"
  /\ UNCHANGED status
BasicDoneLoopFirst(objs, boot, jlc) ==
  /\ \E k \in DOMAIN boot : boot[k] = Null
  /\ cache' = [cache EXCEPT !["boot"] = boot]
  /\ status' = "segv"
  /\ UNCHANGED <<objects, calls, stage>>

(* LoadBasicClass after its LoadClass: jlc enters the boot cache under     *)
(* its second key and becomes the class of all classes cached there.       *)
BasicDone(objs, boot, jlc) ==
  LET known == Put(boot, JlcFile, jlc) IN
  /\ cache' = [cache EXCEPT !["boot"] = known]
  /\ IF \E k \in DOMAIN known : known[k] = Null
     THEN objects' = objs /\ status' = "segv" /\ UNCHANGED <<calls, stage>>
     ELSE /\ objects' = [i \in DOMAIN objs |->
                           IF \E k \in DOMAIN known : known[k] = i
                           THEN [objs[i] EXCEPT !.class = jlc] ELSE objs[i]]
          /\ calls' = << >>
          /\ stage' = "primitive"
          /\ UNCHANGED status

(* Where JVM::Start goes when the load of a stage is over; without a main  *)
(* method it ends.                                                         *)
After == [main |-> {"string", "end"}, string |-> {"args"}, args |-> {"run"}, run |-> {"run"}]

(* The innermost call returns o, leaving objects and cache as given.  The  *)
(* outermost call returns to JVM::Start, which may find no room for the    *)
(* arguments in main's frame, or, in stage "run", to ResolveClass, which   *)
(* refuses a class that is not accessible.                                 *)
Return(o, objs, caches) ==
  IF Outer = << >> /\ stage = "basic" THEN BasicDone(objs, caches["boot"], o)
  ELSE /\ objects' = objs
       /\ cache' = caches
       /\ calls' = ReturnTo(Outer, o)
       /\ stage' \in IF Outer /= << >> THEN {stage} ELSE After[stage]
       /\ status' \in IF Outer = << >> /\ stage \in {"args", "run"} THEN {"ok", "fatal"} ELSE {"ok"}

(* The class is in the cache *)
Cached ==
  /\ Innermost.object = Null
  /\ Innermost.key \in DOMAIN cache[Innermost.loader]
  /\ Return(cache[Innermost.loader][Innermost.key], objects, cache)
  /\ UNCHANGED <<files, layout>>

(* Class::NewClassObject: a class object, or a null pointer or worse when  *)
(* the heap cannot give one.                                               *)
NewClassObject ==
  \/ /\ Len(objects) < MaxObjects
     /\ objects' = Append(objects, NewObject(ClassNamed(Innermost.key)))
     /\ calls' = [calls EXCEPT ![Len(calls)].object = Len(objects) + 1]
     /\ UNCHANGED <<files, layout, cache, stage, status>>
  \/ Die("nomem")

(* Mutants: a class that is not found is cached as a null pointer; the     *)
(* cache is not looked at.                                                 *)
StartLoadCachesMiss ==
  /\ Innermost.object = Null
  /\ Innermost.key \notin DOMAIN cache[Innermost.loader]
  /\ IF Innermost.key \in Arrays \/ ReadClass(Innermost.loader, Innermost.key)
     THEN NewClassObject
     ELSE /\ cache' = [cache EXCEPT ![Innermost.loader] = Put(@, Innermost.key, Null)]
          /\ UNCHANGED <<files, objects, layout, calls, stage, status>>
StartLoadAgain ==
  /\ Innermost.object = Null
  /\ IF Innermost.key \in Arrays \/ ReadClass(Innermost.loader, Innermost.key)
     THEN NewClassObject ELSE Die("segv")

(* LoadNonArrayClass and LoadArrayClass up to StartLoad: the class file is *)
(* read, the object allocated.                                             *)
StartLoad ==
  /\ Innermost.object = Null
  /\ Innermost.key \notin DOMAIN cache[Innermost.loader]
  /\ IF Innermost.key \in Arrays \/ ReadClass(Innermost.loader, Innermost.key)
     THEN NewClassObject ELSE Die("segv")

(* Mutant: the loader that loads the class loads what it needs. *)
ResolveHere ==
  /\ Innermost.object /= Null
  /\ Len(Innermost.got) < Len(Needed(Innermost.key))
  /\ Len(calls) < MaxDepth
  /\ calls' = Append(calls, Call(Innermost.loader, Needed(Innermost.key)[Len(Innermost.got) + 1]))
  /\ UNCHANGED <<files, objects, layout, cache, stage, status>>

(* ResolveSuperClass, ResolveInterfaces: the next class this one needs is  *)
(* loaded by the boot loader.                                              *)
Resolve ==
  /\ Innermost.object /= Null
  /\ LET next == Len(Innermost.got) + 1  needed == Needed(Innermost.key) IN
     /\ next <= Len(needed)
     /\ IF Len(calls) = MaxDepth THEN Die("segv")
        ELSE /\ calls' = Append(calls, Call("boot", needed[next]))
             /\ UNCHANGED <<files, objects, layout, cache, stage, status>>

(* The class object c with what StartLoad stores in it *)
Linked(c, got) ==
  [c EXCEPT !.super = IF c.name = Object THEN Null ELSE got[1],
            !.interfaces = IF c.name = Object THEN got ELSE Tail(got),
            !.loaded = TRUE]

(* LinkClass: the superclass is complete, so its slot count is final *)
LinkClass(k, super) ==
  LET widths == IF k \in Arrays THEN << >> ELSE Widths[ClassNamed(k)]
      slot == FieldSlots(widths, IF k \in Arrays \/ super = Null THEN 0 ELSE layout[super].count)
  IN [slots |-> [i \in 1 .. Len(widths) |-> slot[i]], count |-> slot[Len(widths) + 1]]

(* The rest of LoadClass: the class enters the cache under the name in its *)
(* class file; looking up java/lang/Class with operator[] enters a null    *)
(* pointer under kJlcClassString when there is none yet.                   *)
DefineClass ==
  /\ Innermost.object /= Null
  /\ Len(Innermost.got) = Len(Needed(Innermost.key))
  /\ LET l == Innermost.loader
         o == Innermost.object
         known == Put(cache[l], objects[o].name, o)
         jlc == IF JlcFile \in DOMAIN known THEN known[JlcFile] ELSE Null
         linked == Linked(objects[o], Innermost.got)
     IN /\ Return(o, [objects EXCEPT ![o] = [linked EXCEPT !.class = jlc]],
                     [cache EXCEPT ![l] = Put(known, JlcFile, jlc)])
        /\ layout' = Put(layout, o, LinkClass(Innermost.key, linked.super))
  /\ UNCHANGED files

-----------------------------------------------------------------------------
(* JVM::Start *)

(* LoadPrimitiveClasses, which allocates and caches one class per type *)
LoadPrimitiveClasses ==
  /\ stage = "primitive"
  /\ \/ Die("nomem")
     \/ /\ Len(objects) + Len(PrimitiveTypes) <= MaxObjects
        /\ objects' = objects \o [i \in DOMAIN PrimitiveTypes |->
             [NewObject(PrimitiveTypes[i]) EXCEPT !.class = cache["boot"][JlcFile]]]
        /\ cache' = [cache EXCEPT !["boot"] = [k \in DOMAIN @ \cup Primitives |->
             IF k \in Primitives
             THEN Len(objects) + CHOOSE i \in DOMAIN PrimitiveTypes : PrimitiveTypes[i] = k
             ELSE @[k]]]
        /\ stage' = "main"
        /\ calls' = <<Call("base", MainClass)>>
        /\ UNCHANGED <<files, layout, status>>

(* CreateArgs: java/lang/String, then its array class *)
CreateArgs ==
  /\ stage \in {"string", "args"}
  /\ calls' = <<Call("boot", IF stage = "string" THEN StringClass ELSE StringArray)>>
  /\ UNCHANGED <<files, objects, layout, cache, stage, status>>

(* SymRefConstant::ResolveClass, and GetComponentClass, GetArrayClass,     *)
(* GetPrimitiveArrayClass and NewJString alike: through the boot loader    *)
ResolveClass(k) ==
  /\ stage = "run"
  /\ calls' = <<Call("boot", k)>>
  /\ UNCHANGED <<files, objects, layout, cache, stage, status>>

InLoadClass == status = "ok" /\ calls /= << >>
Returned == status = "ok" /\ calls = << >>

Next ==
  \/ InLoadClass /\ Cached
  \/ InLoadClass /\ StartLoad
  \/ InLoadClass /\ Resolve
  \/ InLoadClass /\ DefineClass
  \/ Returned /\ LoadPrimitiveClasses
  \/ Returned /\ CreateArgs
  \/ Returned /\ \E k \in Keys \ {JlcFile} : ResolveClass(k)

Spec == Init /\ [][Next]_vars

(* LoadClass runs on; nothing makes a program ask for more classes *)
FairSpec == Spec /\ WF_vars(InLoadClass /\ Next)

-----------------------------------------------------------------------------
Cacheds(l) == {k \in DOMAIN cache[l] : cache[l][k] /= Null}

(* Type invariant: cache entries and the pointers between class objects    *)
(* are class objects or null, and no key but kJlcClassString is cached     *)
(* with a null pointer (LoadClass returns cached entries unseen).          *)
TypeOK ==
  /\ \A o \in DOMAIN objects : LET c == objects[o] IN
       /\ c.name \in Keys /\ c.loaded \in BOOLEAN
       /\ {c.super, c.class} \subseteq {Null} \cup DOMAIN objects
       /\ \A i \in DOMAIN c.interfaces : c.interfaces[i] \in DOMAIN objects
  /\ \A l \in Loaders : /\ DOMAIN cache[l] \subseteq Keys
                        /\ DOMAIN cache[l] \ {JlcFile} \subseteq Cacheds(l)
                        /\ \A k \in Cacheds(l) : cache[l][k] \in DOMAIN objects
  /\ Len(calls) <= MaxDepth
  /\ stage \in {"basic", "primitive", "end"} \cup DOMAIN After
  /\ status \in {"ok", "fatal", "segv", "nomem"}

(* A class that either loader has cached is complete: its superclass and   *)
(* interfaces are the very objects the boot loader answers for their       *)
(* names, and are complete themselves (DefineClass enters a class only     *)
(* after StartLoad has resolved them).                                     *)
SupersReady ==
  \A l \in Loaders : \A k \in Cacheds(l) \ Primitives :
    LET c == objects[cache[l][k]]
        supers == (IF c.super = Null THEN << >> ELSE <<c.super>>) \o c.interfaces
        needed == Needed(c.name)
    IN /\ c.loaded
       /\ Len(supers) = Len(needed)
       /\ \A i \in DOMAIN needed : /\ needed[i] \in Cacheds("boot")
                                   /\ supers[i] = cache["boot"][needed[i]]
                                   /\ objects[supers[i]].loaded

(* A loader answers a name with one class object for ever, and what the    *)
(* object says of its superclass and fields stays (loaded_classes_ is the  *)
(* only thing that keeps LoadClass from defining a class again).           *)
AnswersStay ==
  [][\A l \in Loaders : \A k \in Cacheds(l) :
       /\ cache'[l][k] = cache[l][k]
       /\ LET o == cache[l][k] IN
          /\ objects'[o] = [objects[o] EXCEPT !.class = objects'[o].class]
          /\ o \in DOMAIN layout => o \in DOMAIN layout' /\ layout'[o] = layout[o]]_vars

(* Instance fields do not share slots along the superclass chain: a class  *)
(* has its own behind all of its superclass's, within its slot count       *)
(* (CalcInstanceFieldSlotIds relies on the superclass being linked first). *)
LayoutNests ==
  \A l \in Loaders : \A k \in Cacheds(l) \ (Primitives \cup Arrays) :
    LET c == objects[cache[l][k]]
        own == layout[cache[l][k]]
        w == Widths[c.name]
        base == IF c.super = Null THEN 0 ELSE layout[c.super].count
    IN /\ Len(own.slots) = Len(w)
       /\ \A i \in DOMAIN w :
            /\ own.slots[i] >= base /\ own.slots[i] + w[i] <= own.count
            /\ \A j \in DOMAIN w : i < j => own.slots[i] + w[i] <= own.slots[j]

(* From the end of LoadBasicClass on java/lang/Class is the class of every *)
(* class the boot loader has finished loading, those loaded before it was  *)
(* available included (LoadBasicClass patches them, LoadClass sets it);    *)
(* the classes the base loader has loaded have none.                       *)
ClassOfClasses ==
  stage \in {"primitive"} \cup DOMAIN After /\ status = "ok"
    => /\ JlcFile \in Cacheds("boot")
       /\ \A k \in Cacheds("boot") : objects[cache["boot"][k]].class = cache["boot"][Jlc]
       /\ \A k \in Cacheds("base") : objects[cache["base"][k]].class = Null

(* LoadClass dies only on a name for which the reader delivers no class    *)
(* file, or when the superclass recursion has come back to a class it is   *)
(* still loading, which nothing stops until the native stack is used up.   *)
DiesOnlyWithReason ==
  status = "segv" =>
    \/ Innermost.key \notin Arrays /\ ~ReadClass(Innermost.loader, Innermost.key)
    \/ \E i, j \in DOMAIN calls :
         i < j /\ ClassNamed(calls[i].key) = ClassNamed(calls[j].key)

(* Every LoadClass returns or ends the process. *)
LoadEnds == calls /= << >> ~> calls = << >> \/ status /= "ok"

(* class_loader_test.cpp:48 loads java/lang/Object from a class path that  *)
(* holds it and expects it in the cache: a class whose file is on the      *)
(* loader's class path is read.                                            *)
StoredClassesLoad ==
  status = "segv" => ClassNamed(Innermost.key) \notin files.path[Innermost.loader]
=============================================================================
