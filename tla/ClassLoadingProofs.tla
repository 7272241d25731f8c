------------------------- MODULE ClassLoadingProofs -------------------------
(***************************************************************************)
(* Proofs about ClassLoading, for all class files, hierarchies (circles    *)
(* included), class paths and sizes.                                       *)
(*                                                                         *)
(* The invariant is about three things: the class objects and caches       *)
(* (World), the LoadClass calls in progress (CallOK for each, Stack for    *)
(* how they follow one another) and where JVM::Start is (Stages).  Its     *)
(* centre is that a class is not in the cache while the boot loader loads  *)
(* it: when one of two calls for the same class has all it needs, the      *)
(* other waits for something that is both cached and being loaded.         *)
(***************************************************************************)
EXTENDS ClassLoading, WellFoundedInduction, FiniteSetTheorems, SequenceTheorems, TLAPS

-----------------------------------------------------------------------------
(* Induction for a set, where the library's theorems take an operator,     *)
(* which no prover here instantiates                                       *)

(* A set of numbers that is not empty has a least element. *)
LEMMA LeastNat ==
  ASSUME NEW T, T \subseteq Nat, T # {}
  PROVE  \E x \in T : \A y \in T : x <= y
<1> DEFINE R == OpToRel(<, Nat)
<1>1. IsWellFoundedOn(R, Nat) BY NatLessThanWellFounded, Zenon
<1>2. \A x, y \in Nat : x < y => <<x, y>> \in R BY DEF OpToRel
<1> HIDE DEF R
<1>3. PICK x \in T : \A y \in T : ~ (<<y, x>> \in R) BY <1>1, WFMin, Zenon
<1>4. \A y \in T : ~ (y < x) BY <1>2, <1>3, Zenon
<1>5. \A y \in T : x <= y BY <1>4
<1> QED BY <1>5

(* Induction up to n, for a set. *)
LEMMA Induction ==
  ASSUME NEW n \in Nat, NEW S, 0 \in S, \A i \in 0 .. n - 1 : i \in S => i + 1 \in S
  PROVE  0 .. n \subseteq S
<1> SUFFICES ASSUME NEW k \in 0 .. n, k \notin S PROVE FALSE OBVIOUS
<1> DEFINE T == {i \in 0 .. n : i \notin S}
<1>1. PICK x \in T : \A y \in T : x <= y
  <2> HIDE DEF T
  <2>1. T \subseteq Nat /\ T # {} BY DEF T
  <2> QED BY <2>1, LeastNat
<1>2. x - 1 \in 0 .. n - 1 BY <1>1
<1>3. x - 1 \in S BY <1>1, <1>2
<1> QED BY <1>1, <1>2, <1>3

(* f has n steps of G, from a, in V *)
Iterates(f, n, V, a, G) ==
  f \in [0 .. n -> V] /\ f[0] = a /\ \A i \in 1 .. n : f[i] = G[i][f[i - 1]]

(* There is a function with a given start whose every value is computed    *)
(* from the one before.                                                    *)
LEMMA RecursionExists ==
  ASSUME NEW n \in Nat, NEW V, NEW a \in V, NEW G \in [1 .. n -> [V -> V]]
  PROVE  \E f : Iterates(f, n, V, a, G)
<1> DEFINE Upto(k, f) == f[0] = a /\ \A i \in 1 .. k : f[i] = G[i][f[i - 1]]
           S == {k \in 0 .. n : \E f \in [0 .. k -> V] : Upto(k, f)}
<1>1. 0 \in S
  <2> DEFINE g == [i \in 0 .. 0 |-> a]
  <2>1. g \in [0 .. 0 -> V] /\ Upto(0, g) OBVIOUS
  <2>2. \E f \in [0 .. 0 -> V] : Upto(0, f) BY <2>1, Zenon
  <2>3. 0 \in 0 .. n OBVIOUS
  <2> QED BY <2>2, <2>3, Zenon
<1>2. \A k \in 0 .. n - 1 : k \in S => k + 1 \in S
  <2> SUFFICES ASSUME NEW k \in 0 .. n - 1, k \in S PROVE k + 1 \in S OBVIOUS
  <2>1. PICK f \in [0 .. k -> V] : Upto(k, f) OBVIOUS
  <2> DEFINE g == [i \in 0 .. k + 1 |-> IF i = k + 1 THEN G[k + 1][f[k]] ELSE f[i]]
  <2>2. g \in [0 .. k + 1 -> V] OBVIOUS
  <2>3. g[0] = a BY <2>1
  <2>4. \A i \in 1 .. k + 1 : g[i] = G[i][g[i - 1]] BY <2>1
  <2>5. \E h \in [0 .. k + 1 -> V] : Upto(k + 1, h)
    <3> HIDE DEF g
    <3> QED BY <2>2, <2>3, <2>4, Zenon
  <2>6. k + 1 \in 0 .. n OBVIOUS
  <2> QED BY <2>5, <2>6, Zenon
<1>3. n \in S
  <2> HIDE DEF S
  <2>1. 0 .. n \subseteq S BY <1>1, <1>2, Induction
  <2> QED BY <2>1
<1> QED BY <1>3 DEF Iterates

(* Functions are equal when their values are. *)
LEMMA SameFunction ==
  ASSUME NEW D, NEW f, NEW h, f = [i \in D |-> f[i]], h = [i \in D |-> h[i]],
         \A i \in D : f[i] = h[i]
  PROVE  f = h
OBVIOUS

ObjectRecords == [name : Keys, super : Nat, interfaces : Seq(Nat), class : Nat,
                  loaded : BOOLEAN]
CallRecords == [loader : Loaders, key : Keys, object : Nat, got : Seq(Nat)]

(* What each class needs, as a function; it never changes *)
Needs == [k \in Keys |-> Needed(k)]

NeedsOK(needs) ==
  /\ \A k \in Keys \ Primitives : /\ needs[k] \in Seq(Names)
                                  /\ ClassNamed(k) /= Object => Len(needs[k]) >= 1
  /\ needs[JlcFile] = needs[Jlc]

-----------------------------------------------------------------------------
(* Class objects and caches *)

Typed(objs, ca) ==
  /\ objs \in Seq(ObjectRecords)
  /\ ca = [l \in Loaders |-> ca[l]]
  /\ \A l \in Loaders : DOMAIN ca[l] \subseteq Keys /\ ca[l] \in [DOMAIN ca[l] -> Nat]

Pointers(objs) ==
  \A o \in 1 .. Len(objs) :
    /\ objs[o].super \in 0 .. Len(objs) /\ objs[o].class \in 0 .. Len(objs)
    /\ \A i \in 1 .. Len(objs[o].interfaces) : objs[o].interfaces[i] \in 1 .. Len(objs)

Known(objs, ca) ==
  \A l \in Loaders : \A k \in DOMAIN ca[l] :
    k /= JlcFile => ca[l][k] \in 1 .. Len(objs) /\ objs[ca[l][k]].name = k

JlcKnown(ca) ==
  /\ JlcFile \in DOMAIN ca["base"] => ca["base"][JlcFile] = Null
  /\ JlcFile \in DOMAIN ca["boot"] /\ ca["boot"][JlcFile] /= Null
       => Jlc \in DOMAIN ca["boot"] /\ ca["boot"][JlcFile] = ca["boot"][Jlc]

Supers(c) == (IF c.super = Null THEN << >> ELSE <<c.super>>) \o c.interfaces

Complete(objs, ca, c, needed) ==
  /\ c.loaded
  /\ Len(Supers(c)) = Len(needed)
  /\ \A i \in 1 .. Len(needed) : /\ needed[i] \in DOMAIN ca["boot"]
                                 /\ Supers(c)[i] = ca["boot"][needed[i]]
                                 /\ objs[Supers(c)[i]].loaded

AllComplete(objs, ca, needs) ==
  \A l \in Loaders : \A k \in DOMAIN ca[l] :
    k \notin Primitives \cup {JlcFile} => Complete(objs, ca, objs[ca[l][k]], needs[k])

World(objs, ca, needs) ==
  /\ Typed(objs, ca)
  /\ Pointers(objs)
  /\ Known(objs, ca)
  /\ JlcKnown(ca)
  /\ AllComplete(objs, ca, needs)

-----------------------------------------------------------------------------
(* Calls in progress *)

(* The object of a call is its own, and its class is not cached yet *)
Fresh(objs, ca, c) ==
  /\ c.object \in 1 .. Len(objs)
  /\ objs[c.object].name = ClassNamed(c.key)
  /\ c.key \notin Primitives
  /\ \A l \in Loaders : \A k \in DOMAIN ca[l] : ca[l][k] /= c.object
  /\ ClassNamed(c.key) \notin DOMAIN ca[c.loader]

(* What it has been given is what the boot loader has under the names *)
GotNeeded(ca, c, needed) ==
  /\ Len(c.got) <= Len(needed)
  /\ \A j \in 1 .. Len(c.got) : needed[j] \in DOMAIN ca["boot"] /\ c.got[j] = ca["boot"][needed[j]]

CallOK(objs, ca, c, needs) ==
  IF c.object = Null THEN c.got = << >>
  ELSE Fresh(objs, ca, c) /\ GotNeeded(ca, c, needs[c.key])

Waits(c, d, needs) ==
  /\ c.object /= Null
  /\ Len(c.got) + 1 \in 1 .. Len(needs[c.key])
  /\ d.key = needs[c.key][Len(c.got) + 1]
  /\ d.loader = "boot"

Stack(cs, needs) ==
  /\ cs \in Seq(CallRecords)
  /\ \A i \in 1 .. Len(cs) - 1 : Waits(cs[i], cs[i + 1], needs)
  /\ \A i \in 2 .. Len(cs) : cs[i].key \in Names
  /\ \A i, j \in 1 .. Len(cs) : i /= j /\ cs[i].object /= Null => cs[i].object /= cs[j].object

-----------------------------------------------------------------------------
(* JVM::Start *)

StageNames == {"basic", "primitive", "end", "main", "string", "args", "run"}

Stages(ca, cs, st) ==
  /\ st \in StageNames
  /\ cs /= << >> => st \notin {"primitive", "end"}
  /\ st = "basic" => /\ cs /= << >> /\ cs[1].key = JlcFile /\ cs[1].loader = "boot"
                     /\ cs[1].object = Null => DOMAIN ca["boot"] = {}
  /\ st \in {"basic", "primitive"} => /\ DOMAIN ca["boot"] \cap Primitives = {}
                                      /\ DOMAIN ca["base"] = {}
  /\ st /= "basic" => /\ JlcFile \in DOMAIN ca["boot"] /\ ca["boot"][JlcFile] /= Null
                      /\ cs /= << >> => cs[1].key /= JlcFile

Classes(objs, ca, st) ==
  st /= "basic" =>
    /\ \A k \in DOMAIN ca["boot"] : objs[ca["boot"][k]].class = ca["boot"][JlcFile]
    /\ \A k \in DOMAIN ca["base"] : k /= JlcFile => objs[ca["base"][k]].class = Null

(* The inductive invariant *)
LoadInv ==
  /\ files \in [hierarchy : Hierarchies, path : Paths, suffixTest : SuffixTests]
  /\ World(objects, cache, Needs)
  /\ Stack(calls, Needs)
  /\ \A i \in 1 .. Len(calls) : CallOK(objects, cache, calls[i], Needs)
  /\ Stages(cache, calls, stage)
  /\ Classes(objects, cache, stage)
  /\ Len(calls) <= MaxDepth
  /\ status \in {"ok", "fatal", "segv", "nomem"}
  /\ DiesOnlyWithReason

-----------------------------------------------------------------------------
(* Names, arrays, primitive types and kJlcClassString are kept apart. *)
LEMMA NameFacts ==
  /\ {Object, Jlc, StringClass, MainClass} \subseteq Names
  /\ Names \subseteq Keys /\ Arrays \subseteq Keys /\ Primitives \subseteq Keys /\ JlcFile \in Keys
  /\ JlcFile \notin Names \cup Arrays \cup Primitives
  /\ \A k \in Names : k \notin Arrays \cup Primitives /\ ClassNamed(k) = k
  /\ \A k \in Arrays : k \notin Names \cup Primitives /\ ClassNamed(k) = k
  /\ ClassNamed(JlcFile) = Jlc
  /\ \A k \in Keys : ClassNamed(k) \in Keys \ {JlcFile}
  /\ \A k \in Keys \ Primitives : ClassNamed(k) \in Names \cup Arrays
BY NamesAssumption DEF Keys, ClassNamed

LEMMA NeedsHold ==
  ASSUME files \in [hierarchy : Hierarchies, path : Paths, suffixTest : SuffixTests]
  PROVE  NeedsOK(Needs) /\ \A k \in Keys : Needs[k] = Needed(k)
<1>1. \A k \in Keys : Needs[k] = Needed(k)
  BY DEF Needs
<1>. DEFINE h == files.hierarchy
<1>2. h.super \in [Names -> Names] /\ h.interfaces \in [Names -> Seq(Names)]
  BY FilesAssumption
<1>3. ASSUME NEW k \in Keys \ Primitives
      PROVE  Needed(k) \in Seq(Names) /\ (ClassNamed(k) /= Object => Len(Needed(k)) >= 1)
  <2>1. CASE k \in Arrays
    <3>1. Needed(k) = <<Object>> \o ArrayInterfaces
      BY <2>1 DEF Needed
    <3>. QED  BY <3>1, NameFacts, NamesAssumption
  <2>2. CASE k \notin Arrays
    <3>1. ClassNamed(k) \in Names
      BY <2>2, NameFacts DEF Keys
    <3>. DEFINE n == ClassNamed(k)
    <3>2. Needed(k) = (IF n = Object THEN << >> ELSE <<h.super[n]>>) \o h.interfaces[n]
      BY <2>2 DEF Needed
    <3>3. h.interfaces[n] \in Seq(Names) /\ h.super[n] \in Names
      BY <1>2, <3>1
    <3>. HIDE DEF n, h
    <3>4. CASE n = Object
      BY <3>2, <3>3, <3>4 DEF n
    <3>5. CASE n /= Object
      <4>1. Needed(k) = <<h.super[n]>> \o h.interfaces[n]
        BY <3>2, <3>5
      <4>. QED  BY <4>1, <3>3, <3>5
    <3>. QED  BY <3>4, <3>5
  <2>. QED  BY <2>1, <2>2
<1>4. Needed(JlcFile) = Needed(Jlc)
  BY NameFacts DEF Needed
<1>. QED  BY <1>1, <1>3, <1>4, NameFacts DEF NeedsOK

-----------------------------------------------------------------------------
LEMMA GotMore ==
  ASSUME NEW c \in CallRecords, NEW o \in Nat
  PROVE  [c EXCEPT !.got = Append(@, o)] \in CallRecords
<1>1. Append(c.got, o) \in Seq(Nat)
  BY DEF CallRecords
<1>. DEFINE g == Append(c.got, o)
<1>2. [c EXCEPT !.got = Append(@, o)] = [c EXCEPT !.got = g]
  OBVIOUS
<1>. HIDE DEF g
<1>3. [c EXCEPT !.got = g] \in CallRecords
  BY <1>1 DEF CallRecords, g
<1>. QED  BY <1>2, <1>3

(* LoadClass returns to the call below it. *)
LEMMA ReturnToFacts ==
  ASSUME NEW cs \in Seq(CallRecords), Len(cs) > 1, NEW o \in Nat
  PROVE  LET n == Len(cs) - 1
             rs == ReturnTo(SubSeq(cs, 1, n), o)
         IN /\ rs \in Seq(CallRecords) /\ Len(rs) = n /\ rs /= << >>
            /\ \A i \in 1 .. n : i /= n => rs[i] = cs[i]
            /\ rs[n] = [cs[n] EXCEPT !.got = Append(@, o)]
<1>. DEFINE n == Len(cs) - 1
            outer == SubSeq(cs, 1, n)
            rs == ReturnTo(outer, o)
<1>1. n \in Nat /\ n >= 1 /\ n <= Len(cs)
  OBVIOUS
<1>2. outer \in Seq(CallRecords) /\ Len(outer) = n /\ \A i \in 1 .. n : outer[i] = cs[i]
  BY <1>1
<1>. HIDE DEF n, outer
<1>3. outer /= << >>
  BY <1>1, <1>2
<1>4. rs = [outer EXCEPT ![n].got = Append(@, o)]
  BY <1>2, <1>3 DEF ReturnTo
<1>5. cs[n] \in CallRecords /\ outer[n] = cs[n]
  BY <1>1, <1>2
<1>6. [cs[n] EXCEPT !.got = Append(@, o)] \in CallRecords
  BY <1>5, GotMore
<1>. HIDE DEF rs
<1>7. rs = [outer EXCEPT ![n] = [cs[n] EXCEPT !.got = Append(@, o)]]
  BY <1>4, <1>5, Zenon
<1>8. rs \in Seq(CallRecords) /\ Len(rs) = n
  BY <1>1, <1>2, <1>6, <1>7
<1>9. \A i \in 1 .. n : i /= n => rs[i] = cs[i]
  BY <1>1, <1>2, <1>7
<1>10. rs[n] = [cs[n] EXCEPT !.got = Append(@, o)]
  BY <1>1, <1>2, <1>7
<1>. QED  BY <1>1, <1>8, <1>9, <1>10 DEF n, outer, rs

LEMMA ReturnStack ==
  ASSUME NEW needs, NeedsOK(needs), NEW cs, Stack(cs, needs), Len(cs) > 1, NEW o \in Nat
  PROVE  Stack(ReturnTo(SubSeq(cs, 1, Len(cs) - 1), o), needs)
<1>. DEFINE n == Len(cs) - 1
            rs == ReturnTo(SubSeq(cs, 1, n), o)
<1>0. cs \in Seq(CallRecords) /\ n \in Nat /\ n >= 1 /\ Len(cs) = n + 1
  BY DEF Stack
<1>1. /\ rs \in Seq(CallRecords) /\ Len(rs) = n
      /\ \A i \in 1 .. n : i /= n => rs[i] = cs[i]
      /\ rs[n] = [cs[n] EXCEPT !.got = Append(@, o)]
  BY <1>0, ReturnToFacts
<1>. HIDE DEF n, rs
<1>2. cs[n] \in CallRecords
  BY <1>0
<1>3. /\ rs[n].key = cs[n].key /\ rs[n].object = cs[n].object /\ rs[n].loader = cs[n].loader
  BY <1>1, <1>2 DEF CallRecords
<1>4. \A i \in 1 .. n : rs[i].key = cs[i].key /\ rs[i].object = cs[i].object
                         /\ rs[i].loader = cs[i].loader
  BY <1>1, <1>3
<1>5. ASSUME NEW i \in 1 .. n - 1
      PROVE  Waits(rs[i], rs[i + 1], needs)
  <2>1. Waits(cs[i], cs[i + 1], needs)
    BY <1>0 DEF Stack
  <2>2. rs[i] = cs[i] /\ i + 1 \in 1 .. n
    BY <1>0, <1>1
  <2>. QED  BY <2>1, <2>2, <1>4 DEF Waits
<1>6. \A i \in 2 .. n : rs[i].key \in Names
  BY <1>0, <1>4 DEF Stack
<1>7. \A i, j \in 1 .. n : i /= j /\ rs[i].object /= Null => rs[i].object /= rs[j].object
  BY <1>0, <1>4 DEF Stack
<1>8. Stack(rs, needs)
  BY <1>1, <1>5, <1>6, <1>7 DEF Stack
<1>. QED  BY <1>8 DEF n, rs

(* A call that waits for a class gets it. *)
LEMMA ReturnGot ==
  ASSUME NEW needs, NEW objs, NEW ca, NEW c \in CallRecords, NEW d, NEW o \in Nat,
         c.object /= Null, CallOK(objs, ca, c, needs), Waits(c, d, needs),
         NeedsOK(needs), d.key \in DOMAIN ca["boot"], o = ca["boot"][d.key]
  PROVE  CallOK(objs, ca, [c EXCEPT !.got = Append(@, o)], needs)
<1>. DEFINE e == [c EXCEPT !.got = Append(@, o)]
            needed == needs[c.key]
<1>1. e.key = c.key /\ e.object = c.object /\ e.loader = c.loader /\ e.got = Append(c.got, o)
  BY DEF CallRecords
<1>2. Fresh(objs, ca, c) /\ GotNeeded(ca, c, needed) /\ c.got \in Seq(Nat)
  BY DEF CallOK, CallRecords
<1>3. Fresh(objs, ca, e)
  BY <1>1, <1>2 DEF Fresh
<1>4. c.key \in Keys \ Primitives
  BY <1>2 DEF Fresh, CallRecords
<1>5. needed \in Seq(Names)
  BY <1>4 DEF NeedsOK
<1>6. Len(c.got) + 1 <= Len(needed) /\ d.key = needed[Len(c.got) + 1]
  BY <1>5, <1>2 DEF Waits
<1>. HIDE DEF e, needed
<1>7. GotNeeded(ca, e, needed)
  <2>1. Len(e.got) = Len(c.got) + 1 /\ e.got[Len(c.got) + 1] = o
    BY <1>1, <1>2
  <2>2. \A j \in 1 .. Len(c.got) : e.got[j] = c.got[j]
    BY <1>1, <1>2
  <2>. QED  BY <2>1, <2>2, <1>2, <1>6, SMTT(30) DEF GotNeeded
<1>. QED  BY <1>1, <1>3, <1>7 DEF CallOK, e, needed

-----------------------------------------------------------------------------
(* A class object is allocated: nothing that was known changes. *)
LEMMA GrowWorld ==
  ASSUME NEW needs, NEW objs, NEW ca, World(objs, ca, needs), NEW n \in Keys
  PROVE  LET more == Append(objs, NewObject(n)) IN
         /\ World(more, ca, needs)
         /\ more \in Seq(ObjectRecords) /\ Len(more) = Len(objs) + 1
         /\ more[Len(objs) + 1].name = n
         /\ \A o \in 1 .. Len(objs) : more[o] = objs[o]
<1>. DEFINE more == Append(objs, NewObject(n))
            new == NewObject(n)
<1>1. new \in ObjectRecords
  BY DEF NewObject, ObjectRecords, Null
<1>2. /\ new.name = n /\ new.super = 0 /\ new.class = 0 /\ Len(new.interfaces) = 0
  BY DEF NewObject, Null
<1>3. objs \in Seq(ObjectRecords) /\ Len(objs) \in Nat
  BY DEF World, Typed
<1>. HIDE DEF new
<1>4. /\ more \in Seq(ObjectRecords) /\ Len(more) = Len(objs) + 1
      /\ more[Len(objs) + 1] = new
      /\ \A o \in 1 .. Len(objs) : more[o] = objs[o]
  BY <1>1, <1>3 DEF new
<1>. HIDE DEF more
<1>5. Typed(more, ca)
  BY <1>4 DEF World, Typed
<1>6. Pointers(more)
  <2>1. ASSUME NEW o \in 1 .. Len(more)
        PROVE  /\ more[o].super \in 0 .. Len(more) /\ more[o].class \in 0 .. Len(more)
               /\ \A i \in 1 .. Len(more[o].interfaces) : more[o].interfaces[i] \in 1 .. Len(more)
    <3>1. CASE o = Len(objs) + 1
      BY <3>1, <1>2, <1>3, <1>4
    <3>2. CASE o /= Len(objs) + 1
      <4>1. o \in 1 .. Len(objs) /\ more[o] = objs[o]
        BY <3>2, <1>3, <1>4
      <4>. QED  BY <4>1, <1>3, <1>4 DEF World, Pointers
    <3>. QED  BY <3>1, <3>2
  <2>. QED  BY <2>1 DEF Pointers
<1>7. Known(more, ca)
  BY <1>3, <1>4 DEF World, Known
<1>8. AllComplete(more, ca, needs)
  <2>1. ASSUME NEW l \in Loaders, NEW k \in DOMAIN ca[l], k \notin Primitives \cup {JlcFile}
        PROVE  Complete(more, ca, more[ca[l][k]], needs[k])
    <3>1. ca[l][k] \in 1 .. Len(objs) /\ Complete(objs, ca, objs[ca[l][k]], needs[k])
      BY <2>1 DEF World, Known, AllComplete
    <3>. DEFINE c == objs[ca[l][k]]
    <3>2. more[ca[l][k]] = c
      BY <3>1, <1>4
    <3>3. ASSUME NEW i \in 1 .. Len(Supers(c))  PROVE  Supers(c)[i] \in 1 .. Len(objs)
      <4>1. /\ c \in ObjectRecords /\ c.super \in 0 .. Len(objs)
            /\ \A j \in 1 .. Len(c.interfaces) : c.interfaces[j] \in 1 .. Len(objs)
        BY <3>1, <1>3 DEF World, Pointers
      <4>2. c.interfaces \in Seq(Nat) /\ c.super \in Nat
        BY <4>1 DEF ObjectRecords
      <4>. HIDE DEF c
      <4>3. CASE c.super = Null
        BY <4>1, <4>2, <4>3, <3>3 DEF Supers
      <4>4. CASE c.super /= Null
        <5>1. Supers(c) = <<c.super>> \o c.interfaces
          BY <4>4 DEF Supers
        <5>2. c.super \in 1 .. Len(objs)
          BY <4>1, <4>4, <1>3 DEF Null
        <5>. QED  BY <5>1, <5>2, <4>1, <4>2, <3>3
      <4>. QED  BY <4>3, <4>4
    <3>. HIDE DEF c
    <3>4. Complete(objs, ca, c, needs[k])
      BY <3>1 DEF c
    <3>5. Complete(more, ca, c, needs[k])
      BY <3>3, <3>4, <1>4 DEF Complete
    <3>. QED  BY <3>2, <3>5
  <2>. QED  BY <2>1 DEF AllComplete
<1>. QED  BY <1>2, <1>4, <1>5, <1>6, <1>7, <1>8 DEF World, more

(* The calls are not affected. *)
LEMMA GrowCalls ==
  ASSUME NEW needs, NEW objs \in Seq(ObjectRecords), NEW more \in Seq(ObjectRecords), NEW ca,
         Len(objs) <= Len(more), \A o \in 1 .. Len(objs) : more[o] = objs[o],
         NEW c, CallOK(objs, ca, c, needs)
  PROVE  CallOK(more, ca, c, needs)
BY DEF CallOK, Fresh

-----------------------------------------------------------------------------
(* What DefineClass does to the cache of loader l and to object o *)
JlcOf(m) == IF JlcFile \in DOMAIN m THEN m[JlcFile] ELSE Null
WithClass(ca, l, n, o) ==
  [ca EXCEPT ![l] = Put(Put(ca[l], n, o), JlcFile, JlcOf(Put(ca[l], n, o)))]
Finished(c, got, jlc) == [Linked(c, got) EXCEPT !.class = jlc]

LEMMA CacheDefined ==
  ASSUME NEW objs, NEW ca, Typed(objs, ca), NEW l \in Loaders, NEW n \in Keys \ {JlcFile},
         NEW o \in Nat, n \notin DOMAIN ca[l]
  PROVE  LET ca2 == WithClass(ca, l, n, o) IN
         /\ ca2 = [m \in Loaders |-> ca2[m]]
         /\ DOMAIN ca2[l] = DOMAIN ca[l] \cup {n, JlcFile}
         /\ ca2[l] \in [DOMAIN ca2[l] -> Nat]
         /\ ca2[l][n] = o /\ ca2[l][JlcFile] = JlcOf(ca[l])
         /\ JlcOf(Put(ca[l], n, o)) = JlcOf(ca[l]) /\ JlcOf(ca[l]) \in Nat
         /\ \A m \in Loaders : m /= l => ca2[m] = ca[m]
         /\ \A m \in Loaders : \A k \in DOMAIN ca[m] : k \in DOMAIN ca2[m] /\ ca2[m][k] = ca[m][k]
<1>. DEFINE m1 == Put(ca[l], n, o)
            m2 == Put(m1, JlcFile, JlcOf(m1))
            ca2 == WithClass(ca, l, n, o)
<1>1. ca[l] \in [DOMAIN ca[l] -> Nat] /\ DOMAIN ca[l] \subseteq Keys
  BY DEF Typed
<1>2. /\ DOMAIN m1 = DOMAIN ca[l] \cup {n} /\ m1 \in [DOMAIN m1 -> Nat] /\ m1[n] = o
      /\ \A x \in DOMAIN ca[l] : m1[x] = ca[l][x]
  BY <1>1 DEF Put
<1>. HIDE DEF m1
<1>3. JlcOf(m1) = JlcOf(ca[l]) /\ JlcOf(m1) \in Nat
  BY <1>1, <1>2 DEF JlcOf, Null
<1>4. /\ DOMAIN m2 = DOMAIN m1 \cup {JlcFile} /\ m2 \in [DOMAIN m2 -> Nat]
      /\ m2[JlcFile] = JlcOf(m1) /\ \A x \in DOMAIN m1 : x /= JlcFile => m2[x] = m1[x]
  BY <1>2, <1>3 DEF Put
<1>. HIDE DEF m2
<1>5. ca2 = [ca EXCEPT ![l] = m2]
  BY DEF WithClass, m1, m2
<1>6. DOMAIN ca = Loaders
  BY DEF Typed
<1>. HIDE DEF ca2
<1>7. ca2[l] = m2 /\ \A m \in Loaders : m /= l => ca2[m] = ca[m]
  BY <1>5, <1>6
<1>8. ca2 = [m \in Loaders |-> ca2[m]]
  BY <1>5, <1>6
<1>9. \A k \in DOMAIN ca[l] : k \in DOMAIN m2 /\ m2[k] = ca[l][k]
  <2>1. ASSUME NEW k \in DOMAIN ca[l]  PROVE  k \in DOMAIN m2 /\ m2[k] = ca[l][k]
    <3>1. CASE k = JlcFile
      BY <3>1, <1>2, <1>3, <1>4 DEF JlcOf
    <3>2. CASE k /= JlcFile
      BY <3>2, <1>2, <1>4
    <3>. QED  BY <3>1, <3>2
  <2>. QED  BY <2>1
<1>10. DOMAIN ca2[l] = DOMAIN ca[l] \cup {n, JlcFile} /\ ca2[l] \in [DOMAIN ca2[l] -> Nat]
  BY <1>2, <1>4, <1>7
<1>11. ca2[l][n] = o /\ ca2[l][JlcFile] = JlcOf(ca[l])
  BY <1>2, <1>3, <1>4, <1>7
<1>12. \A m \in Loaders : \A k \in DOMAIN ca[m] : k \in DOMAIN ca2[m] /\ ca2[m][k] = ca[m][k]
  BY <1>7, <1>9
<1>. QED  BY <1>3, <1>7, <1>8, <1>10, <1>11, <1>12 DEF ca2, m1

LEMMA ObjectFinished ==
  ASSUME NEW c \in ObjectRecords, NEW got \in Seq(Nat), NEW jlc \in Nat,
         c.name /= Object => Len(got) >= 1 /\ got[1] /= Null
  PROVE  LET d == Finished(c, got, jlc) IN
         /\ d \in ObjectRecords
         /\ d.name = c.name /\ d.loaded /\ d.class = jlc
         /\ Supers(d) = got
         /\ d.super = Null \/ \E i \in 1 .. Len(got) : d.super = got[i]
         /\ \A j \in 1 .. Len(d.interfaces) : \E i \in 1 .. Len(got) : d.interfaces[j] = got[i]
<1>. DEFINE s == IF c.name = Object THEN Null ELSE got[1]
            ifs == IF c.name = Object THEN got ELSE Tail(got)
            d == Finished(c, got, jlc)
<1>1. s \in Nat /\ ifs \in Seq(Nat)
  BY DEF Null
<1>2. s = Null \/ \E i \in 1 .. Len(got) : s = got[i]
  OBVIOUS
<1>3. \A j \in 1 .. Len(ifs) : \E i \in 1 .. Len(got) : ifs[j] = got[i]
  <2>1. CASE c.name = Object
    BY <2>1
  <2>2. CASE c.name /= Object
    <3>1. Len(Tail(got)) = Len(got) - 1 /\ \A j \in 1 .. Len(Tail(got)) : Tail(got)[j] = got[j + 1]
      BY <2>2
    <3>. QED  BY <2>2, <3>1
  <2>. QED  BY <2>1, <2>2
<1>4. (IF s = Null THEN << >> ELSE <<s>>) \o ifs = got
  <2>1. CASE c.name = Object
    BY <2>1
  <2>2. CASE c.name /= Object
    <3>1. Tail(got) \in Seq(Nat) /\ Len(Tail(got)) = Len(got) - 1
          /\ \A j \in 1 .. Len(Tail(got)) : Tail(got)[j] = got[j + 1]
      BY <2>2
    <3>. DEFINE t == Tail(got)
                all == <<got[1]>> \o t
    <3>. HIDE DEF t
    <3>2. got[1] \in Nat
      BY <2>2
    <3>3. all \in Seq(Nat) /\ Len(all) = Len(got)
      BY <2>2, <3>1, <3>2 DEF t
    <3>4. ASSUME NEW i \in 1 .. Len(all)  PROVE  all[i] = got[i]
      <4>1. CASE i = 1
        BY <4>1, <3>1, <3>2 DEF t
      <4>2. CASE i /= 1
        <5>1. i - 1 \in 1 .. Len(t) /\ all[i] = t[i - 1]
          BY <4>2, <3>1, <3>2, <3>3 DEF t
        <5>. QED  BY <5>1, <3>1, <3>3 DEF t
      <4>. QED  BY <4>1, <4>2
    <3>. HIDE DEF all
    <3>5. all = got
      BY <3>3, <3>4, SeqEqual
    <3>. QED  BY <2>2, <3>5 DEF all, t
  <2>. QED  BY <2>1, <2>2
<1>5. d = [[c EXCEPT !.super = s, !.interfaces = ifs, !.loaded = TRUE] EXCEPT !.class = jlc]
  BY DEF Finished, Linked
<1>. HIDE DEF s, ifs, d
<1>6. /\ d \in ObjectRecords /\ d.name = c.name /\ d.loaded /\ d.class = jlc
      /\ d.super = s /\ d.interfaces = ifs
  BY <1>1, <1>5 DEF ObjectRecords
<1>7. Supers(d) = got
  BY <1>4, <1>6 DEF Supers
<1>. QED  BY <1>2, <1>3, <1>6, <1>7 DEF d

-----------------------------------------------------------------------------
(* DefineClass for the call c, which has been given all it needs: what is  *)
(* assumed of the state before it.                                         *)
Defines(objs, ca, c, needs) ==
  /\ NeedsOK(needs)
  /\ World(objs, ca, needs)
  /\ c \in CallRecords
  /\ c.object /= Null
  /\ CallOK(objs, ca, c, needs)
  /\ Len(c.got) = Len(needs[c.key])

After1(objs, ca, c) ==
  [objs EXCEPT ![c.object] = Finished(objs[c.object], c.got, JlcOf(ca[c.loader]))]
After2(ca, c) == WithClass(ca, c.loader, ClassNamed(c.key), c.object)

LEMMA DefineFacts ==
  ASSUME NEW objs, NEW ca, NEW c, NEW needs, Defines(objs, ca, c, needs)
  PROVE  LET objs2 == After1(objs, ca, c)
             ca2 == After2(ca, c)
             o == c.object
             n == ClassNamed(c.key)
         IN /\ o \in 1 .. Len(objs) /\ n \in Keys \ ({JlcFile} \cup Primitives)
            /\ needs[n] = needs[c.key] /\ needs[n] \in Seq(Names)
            /\ objs2 \in Seq(ObjectRecords) /\ Len(objs2) = Len(objs)
            /\ \A p \in 1 .. Len(objs) : p /= o => objs2[p] = objs[p]
            /\ objs2[o].name = n /\ objs2[o].loaded /\ objs2[o].class = JlcOf(ca[c.loader])
            /\ Supers(objs2[o]) = c.got
            /\ JlcOf(ca[c.loader]) \in 0 .. Len(objs)
            /\ \A i \in 1 .. Len(c.got) : /\ needs[n][i] \in DOMAIN ca["boot"]
                                          /\ c.got[i] = ca["boot"][needs[n][i]]
                                          /\ c.got[i] \in 1 .. Len(objs) /\ c.got[i] /= o
                                          /\ objs[c.got[i]].loaded
            /\ objs2[o].super \in 0 .. Len(objs)
            /\ \A i \in 1 .. Len(objs2[o].interfaces) : objs2[o].interfaces[i] \in 1 .. Len(objs)
<1>. DEFINE o == c.object
            n == ClassNamed(c.key)
            l == c.loader
            objs2 == After1(objs, ca, c)
<1>1. /\ NeedsOK(needs) /\ World(objs, ca, needs) /\ Fresh(objs, ca, c)
      /\ GotNeeded(ca, c, needs[c.key]) /\ Len(c.got) = Len(needs[c.key])
  BY DEF Defines, CallOK
<1>2. l \in Loaders /\ c.key \in Keys /\ c.got \in Seq(Nat) /\ o \in 1 .. Len(objs)
      /\ objs[o].name = n /\ c.key \notin Primitives
  BY <1>1 DEF Defines, CallRecords, Fresh
<1>3. n \in Keys \ ({JlcFile} \cup Primitives) /\ n \in Names \cup Arrays
  BY <1>2, NameFacts
<1>4. needs[n] = needs[c.key]
  BY <1>1, <1>2, NameFacts DEF NeedsOK, ClassNamed
<1>5. needs[n] \in Seq(Names) /\ (n /= Object => Len(needs[n]) >= 1)
  BY <1>1, <1>2, <1>4 DEF NeedsOK
<1>6. objs \in Seq(ObjectRecords) /\ Len(objs) \in Nat /\ objs[o] \in ObjectRecords
  BY <1>1, <1>2 DEF World, Typed
<1>. HIDE DEF o, n, l
<1>7. ASSUME NEW i \in 1 .. Len(c.got)
      PROVE  /\ needs[n][i] \in DOMAIN ca["boot"] /\ c.got[i] = ca["boot"][needs[n][i]]
             /\ c.got[i] \in 1 .. Len(objs) /\ c.got[i] /= o /\ objs[c.got[i]].loaded
  <2>. DEFINE x == needs[n][i]
  <2>1. x \in DOMAIN ca["boot"] /\ c.got[i] = ca["boot"][x]
    BY <1>1, <1>4 DEF GotNeeded
  <2>2. x \in Names
    BY <1>1, <1>4, <1>5
  <2>3. x /= JlcFile /\ x \notin Primitives
    BY <2>2, NameFacts
  <2>. HIDE DEF x
  <2>4. ca["boot"][x] \in 1 .. Len(objs) /\ Complete(objs, ca, objs[ca["boot"][x]], needs[x])
    BY <1>1, <2>1, <2>3 DEF World, Known, AllComplete, Loaders
  <2>5. ca["boot"][x] /= o
    BY <1>1, <2>1 DEF Fresh, Loaders, o
  <2>. QED  BY <2>1, <2>4, <2>5 DEF Complete, x
<1>8. JlcOf(ca[l]) \in 0 .. Len(objs)
  BY <1>1, <1>2, <1>6, NameFacts DEF World, Typed, Known, JlcKnown, JlcOf, Loaders, Null
<1>9. n /= Object => Len(c.got) >= 1 /\ c.got[1] /= Null
  BY <1>1, <1>4, <1>5, <1>6, <1>7 DEF Null
<1>. DEFINE d == Finished(objs[o], c.got, JlcOf(ca[l]))
<1>10. /\ d \in ObjectRecords /\ d.name = n /\ d.loaded /\ d.class = JlcOf(ca[l])
       /\ Supers(d) = c.got
       /\ d.super = Null \/ \E i \in 1 .. Len(c.got) : d.super = c.got[i]
       /\ \A j \in 1 .. Len(d.interfaces) : \E i \in 1 .. Len(c.got) : d.interfaces[j] = c.got[i]
  <2>1. objs[o].name = n /\ JlcOf(ca[l]) \in Nat
    BY <1>2, <1>6, <1>8 DEF o, n
  <2>. DEFINE c0 == objs[o]
              got == c.got
              jlc == JlcOf(ca[l])
  <2>2. /\ c0 \in ObjectRecords /\ got \in Seq(Nat) /\ jlc \in Nat /\ c0.name = n
        /\ c0.name /= Object => Len(got) >= 1 /\ got[1] /= Null
    BY <2>1, <1>2, <1>6, <1>9
  <2>. HIDE DEF c0, got, jlc
  <2>3. LET e == Finished(c0, got, jlc) IN
        /\ e \in ObjectRecords /\ e.name = c0.name /\ e.loaded /\ e.class = jlc
        /\ Supers(e) = got
        /\ e.super = Null \/ \E i \in 1 .. Len(got) : e.super = got[i]
        /\ \A j \in 1 .. Len(e.interfaces) : \E i \in 1 .. Len(got) : e.interfaces[j] = got[i]
    BY <2>2, ObjectFinished
  <2>. QED  BY <2>2, <2>3 DEF c0, got, jlc
<1>. HIDE DEF d
<1>11. objs2 = [objs EXCEPT ![o] = d]
  BY DEF After1, d, o, l
<1>12. d.super \in 0 .. Len(objs) /\ \A i \in 1 .. Len(d.interfaces) : d.interfaces[i] \in 1 .. Len(objs)
  BY <1>6, <1>7, <1>10, SMTT(30) DEF Null
<1>. HIDE DEF objs2
<1>13. /\ objs2 \in Seq(ObjectRecords) /\ Len(objs2) = Len(objs) /\ objs2[o] = d
       /\ \A p \in 1 .. Len(objs) : p /= o => objs2[p] = objs[p]
  BY <1>2, <1>6, <1>10, <1>11 DEF o
<1>14. o \in 1 .. Len(objs)
  BY <1>2 DEF o
<1>. QED  BY <1>3, <1>4, <1>5, <1>7, <1>8, <1>10, <1>12, <1>13, <1>14 DEF o, n, l, objs2

LEMMA CacheFacts ==
  ASSUME NEW objs, NEW ca, NEW c, NEW needs, Defines(objs, ca, c, needs)
  PROVE  LET ca2 == After2(ca, c)
             n == ClassNamed(c.key)
             l == c.loader
         IN /\ l \in Loaders /\ n \notin DOMAIN ca[l]
            /\ ca2 = [m \in Loaders |-> ca2[m]]
            /\ DOMAIN ca2[l] = DOMAIN ca[l] \cup {n, JlcFile}
            /\ ca2[l] \in [DOMAIN ca2[l] -> Nat]
            /\ ca2[l][n] = c.object /\ ca2[l][JlcFile] = JlcOf(ca[l])
            /\ \A m \in Loaders : m /= l => ca2[m] = ca[m]
            /\ \A m \in Loaders : \A k \in DOMAIN ca[m] : k \in DOMAIN ca2[m] /\ ca2[m][k] = ca[m][k]
            /\ \A m \in Loaders : \A k \in DOMAIN ca[m] : ca[m][k] /= c.object
<1>. DEFINE n == ClassNamed(c.key)
            l == c.loader
            o == c.object
<1>1. Typed(objs, ca) /\ Fresh(objs, ca, c) /\ l \in Loaders /\ c.key \in Keys /\ o \in Nat
  BY DEF Defines, World, CallOK, CallRecords
<1>2. n \in Keys \ {JlcFile} /\ n \notin DOMAIN ca[l]
      /\ \A m \in Loaders : \A k \in DOMAIN ca[m] : ca[m][k] /= o
  BY <1>1, NameFacts DEF Fresh
<1>. HIDE DEF n, l, o
<1>3. LET ca2 == WithClass(ca, l, n, o) IN
         /\ ca2 = [m \in Loaders |-> ca2[m]]
         /\ DOMAIN ca2[l] = DOMAIN ca[l] \cup {n, JlcFile}
         /\ ca2[l] \in [DOMAIN ca2[l] -> Nat]
         /\ ca2[l][n] = o /\ ca2[l][JlcFile] = JlcOf(ca[l])
         /\ \A m \in Loaders : m /= l => ca2[m] = ca[m]
         /\ \A m \in Loaders : \A k \in DOMAIN ca[m] : k \in DOMAIN ca2[m] /\ ca2[m][k] = ca[m][k]
  BY <1>1, <1>2, CacheDefined
<1>. QED  BY <1>1, <1>2, <1>3 DEF After2, n, l, o

LEMMA DefineWorld ==
  ASSUME NEW objs, NEW ca, NEW c, NEW needs, Defines(objs, ca, c, needs)
  PROVE  World(After1(objs, ca, c), After2(ca, c), needs)
<1>. DEFINE o == c.object
            n == ClassNamed(c.key)
            l == c.loader
            objs2 == After1(objs, ca, c)
            ca2 == After2(ca, c)
<1>1. /\ o \in 1 .. Len(objs) /\ n \in Keys \ ({JlcFile} \cup Primitives)
      /\ needs[n] = needs[c.key] /\ needs[n] \in Seq(Names)
      /\ objs2 \in Seq(ObjectRecords) /\ Len(objs2) = Len(objs)
      /\ \A p \in 1 .. Len(objs) : p /= o => objs2[p] = objs[p]
      /\ objs2[o].name = n /\ objs2[o].loaded /\ objs2[o].class = JlcOf(ca[l])
      /\ Supers(objs2[o]) = c.got
      /\ JlcOf(ca[l]) \in 0 .. Len(objs)
      /\ \A i \in 1 .. Len(c.got) : /\ needs[n][i] \in DOMAIN ca["boot"]
                                    /\ c.got[i] = ca["boot"][needs[n][i]]
                                    /\ c.got[i] \in 1 .. Len(objs) /\ c.got[i] /= o
                                    /\ objs[c.got[i]].loaded
      /\ objs2[o].super \in 0 .. Len(objs)
      /\ \A i \in 1 .. Len(objs2[o].interfaces) : objs2[o].interfaces[i] \in 1 .. Len(objs)
  BY DefineFacts
<1>2. /\ l \in Loaders /\ n \notin DOMAIN ca[l]
      /\ ca2 = [m \in Loaders |-> ca2[m]]
      /\ DOMAIN ca2[l] = DOMAIN ca[l] \cup {n, JlcFile}
      /\ ca2[l] \in [DOMAIN ca2[l] -> Nat]
      /\ ca2[l][n] = o /\ ca2[l][JlcFile] = JlcOf(ca[l])
      /\ \A m \in Loaders : m /= l => ca2[m] = ca[m]
      /\ \A m \in Loaders : \A k \in DOMAIN ca[m] : k \in DOMAIN ca2[m] /\ ca2[m][k] = ca[m][k]
      /\ \A m \in Loaders : \A k \in DOMAIN ca[m] : ca[m][k] /= o
  BY CacheFacts
<1>3. /\ World(objs, ca, needs) /\ Len(c.got) = Len(needs[n]) /\ c.got \in Seq(Nat)
  BY <1>1 DEF Defines, CallRecords
<1>. HIDE DEF o, n, l, objs2, ca2
<1>4. Typed(objs2, ca2)
  <2>1. ASSUME NEW m \in Loaders
        PROVE  DOMAIN ca2[m] \subseteq Keys /\ ca2[m] \in [DOMAIN ca2[m] -> Nat]
    <3>1. CASE m = l
      <4>1. DOMAIN ca[l] \subseteq Keys
        BY <1>2, <1>3 DEF World, Typed
      <4>2. DOMAIN ca2[l] \subseteq Keys
        BY <4>1, <1>1, <1>2, NameFacts
      <4>3. ca2[l] \in [DOMAIN ca2[l] -> Nat]
        BY <1>2
      <4>. QED  BY ONLY <3>1, <4>2, <4>3
    <3>2. CASE m /= l
      BY <3>2, <1>2, <1>3 DEF World, Typed
    <3>. QED  BY <3>1, <3>2
  <2>. QED  BY <2>1, <1>1, <1>2 DEF Typed
<1>5. Pointers(objs2)
  <2>1. ASSUME NEW p \in 1 .. Len(objs2)
        PROVE  /\ objs2[p].super \in 0 .. Len(objs2) /\ objs2[p].class \in 0 .. Len(objs2)
               /\ \A i \in 1 .. Len(objs2[p].interfaces) : objs2[p].interfaces[i] \in 1 .. Len(objs2)
    <3>1. CASE p = o
      BY <3>1, <1>1
    <3>2. CASE p /= o
      BY <3>2, <1>1, <1>3 DEF World, Pointers
    <3>. QED  BY <3>1, <3>2
  <2>. QED  BY <2>1 DEF Pointers
<1>6. Known(objs2, ca2)
  <2>1. ASSUME NEW m \in Loaders, NEW k \in DOMAIN ca2[m], k /= JlcFile
        PROVE  ca2[m][k] \in 1 .. Len(objs2) /\ objs2[ca2[m][k]].name = k
    <3>1. CASE m = l /\ k = n
      BY <3>1, <1>1, <1>2
    <3>2. CASE ~(m = l /\ k = n)
      <4>1. k \in DOMAIN ca[m] /\ ca2[m][k] = ca[m][k] /\ ca[m][k] /= o
        BY <3>2, <2>1, <1>2
      <4>2. ca[m][k] \in 1 .. Len(objs) /\ objs[ca[m][k]].name = k
        BY <4>1, <2>1, <1>3 DEF World, Known
      <4>. QED  BY <4>1, <4>2, <1>1
    <3>. QED  BY <3>1, <3>2
  <2>. QED  BY <2>1 DEF Known
<1>7. JlcKnown(ca2)
  <2>1. JlcKnown(ca)
    BY <1>3 DEF World
  <2>2. CASE l = "base"
    BY <2>1, <2>2, <1>2 DEF JlcKnown, JlcOf, Loaders
  <2>3. CASE l = "boot"
    BY <2>1, <2>3, <1>2 DEF JlcKnown, JlcOf, Loaders
  <2>. QED  BY <2>2, <2>3, <1>2 DEF Loaders
<1>8. AllComplete(objs2, ca2, needs)
  <2>1. ASSUME NEW m \in Loaders, NEW k \in DOMAIN ca2[m], k \notin Primitives \cup {JlcFile}
        PROVE  Complete(objs2, ca2, objs2[ca2[m][k]], needs[k])
    <3>1. CASE m = l /\ k = n
      <4>. DEFINE d == objs2[o]
      <4>1. d.loaded /\ Supers(d) = c.got /\ ca2[m][k] = o
        BY <3>1, <1>1, <1>2
      <4>. HIDE DEF d
      <4>2. ASSUME NEW i \in 1 .. Len(needs[n])
            PROVE  /\ needs[n][i] \in DOMAIN ca2["boot"]
                   /\ Supers(d)[i] = ca2["boot"][needs[n][i]]
                   /\ objs2[Supers(d)[i]].loaded
        <5>1. /\ needs[n][i] \in DOMAIN ca["boot"] /\ c.got[i] = ca["boot"][needs[n][i]]
              /\ c.got[i] \in 1 .. Len(objs) /\ c.got[i] /= o /\ objs[c.got[i]].loaded
          BY <1>1, <1>3
        <5>2. objs2[c.got[i]].loaded
          BY <5>1, <1>1
        <5>. QED  BY <5>1, <5>2, <4>1, <1>2 DEF Loaders
      <4>. QED  BY <3>1, <4>1, <4>2, <1>3 DEF Complete, d
    <3>2. CASE ~(m = l /\ k = n)
      <4>1. k \in DOMAIN ca[m] /\ ca2[m][k] = ca[m][k] /\ ca[m][k] /= o
        BY <3>2, <2>1, <1>2
      <4>. DEFINE d == objs[ca[m][k]]
      <4>2. ca[m][k] \in 1 .. Len(objs) /\ Complete(objs, ca, d, needs[k])
        BY <4>1, <2>1, <1>3 DEF World, Known, AllComplete
      <4>3. objs2[ca2[m][k]] = d
        BY <4>1, <4>2, <1>1
      <4>. HIDE DEF d
      <4>4. ASSUME NEW i \in 1 .. Len(needs[k])
            PROVE  /\ needs[k][i] \in DOMAIN ca2["boot"]
                   /\ Supers(d)[i] = ca2["boot"][needs[k][i]]
                   /\ objs2[Supers(d)[i]].loaded
        <5>. DEFINE x == needs[k][i]
        <5>1. x \in DOMAIN ca["boot"] /\ Supers(d)[i] = ca["boot"][x] /\ objs[Supers(d)[i]].loaded
          BY <4>2 DEF Complete
        <5>2. x \in Names
          <6>1. k \in Keys \ Primitives
            BY <4>1, <2>1, <1>3 DEF World, Typed
          <6>2. needs[k] \in Seq(Names)
            BY <6>1 DEF Defines, NeedsOK
          <6>. QED  BY <6>2
        <5>. HIDE DEF x
        <5>3. ca["boot"][x] \in 1 .. Len(objs) /\ ca["boot"][x] /= o
          BY <5>1, <5>2, <1>2, <1>3, NameFacts DEF World, Known, Loaders
        <5>4. x \in DOMAIN ca2["boot"] /\ ca2["boot"][x] = ca["boot"][x]
          BY <5>1, <1>2 DEF Loaders
        <5>5. objs2[Supers(d)[i]] = objs[Supers(d)[i]]
          BY <5>1, <5>3, <1>1
        <5>. QED  BY <5>1, <5>4, <5>5 DEF x
      <4>. QED  BY <4>2, <4>3, <4>4 DEF Complete
    <3>. QED  BY <3>1, <3>2
  <2>. QED  BY <2>1 DEF AllComplete
<1>. QED  BY <1>4, <1>5, <1>6, <1>7, <1>8 DEF World, objs2, ca2

(* No other call in progress is for the class that has been defined: what  *)
(* such a call waits for would be cached, and not cached.                  *)
LEMMA NotTwice ==
  ASSUME NEW objs, NEW ca, NEW cs, NEW needs, Stack(cs, needs), cs /= << >>,
         \A i \in 1 .. Len(cs) : CallOK(objs, ca, cs[i], needs),
         Defines(objs, ca, cs[Len(cs)], needs),
         NEW i \in 1 .. Len(cs) - 1, cs[i].loader = cs[Len(cs)].loader
  PROVE  ClassNamed(cs[i].key) /= ClassNamed(cs[Len(cs)].key)
<1>. DEFINE N == Len(cs)
            c == cs[N]
            x == needs[cs[i].key][Len(cs[i].got) + 1]
<1>1. cs \in Seq(CallRecords) /\ N \in Nat /\ i + 1 \in 1 .. N /\ i \in 1 .. N
  BY DEF Stack
<1>2. Waits(cs[i], cs[i + 1], needs)
  BY <1>1 DEF Stack
<1>3. cs[i] \in CallRecords /\ c \in CallRecords
  BY <1>1
<1>4. CASE N = 1
  BY <1>4
<1>5. CASE N /= 1
  <2>1. Waits(cs[N - 1], c, needs) /\ c.key \in Names
    BY <1>1, <1>5 DEF Stack
  <2>2. c.loader = "boot" /\ cs[i].loader = "boot"
    BY <2>1 DEF Waits
  <2>. SUFFICES ASSUME ClassNamed(cs[i].key) = ClassNamed(c.key) PROVE FALSE
    OBVIOUS
  <2>3. CallOK(objs, ca, cs[i], needs) /\ cs[i].object /= Null
    BY <1>1, <1>2 DEF Waits
  <2>4. cs[i].key \in Keys \ Primitives
    BY <2>3, <1>3 DEF CallOK, Fresh, CallRecords
  <2>5. needs[cs[i].key] = needs[c.key]
    <3>1. ClassNamed(c.key) = c.key
      BY <2>1, NameFacts
    <3>2. CASE cs[i].key = JlcFile
      BY <3>1, <3>2, NameFacts DEF Defines, NeedsOK
    <3>3. CASE cs[i].key /= JlcFile
      BY <3>1, <3>3 DEF ClassNamed
    <3>. QED  BY <3>2, <3>3
  <2>6. /\ cs[i + 1].key = x /\ cs[i + 1].loader = "boot"
        /\ Len(cs[i].got) + 1 \in 1 .. Len(needs[c.key])
    BY <1>2, <2>5 DEF Waits
  <2>7. GotNeeded(ca, c, needs[c.key]) /\ Len(c.got) = Len(needs[c.key])
    BY DEF Defines, CallOK
  <2>8. x \in DOMAIN ca["boot"]
    BY <2>5, <2>6, <2>7 DEF GotNeeded
  <2>9. cs[i + 1].object /= Null
    <3>1. CASE i + 1 = N
      BY <3>1 DEF Defines
    <3>2. CASE i + 1 /= N
      <4>1. Waits(cs[i + 1], cs[i + 2], needs)
        BY <3>2, <1>1 DEF Stack
      <4>. QED  BY <4>1 DEF Waits
    <3>. QED  BY <3>1, <3>2
  <2>10. ClassNamed(cs[i + 1].key) = x
    BY <1>1, <2>6, NameFacts DEF Stack
  <2>11. x \notin DOMAIN ca["boot"]
    BY <1>1, <2>6, <2>9, <2>10 DEF CallOK, Fresh
  <2>. QED  BY <2>8, <2>11
<1>. QED  BY <1>4, <1>5

LEMMA DefineCalls ==
  ASSUME NEW objs, NEW ca, NEW cs, NEW needs, Stack(cs, needs), cs /= << >>,
         \A i \in 1 .. Len(cs) : CallOK(objs, ca, cs[i], needs),
         Defines(objs, ca, cs[Len(cs)], needs),
         NEW i \in 1 .. Len(cs) - 1
  PROVE  CallOK(After1(objs, ca, cs[Len(cs)]), After2(ca, cs[Len(cs)]), cs[i], needs)
<1>. DEFINE c == cs[Len(cs)]
            b == cs[i]
            o == c.object
            n == ClassNamed(c.key)
            l == c.loader
            objs2 == After1(objs, ca, c)
            ca2 == After2(ca, c)
<1>0. cs \in Seq(CallRecords) /\ i \in 1 .. Len(cs) /\ Len(cs) \in 1 .. Len(cs) /\ i /= Len(cs)
  BY DEF Stack
<1>1. /\ o \in 1 .. Len(objs) /\ Len(objs2) = Len(objs)
      /\ \A p \in 1 .. Len(objs) : p /= o => objs2[p] = objs[p]
  BY DefineFacts
<1>2. /\ l \in Loaders
      /\ DOMAIN ca2[l] = DOMAIN ca[l] \cup {n, JlcFile}
      /\ ca2[l][n] = o /\ ca2[l][JlcFile] = JlcOf(ca[l])
      /\ \A m \in Loaders : m /= l => ca2[m] = ca[m]
      /\ \A m \in Loaders : \A k \in DOMAIN ca[m] : k \in DOMAIN ca2[m] /\ ca2[m][k] = ca[m][k]
  BY CacheFacts
<1>3. b \in CallRecords /\ b.object /= Null /\ CallOK(objs, ca, b, needs)
  BY <1>0 DEF Stack, Waits
<1>4. b.object /= o
  BY <1>0, <1>3 DEF Stack
<1>5. b.loader = l => ClassNamed(b.key) /= n
  BY NotTwice
<1>6. b.loader \in Loaders /\ b.key \in Keys
  BY <1>3 DEF CallRecords
<1>7. Fresh(objs, ca, b) /\ GotNeeded(ca, b, needs[b.key])
  BY <1>3 DEF CallOK
<1>. HIDE DEF o, n, l, objs2, ca2, b, c
<1>8. ASSUME NEW m \in Loaders, NEW k \in DOMAIN ca2[m]  PROVE  ca2[m][k] /= b.object
  <2>1. CASE m = l
    BY <2>1, <1>2, <1>3, <1>4, <1>7 DEF Fresh, JlcOf
  <2>2. CASE m /= l
    BY <2>2, <1>2, <1>7 DEF Fresh
  <2>. QED  BY <2>1, <2>2
<1>9. ClassNamed(b.key) \notin DOMAIN ca2[b.loader]
  BY <1>2, <1>5, <1>6, <1>7, NameFacts DEF Fresh
<1>10. Fresh(objs2, ca2, b)
  BY <1>1, <1>4, <1>7, <1>8, <1>9 DEF Fresh
<1>11. GotNeeded(ca2, b, needs[b.key])
  BY <1>2, <1>7 DEF GotNeeded, Loaders
<1>. QED  BY <1>3, <1>10, <1>11 DEF CallOK, objs2, ca2, b, c

-----------------------------------------------------------------------------
(* The steps of the specification *)

LEMMA NeedsStay ==
  ASSUME files' = files
  PROVE  Needs' = Needs
BY DEF Needs, Needed

LEMMA AfterFacts ==
  /\ DOMAIN After = {"main", "string", "args", "run"}
  /\ \A st \in {"main", "string", "args", "run"} : After[st] \subseteq {"string", "end", "args", "run"}
BY DEF After

LEMMA Assembled ==
  ASSUME files' = files,
         files \in [hierarchy : Hierarchies, path : Paths, suffixTest : SuffixTests],
         World(objects', cache', Needs), Stack(calls', Needs),
         \A i \in 1 .. Len(calls') : CallOK(objects', cache', calls'[i], Needs),
         Stages(cache', calls', stage'), Classes(objects', cache', stage'),
         Len(calls') <= MaxDepth, status' \in {"ok", "fatal", "segv", "nomem"},
         DiesOnlyWithReason'
  PROVE  LoadInv'
BY NeedsStay DEF LoadInv

LEMMA LoadInvInit == Init => LoadInv
<1>. SUFFICES ASSUME Init PROVE LoadInv
  OBVIOUS
<1>1. objects = << >> /\ Len(objects) = 0 /\ objects \in Seq(ObjectRecords)
  BY DEF Init
<1>2. cache = [l \in Loaders |-> cache[l]] /\ \A l \in Loaders : DOMAIN cache[l] = {}
      /\ cache[l] \in [DOMAIN cache[l] -> Nat]
  BY DEF Init
<1>3. "boot" \in Loaders /\ "base" \in Loaders
  BY DEF Loaders
<1>4. World(objects, cache, Needs)
  BY <1>1, <1>2, <1>3 DEF World, Typed, Pointers, Known, JlcKnown, AllComplete
<1>. DEFINE c == Call("boot", JlcFile)
<1>5. c \in CallRecords /\ c.loader = "boot" /\ c.key = JlcFile /\ c.object = Null /\ c.got = << >>
  BY <1>3, NameFacts DEF Call, CallRecords, Null
<1>6. calls = <<c>>
  BY DEF Init
<1>. HIDE DEF c
<1>7. calls \in Seq(CallRecords) /\ Len(calls) = 1 /\ calls[1] = c /\ calls /= << >>
  BY <1>5, <1>6
<1>8. Stack(calls, Needs)
  BY <1>5, <1>7 DEF Stack
<1>9. \A i \in 1 .. Len(calls) : CallOK(objects, cache, calls[i], Needs)
  BY <1>5, <1>7 DEF CallOK
<1>10. Stages(cache, calls, stage)
  BY <1>2, <1>3, <1>5, <1>7 DEF Stages, StageNames, Init
<1>11. Len(calls) <= MaxDepth
  <2>1. Cardinality(Names) \in Nat
    BY NamesAssumption, FS_CardinalityType
  <2>. QED  BY <2>1, <1>7, NamesAssumption
<1>12. Classes(objects, cache, stage) /\ status = "ok" /\ DiesOnlyWithReason
  BY DEF Init, Classes, DiesOnlyWithReason
<1>. QED  BY <1>4, <1>8, <1>9, <1>10, <1>11, <1>12 DEF Init, LoadInv

(* What AnswersStay says of a step *)
Kept ==
  \A l \in Loaders : \A k \in Cacheds(l) :
    /\ cache'[l][k] = cache[l][k]
    /\ LET o == cache[l][k] IN
       /\ objects'[o] = [objects[o] EXCEPT !.class = objects'[o].class]
       /\ o \in DOMAIN layout => o \in DOMAIN layout' /\ layout'[o] = layout[o]

(* Cached objects are objects. *)
LEMMA CachedKnown ==
  ASSUME World(objects, cache, Needs), NEW l \in Loaders, NEW k \in Cacheds(l)
  PROVE  /\ k \in DOMAIN cache[l] /\ cache[l][k] \in 1 .. Len(objects)
         /\ objects[cache[l][k]] \in ObjectRecords
<1>1. k \in DOMAIN cache[l] /\ cache[l][k] /= Null
  BY DEF Cacheds
<1>2. cache[l][k] \in 1 .. Len(objects)
  <2>1. CASE k /= JlcFile
    BY <1>1, <2>1 DEF World, Known
  <2>2. CASE k = JlcFile
    BY <1>1, <2>2, NameFacts DEF World, JlcKnown, Known, Loaders
  <2>. QED  BY <2>1, <2>2
<1>. QED  BY <1>1, <1>2 DEF World, Typed

LEMMA KeptSame ==
  ASSUME World(objects, cache, Needs), cache' = cache, layout' = layout,
         \A o \in 1 .. Len(objects) : objects'[o] = objects[o]
  PROVE  Kept
<1>1. ASSUME NEW c \in ObjectRecords  PROVE  c = [c EXCEPT !.class = c.class]
  BY DEF ObjectRecords
<1>. QED  BY <1>1, CachedKnown DEF Kept

(* A step that ends the process *)
LEMMA DieKeeps ==
  ASSUME LoadInv, NEW how \in {"fatal", "segv", "nomem"}, Die(how),
         how = "segv" => \/ Innermost.key \notin Arrays /\ ~ReadClass(Innermost.loader, Innermost.key)
                         \/ \E i, j \in DOMAIN calls :
                              i < j /\ ClassNamed(calls[i].key) = ClassNamed(calls[j].key)
  PROVE  LoadInv' /\ Kept
<1>1. /\ files' = files /\ objects' = objects /\ cache' = cache /\ calls' = calls /\ stage' = stage
      /\ layout' = layout /\ status' = how
  BY DEF Die
<1>2. DiesOnlyWithReason'
  BY <1>1 DEF DiesOnlyWithReason, Innermost, ReadClass, ClassNamed
<1>3. LoadInv'
  BY <1>1, <1>2, Assembled DEF LoadInv
<1>4. Kept
  BY <1>1, KeptSame DEF LoadInv
<1>. QED  BY <1>3, <1>4

(* The innermost call *)
LEMMA InnermostFacts ==
  ASSUME LoadInv, calls /= << >>
  PROVE  /\ calls \in Seq(CallRecords) /\ Len(calls) \in Nat /\ Len(calls) >= 1
         /\ Innermost = calls[Len(calls)] /\ Innermost \in CallRecords
         /\ CallOK(objects, cache, Innermost, Needs)
         /\ Innermost.object = Null /\ Innermost.key = JlcFile => DOMAIN cache["boot"] = {}
         /\ Innermost.key = JlcFile => Innermost.loader = "boot"
<1>1. calls \in Seq(CallRecords) /\ Len(calls) \in Nat /\ Len(calls) >= 1
  BY DEF LoadInv, Stack
<1>2. Innermost = calls[Len(calls)] /\ Innermost \in CallRecords
  BY <1>1 DEF Innermost
<1>3. CallOK(objects, cache, Innermost, Needs)
  BY <1>1, <1>2 DEF LoadInv
<1>4. Len(calls) /= 1 => Innermost.key \in Names
  <2>1. \A i \in 2 .. Len(calls) : calls[i].key \in Names
    BY DEF LoadInv, Stack
  <2>. QED  BY <2>1, <1>1, <1>2
<1>5. Innermost.key = JlcFile => Len(calls) = 1 /\ stage = "basic"
  BY <1>1, <1>2, <1>4, NameFacts DEF LoadInv, Stages
<1>6. Stages(cache, calls, stage)
  BY DEF LoadInv
<1>. QED  BY <1>1, <1>2, <1>3, <1>5, <1>6 DEF Stages

-----------------------------------------------------------------------------
LEMMA StartLoadKeeps ==
  ASSUME LoadInv, calls /= << >>, status = "ok", StartLoad
  PROVE  LoadInv' /\ Kept
<1>. DEFINE c == Innermost
            N == Len(calls)
            n == ClassNamed(c.key)
<1>1. /\ calls \in Seq(CallRecords) /\ N \in Nat /\ N >= 1
      /\ c = calls[N] /\ c \in CallRecords /\ CallOK(objects, cache, c, Needs)
      /\ c.object = Null /\ c.key \notin DOMAIN cache[c.loader]
      /\ c.key = JlcFile => DOMAIN cache["boot"] = {} /\ c.loader = "boot"
  BY InnermostFacts DEF StartLoad
<1>2. c.key \in Keys /\ c.loader \in Loaders /\ c.got \in Seq(Nat)
  BY <1>1 DEF CallRecords
<1>3. CASE ~(c.key \in Arrays \/ ReadClass(c.loader, c.key))
  <2>1. Die("segv")
    BY <1>3 DEF StartLoad
  <2>. QED  BY <1>3, <2>1, DieKeeps
<1>4. CASE (c.key \in Arrays \/ ReadClass(c.loader, c.key)) /\ Die("nomem")
  BY <1>4, DieKeeps
<1>5. CASE /\ c.key \in Arrays \/ ReadClass(c.loader, c.key)
           /\ objects' = Append(objects, NewObject(n))
           /\ calls' = [calls EXCEPT ![N].object = Len(objects) + 1]
           /\ UNCHANGED <<files, layout, cache, stage, status>>
  <2>1. c.key \notin Primitives
    <3>1. CASE c.key \in Arrays
      BY <3>1, NameFacts
    <3>2. CASE ReadClass(c.loader, c.key)
      <4>1. files.path \in [Loaders -> SUBSET Names]
        BY FilesAssumption DEF LoadInv
      <4>2. n \in Names
        BY <3>2, <4>1, <1>2 DEF ReadClass
      <4>. QED  BY <4>2, NameFacts DEF ClassNamed
    <3>. QED  BY <1>5, <3>1, <3>2
  <2>2. n \in Keys
    BY <1>2, NameFacts
  <2>3. objects \in Seq(ObjectRecords) /\ Len(objects) \in Nat /\ Typed(objects, cache)
    BY DEF LoadInv, World, Typed
  <2>4. /\ World(objects', cache, Needs) /\ objects' \in Seq(ObjectRecords)
        /\ Len(objects') = Len(objects) + 1 /\ objects'[Len(objects) + 1].name = n
        /\ \A o \in 1 .. Len(objects) : objects'[o] = objects[o]
    BY <1>5, <2>2, GrowWorld DEF LoadInv
  <2>. DEFINE p == Len(objects) + 1
              d == [c EXCEPT !.object = p]
  <2>5. /\ d \in CallRecords /\ d.object = p /\ d.key = c.key /\ d.loader = c.loader /\ d.got = c.got
    <3>1. p \in Nat
      BY <2>3
    <3>. HIDE DEF p, c
    <3>. QED  BY <1>1, <3>1 DEF CallRecords
  <2>. HIDE DEF d, p
  <2>6. calls' = [calls EXCEPT ![N] = d]
    BY <1>1, <1>5, Zenon DEF d, p
  <2>7. /\ calls' \in Seq(CallRecords) /\ Len(calls') = N /\ calls'[N] = d
        /\ \A i \in 1 .. N : i /= N => calls'[i] = calls[i]
    BY <1>1, <2>5, <2>6
  <2>8. \A l \in Loaders : \A k \in DOMAIN cache[l] : cache[l][k] /= p
    <3>1. ASSUME NEW l \in Loaders, NEW k \in DOMAIN cache[l]  PROVE  cache[l][k] /= p
      <4>1. cache[l][k] \in 0 .. Len(objects)
        <5>1. cache[l][k] = Null \/ k \in Cacheds(l)
          BY DEF Cacheds
        <5>. QED  BY <5>1, <2>3, CachedKnown DEF LoadInv, Null
      <4>. QED  BY <4>1, <2>3 DEF p
    <3>. QED  BY <3>1
  <2>9. n \notin DOMAIN cache[c.loader]
    BY <1>1, <1>2, NameFacts DEF ClassNamed
  <2>10. Fresh(objects', cache, d)
    BY <2>1, <2>3, <2>4, <2>5, <2>8, <2>9 DEF Fresh, p
  <2>11. CallOK(objects', cache, d, Needs)
    <3>1. d.got = << >> /\ d.object /= Null
      BY <1>1, <2>3, <2>5 DEF CallOK, Null, p
    <3>2. NeedsOK(Needs) /\ Needs[d.key] \in Seq(Names)
      BY <1>2, <2>1, <2>5, NeedsHold DEF LoadInv, NeedsOK
    <3>3. GotNeeded(cache, d, Needs[d.key])
      BY <3>1, <3>2 DEF GotNeeded
    <3>. QED  BY <3>1, <3>3, <2>10 DEF CallOK
  <2>12. ASSUME NEW i \in 1 .. Len(calls')  PROVE  CallOK(objects', cache, calls'[i], Needs)
    <3>1. CASE i = N
      BY <3>1, <2>7, <2>11
    <3>2. CASE i /= N
      <4>1. CallOK(objects, cache, calls[i], Needs)
        BY <2>7 DEF LoadInv
      <4>. QED  BY <3>2, <4>1, <2>3, <2>4, <2>7, GrowCalls
    <3>. QED  BY <3>1, <3>2
  <2>13. Stack(calls', Needs)
    <3>1. Stack(calls, Needs)
      BY DEF LoadInv
    <3>2. \A i \in 1 .. N : calls'[i].key = calls[i].key /\ calls'[i].loader = calls[i].loader
      BY <1>1, <2>5, <2>7
    <3>3. \A i \in 1 .. N - 1 : Waits(calls'[i], calls'[i + 1], Needs)
      <4>1. ASSUME NEW i \in 1 .. N - 1  PROVE  Waits(calls'[i], calls'[i + 1], Needs)
        <5>1. Waits(calls[i], calls[i + 1], Needs) /\ calls'[i] = calls[i] /\ i + 1 \in 1 .. N
          BY <3>1, <1>1, <2>7 DEF Stack
        <5>. QED  BY <5>1, <3>2 DEF Waits
      <4>. QED  BY <4>1
    <3>4. \A i \in 1 .. N : i /= N => calls[i].object \in Nat /\ calls[i].object /= p
      <4>1. ASSUME NEW i \in 1 .. N, i /= N
            PROVE  calls[i].object \in Nat /\ calls[i].object /= p
        <5>1. CallOK(objects, cache, calls[i], Needs) /\ calls[i] \in CallRecords
          BY <1>1 DEF LoadInv
        <5>. QED  BY <5>1, <2>3 DEF CallOK, Fresh, CallRecords, Null, p
      <4>. QED  BY <4>1
    <3>5. \A i, j \in 1 .. N : i /= j /\ calls'[i].object /= Null => calls'[i].object /= calls'[j].object
      BY <3>1, <3>4, <2>5, <2>7 DEF Stack
    <3>6. \A i \in 2 .. N : calls'[i].key \in Names
      BY <3>1, <3>2, <1>1 DEF Stack
    <3>. QED  BY <2>7, <3>3, <3>5, <3>6 DEF Stack
  <2>14. Stages(cache', calls', stage')
    <3>1. /\ calls' /= << >> /\ calls'[1].key = calls[1].key /\ calls'[1].loader = calls[1].loader
          /\ calls'[1].object = Null => calls[1].object = Null
      BY <1>1, <2>3, <2>5, <2>7 DEF Null, p
    <3>. QED  BY <3>1, <1>5 DEF LoadInv, Stages
  <2>15. Classes(objects', cache', stage')
    <3>1. ASSUME stage /= "basic", NEW l \in Loaders, NEW k \in DOMAIN cache[l],
                 l = "boot" \/ k /= JlcFile
          PROVE  objects'[cache[l][k]] = objects[cache[l][k]]
      <4>1. k \in Cacheds(l)
        BY <3>1, NameFacts DEF LoadInv, World, Known, Stages, Cacheds, Loaders, Null
      <4>. QED  BY <4>1, <2>4, CachedKnown DEF LoadInv
    <3>. QED  BY <3>1, <1>5 DEF LoadInv, Classes, Loaders
  <2>16. DiesOnlyWithReason' /\ status' = "ok"
    BY <1>5 DEF DiesOnlyWithReason
  <2>17. LoadInv'
    BY <1>5, <2>4, <2>7, <2>12, <2>13, <2>14, <2>15, <2>16, Assembled DEF LoadInv
  <2>18. Kept
    BY <1>5, <2>4, KeptSame DEF LoadInv
  <2>. QED  BY <2>17, <2>18
<1>. QED  BY <1>3, <1>4, <1>5 DEF StartLoad, NewClassObject

(* The superclass recursion that has used up the native stack has come     *)
(* back to a class, there being more calls than names.                     *)
LEMMA PigeonHoleOfNames ==
  ASSUME Stack(calls, Needs), Len(calls) = MaxDepth
  PROVE  \E i, j \in DOMAIN calls : i < j /\ ClassNamed(calls[i].key) = ClassNamed(calls[j].key)
<1>1. calls \in Seq(CallRecords) /\ \A i \in 2 .. Len(calls) : calls[i].key \in Names
  BY DEF Stack
<1>2. IsFiniteSet(Names) /\ Cardinality(Names) \in Nat /\ MaxDepth \in Nat
      /\ MaxDepth > Cardinality(Names) + 1
  BY NamesAssumption, FS_CardinalityType
<1>. DEFINE S == 2 .. MaxDepth
            f == [i \in S |-> calls[i].key]
<1>3. IsFiniteSet(S) /\ Cardinality(S) = MaxDepth - 1
  BY <1>2, FS_Interval
<1>4. f \in [S -> Names]
  BY <1>1
<1>5. Cardinality(Names) < Cardinality(S)
  BY <1>2, <1>3
<1>. HIDE DEF f, S
<1>6. PICK x, y \in S : x # y /\ f[x] = f[y]
  BY <1>2, <1>3, <1>4, <1>5, FS_PigeonHole
<1>7. x \in DOMAIN calls /\ y \in DOMAIN calls /\ calls[x].key = calls[y].key
      /\ x \in Int /\ y \in Int
  BY <1>1, <1>2, <1>6 DEF f, S
<1>8. x < y \/ y < x
  BY <1>6, <1>7
<1>. QED  BY <1>7, <1>8

LEMMA ResolveKeeps ==
  ASSUME LoadInv, calls /= << >>, status = "ok", Resolve
  PROVE  LoadInv' /\ Kept
<1>. DEFINE c == Innermost
            N == Len(calls)
            next == Len(c.got) + 1
            d == Call("boot", Needed(c.key)[next])
<1>1. /\ calls \in Seq(CallRecords) /\ N \in Nat /\ N >= 1
      /\ c = calls[N] /\ c \in CallRecords /\ CallOK(objects, cache, c, Needs)
  BY InnermostFacts
<1>2. c.object /= Null /\ next <= Len(Needed(c.key))
  BY DEF Resolve
<1>3. c.key \in Keys \ Primitives /\ c.got \in Seq(Nat)
  BY <1>1, <1>2 DEF CallOK, Fresh, CallRecords
<1>4. Needs[c.key] = Needed(c.key) /\ Needs[c.key] \in Seq(Names) /\ NeedsOK(Needs)
  BY <1>3, NeedsHold DEF LoadInv, NeedsOK
<1>5. next \in 1 .. Len(Needs[c.key]) /\ Needs[c.key][next] \in Names
  BY <1>2, <1>3, <1>4
<1>6. CASE N = MaxDepth
  <2>1. Die("segv")
    BY <1>6 DEF Resolve
  <2>2. \E i, j \in DOMAIN calls : i < j /\ ClassNamed(calls[i].key) = ClassNamed(calls[j].key)
    BY <1>6, PigeonHoleOfNames DEF LoadInv
  <2>. QED  BY <2>1, <2>2, DieKeeps
<1>7. CASE N /= MaxDepth
  <2>1. calls' = Append(calls, d) /\ UNCHANGED <<files, objects, layout, cache, stage, status>>
    BY <1>7 DEF Resolve
  <2>2. /\ d \in CallRecords /\ d.loader = "boot" /\ d.object = Null /\ d.got = << >>
        /\ d.key = Needs[c.key][next] /\ d.key \in Names
    BY <1>4, <1>5, NameFacts DEF Call, CallRecords, Loaders, Null
  <2>. HIDE DEF d
  <2>3. /\ calls' \in Seq(CallRecords) /\ Len(calls') = N + 1 /\ calls'[N + 1] = d
        /\ \A i \in 1 .. N : calls'[i] = calls[i]
    BY <1>1, <2>1, <2>2
  <2>4. Stack(calls', Needs)
    <3>1. Stack(calls, Needs)
      BY DEF LoadInv
    <3>2. Waits(c, d, Needs)
      BY <1>2, <1>5, <2>2 DEF Waits
    <3>3. ASSUME NEW i \in 1 .. N  PROVE  Waits(calls'[i], calls'[i + 1], Needs)
      <4>1. CASE i = N
        BY <4>1, <3>2, <2>3, <1>1
      <4>2. CASE i /= N
        <5>1. i \in 1 .. N - 1 /\ i + 1 \in 1 .. N
          BY <4>2, <1>1
        <5>. QED  BY <5>1, <3>1, <2>3 DEF Stack
      <4>. QED  BY <4>1, <4>2
    <3>4. \A i \in 2 .. N + 1 : calls'[i].key \in Names
      BY <3>1, <2>2, <2>3, <1>1 DEF Stack
    <3>5. \A i, j \in 1 .. N + 1 : i /= j /\ calls'[i].object /= Null => calls'[i].object /= calls'[j].object
      BY <3>1, <2>2, <2>3, <1>1 DEF Stack
    <3>. QED  BY <2>3, <3>3, <3>4, <3>5, <1>1 DEF Stack
  <2>5. \A i \in 1 .. Len(calls') : CallOK(objects', cache', calls'[i], Needs)
    BY <2>1, <2>2, <2>3, <1>1 DEF LoadInv, CallOK
  <2>6. Stages(cache', calls', stage')
    <3>1. calls' /= << >> /\ calls'[1] = calls[1]
      BY <2>3, <1>1
    <3>. QED  BY <3>1, <2>1 DEF LoadInv, Stages
  <2>7. Len(calls') <= MaxDepth
    BY <1>1, <1>7, <2>3, NamesAssumption DEF LoadInv
  <2>8. DiesOnlyWithReason' /\ status' = "ok"
    BY <2>1 DEF DiesOnlyWithReason
  <2>9. LoadInv'
    BY <2>1, <2>4, <2>5, <2>6, <2>7, <2>8, Assembled DEF LoadInv
  <2>10. Kept
    BY <2>1, KeptSame DEF LoadInv
  <2>. QED  BY <2>9, <2>10
<1>. QED  BY <1>6, <1>7

-----------------------------------------------------------------------------
LEMMA OuterEmpty ==
  ASSUME calls \in Seq(CallRecords), Len(calls) >= 1
  PROVE  Outer = << >> <=> Len(calls) = 1
<1>. DEFINE n == Len(calls) - 1
<1>1. n \in Int /\ 1 \in Int /\ \A i \in 1 .. n : calls[i] \in CallRecords
  OBVIOUS
<1>2. Len(Outer) = IF 1 <= n THEN n - 1 + 1 ELSE 0
  BY <1>1, SubSeqProperties DEF Outer
<1>3. Len(calls) = 1 => Outer = << >>
  BY <1>1, SubSeqEmpty DEF Outer
<1>4. Len(calls) /= 1 => Len(Outer) /= 0
  <2>1. \A m \in Nat : m >= 1 /\ m /= 1 => 1 <= m - 1 /\ (m - 1) - 1 + 1 /= 0
    OBVIOUS
  <2>2. Len(calls) \in Nat
    OBVIOUS
  <2>. QED  BY <1>2, <2>1, <2>2
<1>. QED  BY <1>3, <1>4

(* LoadClass returns to the StartLoad of another class. *)
LEMMA ReturnInner ==
  ASSUME LoadInv, status = "ok", Len(calls) > 1, files' = files,
         NEW objs, NEW ca, NEW o \in Nat, Return(o, objs, ca),
         World(objs, ca, Needs), Stages(ca, calls, stage), Classes(objs, ca, stage),
         \A i \in 1 .. Len(calls) - 1 : CallOK(objs, ca, calls[i], Needs),
         Innermost.key \in DOMAIN ca["boot"], o = ca["boot"][Innermost.key]
  PROVE  LoadInv' /\ objects' = objs /\ cache' = ca
<1>. DEFINE n == Len(calls) - 1
            rs == ReturnTo(Outer, o)
<1>1. calls \in Seq(CallRecords) /\ n \in Nat /\ n >= 1 /\ Len(calls) = n + 1 /\ Stack(calls, Needs)
  BY DEF LoadInv, Stack
<1>2. Outer /= << >>
  BY <1>1, OuterEmpty
<1>3. objects' = objs /\ cache' = ca /\ calls' = rs /\ stage' = stage /\ status' = "ok"
  BY <1>2 DEF Return
<1>4. /\ rs \in Seq(CallRecords) /\ Len(rs) = n /\ rs /= << >>
      /\ \A i \in 1 .. n : i /= n => rs[i] = calls[i]
      /\ rs[n] = [calls[n] EXCEPT !.got = Append(@, o)]
  BY <1>1, ReturnToFacts DEF Outer
<1>5. NeedsOK(Needs)
  BY NeedsHold DEF LoadInv
<1>6. Stack(rs, Needs)
  BY <1>1, <1>5, ReturnStack DEF Outer
<1>. HIDE DEF n, rs
<1>7. calls[n] \in CallRecords /\ Waits(calls[n], Innermost, Needs) /\ CallOK(objs, ca, calls[n], Needs)
  <2>1. Waits(calls[n], calls[n + 1], Needs)
    BY <1>1 DEF Stack
  <2>2. CallOK(objs, ca, calls[n], Needs)
    BY <1>1 DEF n
  <2>. QED  BY <1>1, <2>1, <2>2 DEF Innermost
<1>8. CallOK(objs, ca, rs[n], Needs)
  <2>1. calls[n].object /= Null
    BY <1>7 DEF Waits
  <2>. DEFINE b == calls[n]
              d == Innermost
              e == [b EXCEPT !.got = Append(@, o)]
  <2>2. /\ b \in CallRecords /\ b.object /= Null /\ CallOK(objs, ca, b, Needs) /\ Waits(b, d, Needs)
        /\ d.key \in DOMAIN ca["boot"] /\ o = ca["boot"][d.key]
    BY <1>7, <2>1
  <2>3. rs[n] = e
    BY <1>4
  <2>. HIDE DEF b, d
  <2>4. CallOK(objs, ca, e, Needs)
    BY <2>2, <1>5, ReturnGot
  <2>. QED  BY <2>3, <2>4
<1>9. ASSUME NEW i \in 1 .. n  PROVE  CallOK(objs, ca, rs[i], Needs)
  <2>1. CASE i = n
    BY <2>1, <1>8
  <2>2. CASE i /= n
    <3>1. CallOK(objs, ca, calls[i], Needs)
      BY <1>1 DEF n
    <3>. QED  BY <2>2, <3>1, <1>4
  <2>. QED  BY <2>1, <2>2
<1>10. Stages(ca, rs, stage)
  <2>1. rs[1].key = calls[1].key /\ rs[1].loader = calls[1].loader /\ rs[1].object = calls[1].object
    <3>1. CASE n = 1
      BY <3>1, <1>4, <1>7 DEF CallRecords
    <3>2. CASE n /= 1
      <4>1. 1 \in 1 .. n
        BY <1>1
      <4>. QED  BY <3>2, <4>1, <1>4
    <3>. QED  BY <3>1, <3>2
  <2>2. calls /= << >>
    BY <1>1
  <2>. QED  BY <2>1, <2>2, <1>4 DEF Stages
<1>11. DiesOnlyWithReason'
  BY <1>3 DEF DiesOnlyWithReason
<1>12. Len(rs) <= MaxDepth
  BY <1>1, <1>4, NamesAssumption DEF LoadInv
<1>13. /\ World(objects', cache', Needs) /\ Stack(calls', Needs)
       /\ \A i \in 1 .. Len(calls') : CallOK(objects', cache', calls'[i], Needs)
       /\ Stages(cache', calls', stage') /\ Classes(objects', cache', stage')
       /\ Len(calls') <= MaxDepth
  BY <1>3, <1>4, <1>6, <1>9, <1>10, <1>12
<1>14. LoadInv'
  BY <1>3, <1>11, <1>13, Assembled DEF LoadInv
<1>. QED  BY <1>3, <1>14

(* LoadClass returns to JVM::Start or to what asked for the class. *)
LEMMA ReturnOutermost ==
  ASSUME LoadInv, status = "ok", Len(calls) = 1, stage /= "basic", files' = files,
         NEW objs, NEW ca, NEW o \in Nat, Return(o, objs, ca),
         World(objs, ca, Needs), Stages(ca, calls, stage), Classes(objs, ca, stage)
  PROVE  LoadInv' /\ objects' = objs /\ cache' = ca
<1>0. calls \in Seq(CallRecords) /\ Len(calls) >= 1 /\ calls /= << >>
  BY DEF LoadInv, Stack
<1>1. Outer = << >>
  BY <1>0, OuterEmpty
<1>2. /\ objects' = objs /\ cache' = ca /\ calls' = << >> /\ stage' \in After[stage]
      /\ status' \in {"ok", "fatal"}
  BY <1>1 DEF Return, ReturnTo
<1>3. stage \in {"main", "string", "args", "run"}
  BY <1>0 DEF Stages, StageNames
<1>4. stage' \in {"string", "end", "args", "run"}
  BY <1>2, <1>3, AfterFacts
<1>5. Stages(ca, << >>, stage') /\ Classes(objs, ca, stage')
  BY <1>4 DEF Stages, StageNames, Classes
<1>6. Len(calls') = 0 /\ calls' \in Seq(CallRecords)
  BY <1>2
<1>7. Stack(calls', Needs) /\ \A i \in 1 .. Len(calls') : CallOK(objs, ca, calls'[i], Needs)
  BY <1>6 DEF Stack
<1>8. Len(calls') <= MaxDepth /\ DiesOnlyWithReason'
  BY <1>2, <1>6, NamesAssumption DEF DiesOnlyWithReason
<1>9. World(objects', cache', Needs) /\ Stages(cache', calls', stage') /\ Classes(objects', cache', stage')
      /\ \A i \in 1 .. Len(calls') : CallOK(objects', cache', calls'[i], Needs)
  BY <1>2, <1>5, <1>7
<1>10. LoadInv'
  BY <1>2, <1>7, <1>8, <1>9, Assembled DEF LoadInv
<1>. QED  BY <1>2, <1>10

LEMMA CachedKeeps ==
  ASSUME LoadInv, calls /= << >>, status = "ok", Cached
  PROVE  LoadInv' /\ Kept
<1>. DEFINE c == Innermost
            o == cache[c.loader][c.key]
<1>1. /\ calls \in Seq(CallRecords) /\ Len(calls) \in Nat /\ Len(calls) >= 1
      /\ c = calls[Len(calls)] /\ c \in CallRecords
      /\ c.key = JlcFile => DOMAIN cache["boot"] = {} /\ c.loader = "boot"
      /\ c.object = Null /\ c.key \in DOMAIN cache[c.loader]
  BY InnermostFacts DEF Cached
<1>2. Return(o, objects, cache) /\ files' = files /\ layout' = layout
  BY DEF Cached
<1>3. o \in Nat
  BY <1>1 DEF LoadInv, World, Typed, CallRecords
<1>4. World(objects, cache, Needs) /\ Stages(cache, calls, stage) /\ Classes(objects, cache, stage)
  BY DEF LoadInv
<1>. HIDE DEF o
<1>5. CASE Len(calls) = 1
  <2>1. stage /= "basic"
    BY <1>1, <1>4, <1>5 DEF Stages
  <2>. QED  BY <1>2, <1>3, <1>4, <1>5, <2>1, ReturnOutermost, KeptSame
<1>6. CASE Len(calls) > 1
  <2>1. c.loader = "boot"
    <3>1. Len(calls) - 1 \in 1 .. Len(calls) - 1 /\ (Len(calls) - 1) + 1 = Len(calls)
      BY <1>1, <1>6
    <3>2. Waits(calls[Len(calls) - 1], calls[(Len(calls) - 1) + 1], Needs)
      BY <3>1 DEF LoadInv, Stack
    <3>. QED  BY <3>1, <3>2, <1>1 DEF Waits
  <2>2. \A i \in 1 .. Len(calls) - 1 : CallOK(objects, cache, calls[i], Needs)
    BY <1>1 DEF LoadInv
  <2>3. c.key \in DOMAIN cache["boot"] /\ o = cache["boot"][c.key]
    BY <1>1, <2>1 DEF o
  <2>. QED  BY <1>2, <1>3, <1>4, <1>6, <2>2, <2>3, ReturnInner, KeptSame
<1>7. Len(calls) = 1 \/ Len(calls) > 1
  <2>1. Len(calls) \in Nat /\ Len(calls) >= 1
    BY InnermostFacts
  <2>2. \A m \in Nat : m >= 1 => m = 1 \/ m > 1
    OBVIOUS
  <2>. QED  BY <2>1, <2>2
<1>. QED  BY <1>5, <1>6, <1>7

-----------------------------------------------------------------------------
(* What LoadBasicClass does at its end: o, the class object of             *)
(* java/lang/Class, becomes the class of all objects in the boot cache.    *)
PatchedCache(ca, o) == [ca EXCEPT !["boot"] = Put(ca["boot"], JlcFile, o)]
Patched(objs, ca, o) ==
  LET known == Put(ca["boot"], JlcFile, o) IN
  [i \in DOMAIN objs |-> IF \E k \in DOMAIN known : known[k] = i
                         THEN [objs[i] EXCEPT !.class = o] ELSE objs[i]]

PatchedWell(objs, ca, objs3, ca3, o) ==
  /\ o \in 1 .. Len(objs)
  /\ ca3 = [l \in Loaders |-> ca3[l]] /\ ca3["base"] = ca["base"]
  /\ ca3["boot"] = Put(ca["boot"], JlcFile, o)
  /\ DOMAIN ca3["boot"] = DOMAIN ca["boot"] \cup {JlcFile}
  /\ ca3["boot"] \in [DOMAIN ca3["boot"] -> Nat] /\ ca3["boot"][JlcFile] = o
  /\ \A l \in Loaders : \A k \in DOMAIN ca[l] : k /= JlcFile => ca3[l][k] = ca[l][k]
  /\ objs3 \in Seq(ObjectRecords) /\ Len(objs3) = Len(objs)
  /\ \A i \in 1 .. Len(objs) :
       /\ objs3[i] = [objs[i] EXCEPT !.class = objs3[i].class]
       /\ objs3[i].name = objs[i].name /\ objs3[i].loaded = objs[i].loaded
       /\ objs3[i].super = objs[i].super /\ objs3[i].interfaces = objs[i].interfaces
       /\ objs3[i].class \in {objs[i].class, o}
  /\ \A k \in DOMAIN ca3["boot"] : /\ ca3["boot"][k] \in 1 .. Len(objs)
                                   /\ objs3[ca3["boot"][k]].class = o

LEMMA PatchFacts ==
  ASSUME NEW objs, NEW ca, NEW needs, World(objs, ca, needs),
         Jlc \in DOMAIN ca["boot"], NEW o, o = ca["boot"][Jlc]
  PROVE  PatchedWell(objs, ca, Patched(objs, ca, o), PatchedCache(ca, o), o)
<1>. DEFINE ca3 == PatchedCache(ca, o)
            objs3 == Patched(objs, ca, o)
            known == Put(ca["boot"], JlcFile, o)
<1>1. /\ objs \in Seq(ObjectRecords) /\ Len(objs) \in Nat /\ ca = [l \in Loaders |-> ca[l]]
      /\ ca["boot"] \in [DOMAIN ca["boot"] -> Nat] /\ "boot" \in Loaders /\ "base" \in Loaders
  BY DEF World, Typed, Loaders
<1>2. \A k \in DOMAIN ca["boot"] : k /= JlcFile => ca["boot"][k] \in 1 .. Len(objs)
  BY <1>1 DEF World, Known
<1>3. o \in 1 .. Len(objs)
  BY <1>2, NameFacts
<1>4. /\ DOMAIN known = DOMAIN ca["boot"] \cup {JlcFile}
      /\ known[JlcFile] = o
      /\ \A k \in DOMAIN ca["boot"] : k /= JlcFile => known[k] = ca["boot"][k]
      /\ known = [k \in DOMAIN known |-> known[k]]
  BY DEF Put
<1>. HIDE DEF known
<1>5. \A k \in DOMAIN known : known[k] \in 1 .. Len(objs)
  BY <1>2, <1>3, <1>4
<1>6. known \in [DOMAIN known -> Nat]
  BY <1>1, <1>4, <1>5
<1>7. ca3 = [ca EXCEPT !["boot"] = known]
  BY DEF PatchedCache, known
<1>8. /\ ca3 = [l \in Loaders |-> ca3[l]] /\ ca3["base"] = ca["base"] /\ ca3["boot"] = known
  BY <1>1, <1>7
<1>9. \A l \in Loaders : \A k \in DOMAIN ca[l] : k /= JlcFile => ca3[l][k] = ca[l][k]
  BY <1>4, <1>8 DEF Loaders
<1>10. objs3 = [i \in 1 .. Len(objs) |-> IF \E k \in DOMAIN known : known[k] = i
                         THEN [objs[i] EXCEPT !.class = o] ELSE objs[i]]
  BY <1>1 DEF Patched, known
<1>11. ASSUME NEW d \in ObjectRecords, NEW e, e = [d EXCEPT !.class = o] \/ e = d
       PROVE  /\ e \in ObjectRecords
              /\ e = [d EXCEPT !.class = e.class]
              /\ e.name = d.name /\ e.loaded = d.loaded /\ e.super = d.super
              /\ e.interfaces = d.interfaces /\ e.class \in {d.class, o}
  <2>1. o \in Nat
    BY <1>3
  <2>2. CASE e = [d EXCEPT !.class = o]
    BY <2>1, <2>2 DEF ObjectRecords
  <2>3. CASE e = d
    BY <2>3 DEF ObjectRecords
  <2>. QED  BY <1>11, <2>2, <2>3
<1>. HIDE DEF objs3, ca3
<1>12. ASSUME NEW i \in 1 .. Len(objs)
       PROVE  /\ objs3[i] \in ObjectRecords
              /\ objs3[i] = [objs[i] EXCEPT !.class = objs3[i].class]
              /\ objs3[i].name = objs[i].name /\ objs3[i].loaded = objs[i].loaded
              /\ objs3[i].super = objs[i].super /\ objs3[i].interfaces = objs[i].interfaces
              /\ objs3[i].class \in {objs[i].class, o}
  <2>1. objs[i] \in ObjectRecords /\ (objs3[i] = [objs[i] EXCEPT !.class = o] \/ objs3[i] = objs[i])
    BY <1>1, <1>10
  <2>. QED  BY <2>1, <1>11
<1>13. objs3 \in Seq(ObjectRecords) /\ Len(objs3) = Len(objs)
  <2>1. objs3 \in [1 .. Len(objs) -> ObjectRecords]
    BY <1>10, <1>12
  <2>. QED  BY <2>1, <1>1
<1>14. ASSUME NEW k \in DOMAIN known  PROVE  objs3[known[k]].class = o
  <2>. DEFINE i == known[k]
  <2>1. i \in 1 .. Len(objs) /\ objs[i] \in ObjectRecords
    BY <1>1, <1>5
  <2>2. objs3[i] = [objs[i] EXCEPT !.class = o]
    BY <1>10, <2>1
  <2>3. objs3[i].class = o
    BY <2>1, <2>2 DEF ObjectRecords
  <2>. QED  BY <2>3
<1>15. /\ DOMAIN ca3["boot"] = DOMAIN ca["boot"] \cup {JlcFile}
       /\ ca3["boot"] \in [DOMAIN ca3["boot"] -> Nat] /\ ca3["boot"][JlcFile] = o
       /\ \A k \in DOMAIN ca3["boot"] : ca3["boot"][k] \in 1 .. Len(objs) /\ objs3[ca3["boot"][k]].class = o
  BY <1>4, <1>5, <1>6, <1>8, <1>14
<1>16. ca3["boot"] = Put(ca["boot"], JlcFile, o)
  BY <1>8 DEF known
<1>17. PatchedWell(objs, ca, objs3, ca3, o)
  BY <1>3, <1>8, <1>9, <1>12, <1>13, <1>15, <1>16, Zenon DEF PatchedWell
<1>. QED  BY <1>17 DEF objs3, ca3

LEMMA PatchWorld ==
  ASSUME NEW objs, NEW ca, NEW needs, World(objs, ca, needs), NeedsOK(needs),
         Jlc \in DOMAIN ca["boot"], NEW o, o = ca["boot"][Jlc]
  PROVE  World(Patched(objs, ca, o), PatchedCache(ca, o), needs)
<1>. DEFINE ca3 == PatchedCache(ca, o)
            objs3 == Patched(objs, ca, o)
<1>0. PatchedWell(objs, ca, objs3, ca3, o)
  BY PatchFacts
<1>. HIDE DEF objs3, ca3
<1>1. /\ o \in 1 .. Len(objs)
      /\ ca3 = [l \in Loaders |-> ca3[l]] /\ ca3["base"] = ca["base"]
      /\ DOMAIN ca3["boot"] = DOMAIN ca["boot"] \cup {JlcFile}
      /\ ca3["boot"] \in [DOMAIN ca3["boot"] -> Nat]
      /\ ca3["boot"][JlcFile] = o
      /\ \A l \in Loaders : \A k \in DOMAIN ca[l] : k /= JlcFile => ca3[l][k] = ca[l][k]
      /\ objs3 \in Seq(ObjectRecords) /\ Len(objs3) = Len(objs)
  BY <1>0 DEF PatchedWell
<1>2. \A i \in 1 .. Len(objs) :
        /\ objs3[i].name = objs[i].name /\ objs3[i].loaded = objs[i].loaded
        /\ objs3[i].super = objs[i].super /\ objs3[i].interfaces = objs[i].interfaces
        /\ objs3[i].class \in {objs[i].class, o}
  BY <1>0 DEF PatchedWell
<1>3. \A i \in 1 .. Len(objs) : Supers(objs3[i]) = Supers(objs[i])
  BY <1>2 DEF Supers
<1>4. /\ \A l \in Loaders : \A k \in DOMAIN ca3[l] : k /= JlcFile =>
           k \in DOMAIN ca[l] /\ ca3[l][k] = ca[l][k] /\ ca[l][k] \in 1 .. Len(objs)
                              /\ objs[ca[l][k]].name = k
  BY <1>1 DEF World, Known, Loaders
<1>5. Typed(objs3, ca3)
  <2>1. ASSUME NEW l \in Loaders  PROVE  DOMAIN ca3[l] \subseteq Keys /\ ca3[l] \in [DOMAIN ca3[l] -> Nat]
    <3>1. CASE l = "boot"
      BY <3>1, <1>1, NameFacts DEF World, Typed
    <3>2. CASE l = "base"
      BY <3>2, <1>1 DEF World, Typed
    <3>. QED  BY <3>1, <3>2 DEF Loaders
  <2>. QED  BY <2>1, <1>1 DEF Typed
<1>6. Pointers(objs3)
  <2>1. ASSUME NEW i \in 1 .. Len(objs3)
        PROVE  /\ objs3[i].super \in 0 .. Len(objs3) /\ objs3[i].class \in 0 .. Len(objs3)
               /\ \A j \in 1 .. Len(objs3[i].interfaces) : objs3[i].interfaces[j] \in 1 .. Len(objs3)
    <3>1. /\ objs[i].super \in 0 .. Len(objs) /\ objs[i].class \in 0 .. Len(objs) /\ i \in 1 .. Len(objs)
          /\ \A j \in 1 .. Len(objs[i].interfaces) : objs[i].interfaces[j] \in 1 .. Len(objs)
      BY <1>1 DEF World, Pointers
    <3>2. objs3[i].class \in 0 .. Len(objs)
      BY <3>1, <1>1, <1>2
    <3>. QED  BY <3>1, <3>2, <1>1, <1>2
  <2>. QED  BY <2>1 DEF Pointers
<1>7. Known(objs3, ca3)
  BY <1>1, <1>2, <1>4 DEF Known
<1>8. JlcKnown(ca3)
  BY <1>1, NameFacts DEF World, JlcKnown, Loaders
<1>9. AllComplete(objs3, ca3, needs)
  <2>1. ASSUME NEW l \in Loaders, NEW k \in DOMAIN ca3[l], k \notin Primitives \cup {JlcFile}
        PROVE  Complete(objs3, ca3, objs3[ca3[l][k]], needs[k])
    <3>1. k \in DOMAIN ca[l] /\ ca3[l][k] = ca[l][k] /\ ca[l][k] \in 1 .. Len(objs)
      BY <2>1, <1>4
    <3>2. k \in Keys /\ needs[k] \in Seq(Names)
      BY <2>1, <3>1 DEF World, Typed, NeedsOK
    <3>. DEFINE p == ca[l][k]
                d == objs[p]
                e == objs3[p]
    <3>3. Complete(objs, ca, d, needs[k])
      BY <2>1, <3>1 DEF World, AllComplete
    <3>4. e.loaded = d.loaded /\ Supers(e) = Supers(d)
      BY <3>1, <1>2, <1>3
    <3>. HIDE DEF d, e, p
    <3>5. ASSUME NEW i \in 1 .. Len(needs[k])
          PROVE  /\ needs[k][i] \in DOMAIN ca3["boot"]
                 /\ Supers(e)[i] = ca3["boot"][needs[k][i]]
                 /\ objs3[Supers(e)[i]].loaded
      <4>. DEFINE x == needs[k][i]
      <4>1. x \in Names /\ x /= JlcFile
        BY <3>2, NameFacts
      <4>2. x \in DOMAIN ca["boot"] /\ Supers(d)[i] = ca["boot"][x] /\ objs[Supers(d)[i]].loaded
        BY <3>3 DEF Complete
      <4>. HIDE DEF x
      <4>3. x \in DOMAIN ca3["boot"] /\ ca3["boot"][x] = ca["boot"][x] /\ ca["boot"][x] \in 1 .. Len(objs)
        BY <4>1, <4>2, <1>1, <1>4 DEF Loaders
      <4>4. objs3[Supers(e)[i]].loaded
        BY <4>2, <4>3, <3>4, <1>2
      <4>. QED  BY <4>2, <4>3, <4>4, <3>4 DEF x
    <3>6. Complete(objs3, ca3, e, needs[k])
      BY <3>3, <3>4, <3>5 DEF Complete
    <3>. QED  BY <3>1, <3>6 DEF e, p
  <2>. QED  BY <2>1 DEF AllComplete
<1>10. World(objs3, ca3, needs)
  BY <1>5, <1>6, <1>7, <1>8, <1>9 DEF World
<1>. QED  BY <1>10 DEF objs3, ca3

-----------------------------------------------------------------------------
(* DefineClass in the terms of the lemmas about it *)
LEMMA DefineStep ==
  ASSUME LoadInv, calls /= << >>, DefineClass
  PROVE  /\ Defines(objects, cache, Innermost, Needs)
         /\ Return(Innermost.object, After1(objects, cache, Innermost), After2(cache, Innermost))
         /\ files' = files
         /\ \E x : layout' = Put(layout, Innermost.object, x)
<1>. DEFINE c == Innermost
            l == c.loader
            o == c.object
            n == ClassNamed(c.key)
            known == Put(cache[l], n, o)
<1>1. c \in CallRecords /\ CallOK(objects, cache, c, Needs) /\ World(objects, cache, Needs)
  BY InnermostFacts DEF LoadInv
<1>2. c.object /= Null /\ Len(c.got) = Len(Needed(c.key))
  BY DEF DefineClass
<1>3. NeedsOK(Needs) /\ Needs[c.key] = Needed(c.key)
  BY <1>1, NeedsHold DEF LoadInv, CallRecords
<1>4. Defines(objects, cache, c, Needs)
  BY <1>1, <1>2, <1>3 DEF Defines
<1>5. /\ objects[o].name = n /\ o \in 1 .. Len(objects) /\ n \notin DOMAIN cache[l] /\ l \in Loaders
      /\ o \in Nat /\ n \in Keys \ {JlcFile} /\ Typed(objects, cache)
  BY <1>1, <1>2, NameFacts DEF CallOK, Fresh, CallRecords, World
<1>6. JlcOf(known) = JlcOf(cache[l])
  BY <1>5, CacheDefined
<1>7. /\ Return(o, [objects EXCEPT ![o] = [Linked(objects[o], c.got) EXCEPT !.class = JlcOf(known)]],
                   [cache EXCEPT ![l] = Put(known, JlcFile, JlcOf(known))])
      /\ files' = files
      /\ layout' = Put(layout, o, LinkClass(c.key, Linked(objects[o], c.got).super))
  BY <1>5 DEF DefineClass, JlcOf
<1>8. After1(objects, cache, c) = [objects EXCEPT ![o] = [Linked(objects[o], c.got) EXCEPT !.class = JlcOf(known)]]
  BY <1>6 DEF After1, Finished
<1>9. After2(cache, c) = [cache EXCEPT ![l] = Put(known, JlcFile, JlcOf(known))]
  BY DEF After2, WithClass
<1>. QED  BY <1>4, <1>7, <1>8, <1>9

(* All calls but the first are for the boot loader, and all that wait have *)
(* an object.                                                              *)
LEMMA FirstCall ==
  ASSUME LoadInv, calls /= << >>, Innermost.object /= Null
  PROVE  /\ calls[1].object /= Null
         /\ stage = "basic" => Innermost.loader = "boot"
         /\ Len(calls) > 1 => Innermost.loader = "boot" /\ Innermost.key \in Names
         /\ Len(calls) = 1 \/ Len(calls) > 1
         /\ Len(calls) = 1 => Innermost = calls[1]
<1>1. Stack(calls, Needs) /\ Stages(cache, calls, stage)
  BY DEF LoadInv
<1>2. Len(calls) \in Nat /\ Len(calls) >= 1 /\ Innermost = calls[Len(calls)]
  BY InnermostFacts
<1>3. \A m \in Nat : m >= 1 => m = 1 \/ m > 1
  OBVIOUS
<1>4. Len(calls) = 1 \/ Len(calls) > 1
  BY <1>2, <1>3
<1>5. CASE Len(calls) = 1
  BY <1>1, <1>2, <1>5 DEF Stages
<1>6. CASE Len(calls) > 1
  <2>. DEFINE m == Len(calls) - 1
  <2>1. 1 \in 1 .. Len(calls) - 1 /\ m \in 1 .. Len(calls) - 1 /\ m + 1 = Len(calls)
        /\ Len(calls) \in 2 .. Len(calls)
    BY <1>2, <1>6
  <2>. HIDE DEF m
  <2>2. Waits(calls[1], calls[1 + 1], Needs) /\ Waits(calls[m], calls[m + 1], Needs)
    BY <1>1, <2>1 DEF Stack
  <2>3. calls[Len(calls)].key \in Names
    BY <1>1, <2>1 DEF Stack
  <2>. QED  BY <1>2, <1>6, <2>1, <2>2, <2>3 DEF Waits
<1>. QED  BY <1>4, <1>5, <1>6

LEMMA DefineStages ==
  ASSUME LoadInv, calls /= << >>, Defines(objects, cache, Innermost, Needs)
  PROVE  /\ Stages(After2(cache, Innermost), calls, stage)
         /\ Classes(After1(objects, cache, Innermost), After2(cache, Innermost), stage)
<1>. DEFINE c == Innermost
            l == c.loader
            o == c.object
            n == ClassNamed(c.key)
            objs2 == After1(objects, cache, c)
            ca2 == After2(cache, c)
<1>1. /\ calls[1].object /= Null
      /\ stage = "basic" => l = "boot"
  BY FirstCall DEF Defines
<1>2. /\ o \in 1 .. Len(objects) /\ n \in Keys \ ({JlcFile} \cup Primitives)
      /\ \A p \in 1 .. Len(objects) : p /= o => objs2[p] = objects[p]
      /\ objs2[o].class = JlcOf(cache[l])
  BY DefineFacts
<1>3. /\ l \in Loaders
      /\ DOMAIN ca2[l] = DOMAIN cache[l] \cup {n, JlcFile}
      /\ ca2[l][n] = o /\ ca2[l][JlcFile] = JlcOf(cache[l])
      /\ \A m \in Loaders : m /= l => ca2[m] = cache[m]
      /\ \A m \in Loaders : \A k \in DOMAIN cache[m] : k \in DOMAIN ca2[m] /\ ca2[m][k] = cache[m][k]
      /\ \A m \in Loaders : \A k \in DOMAIN cache[m] : cache[m][k] /= o
  BY CacheFacts
<1>. HIDE DEF objs2, ca2
<1>4. "boot" \in Loaders /\ "base" \in Loaders /\ Loaders = {"boot", "base"}
  BY DEF Loaders
<1>5. Stages(cache, calls, stage) /\ Classes(objects, cache, stage) /\ World(objects, cache, Needs)
  BY DEF LoadInv
<1>6. Stages(ca2, calls, stage)
  <2>1. stage \notin {"primitive", "end"}
    BY <1>5 DEF Stages
  <2>2. stage = "basic" => DOMAIN ca2["boot"] \cap Primitives = {} /\ DOMAIN ca2["base"] = {}
    BY <1>1, <1>2, <1>3, <1>4, <1>5, NameFacts DEF Stages
  <2>3. stage /= "basic" => JlcFile \in DOMAIN ca2["boot"] /\ ca2["boot"][JlcFile] /= Null
    BY <1>3, <1>4, <1>5 DEF Stages
  <2>. QED  BY <1>1, <1>5, <2>1, <2>2, <2>3 DEF Stages
<1>7. Classes(objs2, ca2, stage)
  <2>. SUFFICES ASSUME stage /= "basic"
       PROVE  /\ \A k \in DOMAIN ca2["boot"] : objs2[ca2["boot"][k]].class = ca2["boot"][JlcFile]
              /\ \A k \in DOMAIN ca2["base"] : k /= JlcFile => objs2[ca2["base"][k]].class = Null
    BY DEF Classes
  <2>1. /\ JlcFile \in DOMAIN cache["boot"] /\ cache["boot"][JlcFile] /= Null
        /\ ca2["boot"][JlcFile] = cache["boot"][JlcFile]
    BY <1>3, <1>4, <1>5 DEF Stages
  <2>2. ASSUME NEW m \in Loaders, NEW k \in DOMAIN cache[m], m = "boot" \/ k /= JlcFile
        PROVE  objs2[ca2[m][k]] = objects[cache[m][k]]
    <3>1. k \in Cacheds(m)
      BY <2>2, <2>1, <1>5, NameFacts DEF World, Known, Cacheds, Null
    <3>2. cache[m][k] \in 1 .. Len(objects)
      BY <3>1, <1>5, CachedKnown
    <3>. QED  BY <3>2, <1>2, <1>3
  <2>3. \A k \in DOMAIN cache["boot"] : objs2[ca2["boot"][k]].class = ca2["boot"][JlcFile]
    BY <2>1, <2>2, <1>4, <1>5 DEF Classes
  <2>4. \A k \in DOMAIN cache["base"] : k /= JlcFile => objs2[ca2["base"][k]].class = Null
    BY <2>2, <1>4, <1>5 DEF Classes
  <2>5. l = "boot" => objs2[ca2["boot"][n]].class = ca2["boot"][JlcFile]
    BY <1>2, <1>3
  <2>6. l = "base" => objs2[ca2["base"][n]].class = Null
    BY <1>2, <1>3, <1>5 DEF World, JlcKnown, JlcOf
  <2>7. CASE l = "boot"
    BY <2>7, <2>1, <2>3, <2>4, <2>5, <1>3, <1>4
  <2>8. CASE l = "base"
    BY <2>8, <2>1, <2>3, <2>4, <2>6, <1>3, <1>4
  <2>. QED  BY <2>7, <2>8, <1>3, <1>4
<1>. QED  BY <1>6, <1>7 DEF objs2, ca2

LEMMA DefineKept ==
  ASSUME World(objects, cache, Needs), NEW c, Defines(objects, cache, c, Needs),
         \A l \in Loaders : \A k \in Cacheds(l) : cache'[l][k] = cache[l][k],
         \A p \in 1 .. Len(objects) : p /= c.object =>
           objects'[p] = [objects[p] EXCEPT !.class = objects'[p].class],
         NEW x, layout' = Put(layout, c.object, x)
  PROVE  Kept
<1>1. ASSUME NEW l \in Loaders, NEW k \in Cacheds(l)
      PROVE  cache[l][k] \in 1 .. Len(objects) /\ cache[l][k] /= c.object
  <2>1. k \in DOMAIN cache[l] /\ cache[l][k] \in 1 .. Len(objects)
    BY CachedKnown
  <2>2. \A m \in Loaders : \A j \in DOMAIN cache[m] : cache[m][j] /= c.object
    BY CacheFacts
  <2>. QED  BY <2>1, <2>2
<1>2. ASSUME NEW p \in DOMAIN layout, p /= c.object
      PROVE  p \in DOMAIN layout' /\ layout'[p] = layout[p]
  BY <1>2 DEF Put
<1>. QED  BY <1>1, <1>2 DEF Kept

LEMMA DefineClassKeeps ==
  ASSUME LoadInv, calls /= << >>, status = "ok", DefineClass
  PROVE  LoadInv' /\ Kept
<1>. DEFINE c == Innermost
            o == c.object
            objs2 == After1(objects, cache, c)
            ca2 == After2(cache, c)
<1>1. Defines(objects, cache, c, Needs) /\ Return(o, objs2, ca2) /\ files' = files
  BY DefineStep
<1>2. PICK x : layout' = Put(layout, o, x)
  BY DefineStep
<1>3. /\ World(objects, cache, Needs) /\ World(objs2, ca2, Needs)
      /\ Stages(ca2, calls, stage) /\ Classes(objs2, ca2, stage)
  BY <1>1, DefineWorld, DefineStages DEF LoadInv
<1>4. /\ calls[1].object /= Null
      /\ stage = "basic" => c.loader = "boot"
      /\ Len(calls) > 1 => c.loader = "boot" /\ c.key \in Names
      /\ Len(calls) = 1 \/ Len(calls) > 1
      /\ Len(calls) = 1 => c = calls[1]
  BY <1>1, FirstCall DEF Defines
<1>5. /\ o \in 1 .. Len(objects) /\ o \in Nat /\ Len(objs2) = Len(objects)
      /\ objs2 \in Seq(ObjectRecords)
      /\ \A p \in 1 .. Len(objects) : p /= o => objs2[p] = objects[p]
  BY <1>1, DefineFacts
<1>6. /\ ca2[c.loader][ClassNamed(c.key)] = o /\ ClassNamed(c.key) \in DOMAIN ca2[c.loader]
      /\ \A m \in Loaders : \A k \in DOMAIN cache[m] : k \in DOMAIN ca2[m] /\ ca2[m][k] = cache[m][k]
  BY <1>1, CacheFacts
<1>. HIDE DEF objs2, ca2
<1>7. \A p \in 1 .. Len(objects) : objects[p] \in ObjectRecords
                                     /\ objects[p] = [objects[p] EXCEPT !.class = objects[p].class]
  <2>1. ASSUME NEW d \in ObjectRecords  PROVE  d = [d EXCEPT !.class = d.class]
    BY DEF ObjectRecords
  <2>. QED  BY <1>3, <2>1 DEF World, Typed
<1>8. ASSUME objects' = objs2, cache' = ca2  PROVE  Kept
  <2>1. \A l \in Loaders : \A k \in Cacheds(l) : cache'[l][k] = cache[l][k]
    BY <1>6, <1>8 DEF Cacheds
  <2>2. \A p \in 1 .. Len(objects) : p /= o => objects'[p] = [objects[p] EXCEPT !.class = objects'[p].class]
    BY <1>5, <1>7, <1>8
  <2>. HIDE DEF c
  <2>. QED  BY <1>1, <1>2, <1>3, <2>1, <2>2, DefineKept
<1>9. CASE Len(calls) > 1
  <2>1. c.key \in DOMAIN ca2["boot"] /\ o = ca2["boot"][c.key]
    BY <1>4, <1>6, <1>9, NameFacts
  <2>2. \A i \in 1 .. Len(calls) - 1 : CallOK(objs2, ca2, calls[i], Needs)
    <3>1. /\ Stack(calls, Needs) /\ c = calls[Len(calls)]
          /\ \A i \in 1 .. Len(calls) : CallOK(objects, cache, calls[i], Needs)
      BY DEF LoadInv, Innermost
    <3>. QED  BY <3>1, <1>1, DefineCalls DEF objs2, ca2
  <2>. QED  BY <1>1, <1>3, <1>5, <1>8, <1>9, <2>1, <2>2, ReturnInner
<1>10. CASE Len(calls) = 1 /\ stage /= "basic"
  BY <1>1, <1>3, <1>5, <1>8, <1>10, ReturnOutermost
<1>11. CASE Len(calls) = 1 /\ stage = "basic"
  <2>. DEFINE ca3 == PatchedCache(ca2, o)
              objs3 == Patched(objs2, ca2, o)
  <2>1. c.key = JlcFile /\ c.loader = "boot" /\ ClassNamed(c.key) = Jlc
    BY <1>3, <1>4, <1>11, NameFacts DEF Stages
  <2>2. Jlc \in DOMAIN ca2["boot"] /\ o = ca2["boot"][Jlc]
    BY <1>6, <2>1
  <2>3. PatchedWell(objs2, ca2, objs3, ca3, o) /\ World(objs3, ca3, Needs)
    <3>1. NeedsOK(Needs)
      BY <1>1 DEF Defines
    <3>. QED  BY <1>3, <2>2, <3>1, PatchFacts, PatchWorld
  <2>4. Outer = << >> /\ calls \in Seq(CallRecords)
    <3>1. calls \in Seq(CallRecords) /\ Len(calls) >= 1
      BY <1>11 DEF LoadInv, Stack
    <3>. QED  BY <3>1, <1>11, OuterEmpty
  <2>5. BasicDone(objs2, ca2["boot"], o)
    BY <1>1, <1>11, <2>4 DEF Return
  <2>. DEFINE known == Put(ca2["boot"], JlcFile, o)
  <2>6. ~ \E k \in DOMAIN known : known[k] = Null
    <3>1. known = ca3["boot"] /\ \A k \in DOMAIN ca3["boot"] : ca3["boot"][k] \in 1 .. Len(objs2)
      BY <2>3 DEF PatchedWell
    <3>. QED  BY <3>1, <1>5 DEF Null
  <2>7. cache' = [cache EXCEPT !["boot"] = known] /\ objects' = objs3 /\ calls' = << >>
        /\ stage' = "primitive" /\ status' = "ok"
    BY <2>5, <2>6 DEF BasicDone, Patched
  <2>8. cache' = ca3
    <3>1. ca2 = [l \in Loaders |-> ca2[l]] /\ cache = [l \in Loaders |-> cache[l]] /\ ca2["base"] = cache["base"]
      BY <1>1, <1>3, <2>1, CacheFacts DEF World, Typed, Loaders, ca2
    <3>2. ca3 = [ca2 EXCEPT !["boot"] = known]
      BY DEF PatchedCache
    <3>. QED  BY <3>1, <3>2, <2>7 DEF Loaders
  <2>. HIDE DEF ca3, objs3, known
  <2>9. /\ DOMAIN ca3["boot"] = DOMAIN ca2["boot"] \cup {JlcFile} /\ ca3["boot"][JlcFile] = o
        /\ ca3["base"] = ca2["base"] /\ o \in 1 .. Len(objs2)
        /\ \A k \in DOMAIN ca3["boot"] : objs3[ca3["boot"][k]].class = o
    BY <2>3 DEF PatchedWell
  <2>10. DOMAIN ca2["boot"] \cap Primitives = {} /\ DOMAIN ca2["base"] = {}
    BY <1>3, <1>11 DEF Stages
  <2>11. Stages(ca3, << >>, "primitive") /\ Classes(objs3, ca3, "primitive")
    <3>1. o /= Null /\ JlcFile \notin Primitives
      BY <2>9, <1>5, NameFacts DEF Null
    <3>. QED  BY <3>1, <2>9, <2>10 DEF Stages, StageNames, Classes
  <2>12. Len(calls') = 0 /\ calls' \in Seq(CallRecords)
    BY <2>7
  <2>13. Stack(calls', Needs) /\ \A i \in 1 .. Len(calls') : CallOK(objects', cache', calls'[i], Needs)
    BY <2>12 DEF Stack
  <2>14. Len(calls') <= MaxDepth /\ DiesOnlyWithReason'
    BY <2>7, <2>12, NamesAssumption DEF DiesOnlyWithReason
  <2>15. World(objects', cache', Needs) /\ Stages(cache', calls', stage') /\ Classes(objects', cache', stage')
    BY <2>3, <2>7, <2>8, <2>11
  <2>16. LoadInv'
    BY <1>1, <2>7, <2>13, <2>14, <2>15, Assembled DEF LoadInv
  <2>17. \A l \in Loaders : \A k \in Cacheds(l) : cache'[l][k] = cache[l][k]
    <3>1. ASSUME NEW l \in Loaders, NEW k \in Cacheds(l)  PROVE  cache'[l][k] = cache[l][k]
      <4>1. k \in DOMAIN cache[l] /\ cache[l][k] /= Null /\ k \in DOMAIN ca2[l] /\ ca2[l][k] = cache[l][k]
        BY <1>6 DEF Cacheds
      <4>2. CASE k /= JlcFile
        BY <4>1, <4>2, <2>3, <2>8 DEF PatchedWell
      <4>3. CASE k = JlcFile
        <5>1. l = "boot" /\ Jlc \in DOMAIN cache["boot"]
          BY <4>1, <4>3, <1>3 DEF World, JlcKnown, Loaders
        <5>2. Jlc \notin DOMAIN cache["boot"]
          BY <1>1, <2>1, CacheFacts
        <5>. QED  BY <5>1, <5>2
      <4>. QED  BY <4>2, <4>3
    <3>. QED  BY <3>1
  <2>18. \A p \in 1 .. Len(objects) : p /= o => objects'[p] = [objects[p] EXCEPT !.class = objects'[p].class]
    <3>1. \A p \in 1 .. Len(objs2) : objs3[p] = [objs2[p] EXCEPT !.class = objs3[p].class]
      BY <2>3 DEF PatchedWell
    <3>. QED  BY <3>1, <1>5, <2>7
  <2>19. Kept
    <3>. HIDE DEF c
    <3>. QED  BY <1>1, <1>2, <1>3, <2>17, <2>18, DefineKept
  <2>. QED  BY <2>16, <2>19
<1>. QED  BY <1>4, <1>9, <1>10, <1>11

-----------------------------------------------------------------------------
(* Steps outside LoadClass *)

LEMMA FirstCallOK ==
  ASSUME NEW l \in Loaders, NEW k \in Keys \ {JlcFile}, calls' = <<Call(l, k)>>
  PROVE  /\ calls' /= << >> /\ calls'[1].key = k /\ Len(calls') <= MaxDepth
         /\ Stack(calls', Needs)
         /\ \A i \in 1 .. Len(calls') : CallOK(objects', cache', calls'[i], Needs)
<1>. DEFINE c == Call(l, k)
<1>1. c \in CallRecords /\ c.key = k /\ c.object = Null /\ c.got = << >>
  BY DEF Call, CallRecords, Null
<1>. HIDE DEF c
<1>2. calls' \in Seq(CallRecords) /\ Len(calls') = 1 /\ calls'[1] = c /\ calls' /= << >>
  BY <1>1 DEF c
<1>3. Len(calls') <= MaxDepth
  <2>1. Cardinality(Names) \in Nat
    BY NamesAssumption, FS_CardinalityType
  <2>. QED  BY <2>1, <1>2, NamesAssumption
<1>4. Stack(calls', Needs)
  BY <1>1, <1>2 DEF Stack
<1>5. \A i \in 1 .. Len(calls') : CallOK(objects', cache', calls'[i], Needs)
  BY <1>1, <1>2 DEF CallOK
<1>. QED  BY <1>1, <1>2, <1>3, <1>4, <1>5

(* A class is asked for: by CreateArgs or by the program. *)
LEMMA AskKeeps ==
  ASSUME LoadInv, status = "ok", stage \in {"string", "args", "run"},
         NEW k \in Keys \ {JlcFile}, calls' = <<Call("boot", k)>>,
         UNCHANGED <<files, objects, layout, cache, stage, status>>
  PROVE  LoadInv' /\ Kept
<1>1. /\ calls' /= << >> /\ calls'[1].key = k /\ Len(calls') <= MaxDepth
      /\ Stack(calls', Needs)
      /\ \A i \in 1 .. Len(calls') : CallOK(objects', cache', calls'[i], Needs)
  BY FirstCallOK DEF Loaders
<1>2. Stages(cache', calls', stage')
  BY <1>1 DEF LoadInv, Stages
<1>3. World(objects', cache', Needs) /\ Classes(objects', cache', stage') /\ status' = "ok"
  BY DEF LoadInv
<1>4. DiesOnlyWithReason'
  BY <1>3 DEF DiesOnlyWithReason
<1>5. LoadInv'
  BY <1>1, <1>2, <1>3, <1>4, Assembled DEF LoadInv
<1>. QED  BY <1>5, KeptSame DEF LoadInv

LEMMA CreateArgsKeeps ==
  ASSUME LoadInv, status = "ok", CreateArgs
  PROVE  LoadInv' /\ Kept
<1>. DEFINE k == IF stage = "string" THEN StringClass ELSE StringArray
<1>1. k \in Keys \ {JlcFile}
  BY NameFacts, NamesAssumption
<1>2. /\ stage \in {"string", "args", "run"} /\ calls' = <<Call("boot", k)>>
      /\ UNCHANGED <<files, objects, layout, cache, stage, status>>
  BY DEF CreateArgs
<1>. HIDE DEF k
<1>. QED  BY <1>1, <1>2, AskKeeps

LEMMA ResolveClassKeeps ==
  ASSUME LoadInv, status = "ok", NEW k \in Keys \ {JlcFile}, ResolveClass(k)
  PROVE  LoadInv' /\ Kept
<1>1. /\ stage \in {"string", "args", "run"} /\ calls' = <<Call("boot", k)>>
      /\ UNCHANGED <<files, objects, layout, cache, stage, status>>
  BY DEF ResolveClass
<1>. QED  BY <1>1, AskKeeps

(* The classes of the primitive types *)
PrimitiveObjects(jlc) ==
  [i \in DOMAIN PrimitiveTypes |-> [NewObject(PrimitiveTypes[i]) EXCEPT !.class = jlc]]
PrimitiveAt(k) == CHOOSE i \in DOMAIN PrimitiveTypes : PrimitiveTypes[i] = k

LEMMA PrimitivesFacts ==
  ASSUME NEW jlc \in Nat
  PROVE  /\ PrimitiveObjects(jlc) \in Seq(ObjectRecords)
         /\ \A i \in 1 .. Len(PrimitiveObjects(jlc)) :
              /\ PrimitiveObjects(jlc)[i].class = jlc /\ PrimitiveObjects(jlc)[i].super = 0
              /\ Len(PrimitiveObjects(jlc)[i].interfaces) = 0
         /\ \A k \in Primitives : /\ PrimitiveAt(k) \in 1 .. Len(PrimitiveObjects(jlc))
                                 /\ PrimitiveObjects(jlc)[PrimitiveAt(k)].name = k
<1>. DEFINE obj(k) == [NewObject(k) EXCEPT !.class = jlc]
            prims == PrimitiveObjects(jlc)
            at(k) == PrimitiveAt(k)
<1>0. prims = [i \in DOMAIN PrimitiveTypes |-> obj(PrimitiveTypes[i])]
  BY DEF PrimitiveObjects
<1>1. PrimitiveTypes \in Seq(Primitives) /\ Len(PrimitiveTypes) \in Nat
      /\ DOMAIN PrimitiveTypes = 1 .. Len(PrimitiveTypes)
  BY NamesAssumption
<1>2. ASSUME NEW k \in Keys
      PROVE  obj(k) \in ObjectRecords /\ obj(k).name = k /\ obj(k).class = jlc /\ obj(k).super = 0
             /\ Len(obj(k).interfaces) = 0
  <2>. DEFINE e == NewObject(k)
  <2>1. e \in ObjectRecords /\ e.name = k /\ e.super = 0 /\ Len(e.interfaces) = 0
    BY DEF NewObject, ObjectRecords, Null
  <2>. HIDE DEF e
  <2>2. [e EXCEPT !.class = jlc] \in ObjectRecords
    BY <2>1 DEF ObjectRecords
  <2>. QED  BY <2>1, <2>2 DEF e, ObjectRecords
<1>. HIDE DEF obj, prims
<1>3. \A i \in 1 .. Len(PrimitiveTypes) : PrimitiveTypes[i] \in Keys /\ prims[i] = obj(PrimitiveTypes[i])
  BY <1>0, <1>1, NameFacts
<1>4. prims \in [1 .. Len(PrimitiveTypes) -> ObjectRecords]
  BY <1>0, <1>1, <1>2, <1>3
<1>5. prims \in Seq(ObjectRecords) /\ Len(prims) = Len(PrimitiveTypes)
  BY <1>1, <1>4
<1>6. ASSUME NEW k \in Primitives  PROVE  at(k) \in 1 .. Len(prims) /\ PrimitiveTypes[at(k)] = k
  <2>1. \E i \in DOMAIN PrimitiveTypes : PrimitiveTypes[i] = k
    BY DEF Primitives
  <2>. QED  BY <2>1, <1>1, <1>5 DEF PrimitiveAt
<1>. HIDE DEF at
<1>7. \A k \in Primitives : prims[at(k)].name = k
  BY <1>2, <1>3, <1>5, <1>6
<1>8. \A i \in 1 .. Len(prims) :
        prims[i].class = jlc /\ prims[i].super = 0 /\ Len(prims[i].interfaces) = 0
  BY <1>2, <1>3, <1>5
<1>. QED  BY <1>5, <1>6, <1>7, <1>8 DEF prims, at

LEMMA LoadPrimitiveClassesKeeps ==
  ASSUME LoadInv, calls = << >>, status = "ok", LoadPrimitiveClasses
  PROVE  LoadInv' /\ Kept
<1>. DEFINE jlc == cache["boot"][JlcFile]
            prims == PrimitiveObjects(jlc)
            at(k) == PrimitiveAt(k)
            boot == [k \in DOMAIN cache["boot"] \cup Primitives |->
                       IF k \in Primitives THEN Len(objects) + at(k) ELSE cache["boot"][k]]
            N == Len(objects)
<1>1. stage = "primitive" /\ World(objects, cache, Needs) /\ Stages(cache, calls, stage)
      /\ Classes(objects, cache, stage)
  BY DEF LoadInv, LoadPrimitiveClasses
<1>2. /\ JlcFile \in DOMAIN cache["boot"] /\ JlcFile \in Cacheds("boot")
      /\ DOMAIN cache["boot"] \cap Primitives = {} /\ DOMAIN cache["base"] = {}
  BY <1>1 DEF Stages, Cacheds
<1>3. jlc \in 1 .. N /\ jlc \in Nat /\ objects \in Seq(ObjectRecords) /\ N \in Nat
      /\ cache = [l \in Loaders |-> cache[l]]
      /\ cache["boot"] \in [DOMAIN cache["boot"] -> Nat] /\ DOMAIN cache["boot"] \subseteq Keys
      /\ cache["base"] \in [DOMAIN cache["base"] -> Nat]
      /\ Loaders = {"boot", "base"}
  BY <1>1, <1>2, CachedKnown DEF World, Typed, Loaders
<1>4. CASE Die("nomem")
  BY <1>4, DieKeeps
<1>5. CASE /\ objects' = objects \o prims
           /\ cache' = [cache EXCEPT !["boot"] = boot]
           /\ stage' = "main" /\ calls' = <<Call("base", MainClass)>>
           /\ UNCHANGED <<files, layout, status>>
  <2>1. /\ prims \in Seq(ObjectRecords) /\ Len(prims) \in Nat
        /\ \A i \in 1 .. Len(prims) :
             prims[i].class = jlc /\ prims[i].super = 0 /\ Len(prims[i].interfaces) = 0
        /\ \A k \in Primitives : at(k) \in 1 .. Len(prims) /\ prims[at(k)].name = k
    BY <1>3, PrimitivesFacts
  <2>2. /\ DOMAIN boot = DOMAIN cache["boot"] \cup Primitives
        /\ \A k \in Primitives : boot[k] = N + at(k)
        /\ \A k \in DOMAIN cache["boot"] : boot[k] = cache["boot"][k]
        /\ boot = [k \in DOMAIN boot |-> boot[k]]
    BY <1>2
  <2>3. objects' = objects \o prims /\ cache' = [cache EXCEPT !["boot"] = boot]
    BY <1>5
  <2>. HIDE DEF prims, at, boot
  <2>4. boot \in [DOMAIN boot -> Nat]
    BY <1>3, <2>1, <2>2
  <2>5. /\ cache'["boot"] = boot /\ cache'["base"] = cache["base"] /\ cache' = [l \in Loaders |-> cache'[l]]
    BY <1>3, <2>3
  <2>6. /\ objects' \in Seq(ObjectRecords) /\ Len(objects') = N + Len(prims)
        /\ \A p \in 1 .. N : objects'[p] = objects[p]
    BY <1>3, <2>1, <2>3
  <2>7. ASSUME NEW i \in 1 .. Len(prims)
        PROVE  objects'[N + i] = prims[i] /\ N + i \in 1 .. Len(objects')
    BY <1>3, <2>1, <2>3, <2>6
  <2>8. ASSUME NEW p \in 1 .. Len(objects')
        PROVE  p \in 1 .. N \/ \E i \in 1 .. Len(prims) : p = N + i
    <3>1. CASE p <= N
      BY <3>1, <1>3
    <3>2. CASE ~(p <= N)
      <4>1. p - N \in 1 .. Len(prims) /\ p = N + (p - N)
        BY <3>2, <1>3, <2>1, <2>6
      <4>. QED  BY <4>1
    <3>. QED  BY <3>1, <3>2
  <2>9. Typed(objects', cache')
    <3>1. DOMAIN boot \subseteq Keys
      BY <1>3, <2>2, NameFacts
    <3>2. DOMAIN cache["base"] \subseteq Keys
      BY <1>2
    <3>. QED  BY <3>1, <3>2, <1>3, <2>4, <2>5, <2>6 DEF Typed
  <2>10. Pointers(objects')
    <3>1. ASSUME NEW p \in 1 .. Len(objects')
          PROVE  /\ objects'[p].super \in 0 .. Len(objects') /\ objects'[p].class \in 0 .. Len(objects')
                 /\ \A i \in 1 .. Len(objects'[p].interfaces) : objects'[p].interfaces[i] \in 1 .. Len(objects')
      <4>1. CASE p \in 1 .. N
        <5>1. /\ objects[p].super \in 0 .. N /\ objects[p].class \in 0 .. N
              /\ \A i \in 1 .. Len(objects[p].interfaces) : objects[p].interfaces[i] \in 1 .. N
          BY <4>1, <1>1 DEF World, Pointers
        <5>. QED  BY <4>1, <5>1, <1>3, <2>1, <2>6, SMTT(30)
      <4>2. ASSUME NEW i \in 1 .. Len(prims), p = N + i
            PROVE  objects'[p].super = 0 /\ objects'[p].class = jlc /\ Len(objects'[p].interfaces) = 0
        BY <4>2, <2>1, <2>7
      <4>3. CASE p \notin 1 .. N
        BY <4>2, <4>3, <2>8, <1>3, <2>1, <2>6
      <4>. QED  BY <4>1, <4>3
    <3>. QED  BY <3>1 DEF Pointers
  <2>11. \A k \in DOMAIN cache["boot"] : k /= JlcFile => cache["boot"][k] \in 1 .. N /\ objects[cache["boot"][k]].name = k
    BY <1>1, <1>3 DEF World, Known
  <2>12. Known(objects', cache')
    <3>1. ASSUME NEW k \in DOMAIN boot, k /= JlcFile
          PROVE  boot[k] \in 1 .. Len(objects') /\ objects'[boot[k]].name = k
      <4>1. CASE k \in Primitives
        BY <4>1, <2>1, <2>2, <2>7
      <4>2. CASE k \notin Primitives
        <5>1. k \in DOMAIN cache["boot"] /\ boot[k] = cache["boot"][k]
          BY <4>2, <2>2
        <5>2. boot[k] \in 1 .. N /\ objects[boot[k]].name = k
          BY <3>1, <5>1, <2>11
        <5>3. boot[k] \in 1 .. Len(objects')
          BY <5>2, <1>3, <2>1, <2>6
        <5>. QED  BY <5>2, <5>3, <2>6
      <4>. QED  BY <4>1, <4>2
    <3>. QED  BY <3>1, <1>2, <1>3, <2>5 DEF Known
  <2>13. JlcKnown(cache')
    BY <1>1, <1>2, <2>2, <2>5, NameFacts DEF World, JlcKnown
  <2>14. AllComplete(objects', cache', Needs)
    <3>1. ASSUME NEW k \in DOMAIN boot, k \notin Primitives \cup {JlcFile}
          PROVE  Complete(objects', cache', objects'[boot[k]], Needs[k])
      <4>1. k \in DOMAIN cache["boot"] /\ boot[k] = cache["boot"][k] /\ boot[k] \in 1 .. N
        BY <3>1, <2>2, <2>11
      <4>2. Needs[k] \in Seq(Names)
        BY <3>1, <4>1, <1>3, NeedsHold DEF LoadInv, NeedsOK
      <4>. DEFINE d == objects[boot[k]]
      <4>3. Complete(objects, cache, d, Needs[k]) /\ objects'[boot[k]] = d
        BY <3>1, <4>1, <1>1, <1>3, <2>6 DEF World, AllComplete
      <4>. HIDE DEF d
      <4>4. ASSUME NEW i \in 1 .. Len(Needs[k])
            PROVE  /\ Needs[k][i] \in DOMAIN cache'["boot"]
                   /\ Supers(d)[i] = cache'["boot"][Needs[k][i]]
                   /\ objects'[Supers(d)[i]].loaded
        <5>. DEFINE x == Needs[k][i]
        <5>1. x \in Names /\ x /= JlcFile
          BY <4>2, NameFacts
        <5>2. x \in DOMAIN cache["boot"] /\ Supers(d)[i] = cache["boot"][x] /\ objects[Supers(d)[i]].loaded
          BY <4>3 DEF Complete
        <5>. HIDE DEF x
        <5>3. x \in DOMAIN boot /\ boot[x] = cache["boot"][x] /\ cache["boot"][x] \in 1 .. N
          BY <5>1, <5>2, <2>2, <2>11
        <5>4. objects'[Supers(d)[i]].loaded
          BY <5>2, <5>3, <2>6
        <5>. QED  BY <5>2, <5>3, <5>4, <2>5 DEF x
      <4>. QED  BY <4>3, <4>4 DEF Complete
    <3>. QED  BY <3>1, <1>2, <1>3, <2>5 DEF AllComplete
  <2>15. World(objects', cache', Needs)
    BY <2>9, <2>10, <2>12, <2>13, <2>14 DEF World
  <2>16. \A k \in DOMAIN cache["boot"] : cache["boot"][k] \in 1 .. N
    <3>1. ASSUME NEW k \in DOMAIN cache["boot"]  PROVE  k \in Cacheds("boot")
      BY <1>2, <1>3, <2>11 DEF Cacheds, Null
    <3>. QED  BY <3>1, <1>1, <1>3, CachedKnown
  <2>17. Classes(objects', cache', stage')
    <3>1. boot[JlcFile] = jlc
      BY <1>2, <2>2
    <3>2. ASSUME NEW k \in DOMAIN boot  PROVE  objects'[boot[k]].class = jlc
      <4>1. CASE k \in Primitives
        BY <4>1, <2>1, <2>2, <2>7
      <4>2. CASE k \notin Primitives
        <5>1. k \in DOMAIN cache["boot"] /\ objects[cache["boot"][k]].class = jlc
          BY <4>2, <2>2, <1>1 DEF Classes
        <5>. QED  BY <5>1, <2>2, <2>6, <2>16
      <4>. QED  BY <4>1, <4>2
    <3>. QED  BY <3>1, <3>2, <1>2, <2>5 DEF Classes
  <2>18. /\ calls' /= << >> /\ calls'[1].key = MainClass /\ Len(calls') <= MaxDepth
         /\ Stack(calls', Needs)
         /\ \A i \in 1 .. Len(calls') : CallOK(objects', cache', calls'[i], Needs)
    BY <1>3, <1>5, FirstCallOK, NameFacts
  <2>19. Stages(cache', calls', stage')
    BY <1>1, <1>2, <1>5, <2>2, <2>5, <2>18, NameFacts DEF Stages, StageNames
  <2>20. DiesOnlyWithReason' /\ status' = "ok"
    BY <1>5 DEF DiesOnlyWithReason
  <2>21. LoadInv'
    BY <1>5, <2>15, <2>17, <2>18, <2>19, <2>20, Assembled DEF LoadInv
  <2>22. Kept
    <3>1. ASSUME NEW d \in ObjectRecords  PROVE  d = [d EXCEPT !.class = d.class]
      BY DEF ObjectRecords
    <3>2. ASSUME NEW l \in Loaders, NEW k \in Cacheds(l)
          PROVE  /\ cache'[l][k] = cache[l][k]
                 /\ objects'[cache[l][k]] = objects[cache[l][k]]
                 /\ objects[cache[l][k]] \in ObjectRecords
      <4>1. l = "boot" /\ k \in DOMAIN cache["boot"]
        BY <1>2, <1>3 DEF Cacheds
      <4>. QED  BY <4>1, <2>2, <2>5, <2>6, <2>16, <1>3
    <3>. QED  BY <3>1, <3>2, <1>5 DEF Kept
  <2>. QED  BY <2>21, <2>22
<1>. QED  BY <1>4, <1>5 DEF LoadPrimitiveClasses, PrimitiveObjects, PrimitiveAt

-----------------------------------------------------------------------------
(* The invariant is inductive, and no step takes back an answer. *)
LEMMA LoadInvNext ==
  ASSUME LoadInv, [Next]_vars
  PROVE  LoadInv' /\ Kept
<1>1. CASE InLoadClass /\ Cached
  BY <1>1, CachedKeeps DEF InLoadClass
<1>2. CASE InLoadClass /\ StartLoad
  BY <1>2, StartLoadKeeps DEF InLoadClass
<1>3. CASE InLoadClass /\ Resolve
  BY <1>3, ResolveKeeps DEF InLoadClass
<1>4. CASE InLoadClass /\ DefineClass
  BY <1>4, DefineClassKeeps DEF InLoadClass
<1>5. CASE Returned /\ LoadPrimitiveClasses
  BY <1>5, LoadPrimitiveClassesKeeps DEF Returned
<1>6. CASE Returned /\ CreateArgs
  BY <1>6, CreateArgsKeeps DEF Returned
<1>7. ASSUME Returned, NEW k \in Keys \ {JlcFile}, ResolveClass(k)
      PROVE  LoadInv' /\ Kept
  BY <1>7, ResolveClassKeeps DEF Returned
<1>8. CASE UNCHANGED vars
  <2>1. /\ files' = files /\ objects' = objects /\ layout' = layout /\ cache' = cache
        /\ calls' = calls /\ stage' = stage /\ status' = status
    BY <1>8 DEF vars
  <2>2. DiesOnlyWithReason'
    BY <2>1 DEF LoadInv, DiesOnlyWithReason, Innermost, ReadClass, ClassNamed
  <2>3. LoadInv'
    BY <2>1, <2>2, Assembled DEF LoadInv
  <2>. QED  BY <2>1, <2>3, KeptSame DEF LoadInv
<1>. QED  BY <1>1, <1>2, <1>3, <1>4, <1>5, <1>6, <1>7, <1>8 DEF Next

LEMMA LoadInvAlways == Spec => []LoadInv
<1>1. LoadInv /\ [Next]_vars => LoadInv'
  BY LoadInvNext
<1>. QED  BY LoadInvInit, <1>1, PTL DEF Spec

(* Cache entries and the pointers between class objects are class objects  *)
(* or null, whatever the class files say (class_loader.cpp:54-99).         *)
THEOREM TypeCorrect == Spec => []TypeOK
<1>1. LoadInv => TypeOK
  <2>. SUFFICES ASSUME LoadInv PROVE TypeOK
    OBVIOUS
  <2>1. World(objects, cache, Needs) /\ objects \in Seq(ObjectRecords) /\ DOMAIN objects = 1 .. Len(objects)
    BY DEF LoadInv, World, Typed
  <2>2. ASSUME NEW o \in DOMAIN objects
        PROVE  LET c == objects[o] IN
               /\ c.name \in Keys /\ c.loaded \in BOOLEAN
               /\ {c.super, c.class} \subseteq {Null} \cup DOMAIN objects
               /\ \A i \in DOMAIN c.interfaces : c.interfaces[i] \in DOMAIN objects
    <3>. DEFINE c == objects[o]
    <3>1. /\ c \in ObjectRecords /\ c.super \in 0 .. Len(objects) /\ c.class \in 0 .. Len(objects)
          /\ \A i \in 1 .. Len(c.interfaces) : c.interfaces[i] \in 1 .. Len(objects)
      BY <2>1 DEF World, Pointers
    <3>. HIDE DEF c
    <3>2. c.name \in Keys /\ c.loaded \in BOOLEAN /\ c.interfaces \in Seq(Nat)
      BY <3>1 DEF ObjectRecords
    <3>3. c.super \in {Null} \cup DOMAIN objects /\ c.class \in {Null} \cup DOMAIN objects
      BY <3>1, <2>1 DEF Null
    <3>4. \A i \in DOMAIN c.interfaces : c.interfaces[i] \in DOMAIN objects
      BY <3>1, <3>2, <2>1
    <3>. QED  BY <3>2, <3>3, <3>4 DEF c
  <2>3. ASSUME NEW l \in Loaders
        PROVE  /\ DOMAIN cache[l] \subseteq Keys
               /\ DOMAIN cache[l] \ {JlcFile} \subseteq Cacheds(l)
               /\ \A k \in Cacheds(l) : cache[l][k] \in DOMAIN objects
    <3>1. DOMAIN cache[l] \subseteq Keys
      BY <2>1 DEF World, Typed
    <3>2. ASSUME NEW k \in DOMAIN cache[l] \ {JlcFile}  PROVE  k \in Cacheds(l)
      <4>1. cache[l][k] \in 1 .. Len(objects)
        BY <2>1 DEF World, Known
      <4>. QED  BY <4>1, <2>1 DEF Cacheds, Null
    <3>. QED  BY <3>1, <3>2, <2>1, CachedKnown
  <2>4. Len(calls) <= MaxDepth /\ stage \in StageNames /\ status \in {"ok", "fatal", "segv", "nomem"}
    BY DEF LoadInv, Stages
  <2>5. stage \in {"basic", "primitive", "end"} \cup DOMAIN After
    BY <2>4, AfterFacts DEF StageNames
  <2>. QED  BY <2>2, <2>3, <2>4, <2>5 DEF TypeOK
<1>. QED  BY <1>1, LoadInvAlways, PTL

(* A class in the cache of either loader is complete, and its superclass   *)
(* and interfaces are the objects the boot loader answers for their names: *)
(* DefineClass comes after StartLoad, even with circles among the classes. *)
THEOREM SupersReadyAlways == Spec => []SupersReady
<1>1. LoadInv => SupersReady
  <2>. SUFFICES ASSUME LoadInv PROVE SupersReady
    OBVIOUS
  <2>1. World(objects, cache, Needs)
    BY DEF LoadInv
  <2>2. ASSUME NEW l \in Loaders, NEW k \in Cacheds(l) \ Primitives
        PROVE  LET c == objects[cache[l][k]]
                   supers == (IF c.super = Null THEN << >> ELSE <<c.super>>) \o c.interfaces
                   needed == Needed(c.name)
               IN /\ c.loaded
                  /\ Len(supers) = Len(needed)
                  /\ \A i \in DOMAIN needed : /\ needed[i] \in Cacheds("boot")
                                              /\ supers[i] = cache["boot"][needed[i]]
                                              /\ objects[supers[i]].loaded
    <3>1. PICK m \in Loaders, n \in Keys :
            n \in DOMAIN cache[m] /\ n \notin Primitives \cup {JlcFile} /\ cache[m][n] = cache[l][k]
      <4>1. CASE k /= JlcFile
        BY <4>1, <2>1 DEF Cacheds, World, Typed
      <4>2. CASE k = JlcFile
        BY <4>2, <2>1, NameFacts DEF Cacheds, World, JlcKnown, Loaders
      <4>. QED  BY <4>1, <4>2
    <3>. DEFINE c == objects[cache[l][k]]
                needed == Needed(c.name)
    <3>2. c.name = n /\ n \in Keys
      BY <3>1, <2>1 DEF World, Known, Typed
    <3>3. Needs[n] = needed /\ Needs[n] \in Seq(Names)
      BY <3>1, <3>2, NeedsHold DEF LoadInv, NeedsOK
    <3>4. Complete(objects, cache, c, needed)
      BY <3>1, <3>3, <2>1 DEF World, AllComplete
    <3>. HIDE DEF c, needed
    <3>5. ASSUME NEW i \in DOMAIN needed
          PROVE  /\ needed[i] \in Cacheds("boot")
                 /\ Supers(c)[i] = cache["boot"][needed[i]] /\ objects[Supers(c)[i]].loaded
      <4>1. i \in 1 .. Len(needed) /\ needed[i] \in Names /\ needed[i] /= JlcFile
        BY <3>3, NameFacts
      <4>2. /\ needed[i] \in DOMAIN cache["boot"] /\ Supers(c)[i] = cache["boot"][needed[i]]
            /\ objects[Supers(c)[i]].loaded
        BY <4>1, <3>4 DEF Complete
      <4>3. cache["boot"][needed[i]] \in 1 .. Len(objects)
        BY <4>1, <4>2, <2>1 DEF World, Known, Loaders
      <4>4. cache["boot"][needed[i]] /= Null
        BY <4>3, <2>1 DEF World, Typed, Null
      <4>. QED  BY <4>2, <4>4 DEF Cacheds
    <3>6. c.loaded /\ Len(Supers(c)) = Len(needed)
      BY <3>4 DEF Complete
    <3>. QED  BY <3>5, <3>6 DEF c, needed, Supers
  <2>. QED  BY <2>2 DEF SupersReady
<1>. QED  BY <1>1, LoadInvAlways, PTL

(* From LoadBasicClass on java/lang/Class is the class of every class of   *)
(* the boot loader, and the classes of the base loader have none           *)
(* (class_loader.cpp:28-34 and :65-67).                                    *)
THEOREM ClassOfClassesAlways == Spec => []ClassOfClasses
<1>1. LoadInv => ClassOfClasses
  <2>. SUFFICES ASSUME LoadInv, stage \in {"primitive"} \cup DOMAIN After
       PROVE  /\ JlcFile \in Cacheds("boot")
              /\ \A k \in Cacheds("boot") : objects[cache["boot"][k]].class = cache["boot"][Jlc]
              /\ \A k \in Cacheds("base") : objects[cache["base"][k]].class = Null
    BY DEF ClassOfClasses
  <2>1. stage /= "basic"
    BY AfterFacts
  <2>2. JlcFile \in DOMAIN cache["boot"] /\ cache["boot"][JlcFile] /= Null
    BY <2>1 DEF LoadInv, Stages
  <2>3. cache["boot"][JlcFile] = cache["boot"][Jlc] /\ (JlcFile \in DOMAIN cache["base"] => cache["base"][JlcFile] = Null)
    BY <2>2 DEF LoadInv, World, JlcKnown
  <2>4. Classes(objects, cache, stage)
    BY DEF LoadInv
  <2>. QED  BY <2>1, <2>2, <2>3, <2>4 DEF Cacheds, Classes
<1>. QED  BY <1>1, LoadInvAlways, PTL

(* LoadClass dies only for a class file its reader does not deliver or in  *)
(* a circle of superclasses: with more calls than there are names two of   *)
(* them are for the same class (class_loader.cpp:84-116, class.cpp:44-70). *)
THEOREM DiesOnlyWithReasonAlways == Spec => []DiesOnlyWithReason
<1>1. LoadInv => DiesOnlyWithReason
  BY DEF LoadInv
<1>. QED  BY <1>1, LoadInvAlways, PTL

(* A loader answers a name with one class object for ever, whose           *)
(* superclass, interfaces and layout stay as they are (loaded_classes_,    *)
(* class_loader.cpp:56-58 and :97).                                        *)
THEOREM AnswersStayAlways == Spec => AnswersStay
<1>1. LoadInv /\ [Next]_vars => [Kept]_vars
  BY LoadInvNext
<1>. QED  BY <1>1, LoadInvAlways, PTL DEF Spec, AnswersStay, Kept

-----------------------------------------------------------------------------
(* The layout of fields *)

(* The recursion of FieldSlots *)
SlotSteps(slot, widths, start) ==
  /\ slot \in [1 .. Len(widths) + 1 -> Nat]
  /\ slot[1] = start
  /\ \A i \in 1 .. Len(widths) : slot[i + 1] = slot[i] + widths[i]

LEMMA FieldSlotsSteps ==
  ASSUME NEW widths \in Seq({1, 2}), NEW start \in Nat
  PROVE  SlotSteps(FieldSlots(widths, start), widths, start)
<1>. DEFINE n == Len(widths)
            G == [i \in 1 .. n |-> [v \in Nat |-> v + widths[i]]]
            Step(g) == [i \in 1 .. n + 1 |-> IF i = 1 THEN start ELSE g[i - 1] + widths[i - 1]]
<1>0. n \in Nat /\ \A i \in 1 .. n : widths[i] \in {1, 2}
  OBVIOUS
<1>1. G \in [1 .. n -> [Nat -> Nat]]
  BY <1>0
<1>2. PICK f : Iterates(f, n, Nat, start, G)
  <2>. HIDE DEF G, n
  <2>. QED  BY <1>0, <1>1, RecursionExists, Zenon
<1>3. f \in [0 .. n -> Nat] /\ f[0] = start /\ \A i \in 1 .. n : f[i] = f[i - 1] + widths[i]
  <2>1. f \in [0 .. n -> Nat] /\ f[0] = start /\ \A i \in 1 .. n : f[i] = G[i][f[i - 1]]
    BY <1>2, Zenon DEF Iterates
  <2>2. ASSUME NEW i \in 1 .. n  PROVE  G[i][f[i - 1]] = f[i - 1] + widths[i]
    <3>1. i - 1 \in 0 .. n
      BY <1>0
    <3>2. f[i - 1] \in Nat
      BY <2>1, <3>1, Zenon
    <3>. QED  BY <3>2, Zenon
  <2>. HIDE DEF G
  <2>. QED  BY <2>1, <2>2, Zenon
<1>. HIDE DEF G, n
<1>. DEFINE h == [i \in 1 .. n + 1 |-> f[i - 1]]
<1>4. h = Step(h)
  <2>1. ASSUME NEW i \in 1 .. n + 1  PROVE  h[i] = Step(h)[i]
    <3>1. CASE i = 1
      BY <1>0, <1>3, <3>1
    <3>2. CASE i # 1
      <4>1. i - 1 \in 1 .. n /\ i - 1 \in 1 .. n + 1
        BY <1>0, <3>2
      <4>2. f[i - 1] = f[(i - 1) - 1] + widths[i - 1]
        BY <1>3, <4>1, Zenon
      <4>. QED  BY <3>2, <4>1, <4>2, Zenon
    <3>. QED  BY <3>1, <3>2
  <2>2. h = [i \in 1 .. n + 1 |-> h[i]]
    OBVIOUS
  <2>. HIDE DEF h
  <2>3. Step(h) = [i \in 1 .. n + 1 |-> Step(h)[i]]
    BY Zenon
  <2>. HIDE DEF Step
  <2>. QED  BY <2>1, <2>2, <2>3, SameFunction, Zenon
<1>. DEFINE slot == FieldSlots(widths, start)
<1>5. slot = Step(slot)
  <2>1. slot = CHOOSE g : g = Step(g)
    BY Zenon DEF FieldSlots, n
  <2>. HIDE DEF slot, Step, h
  <2>. QED  BY <1>4, <2>1, Zenon
<1>. HIDE DEF slot
<1>6. slot[1] = start /\ \A i \in 1 .. n : slot[i + 1] = slot[i] + widths[i]
  <2>1. 1 \in 1 .. n + 1
    BY <1>0
  <2>2. ASSUME NEW i \in 1 .. n  PROVE  slot[i + 1] = slot[i] + widths[i]
    <3>1. i + 1 \in 1 .. n + 1 /\ i + 1 # 1 /\ (i + 1) - 1 = i
      BY <1>0
    <3>. QED  BY <1>5, <3>1, Zenon
  <2>. QED  BY <1>5, <2>1, <2>2, Zenon
<1>7. \A i \in 1 .. n + 1 : slot[i] \in Nat
  <2>. DEFINE S == {i \in 0 .. n : slot[i + 1] \in Nat}
  <2>1. 0 \in S
    BY <1>0, <1>6
  <2>2. \A i \in 0 .. n - 1 : i \in S => i + 1 \in S
    <3>. SUFFICES ASSUME NEW i \in 0 .. n - 1, i \in S  PROVE  i + 1 \in S
      OBVIOUS
    <3>1. i + 1 \in 1 .. n /\ i + 1 \in 0 .. n
      BY <1>0
    <3>2. slot[(i + 1) + 1] = slot[i + 1] + widths[i + 1] /\ widths[i + 1] \in {1, 2}
      BY <1>0, <1>6, <3>1, Zenon
    <3>3. slot[(i + 1) + 1] \in Nat
      BY <3>2
    <3>. QED  BY <3>1, <3>3
  <2>3. 0 .. n \subseteq S
    <3>. HIDE DEF S
    <3>. QED  BY <1>0, <2>1, <2>2, Induction
  <2>4. ASSUME NEW i \in 1 .. n + 1  PROVE  slot[i] \in Nat
    <3>1. i - 1 \in 0 .. n /\ (i - 1) + 1 = i
      BY <1>0
    <3>. QED  BY <2>3, <3>1, Zenon
  <2>. QED  BY <2>4
<1>8. slot \in [1 .. n + 1 -> Nat]
  <2>1. slot = [i \in 1 .. n + 1 |-> slot[i]]
    BY <1>5, Zenon
  <2>. QED  BY <1>7, <2>1, Zenon
<1>. QED  BY <1>6, <1>8, Zenon DEF SlotSteps, n, slot

(* Fields of widths w, laid out as own says, behind base slots *)
Nested(own, w, base) ==
  /\ Len(own.slots) = Len(w)
  /\ \A i \in 1 .. Len(w) :
       /\ own.slots[i] >= base /\ own.slots[i] + w[i] <= own.count
       /\ \A j \in 1 .. Len(w) : i < j => own.slots[i] + w[i] <= own.slots[j]

LEMMA SlotsNested ==
  ASSUME NEW w \in Seq({1, 2}), NEW base \in Nat, NEW slot, SlotSteps(slot, w, base)
  PROVE  LET own == [slots |-> [i \in 1 .. Len(w) |-> slot[i]], count |-> slot[Len(w) + 1]]
         IN own.count \in Nat /\ Nested(own, w, base)
<1>. DEFINE n == Len(w)
<1>0. n \in Nat /\ \A i \in 1 .. n : w[i] \in {1, 2}
  OBVIOUS
<1>1. /\ \A i \in 1 .. n + 1 : slot[i] \in Nat
      /\ slot[1] = base /\ \A i \in 1 .. n : slot[i + 1] = slot[i] + w[i]
  BY DEF SlotSteps
<1>. HIDE DEF n
<1>2. \A j \in 1 .. n + 1 : \A i \in 1 .. j : slot[i] <= slot[j]
  <2>. DEFINE S == {j \in 0 .. n : \A i \in 1 .. j + 1 : slot[i] <= slot[j + 1]}
  <2>1. 0 \in S
    BY <1>0, <1>1
  <2>2. \A j \in 0 .. n - 1 : j \in S => j + 1 \in S
    <3>. SUFFICES ASSUME NEW j \in 0 .. n - 1, j \in S, NEW i \in 1 .. (j + 1) + 1
                  PROVE  slot[i] <= slot[(j + 1) + 1]
      BY <1>0
    <3>1. /\ j + 1 \in 1 .. n /\ j + 1 \in 1 .. n + 1 /\ (j + 1) + 1 \in 1 .. n + 1 /\ i \in 1 .. n + 1
          /\ i \in 1 .. j + 1 \/ i = (j + 1) + 1
      BY <1>0
    <3>2. /\ slot[(j + 1) + 1] = slot[j + 1] + w[j + 1] /\ w[j + 1] \in {1, 2}
          /\ slot[j + 1] \in Nat /\ slot[i] \in Nat /\ slot[(j + 1) + 1] \in Nat
      BY <1>0, <1>1, <3>1, Zenon
    <3>3. i \in 1 .. j + 1 => slot[i] <= slot[j + 1]
      OBVIOUS
    <3>4. CASE i = (j + 1) + 1
      BY <3>2, <3>4
    <3>5. CASE i \in 1 .. j + 1
      <4>. DEFINE a == slot[i]  b == slot[j + 1]  d == slot[(j + 1) + 1]  x == w[j + 1]
      <4>1. a <= b /\ d = b + x /\ x \in {1, 2} /\ a \in Nat /\ b \in Nat
        BY <3>2, <3>3, <3>5, Zenon
      <4>. HIDE DEF a, b, d, x
      <4>2. a <= d
        BY <4>1
      <4>. QED  BY <4>2 DEF a, d
    <3>. QED  BY <3>1, <3>4, <3>5
  <2>3. 0 .. n \subseteq S
    <3>. HIDE DEF S
    <3>. QED  BY <1>0, <2>1, <2>2, Induction
  <2>4. ASSUME NEW j \in 1 .. n + 1, NEW i \in 1 .. j  PROVE  slot[i] <= slot[j]
    <3>1. j - 1 \in 0 .. n /\ (j - 1) + 1 = j
      BY <1>0
    <3>. QED  BY <2>3, <3>1, Zenon
  <2>. QED  BY <2>4
<1>3. ASSUME NEW i \in 1 .. n
      PROVE  /\ slot[i] >= base /\ slot[i] + w[i] <= slot[n + 1]
             /\ \A j \in 1 .. n : i < j => slot[i] + w[i] <= slot[j]
  <2>1. slot[i] + w[i] = slot[i + 1] /\ slot[i] \in Nat /\ base \in Nat
    BY <1>0, <1>1
  <2>2. slot[1] <= slot[i] /\ slot[i + 1] <= slot[n + 1]
    BY <1>0, <1>2
  <2>3. \A j \in 1 .. n : i < j => slot[i + 1] <= slot[j]
    BY <1>0, <1>2
  <2>. QED  BY <1>1, <2>1, <2>2, <2>3
<1>4. slot[n + 1] \in Nat
  BY <1>0, <1>1
<1>. DEFINE slots == [i \in 1 .. n |-> slot[i]]
<1>5. Len(slots) = n /\ \A i \in 1 .. n : slots[i] = slot[i]
  BY <1>0, <1>1
<1>. HIDE DEF slots
<1>6. Nested([slots |-> slots, count |-> slot[n + 1]], w, base)
  BY <1>3, <1>5 DEF Nested, n
<1>. QED  BY <1>4, <1>6 DEF n, slots

(* Object o has a layout, behind that of its superclass *)
Base(lay, c) == IF c.super = Null THEN 0 ELSE lay[c.super].count
LaidOut(lay, o, c) ==
  /\ o \in DOMAIN lay /\ lay[o].count \in Nat
  /\ c.name \notin Arrays => Nested(lay[o], Widths[c.name], Base(lay, c))

(* Every class that has been cached has been linked. *)
LayoutInv ==
  \A l \in Loaders : \A k \in DOMAIN cache[l] :
    k \notin Primitives \cup {JlcFile} => LaidOut(layout, cache[l][k], objects[cache[l][k]])

(* LinkClass lays a class out when the superclass is. *)
LEMMA LinkedLaidOut ==
  ASSUME NEW k \in Keys, k \notin Primitives, NEW super,
         super = Null \/ layout[super].count \in Nat
  PROVE  /\ LinkClass(k, super).count \in Nat
         /\ k \notin Arrays => Nested(LinkClass(k, super), Widths[ClassNamed(k)],
                                      IF super = Null THEN 0 ELSE layout[super].count)
<1>. DEFINE w == IF k \in Arrays THEN << >> ELSE Widths[ClassNamed(k)]
            base == IF k \in Arrays \/ super = Null THEN 0 ELSE layout[super].count
            slot == FieldSlots(w, base)
<1>1. w \in Seq({1, 2})
  <2>1. k \notin Arrays => ClassNamed(k) \in Names
    BY NameFacts DEF Keys, ClassNamed
  <2>. QED  BY <2>1, NamesAssumption
<1>2. base \in Nat
  OBVIOUS
<1>. HIDE DEF w, base
<1>3. SlotSteps(slot, w, base)
  BY <1>1, <1>2, FieldSlotsSteps
<1>. DEFINE own == [slots |-> [i \in 1 .. Len(w) |-> slot[i]], count |-> slot[Len(w) + 1]]
<1>. HIDE DEF slot
<1>4. own.count \in Nat /\ Nested(own, w, base)
  BY <1>1, <1>2, <1>3, SlotsNested
<1>5. LinkClass(k, super) = own
  BY Zenon DEF LinkClass, own, slot, w, base
<1>. HIDE DEF own
<1>6. CASE k \in Arrays
  BY <1>4, <1>5, <1>6
<1>7. CASE k \notin Arrays
  <2>1. w = Widths[ClassNamed(k)] /\ base = IF super = Null THEN 0 ELSE layout[super].count
    BY <1>7 DEF w, base
  <2>. QED  BY <1>4, <1>5, <2>1, Zenon
<1>. QED  BY <1>6, <1>7

(* A layout stays one when it and that of the superclass are kept. *)
LEMMA StaysLaidOut ==
  ASSUME NEW lay, NEW lay2, NEW o, NEW c, NEW d, LaidOut(lay, o, c),
         d.name = c.name, d.super = c.super, o \in DOMAIN lay2, lay2[o] = lay[o],
         c.super /= Null => lay2[c.super] = lay[c.super]
  PROVE  LaidOut(lay2, o, d)
<1>1. Base(lay2, d) = Base(lay, c)
  BY DEF Base
<1>. QED  BY <1>1, Zenon DEF LaidOut

(* The superclass of a cached class is cached by the boot loader under a   *)
(* name.                                                                   *)
LEMMA SuperCached ==
  ASSUME World(objects, cache, Needs), NeedsOK(Needs), NEW l \in Loaders,
         NEW k \in DOMAIN cache[l], k \notin Primitives \cup {JlcFile},
         objects[cache[l][k]].super /= Null
  PROVE  \E x \in Names : /\ x \in DOMAIN cache["boot"]
                          /\ objects[cache[l][k]].super = cache["boot"][x]
<1>. DEFINE c == objects[cache[l][k]]  needed == Needs[k]
<1>1. Complete(objects, cache, c, needed)
  BY Zenon DEF World, AllComplete
<1>2. k \in Keys
  BY DEF World, Typed
<1>3. needed \in Seq(Names)
  BY <1>2, Zenon DEF NeedsOK
<1>4. c \in ObjectRecords
  BY DEF World, Known, Typed
<1>. HIDE DEF c, needed
<1>5. c.interfaces \in Seq(Nat)
  BY <1>4 DEF ObjectRecords
<1>6. c.super /= Null
  BY DEF c
<1>7. Supers(c) = <<c.super>> \o c.interfaces
  BY <1>6 DEF Supers
<1>8. Len(Supers(c)) >= 1 /\ Supers(c)[1] = c.super
  BY <1>5, <1>7
<1>9. 1 \in 1 .. Len(needed)
  BY <1>1, <1>3, <1>8 DEF Complete
<1>10. needed[1] \in Names
  BY <1>3, <1>9
<1>. QED  BY <1>1, <1>8, <1>9, <1>10, Zenon DEF Complete, c

(* A class that was cached stays laid out. *)
LEMMA CachedLaidOut ==
  ASSUME LoadInv, LayoutInv, Kept, NEW l \in Loaders,
         NEW k \in DOMAIN cache[l], k \notin Primitives \cup {JlcFile}
  PROVE  LaidOut(layout', cache'[l][k], objects'[cache'[l][k]])
<1>. DEFINE o == cache[l][k]  c == objects[o]
<1>1. World(objects, cache, Needs) /\ NeedsOK(Needs)
  BY NeedsHold DEF LoadInv
<1>2. LaidOut(layout, o, c)
  BY Zenon DEF LayoutInv
<1>3. ASSUME NEW m \in Loaders, NEW j \in DOMAIN cache[m], j \notin Primitives \cup {JlcFile}
      PROVE  /\ j \in Cacheds(m) /\ cache'[m][j] = cache[m][j]
             /\ cache[m][j] \in DOMAIN layout' /\ layout'[cache[m][j]] = layout[cache[m][j]]
  <2>1. cache[m][j] \in 1 .. Len(objects) /\ Len(objects) \in Nat
    BY <1>1, <1>3 DEF World, Known, Typed
  <2>2. j \in Cacheds(m)
    BY <2>1 DEF Cacheds, Null
  <2>3. cache[m][j] \in DOMAIN layout
    BY <1>3, Zenon DEF LayoutInv, LaidOut
  <2>. QED  BY <2>2, <2>3, Zenon DEF Kept
<1>4. k \in Cacheds(l) /\ cache'[l][k] = o /\ o \in DOMAIN layout' /\ layout'[o] = layout[o]
  BY <1>3
<1>5. objects'[o] = [c EXCEPT !.class = objects'[o].class]
  BY <1>4, Zenon DEF Kept
<1>6. c \in ObjectRecords
  BY <1>1, <1>4, CachedKnown
<1>7. objects'[o].name = c.name /\ objects'[o].super = c.super
  <2>. HIDE DEF c, o
  <2>. QED  BY <1>5, <1>6 DEF ObjectRecords
<1>8. c.super /= Null => layout'[c.super] = layout[c.super]
  <2>. SUFFICES ASSUME c.super /= Null  PROVE  layout'[c.super] = layout[c.super]
    OBVIOUS
  <2>1. PICK x \in Names : x \in DOMAIN cache["boot"] /\ c.super = cache["boot"][x]
    BY <1>1, SuperCached
  <2>2. x \notin Primitives \cup {JlcFile} /\ "boot" \in Loaders
    BY NameFacts DEF Loaders
  <2>3. layout'[cache["boot"][x]] = layout[cache["boot"][x]]
    BY <1>3, <2>1, <2>2
  <2>. HIDE DEF c
  <2>. QED  BY <2>1, <2>3, Zenon
<1>. HIDE DEF c, o
<1>9. LaidOut(layout', o, objects'[o])
  BY <1>2, <1>4, <1>7, <1>8, StaysLaidOut, Zenon
<1>. QED  BY <1>4, <1>9

(* A step enters one class at most, the innermost one when it is defined,  *)
(* and the primitive types.                                                *)
Entered(l, k) ==
  l = Innermost.loader /\ k = ClassNamed(Innermost.key) /\ cache'[l][k] = Innermost.object

LEMMA DefineEnters ==
  ASSUME LoadInv, calls /= << >>, DefineClass,
         NEW l \in Loaders, NEW k \in DOMAIN cache'[l], k \notin Primitives \cup {JlcFile}
  PROVE  k \in DOMAIN cache[l] \/ Entered(l, k)
<1>. DEFINE c == Innermost
            n == ClassNamed(c.key)
            ca2 == After2(cache, c)
            objs2 == After1(objects, cache, c)
<1>1. Defines(objects, cache, c, Needs) /\ Return(c.object, objs2, ca2)
  BY DefineStep
<1>2. /\ c.loader \in Loaders /\ ca2[c.loader][n] = c.object
      /\ DOMAIN ca2[c.loader] = DOMAIN cache[c.loader] \cup {n, JlcFile}
      /\ \A m \in Loaders : m /= c.loader => ca2[m] = cache[m]
  BY <1>1, CacheFacts
<1>. HIDE DEF ca2, objs2
<1>3. k \in DOMAIN ca2[l] /\ ca2[l][k] = cache'[l][k]
  <2>1. CASE Outer = << >> /\ stage = "basic"
    <3>1. BasicDone(objs2, ca2["boot"], c.object)
      BY <1>1, <2>1 DEF Return
    <3>2. cache' = [cache EXCEPT !["boot"] = Put(ca2["boot"], JlcFile, c.object)]
      BY <3>1 DEF BasicDone
    <3>3. cache = [m \in Loaders |-> cache[m]] /\ "boot" \in Loaders
      BY DEF LoadInv, World, Typed, Loaders
    <3>4. CASE l = "boot"
      <4>1. cache'[l] = Put(ca2["boot"], JlcFile, c.object)
        BY <3>2, <3>3, <3>4
      <4>. QED  BY <3>4, <4>1 DEF Put
    <3>5. CASE l /= "boot"
      <4>1. cache'[l] = cache[l]
        BY <3>2, <3>3, <3>5
      <4>2. c.loader = "boot"
        BY <1>1, <2>1, FirstCall DEF Defines
      <4>. QED  BY <1>2, <3>5, <4>1, <4>2
    <3>. QED  BY <3>4, <3>5
  <2>2. CASE ~(Outer = << >> /\ stage = "basic")
    BY <1>1, <2>2 DEF Return
  <2>. QED  BY <2>1, <2>2
<1>. QED  BY <1>2, <1>3 DEF Entered

LEMMA StepEnters ==
  ASSUME LoadInv, [Next]_vars,
         NEW l \in Loaders, NEW k \in DOMAIN cache'[l], k \notin Primitives \cup {JlcFile}
  PROVE  k \in DOMAIN cache[l] \/ (calls /= << >> /\ DefineClass /\ Entered(l, k))
<1>0. cache = [m \in Loaders |-> cache[m]] /\ "boot" \in Loaders
  BY DEF LoadInv, World, Typed, Loaders
<1>1. CASE cache' = cache
  BY <1>1
<1>2. CASE InLoadClass /\ Cached
  <2>. DEFINE o == cache[Innermost.loader][Innermost.key]
  <2>1. Return(o, objects, cache)
    BY <1>2 DEF Cached
  <2>2. CASE cache' = [cache EXCEPT !["boot"] = Put(cache["boot"], JlcFile, o)]
    <3>. HIDE DEF o
    <3>1. l /= "boot" => cache'[l] = cache[l]
      BY <1>0, <2>2
    <3>2. l = "boot" => cache'[l] = Put(cache["boot"], JlcFile, o)
      BY <1>0, <2>2
    <3>. QED  BY <3>1, <3>2 DEF Put
  <2>. HIDE DEF o
  <2>. QED  BY <1>1, <2>1, <2>2 DEF Return, BasicDone
<1>3. CASE InLoadClass /\ StartLoad
  BY <1>1, <1>3 DEF StartLoad, NewClassObject, Die
<1>4. CASE InLoadClass /\ Resolve
  BY <1>1, <1>4 DEF Resolve, Die
<1>5. CASE InLoadClass /\ DefineClass
  BY <1>5, DefineEnters DEF InLoadClass
<1>6. CASE Returned /\ LoadPrimitiveClasses
  <2>1. CASE Die("nomem")
    BY <1>1, <2>1 DEF Die
  <2>2. CASE cache' = [cache EXCEPT !["boot"] = [j \in DOMAIN @ \cup Primitives |->
               IF j \in Primitives
               THEN Len(objects) + CHOOSE i \in DOMAIN PrimitiveTypes : PrimitiveTypes[i] = j
               ELSE @[j]]]
    <3>1. l /= "boot" => cache'[l] = cache[l]
      BY <1>0, <2>2
    <3>2. l = "boot" => DOMAIN cache'[l] = DOMAIN cache[l] \cup Primitives
      BY <1>0, <2>2
    <3>. QED  BY <3>1, <3>2
  <2>. QED  BY <1>6, <2>1, <2>2 DEF LoadPrimitiveClasses
<1>7. CASE Returned /\ CreateArgs
  BY <1>1, <1>7 DEF CreateArgs
<1>8. CASE \E j \in Keys \ {JlcFile} : ResolveClass(j)
  BY <1>1, <1>8 DEF ResolveClass
<1>9. CASE UNCHANGED vars
  BY <1>1, <1>9 DEF vars
<1>. QED  BY <1>2, <1>3, <1>4, <1>5, <1>6, <1>7, <1>8, <1>9 DEF Next

(* The class that is defined is laid out behind its superclass. *)
LEMMA DefinedLaidOut ==
  ASSUME LoadInv, LayoutInv, calls /= << >>, DefineClass
  PROVE  LaidOut(layout', Innermost.object, objects'[Innermost.object])
<1>. DEFINE c == Innermost
            o == c.object
            n == ClassNamed(c.key)
            objs2 == After1(objects, cache, c)
            linked == Linked(objects[o], c.got)
            own == LinkClass(c.key, linked.super)
<1>1. /\ Defines(objects, cache, c, Needs) /\ Return(o, objs2, After2(cache, c))
      /\ layout' = Put(layout, o, own)
  <2>1. layout' = Put(layout, o, own)
    BY Zenon DEF DefineClass
  <2>. QED  BY <2>1, DefineStep
<1>2. /\ World(objects, cache, Needs) /\ NeedsOK(Needs) /\ c \in CallRecords
      /\ Fresh(objects, cache, c)
  BY <1>1 DEF Defines, CallOK
<1>3. c.key \in Keys /\ c.key \notin Primitives /\ objects[o].name = n /\ o \in 1 .. Len(objects)
      /\ c.got \in Seq(Nat) /\ objects[o] \in ObjectRecords
  BY <1>2 DEF CallRecords, Fresh, World, Typed
<1>4. objs2[o] = Finished(objects[o], c.got, JlcOf(cache[c.loader])) /\ DOMAIN objs2 = DOMAIN objects
  BY <1>2, <1>3 DEF After1, World, Typed
<1>5. /\ Needs[n] \in Seq(Names) /\ Len(c.got) = Len(Needs[n])
      /\ \A i \in 1 .. Len(c.got) : /\ Needs[n][i] \in DOMAIN cache["boot"]
                                    /\ c.got[i] = cache["boot"][Needs[n][i]]
                                    /\ c.got[i] \in 1 .. Len(objects) /\ c.got[i] /= o
      /\ objs2[o].name = n /\ objs2 \in Seq(ObjectRecords) /\ Len(objs2) = Len(objects)
  BY <1>1, DefineFacts DEF Defines
<1>6. objs2[o].super = linked.super
  BY <1>3, <1>4 DEF Finished, Linked, ObjectRecords
<1>. HIDE DEF objs2
<1>7. objects'[o].name = n /\ objects'[o].super = linked.super
  <2>. HIDE DEF linked, c, own
  <2>1. objs2[o] \in ObjectRecords /\ o \in DOMAIN objs2
    BY <1>3, <1>5
  <2>2. CASE objects' = objs2
    BY <1>5, <1>6, <2>2
  <2>3. CASE objects' = [i \in DOMAIN objs2 |->
                           IF \E k \in DOMAIN Put(After2(cache, c)["boot"], JlcFile, o) :
                                Put(After2(cache, c)["boot"], JlcFile, o)[k] = i
                           THEN [objs2[i] EXCEPT !.class = o] ELSE objs2[i]]
    <3>1. objects'[o] \in {objs2[o], [objs2[o] EXCEPT !.class = o]}
      BY <2>1, <2>3, Zenon
    <3>. QED  BY <1>5, <1>6, <2>1, <3>1 DEF ObjectRecords
  <2>. QED  BY <1>1, <2>2, <2>3, Zenon DEF Return, BasicDone
<1>8. linked.super = IF n = Object THEN Null ELSE c.got[1]
  <2>. HIDE DEF c, n
  <2>. QED  BY <1>3 DEF Linked, ObjectRecords
<1>9. linked.super = Null \/ (/\ linked.super /= o /\ linked.super \in DOMAIN layout
                              /\ layout[linked.super].count \in Nat)
  <2>. SUFFICES ASSUME linked.super /= Null
                PROVE  /\ linked.super /= o /\ linked.super \in DOMAIN layout
                       /\ layout[linked.super].count \in Nat
    OBVIOUS
  <2>1. n /= Object /\ linked.super = c.got[1]
    BY <1>8
  <2>2. 1 \in 1 .. Len(c.got)
    <3>1. n \in Keys \ Primitives /\ ClassNamed(n) = n
      BY <1>3, NameFacts
    <3>2. Len(Needs[n]) >= 1 /\ Len(Needs[n]) \in Nat
      BY <1>2, <1>5, <2>1, <3>1 DEF NeedsOK
    <3>. QED  BY <1>5, <3>2
  <2>. DEFINE x == Needs[n][1]
  <2>3. x \in DOMAIN cache["boot"] /\ c.got[1] = cache["boot"][x] /\ c.got[1] /= o
    BY <1>5, <2>2
  <2>4. x \in Names
    BY <1>5, <2>2
  <2>5. x \notin Primitives \cup {JlcFile} /\ "boot" \in Loaders
    BY <2>4, NameFacts DEF Loaders
  <2>. HIDE DEF x
  <2>6. cache["boot"][x] \in DOMAIN layout /\ layout[cache["boot"][x]].count \in Nat
    BY <2>3, <2>5, Zenon DEF LayoutInv, LaidOut
  <2>. QED  BY <2>1, <2>3, <2>6
<1>10. /\ own.count \in Nat
       /\ c.key \notin Arrays => Nested(own, Widths[n], IF linked.super = Null THEN 0
                                                        ELSE layout[linked.super].count)
  <2>. HIDE DEF linked, c
  <2>. QED  BY <1>3, <1>9, LinkedLaidOut
<1>11. n \notin Arrays => c.key \notin Arrays
  BY NameFacts
<1>. HIDE DEF linked, own, c, n, o
<1>12. /\ o \in DOMAIN layout' /\ layout'[o] = own
       /\ linked.super /= Null => Base(layout', objects'[o]) = layout[linked.super].count
       /\ linked.super = Null => Base(layout', objects'[o]) = 0
  <2>1. DOMAIN layout' = DOMAIN layout \cup {o} /\ layout'[o] = own
    BY <1>1 DEF Put
  <2>2. Base(layout', objects'[o]) = IF linked.super = Null THEN 0 ELSE layout'[linked.super].count
    BY <1>7 DEF Base
  <2>3. linked.super /= Null /\ linked.super \in DOMAIN layout => layout'[linked.super] = layout[linked.super]
    BY <1>1, <1>9 DEF Put
  <2>. QED  BY <1>9, <2>1, <2>2, <2>3
<1>. QED  BY <1>7, <1>10, <1>11, <1>12 DEF LaidOut, o, c

LEMMA LayoutInvNext ==
  ASSUME LoadInv, LayoutInv, [Next]_vars
  PROVE  LayoutInv'
<1>. SUFFICES ASSUME NEW l \in Loaders, NEW k \in DOMAIN cache'[l],
                     k \notin Primitives \cup {JlcFile}
              PROVE  LaidOut(layout', cache'[l][k], objects'[cache'[l][k]])
  BY DEF LayoutInv
<1>1. Kept
  BY LoadInvNext
<1>2. CASE k \in DOMAIN cache[l]
  BY <1>1, <1>2, CachedLaidOut
<1>3. CASE calls /= << >> /\ DefineClass /\ Entered(l, k)
  <2>1. LaidOut(layout', Innermost.object, objects'[Innermost.object])
    BY <1>3, DefinedLaidOut
  <2>. QED  BY <1>3, <2>1, Zenon DEF Entered
<1>. QED  BY <1>2, <1>3, StepEnters

(* A class has its fields behind all of its superclass's, within its slot  *)
(* count and apart from one another, for all class files, circles of       *)
(* superclasses included: LinkClass sees a superclass that was linked, and *)
(* no later step moves the fields of a class that has been cached          *)
(* (class_loader.cpp:97-100, CalcInstanceFieldSlotIds).                    *)
THEOREM LayoutNestsAlways == Spec => []LayoutNests
<1>1. Init => LayoutInv
  BY DEF Init, LayoutInv
<1>2. LoadInv /\ LayoutInv => LayoutNests
  <2>. SUFFICES ASSUME LoadInv, LayoutInv, NEW l \in Loaders,
                       NEW k \in Cacheds(l) \ (Primitives \cup Arrays)
                PROVE  LET c == objects[cache[l][k]]
                           own == layout[cache[l][k]]
                           w == Widths[c.name]
                           base == IF c.super = Null THEN 0 ELSE layout[c.super].count
                       IN /\ Len(own.slots) = Len(w)
                          /\ \A i \in DOMAIN w :
                               /\ own.slots[i] >= base /\ own.slots[i] + w[i] <= own.count
                               /\ \A j \in DOMAIN w : i < j => own.slots[i] + w[i] <= own.slots[j]
    BY Zenon DEF LayoutNests
  <2>. DEFINE o == cache[l][k]  c == objects[o]
  <2>1. World(objects, cache, Needs) /\ k \in DOMAIN cache[l] /\ o /= Null
    BY DEF LoadInv, Cacheds
  <2>a. \E m \in Loaders : \E n \in DOMAIN cache[m] :
          n \in Names /\ cache[m][n] = o /\ c.name = n
    <3>1. CASE k /= JlcFile
      <4>1. k \in Keys /\ c.name = k
        BY <2>1, <3>1 DEF World, Typed, Known
      <4>. QED  BY <2>1, <3>1, <4>1 DEF Keys
    <3>2. CASE k = JlcFile
      <4>1. l = "boot" /\ Jlc \in DOMAIN cache["boot"] /\ o = cache["boot"][Jlc]
        BY <2>1, <3>2 DEF World, JlcKnown, Loaders
      <4>2. Jlc \in Names /\ Jlc /= JlcFile
        BY NameFacts
      <4>3. objects[cache["boot"][Jlc]].name = Jlc
        BY <2>1, <4>1, <4>2 DEF World, Known, Loaders
      <4>. QED  BY <4>1, <4>2, <4>3
    <3>. QED  BY <3>1, <3>2
  <2>b. PICK m \in Loaders : \E n \in DOMAIN cache[m] :
          n \in Names /\ cache[m][n] = o /\ c.name = n
    BY <2>a
  <2>2. PICK n \in DOMAIN cache[m] : n \in Names /\ cache[m][n] = o /\ c.name = n
    BY <2>b
  <2>3. n \notin Primitives \cup {JlcFile} \cup Arrays
    BY <2>2, NameFacts
  <2>4. LaidOut(layout, o, c)
    BY <2>2, <2>3 DEF LayoutInv
  <2>5. Nested(layout[o], Widths[c.name], Base(layout, c))
    BY <2>2, <2>3, <2>4, Zenon DEF LaidOut
  <2>6. DOMAIN Widths[c.name] = 1 .. Len(Widths[c.name])
    BY <2>2, NamesAssumption
  <2>. QED  BY <2>5, <2>6, Zenon DEF Nested, Base
<1>. QED  BY <1>1, <1>2, LayoutInvNext, LoadInvAlways, PTL DEF Spec
=============================================================================
