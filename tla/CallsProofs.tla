---------------------------- MODULE CallsProofs ----------------------------
(***************************************************************************)
(* Proofs about Calls, for every set of methods and signatures, every      *)
(* max_stack and max_locals a class file may have and calls nested to any  *)
(* depth.                                                                  *)
(*                                                                         *)
(* The first half is about what the recursive functions of the model       *)
(* compute: Descriptor and ParseMethodDescriptor (DescriptorParsed),       *)
(* CalcArgSlotCount (ArgSlotCount) and Flatten (FlattenLength,             *)
(* FlattenConcat).                                                         *)
(*                                                                         *)
(* The second half is the inductive invariant: every frame by itself is as *)
(* FrameOK says, whatever the others are, and each instruction keeps it.   *)
(***************************************************************************)
EXTENDS Calls, WellFoundedInduction, FiniteSetTheorems, SequenceTheorems, TLAPS

-----------------------------------------------------------------------------
(* Induction for a set, where the library's theorems take an operator,     *)
(* which no prover here instantiates                                       *)

(* A set of numbers that is not empty has a least element. *)
LEMMA LeastNat ==
  ASSUME NEW T, T \subseteq Nat, T # {}
  PROVE  \E x \in T : \A y \in T : x <= y
<1> DEFINE R == OpToRel(<, Nat)
<1>1. IsWellFoundedOn(R, Nat) BY NatLessThanWellFounded, Zenon
<1>2. \A x, y \in Nat : x < y => <<x, y>> \in R BY DEF OpToRel
<1> HIDE DEF R
<1>3. PICK x \in T : \A y \in T : ~ (<<y, x>> \in R) BY <1>1, WFMin, Zenon
<1>4. \A y \in T : ~ (y < x) BY <1>2, <1>3, Zenon
<1>5. \A y \in T : x <= y BY <1>4
<1> QED BY <1>5

(* Induction up to n, for a set. *)
LEMMA Induction ==
  ASSUME NEW n \in Nat, NEW S, 0 \in S, \A i \in 0 .. n - 1 : i \in S => i + 1 \in S
  PROVE  0 .. n \subseteq S
<1> SUFFICES ASSUME NEW k \in 0 .. n, k \notin S PROVE FALSE OBVIOUS
<1> DEFINE T == {i \in 0 .. n : i \notin S}
<1>1. PICK x \in T : \A y \in T : x <= y
  <2> HIDE DEF T
  <2>1. T \subseteq Nat /\ T # {} BY DEF T
  <2> QED BY <2>1, LeastNat
<1>2. x - 1 \in 0 .. n - 1 BY <1>1
<1>3. x - 1 \in S BY <1>1, <1>2
<1> QED BY <1>1, <1>2, <1>3

(* f has n steps of G, from a, in V *)
Iterates(f, n, V, a, G) ==
  f \in [0 .. n -> V] /\ f[0] = a /\ \A i \in 1 .. n : f[i] = G[i][f[i - 1]]

(* There is a function with a given start whose every value is computed    *)
(* from the one before.                                                    *)
LEMMA RecursionExists ==
  ASSUME NEW n \in Nat, NEW V, NEW a \in V, NEW G \in [1 .. n -> [V -> V]]
  PROVE  \E f : Iterates(f, n, V, a, G)
<1> DEFINE Upto(k, f) == f[0] = a /\ \A i \in 1 .. k : f[i] = G[i][f[i - 1]]
           S == {k \in 0 .. n : \E f \in [0 .. k -> V] : Upto(k, f)}
<1>1. 0 \in S
  <2> DEFINE g == [i \in 0 .. 0 |-> a]
  <2>1. g \in [0 .. 0 -> V] /\ Upto(0, g) OBVIOUS
  <2>2. \E f \in [0 .. 0 -> V] : Upto(0, f) BY <2>1, Zenon
  <2>3. 0 \in 0 .. n OBVIOUS
  <2> QED BY <2>2, <2>3, Zenon
<1>2. \A k \in 0 .. n - 1 : k \in S => k + 1 \in S
  <2> SUFFICES ASSUME NEW k \in 0 .. n - 1, k \in S PROVE k + 1 \in S OBVIOUS
  <2>1. PICK f \in [0 .. k -> V] : Upto(k, f) OBVIOUS
  <2> DEFINE g == [i \in 0 .. k + 1 |-> IF i = k + 1 THEN G[k + 1][f[k]] ELSE f[i]]
  <2>2. g \in [0 .. k + 1 -> V] OBVIOUS
  <2>3. g[0] = a BY <2>1
  <2>4. \A i \in 1 .. k + 1 : g[i] = G[i][g[i - 1]] BY <2>1
  <2>5. \E h \in [0 .. k + 1 -> V] : Upto(k + 1, h)
    <3> HIDE DEF g
    <3> QED BY <2>2, <2>3, <2>4, Zenon
  <2>6. k + 1 \in 0 .. n OBVIOUS
  <2> QED BY <2>5, <2>6, Zenon
<1>3. n \in S
  <2> HIDE DEF S
  <2>1. 0 .. n \subseteq S BY <1>1, <1>2, Induction
  <2> QED BY <2>1
<1> QED BY <1>3 DEF Iterates

(* Two functions that start the same and continue the same end the same. *)
LEMMA SameIteration ==
  ASSUME NEW n \in Nat, NEW f, NEW h, h[0] = f[0],
         \A i \in 1 .. n : h[i - 1] = f[i - 1] => h[i] = f[i]
  PROVE  h[n] = f[n]
<1> DEFINE S == {i \in 0 .. n : h[i] = f[i]}
<1>1. 0 \in S OBVIOUS
<1>2. \A i \in 0 .. n - 1 : i \in S => i + 1 \in S
  <2> SUFFICES ASSUME NEW i \in 0 .. n - 1, i \in S PROVE i + 1 \in S OBVIOUS
  <2>1. i + 1 \in 0 .. n /\ i + 1 \in 1 .. n /\ (i + 1) - 1 = i OBVIOUS
  <2> QED BY <2>1, Zenon
<1>3. n \in S
  <2> HIDE DEF S
  <2>1. 0 .. n \subseteq S BY <1>1, <1>2, Induction
  <2> QED BY <2>1
<1> QED BY <1>3

(* Functions are equal when their values are. *)
LEMMA SameFunction ==
  ASSUME NEW D, NEW f, NEW h, f = [i \in D |-> f[i]], h = [i \in D |-> h[i]],
         \A i \in D : f[i] = h[i]
  PROVE  f = h
OBVIOUS

(* Induction over sequences, for a set. *)
LEMMA SeqInduction ==
  ASSUME NEW A, NEW S, << >> \in S,
         \A s \in Seq(A), e \in A : s \in S => Append(s, e) \in S
  PROVE  Seq(A) \subseteq S
<1> SUFFICES ASSUME NEW s \in Seq(A) PROVE s \in S OBVIOUS
<1> DEFINE n == Len(s)  T == {k \in 0 .. n : SubSeq(s, 1, k) \in S}
<1>0. n \in Nat OBVIOUS
<1>1. 0 \in T
  <2>1. SubSeq(s, 1, 0) = << >> BY SubSeqEmpty
  <2>2. 0 \in 0 .. n BY <1>0
  <2> QED BY <2>1, <2>2, Zenon
<1>2. \A k \in 0 .. n - 1 : k \in T => k + 1 \in T
  <2> SUFFICES ASSUME NEW k \in 0 .. n - 1, k \in T PROVE k + 1 \in T OBVIOUS
  <2>0. k + 1 \in 1 .. n /\ (k + 1) - 1 = k /\ k + 1 \in 0 .. n /\ 1 \in 1 .. n /\ s[k + 1] \in A
    BY <1>0
  <2>1. SubSeq(s, 1, k + 1) = SubSeq(s, 1, k) \o <<s[k + 1]>>
    BY <2>0, SubSeqRecursiveSecond, Zenon
  <2>2. SubSeq(s, 1, k) \in Seq(A) BY SubSeqProperties
  <2>3. SubSeq(s, 1, k + 1) = Append(SubSeq(s, 1, k), s[k + 1])
    BY <2>0, <2>1, <2>2, AppendIsConcat, Zenon
  <2> QED BY <2>0, <2>2, <2>3, Zenon
<1>3. n \in T
  <2> HIDE DEF T, n
  <2>1. 0 .. n \subseteq T BY <1>0, <1>1, <1>2, Induction
  <2> QED BY <1>0, <2>1
<1>4. SubSeq(s, 1, n) = s BY SubSeqFull, Zenon
<1> QED BY <1>3, <1>4

(* Slots and values *)
Slot == [at : Nat \X Nat, kind : Kinds, half : 0 .. 2]
Value == [at : Nat \X Nat, kind : Kinds]

-----------------------------------------------------------------------------
(* A value is one slot or two, its halves in order. *)
LEMMA SlotsType ==
  ASSUME NEW v \in Value
  PROVE  /\ Slots(v) \in Seq(Slot)
         /\ Len(Slots(v)) = IF v.kind = "I" THEN 1 ELSE 2
         /\ Slots(v)[1] = Half(v, 1)
         /\ v.kind # "I" => Slots(v)[2] = Half(v, 2)
<1>1. Half(v, 1) \in Slot /\ Half(v, 2) \in Slot BY DEF Half, Slot, Value
<1> QED BY <1>1 DEF Slots

-----------------------------------------------------------------------------
(* Flatten computes what its recursive definition says. *)
LEMMA FlattenSteps ==
  ASSUME NEW vs \in Seq(Value)
  PROVE  \E f \in [0 .. Len(vs) -> Seq(Slot)] :
           /\ Flatten(vs) = f[Len(vs)]
           /\ f[0] = << >>
           /\ \A i \in 1 .. Len(vs) : f[i] = f[i - 1] \o Slots(vs[i])
<1> DEFINE n == Len(vs)
           slots[i \in 0 .. n] == IF i = 0 THEN << >> ELSE slots[i - 1] \o Slots(vs[i])
           G == [i \in 1 .. n |-> [s \in Seq(Slot) |-> s \o Slots(vs[i])]]
<1>0. n \in Nat /\ << >> \in Seq(Slot) OBVIOUS
<1>1. G \in [1 .. n -> [Seq(Slot) -> Seq(Slot)]]
  BY SlotsType
<1>2. PICK f \in [0 .. n -> Seq(Slot)] : f[0] = << >> /\ \A i \in 1 .. n : f[i] = G[i][f[i - 1]]
  <2> HIDE DEF G, n, slots
  <2>1. \E f : Iterates(f, n, Seq(Slot), << >>, G) BY <1>0, <1>1, RecursionExists, Zenon
  <2> QED BY <2>1, Zenon DEF Iterates
<1>3. \A i \in 1 .. n : f[i] = f[i - 1] \o Slots(vs[i])
  <2> SUFFICES ASSUME NEW i \in 1 .. n PROVE f[i] = f[i - 1] \o Slots(vs[i]) OBVIOUS
  <2>1. f[i] = G[i][f[i - 1]] BY <1>2
  <2>2. f[i - 1] \in Seq(Slot) OBVIOUS
  <2> QED BY <2>1, <2>2, Zenon
<1> HIDE DEF G
<1> DEFINE Step(g) == [i \in 0 .. n |-> IF i = 0 THEN << >> ELSE g[i - 1] \o Slots(vs[i])]
<1>4. f = Step(f)
  <2>1. f = [i \in 0 .. n |-> f[i]] BY Zenon
  <2>2. Step(f) = [i \in 0 .. n |-> Step(f)[i]] BY Zenon
  <2>3. \A i \in 0 .. n : f[i] = Step(f)[i]
    <3> SUFFICES ASSUME NEW i \in 0 .. n PROVE f[i] = Step(f)[i] OBVIOUS
    <3>1. CASE i = 0 BY <3>1, <1>2
    <3>2. CASE i # 0
      <4>1. i \in 1 .. n BY <3>2
      <4> QED BY <4>1, <3>2, <1>3, Zenon
    <3> QED BY <3>1, <3>2
  <2> QED BY <2>1, <2>2, <2>3, SameFunction, Zenon
<1>5. slots = Step(slots)
  BY <1>4
<1>6. Flatten(vs) = slots[n] BY DEF Flatten
<1> HIDE DEF slots, n
<1>7. 0 \in 0 .. n /\ (\A i \in 1 .. n : i \in 0 .. n /\ i # 0) BY <1>0
<1>8. slots[0] = f[0] BY <1>2, <1>5, <1>7, Zenon
<1>9. \A i \in 1 .. n : slots[i - 1] = f[i - 1] => slots[i] = f[i]
  <2> SUFFICES ASSUME NEW i \in 1 .. n, slots[i - 1] = f[i - 1] PROVE slots[i] = f[i] OBVIOUS
  <2>1. slots[i] = slots[i - 1] \o Slots(vs[i]) BY <1>5, <1>7, Zenon
  <2> QED BY <1>3, <2>1, Zenon
<1>10. slots[n] = f[n] BY <1>0, <1>8, <1>9, SameIteration
<1> QED BY <1>2, <1>3, <1>6, <1>10, Zenon DEF n

(* No values, no slots. *)
LEMMA FlattenEmpty == Flatten(<< >>) = << >>
<1>1. << >> \in Seq(Value) /\ Len(<< >>) = 0 OBVIOUS
<1> QED BY <1>1, FlattenSteps, Zenon

(* Flatten makes a sequence of slots. *)
LEMMA FlattenType ==
  ASSUME NEW vs \in Seq(Value)
  PROVE  Flatten(vs) \in Seq(Slot)
<1>1. Len(vs) \in 0 .. Len(vs) OBVIOUS
<1>2. PICK f \in [0 .. Len(vs) -> Seq(Slot)] : Flatten(vs) = f[Len(vs)] BY FlattenSteps, Zenon
<1> QED BY <1>1, <1>2, Zenon

(* The slots of one more value come after the others. *)
LEMMA FlattenAppend ==
  ASSUME NEW vs \in Seq(Value), NEW v \in Value
  PROVE  Flatten(Append(vs, v)) = Flatten(vs) \o Slots(v)
<1> DEFINE n == Len(vs)  ws == Append(vs, v)
<1>0. n \in Nat /\ n + 1 \in 1 .. n + 1 /\ (n + 1) - 1 = n OBVIOUS
<1>1. ws \in Seq(Value) /\ Len(ws) = n + 1 /\ ws[n + 1] = v /\ \A i \in 1 .. n : ws[i] = vs[i]
  BY AppendProperties
<1> HIDE DEF ws
<1>2. PICK f \in [0 .. n -> Seq(Slot)] :
        Flatten(vs) = f[n] /\ f[0] = << >> /\ \A i \in 1 .. n : f[i] = f[i - 1] \o Slots(vs[i])
  BY FlattenSteps, Zenon
<1>3. PICK g \in [0 .. n + 1 -> Seq(Slot)] :
        /\ Flatten(ws) = g[n + 1] /\ g[0] = << >>
        /\ \A i \in 1 .. n + 1 : g[i] = g[i - 1] \o Slots(ws[i])
  <2>1. \E g \in [0 .. Len(ws) -> Seq(Slot)] :
          Flatten(ws) = g[Len(ws)] /\ g[0] = << >> /\ \A i \in 1 .. Len(ws) : g[i] = g[i - 1] \o Slots(ws[i])
    BY <1>1, FlattenSteps, Zenon
  <2> QED BY <1>1, <2>1
<1>4. f[0] = g[0] BY <1>2, <1>3, Zenon
<1>5. \A i \in 1 .. n : f[i - 1] = g[i - 1] => f[i] = g[i]
  <2>1. \A i \in 1 .. n : i \in 1 .. n + 1 BY <1>0
  <2> QED BY <1>1, <1>2, <1>3, <2>1, Zenon
<1>6. f[n] = g[n]
  <2> HIDE DEF n
  <2> QED BY <1>0, <1>4, <1>5, SameIteration
<1>7. g[n + 1] = g[n] \o Slots(v) BY <1>0, <1>1, <1>3, Zenon
<1> QED BY <1>2, <1>3, <1>6, <1>7 DEF ws

(* The slots of two sequences of values, one after the other. *)
LEMMA FlattenConcat ==
  ASSUME NEW s \in Seq(Value), NEW t \in Seq(Value)
  PROVE  Flatten(s \o t) = Flatten(s) \o Flatten(t)
<1> DEFINE S == {u \in Seq(Value) : Flatten(s \o u) = Flatten(s) \o Flatten(u)}
<1>1. << >> \in S
  <2>1. s \o << >> = s /\ Flatten(s) \o << >> = Flatten(s) BY FlattenType, ConcatEmptySeq, Zenon
  <2>2. << >> \in Seq(Value) OBVIOUS
  <2> QED BY <2>1, <2>2, FlattenEmpty, Zenon
<1>2. \A u \in Seq(Value), v \in Value : u \in S => Append(u, v) \in S
  <2> SUFFICES ASSUME NEW u \in Seq(Value), NEW v \in Value, u \in S PROVE Append(u, v) \in S
    OBVIOUS
  <2>1. s \o Append(u, v) = Append(s \o u, v) /\ s \o u \in Seq(Value) /\ Append(u, v) \in Seq(Value)
    OBVIOUS
  <2>2. Flatten(s \o Append(u, v)) = (Flatten(s) \o Flatten(u)) \o Slots(v)
    BY <2>1, FlattenAppend, Zenon
  <2>3. Flatten(s) \o Flatten(Append(u, v)) = Flatten(s) \o (Flatten(u) \o Slots(v))
    BY FlattenAppend, Zenon
  <2>4. Flatten(s) \in Seq(Slot) /\ Flatten(u) \in Seq(Slot) /\ Slots(v) \in Seq(Slot)
    BY FlattenType, SlotsType, Zenon
  <2>5. (Flatten(s) \o Flatten(u)) \o Slots(v) = Flatten(s) \o (Flatten(u) \o Slots(v))
    BY <2>4, ConcatAssociative, SMTT(30)
  <2> QED BY <2>1, <2>2, <2>3, <2>5, Zenon
<1> HIDE DEF S
<1>3. t \in S BY <1>1, <1>2, SeqInduction
<1> QED BY <1>3 DEF S

-----------------------------------------------------------------------------
(* Nothing occurs in the empty sequence. *)
LEMMA CountEmpty == \A kind : Count(<< >>, kind) = 0
<1> SUFFICES ASSUME NEW kind PROVE Count(<< >>, kind) = 0 OBVIOUS
<1>1. {i \in 1 .. Len(<< >>) : << >>[i] = kind} = {} OBVIOUS
<1> QED BY <1>1, FS_EmptySet, Zenon DEF Count

(* Count is a number. *)
LEMMA CountType ==
  ASSUME NEW A, NEW s \in Seq(A), NEW kind
  PROVE  Count(s, kind) \in Nat
<1> DEFINE X == {i \in 1 .. Len(s) : s[i] = kind}
<1>1. X \in SUBSET (1 .. Len(s)) /\ Len(s) \in Int /\ 1 \in Int OBVIOUS
<1> HIDE DEF X
<1>2. IsFiniteSet(X) BY <1>1, FS_Subset, FS_Interval
<1>3. Cardinality(X) \in Nat BY <1>2, FS_CardinalityType
<1> QED BY <1>3 DEF Count, X

(* Count of a sequence with one more element. *)
LEMMA CountAppend ==
  ASSUME NEW A, NEW s \in Seq(A), NEW e \in A, NEW kind
  PROVE  Count(Append(s, e), kind) = Count(s, kind) + IF e = kind THEN 1 ELSE 0
<1> DEFINE n == Len(s)  t == Append(s, e)
           X == {i \in 1 .. n : s[i] = kind}
           Y == {i \in 1 .. Len(t) : t[i] = kind}
<1>0. n \in Nat /\ Len(t) = n + 1 /\ t[n + 1] = e /\ \A i \in 1 .. n : t[i] = s[i]
  BY AppendProperties
<1>1. IsFiniteSet(X)
  <2>1. X \in SUBSET (1 .. n) /\ n \in Int /\ 1 \in Int BY <1>0
  <2> HIDE DEF X, n
  <2> QED BY <2>1, FS_Subset, FS_Interval
<1>2. n + 1 \notin X BY <1>0
<1>3. Y = IF e = kind THEN X \cup {n + 1} ELSE X
  <2> HIDE DEF t, n
  <2>1. \A i \in 1 .. n : i \in Y <=> i \in X BY <1>0
  <2>2. n + 1 \in Y <=> e = kind BY <1>0
  <2>3. 1 .. Len(t) = (1 .. n) \cup {n + 1} BY <1>0
  <2>4. X \subseteq 1 .. n /\ Y \subseteq (1 .. n) \cup {n + 1} BY <2>3
  <2> HIDE DEF X, Y
  <2>5. CASE e = kind
    <3>1. Y = X \cup {n + 1} BY <2>1, <2>2, <2>4, <2>5, Zenon
    <3> QED BY <2>5, <3>1, Zenon
  <2>6. CASE e # kind
    <3>1. Y = X BY <2>1, <2>2, <2>4, <2>6, Zenon
    <3> QED BY <2>6, <3>1, Zenon
  <2> QED BY <2>5, <2>6
<1>4. Cardinality(X) \in Nat
  <2> HIDE DEF X
  <2> QED BY <1>1, FS_CardinalityType
<1>5. Cardinality(Y) = Cardinality(X) + IF e = kind THEN 1 ELSE 0
  <2> HIDE DEF X, Y, n, t
  <2>1. CASE e = kind BY <2>1, <1>1, <1>2, <1>3, FS_AddElement
  <2>2. CASE e # kind BY <2>2, <1>3, <1>4
  <2> QED BY <2>1, <2>2
<1> QED BY <1>5 DEF Count

(* The kinds of values are kinds, as many as values. *)
LEMMA KindsInType ==
  ASSUME NEW vs \in Seq(Value)
  PROVE  KindsIn(vs) \in Seq(Kinds) /\ Len(KindsIn(vs)) = Len(vs)
<1>1. \A v \in Value : v.kind \in Kinds BY DEF Value
<1>2. \A i \in 1 .. Len(vs) : vs[i].kind \in Kinds BY <1>1, ElementOfSeq, Zenon
<1> QED BY <1>2 DEF KindsIn

(* The kinds with one more value. *)
LEMMA KindsInAppend ==
  ASSUME NEW vs \in Seq(Value), NEW v \in Value
  PROVE  KindsIn(Append(vs, v)) = Append(KindsIn(vs), v.kind)
<1> DEFINE ws == Append(vs, v)  ks == KindsIn(vs)  n == Len(vs)
<1>0. v.kind \in Kinds BY DEF Value
<1>1. n \in Nat /\ ws \in Seq(Value) /\ Len(ws) = n + 1 /\ ws[n + 1] = v /\ \A i \in 1 .. n : ws[i] = vs[i]
  BY AppendProperties
<1>2. ks \in Seq(Kinds) /\ Len(ks) = n BY KindsInType, Zenon
<1>3. /\ Append(ks, v.kind) \in Seq(Kinds) /\ Len(Append(ks, v.kind)) = n + 1
      /\ Append(ks, v.kind)[n + 1] = v.kind /\ \A i \in 1 .. n : Append(ks, v.kind)[i] = ks[i]
  <2> HIDE DEF ks
  <2> QED BY <1>0, <1>2, AppendProperties
<1>4. KindsIn(ws) \in Seq(Kinds) /\ Len(KindsIn(ws)) = n + 1
  <2> HIDE DEF ws
  <2> QED BY <1>1, KindsInType
<1>5. \A i \in 1 .. n + 1 : KindsIn(ws)[i] = Append(ks, v.kind)[i]
  <2> SUFFICES ASSUME NEW i \in 1 .. n + 1 PROVE KindsIn(ws)[i] = Append(ks, v.kind)[i]
    OBVIOUS
  <2> HIDE DEF ws, n
  <2>1. KindsIn(ws)[i] = ws[i].kind BY <1>1 DEF KindsIn
  <2>2. CASE i \in 1 .. n
    <3>1. ks[i] = vs[i].kind BY <2>2 DEF KindsIn, n
    <3> QED BY <2>1, <2>2, <1>1, <1>3, <3>1, Zenon
  <2>3. CASE i = n + 1 BY <2>1, <2>3, <1>1, <1>3, Zenon
  <2>4. i \in 1 .. n \/ i = n + 1 BY <1>1
  <2> QED BY <2>2, <2>3, <2>4, Zenon
<1> HIDE DEF ks, ws, n
<1>6. KindsIn(ws) = Append(ks, v.kind) BY <1>3, <1>4, <1>5, SeqEqual
<1> QED BY <1>6 DEF ks, ws

(* Values take one slot for each reference among them more than a compiler *)
(* counts.                                                                 *)
LEMMA FlattenLength ==
  ASSUME NEW vs \in Seq(Value)
  PROVE  /\ Len(Flatten(vs)) = CompilerDepth(KindsIn(vs)) + References(KindsIn(vs))
         /\ CompilerDepth(KindsIn(vs)) \in Nat
         /\ References(KindsIn(vs)) \in Nat
<1> DEFINE Counts(ws) == Len(Flatten(ws)) = Len(ws) + Count(KindsIn(ws), "J") + Count(KindsIn(ws), "R")
           S == {ws \in Seq(Value) : Counts(ws)}
<1>1. << >> \in S
  <2>1. << >> \in Seq(Value) /\ Len(<< >>) = 0 OBVIOUS
  <2>2. KindsIn(<< >>) = << >> BY DEF KindsIn
  <2>3. Counts(<< >>) BY <2>1, <2>2, FlattenEmpty, CountEmpty
  <2> QED BY <2>1, <2>3
<1>2. \A ws \in Seq(Value), v \in Value : ws \in S => Append(ws, v) \in S
  <2> SUFFICES ASSUME NEW ws \in Seq(Value), NEW v \in Value, ws \in S PROVE Append(ws, v) \in S
    OBVIOUS
  <2> DEFINE ks == KindsIn(ws)
  <2>1. ks \in Seq(Kinds) /\ v.kind \in Kinds BY KindsInType DEF Value
  <2>2. KindsIn(Append(ws, v)) = Append(ks, v.kind) BY KindsInAppend, Zenon
  <2> HIDE DEF ks
  <2>3. Count(ks, "J") \in Nat /\ Count(ks, "R") \in Nat BY <2>1, CountType
  <2>4. /\ Count(Append(ks, v.kind), "J") = Count(ks, "J") + (IF v.kind = "J" THEN 1 ELSE 0)
        /\ Count(Append(ks, v.kind), "R") = Count(ks, "R") + (IF v.kind = "R" THEN 1 ELSE 0)
    BY <2>1, CountAppend
  <2>5. Flatten(Append(ws, v)) = Flatten(ws) \o Slots(v) BY FlattenAppend, Zenon
  <2>6. Len(Flatten(Append(ws, v))) = Len(Flatten(ws)) + (IF v.kind = "I" THEN 1 ELSE 2)
    <3>1. Flatten(ws) \in Seq(Slot) /\ Slots(v) \in Seq(Slot) /\ Len(Slots(v)) = IF v.kind = "I" THEN 1 ELSE 2
      BY FlattenType, SlotsType, Zenon
    <3> DEFINE a == Flatten(ws)  b == Slots(v)  c == Flatten(Append(ws, v))
               n == IF v.kind = "I" THEN 1 ELSE 2
    <3>2. a \in Seq(Slot) /\ b \in Seq(Slot) /\ c = a \o b /\ Len(b) = n BY <2>5, <3>1, Zenon
    <3> HIDE DEF a, b, c, n
    <3>3. Len(c) = Len(a) + n
      <4>1. Len(a \o b) = Len(a) + Len(b) BY <3>2, ConcatProperties
      <4> QED BY <3>2, <4>1, Zenon
    <3> QED BY <3>3 DEF a, b, c, n
  <2>7. Append(ws, v) \in Seq(Value) /\ Len(Append(ws, v)) = Len(ws) + 1 /\ Len(ws) \in Nat
    OBVIOUS
  <2>8. Len(Flatten(ws)) = Len(ws) + Count(ks, "J") + Count(ks, "R") BY DEF ks
  <2>9. Counts(Append(ws, v))
    <3>1. v.kind \in {"I", "J", "R"} BY <2>1 DEF Kinds
    <3> DEFINE xs == Append(ws, v)  ls == Append(ks, v.kind)  a == Len(Flatten(ws))
               b == Len(Flatten(xs))
    <3>2. /\ b = a + (IF v.kind = "I" THEN 1 ELSE 2) /\ Len(xs) = Len(ws) + 1 /\ KindsIn(xs) = ls
          /\ Count(ls, "J") = Count(ks, "J") + (IF v.kind = "J" THEN 1 ELSE 0)
          /\ Count(ls, "R") = Count(ks, "R") + (IF v.kind = "R" THEN 1 ELSE 0)
          /\ a = Len(ws) + Count(ks, "J") + Count(ks, "R")
      BY <2>2, <2>4, <2>6, <2>7, <2>8, Zenon
    <3> HIDE DEF xs, ls, a, b
    <3>3. b = Len(xs) + Count(ls, "J") + Count(ls, "R")
      BY <3>1, <3>2, <2>3, <2>7, SMTT(30)
    <3> QED BY <3>2, <3>3 DEF xs, b
  <2> QED BY <2>7, <2>9, Zenon
<1>3. vs \in S
  <2> HIDE DEF S
  <2> QED BY <1>1, <1>2, SeqInduction
<1>4. Count(KindsIn(vs), "J") \in Nat /\ Count(KindsIn(vs), "R") \in Nat
  BY KindsInType, CountType
<1>5. Len(KindsIn(vs)) = Len(vs) /\ Len(vs) \in Nat BY KindsInType
<1> QED BY <1>3, <1>4, <1>5 DEF CompilerDepth, References

-----------------------------------------------------------------------------
(* Descriptors as tokens *)
Token == {"["} \cup Bases
Brackets(t) == [j \in 1 .. t.dims |-> "["]

(* What the assumption on Params says of one method. *)
LEMMA ParamType ==
  ASSUME NEW m \in Methods
  PROVE  /\ Params[m] \in Seq([dims : Nat, base : Bases])
         /\ \A i \in 1 .. Len(Params[m]) :
              /\ Params[m][i].dims \in Nat /\ Params[m][i].base \in Bases
              /\ Brackets(Params[m][i]) \in Seq(Token)
              /\ Len(Brackets(Params[m][i])) = Params[m][i].dims
              /\ \A j \in 1 .. Params[m][i].dims : Brackets(Params[m][i])[j] = "["
<1>1. Params[m] \in Seq([dims : Nat, base : Bases]) BY MethodAssumption
<1>2. \A t \in [dims : Nat, base : Bases] :
        /\ t.dims \in Nat /\ t.base \in Bases
        /\ Brackets(t) \in Seq(Token) /\ Len(Brackets(t)) = t.dims
        /\ \A j \in 1 .. t.dims : Brackets(t)[j] = "["
  BY DEF Brackets, Token
<1>3. \A i \in 1 .. Len(Params[m]) : Params[m][i] \in [dims : Nat, base : Bases]
  BY <1>1, ElementOfSeq
<1> QED BY <1>1, <1>2, <1>3, Zenon

(* Descriptor computes what its recursive definition says. *)
LEMMA DescriptorSteps ==
  ASSUME NEW m \in Methods
  PROVE  \E f \in [0 .. Len(Params[m]) -> Seq(Token)] :
           /\ Descriptor(m) = f[Len(Params[m])]
           /\ f[0] = << >>
           /\ \A i \in 1 .. Len(Params[m]) :
                f[i] = f[i - 1] \o Brackets(Params[m][i]) \o <<Params[m][i].base>>
<1> DEFINE ps == Params[m]
           n == Len(ps)
           V == Seq(Token)
           tokens[i \in 0 .. n] ==
             IF i = 0 THEN << >>
             ELSE tokens[i - 1] \o [j \in 1 .. ps[i].dims |-> "["] \o <<ps[i].base>>
           Step(g) == [i \in 0 .. n |-> IF i = 0 THEN << >>
                                        ELSE g[i - 1] \o Brackets(ps[i]) \o <<ps[i].base>>]
           G == [i \in 1 .. n |-> [s \in V |-> s \o Brackets(ps[i]) \o <<ps[i].base>>]]
<1>0. n \in Nat /\ << >> \in V BY ParamType
<1>1. G \in [1 .. n -> [V -> V]]
  <2>1. \A i \in 1 .. n : Brackets(ps[i]) \in V /\ ps[i].base \in Token BY ParamType DEF Token
  <2>2. \A i \in 1 .. n : <<ps[i].base>> \in V
    <3>1. \A t \in Token : <<t>> \in V OBVIOUS
    <3> QED BY <2>1, <3>1, Zenon
  <2>3. \A s, t, u \in V : s \o t \o u \in V OBVIOUS
  <2> HIDE DEF V, n, ps
  <2> QED BY <2>1, <2>2, <2>3
<1>2. PICK f \in [0 .. n -> V] : f[0] = << >> /\ \A i \in 1 .. n : f[i] = G[i][f[i - 1]]
  <2> HIDE DEF G, n, V, tokens
  <2>1. \E f : Iterates(f, n, V, << >>, G) BY <1>0, <1>1, RecursionExists, Zenon
  <2> QED BY <2>1, Zenon DEF Iterates
<1>3. \A i \in 1 .. n : f[i] = f[i - 1] \o Brackets(ps[i]) \o <<ps[i].base>>
  <2> SUFFICES ASSUME NEW i \in 1 .. n
               PROVE  f[i] = f[i - 1] \o Brackets(ps[i]) \o <<ps[i].base>>
    OBVIOUS
  <2>1. f[i] = G[i][f[i - 1]] BY <1>2, Zenon
  <2>2. f[i - 1] \in V
    <3>1. i - 1 \in 0 .. n BY <1>0
    <3> QED BY <3>1, Zenon
  <2> QED BY <2>1, <2>2, Zenon
<1> HIDE DEF G, V
<1>4. f = Step(f)
  <2>1. f = [i \in 0 .. n |-> f[i]] BY Zenon
  <2>2. Step(f) = [i \in 0 .. n |-> Step(f)[i]] BY Zenon
  <2>3. \A i \in 0 .. n : f[i] = Step(f)[i]
    <3> SUFFICES ASSUME NEW i \in 0 .. n PROVE f[i] = Step(f)[i] OBVIOUS
    <3>1. CASE i = 0
      <4>1. 0 \in 0 .. n BY <1>0
      <4> QED BY <4>1, <3>1, <1>2, Zenon
    <3>2. CASE i # 0
      <4>1. i \in 1 .. n BY <3>2
      <4> QED BY <4>1, <3>2, <1>3, Zenon
    <3> QED BY <3>1, <3>2
  <2> QED BY <2>1, <2>2, <2>3, SameFunction, Zenon
<1>5. tokens = Step(tokens)
  BY <1>4 DEF Brackets
<1>6. Descriptor(m) = tokens[n] BY DEF Descriptor
<1> HIDE DEF tokens, n, ps
<1>7. 0 \in 0 .. n /\ (\A i \in 1 .. n : i \in 0 .. n /\ i # 0) BY <1>0
<1>8. tokens[0] = f[0] BY <1>2, <1>5, <1>7, Zenon
<1>9. \A i \in 1 .. n : tokens[i - 1] = f[i - 1] => tokens[i] = f[i]
  <2> SUFFICES ASSUME NEW i \in 1 .. n, tokens[i - 1] = f[i - 1] PROVE tokens[i] = f[i] OBVIOUS
  <2>1. tokens[i] = tokens[i - 1] \o Brackets(ps[i]) \o <<ps[i].base>> BY <1>5, <1>7, Zenon
  <2> QED BY <1>3, <2>1, Zenon
<1>10. tokens[n] = f[n] BY <1>0, <1>8, <1>9, SameIteration
<1> QED BY <1>2, <1>3, <1>6, <1>10, Zenon DEF n, ps, V

(* The parser, one token at a time *)
ParseState == [types : Seq(Token), is_array : BOOLEAN]

(* What ParseMethodDescriptor makes of one token *)
Parsed(p, token) ==
  IF token = "[" THEN [types |-> p.types, is_array |-> TRUE]
  ELSE [types |-> Append(p.types, IF p.is_array THEN "[" ELSE token), is_array |-> FALSE]

(* A step of the parser makes a state of the parser. *)
LEMMA ParsedType ==
  ASSUME NEW p \in ParseState, NEW token \in Token
  PROVE  Parsed(p, token) \in ParseState
<1>1. p.types \in Seq(Token) /\ p.is_array \in BOOLEAN BY DEF ParseState
<1>2. CASE token = "["
  <2>1. Parsed(p, token) = [types |-> p.types, is_array |-> TRUE] BY <1>2, Zenon DEF Parsed
  <2>2. [types |-> p.types, is_array |-> TRUE] \in ParseState BY <1>1 DEF ParseState
  <2> QED BY <2>1, <2>2, Zenon
<1>3. CASE token # "["
  <2> DEFINE t == IF p.is_array THEN "[" ELSE token
  <2>1. t \in Token BY DEF Token
  <2> HIDE DEF t
  <2>2. Append(p.types, t) \in Seq(Token) BY <1>1, <2>1, AppendProperties
  <2>3. [types |-> Append(p.types, t), is_array |-> FALSE] \in ParseState BY <2>2 DEF ParseState
  <2>4. Parsed(p, token) = [types |-> Append(p.types, t), is_array |-> FALSE]
    BY <1>3, Zenon DEF Parsed, t
  <2> QED BY <2>3, <2>4, Zenon
<1> QED BY <1>2, <1>3

(* ParseMethodDescriptor computes what its recursive definition says. *)
LEMMA ParseSteps ==
  ASSUME NEW d \in Seq(Token)
  PROVE  \E f \in [0 .. Len(d) -> ParseState] :
           /\ ParseMethodDescriptor(d) = f[Len(d)].types
           /\ f[0] = [types |-> << >>, is_array |-> FALSE]
           /\ \A i \in 1 .. Len(d) : f[i] = Parsed(f[i - 1], d[i])
<1> DEFINE n == Len(d)
           a == [types |-> << >>, is_array |-> FALSE]
           parsed[i \in 0 .. n] ==
             IF i = 0 THEN [types |-> << >>, is_array |-> FALSE]
             ELSE LET p == parsed[i - 1] IN
                  IF d[i] = "[" THEN [types |-> p.types, is_array |-> TRUE]
                  ELSE [types |-> Append(p.types, IF p.is_array THEN "[" ELSE d[i]),
                        is_array |-> FALSE]
           Step(g) == [i \in 0 .. n |-> IF i = 0 THEN a ELSE Parsed(g[i - 1], d[i])]
           G == [i \in 1 .. n |-> [p \in ParseState |-> Parsed(p, d[i])]]
<1>0. n \in Nat /\ a \in ParseState BY DEF ParseState
<1>1. G \in [1 .. n -> [ParseState -> ParseState]]
  <2>1. \A i \in 1 .. n : d[i] \in Token OBVIOUS
  <2>2. \A i \in 1 .. n : \A p \in ParseState : Parsed(p, d[i]) \in ParseState
    BY <2>1, ParsedType, Zenon
  <2> QED BY <2>2, Zenon
<1>2. PICK f \in [0 .. n -> ParseState] : f[0] = a /\ \A i \in 1 .. n : f[i] = G[i][f[i - 1]]
  <2> HIDE DEF G, n, parsed, a
  <2>1. \E f : Iterates(f, n, ParseState, a, G) BY <1>0, <1>1, RecursionExists, Zenon
  <2> QED BY <2>1, Zenon DEF Iterates
<1>3. \A i \in 1 .. n : f[i] = Parsed(f[i - 1], d[i])
  <2>1. \A i \in 1 .. n : i - 1 \in 0 .. n BY <1>0
  <2> QED BY <1>2, <2>1, Zenon
<1> HIDE DEF G
<1>7. 0 \in 0 .. n /\ (\A i \in 1 .. n : i \in 0 .. n /\ i # 0)
      /\ (\A i \in 0 .. n : i # 0 => i \in 1 .. n) BY <1>0
<1>4. f = Step(f)
  <2>1. f = [i \in 0 .. n |-> f[i]] BY Zenon
  <2>2. Step(f) = [i \in 0 .. n |-> Step(f)[i]] BY Zenon
  <2>3. \A i \in 0 .. n : f[i] = Step(f)[i] BY <1>2, <1>3, <1>7, Zenon
  <2> QED BY <2>1, <2>2, <2>3, SameFunction, Zenon
<1>5. parsed = Step(parsed)
  BY <1>4, Zenon DEF Parsed
<1>6. ParseMethodDescriptor(d) = parsed[n].types BY Zenon DEF ParseMethodDescriptor
<1> HIDE DEF parsed, n, a
<1>8. parsed[0] = f[0] BY <1>2, <1>5, <1>7, Zenon
<1>9. \A i \in 1 .. n : parsed[i - 1] = f[i - 1] => parsed[i] = f[i]
  BY <1>3, <1>5, <1>7, Zenon
<1>10. parsed[n] = f[n] BY <1>0, <1>8, <1>9, SameIteration
<1> QED BY <1>2, <1>3, <1>6, <1>10, Zenon DEF n, a

(* What ParseMethodDescriptor finds, by parameter *)
TypeOf(t) == IF t.dims > 0 THEN "[" ELSE t.base
TypesOf(m) == [i \in 1 .. Len(Params[m]) |-> TypeOf(Params[m][i])]

(* TypesOf is a sequence with one type for each parameter. *)
LEMMA TypesType ==
  ASSUME NEW m \in Methods
  PROVE  /\ TypesOf(m) \in Seq(Token) /\ Len(TypesOf(m)) = Len(Params[m])
         /\ \A i \in 1 .. Len(Params[m]) : TypesOf(m)[i] = TypeOf(Params[m][i])
<1>1. \A i \in 1 .. Len(Params[m]) : TypeOf(Params[m][i]) \in Token
  BY ParamType DEF TypeOf, Token
<1>2. Len(Params[m]) \in Nat BY ParamType
<1> QED BY <1>1, <1>2 DEF TypesOf

(* What the parser does with a bracket, the first or a later one. *)
LEMMA ParsedBracket ==
  \A u, b : Parsed([types |-> u, is_array |-> b], "[") = [types |-> u, is_array |-> TRUE]
BY DEF Parsed

(* t is s, then b, then e *)
Joins(t, s, b, e) ==
  /\ Len(t) = Len(s) + Len(b) + 1
  /\ \A j \in 1 .. Len(s) : t[j] = s[j]
  /\ \A j \in 1 .. Len(b) : t[Len(s) + j] = b[j]
  /\ t[Len(s) + Len(b) + 1] = e

(* The elements of two sequences and one more element put together. *)
LEMMA ThreeParts ==
  ASSUME NEW A, NEW s \in Seq(A), NEW b \in Seq(A), NEW e \in A
  PROVE  Joins(s \o b \o <<e>>, s, b, e)
<1> DEFINE c == s \o b
<1>1. /\ c \in Seq(A) /\ Len(c) = Len(s) + Len(b) /\ Len(s) \in Nat /\ Len(b) \in Nat
      /\ \A j \in 1 .. Len(s) + Len(b) : c[j] = IF j <= Len(s) THEN s[j] ELSE b[j - Len(s)]
  BY ConcatProperties
<1> HIDE DEF c
<1>2. c \o <<e>> = Append(c, e) BY <1>1, AppendIsConcat
<1>3. /\ Len(c \o <<e>>) = Len(c) + 1 /\ (c \o <<e>>)[Len(c) + 1] = e
      /\ \A j \in 1 .. Len(c) : (c \o <<e>>)[j] = c[j]
  BY <1>1, <1>2, AppendProperties
<1>4. \A j \in 1 .. Len(s) : (c \o <<e>>)[j] = s[j]
  <2>1. \A j \in 1 .. Len(s) : c[j] = s[j] /\ j \in 1 .. Len(c) BY <1>1
  <2> QED BY <2>1, <1>3, Zenon
<1>5. \A j \in 1 .. Len(b) : (c \o <<e>>)[Len(s) + j] = b[j]
  <2>1. \A j \in 1 .. Len(b) : c[Len(s) + j] = b[j] /\ Len(s) + j \in 1 .. Len(c)
    <3> SUFFICES ASSUME NEW j \in 1 .. Len(b)
                 PROVE  c[Len(s) + j] = b[j] /\ Len(s) + j \in 1 .. Len(c)
      OBVIOUS
    <3>1. Len(s) + j \in 1 .. Len(s) + Len(b) /\ ~ (Len(s) + j <= Len(s)) /\ (Len(s) + j) - Len(s) = j
      BY <1>1
    <3> QED BY <1>1, <3>1, Zenon
  <2> QED BY <2>1, <1>3, Zenon
<1> QED BY <1>1, <1>3, <1>4, <1>5, Zenon DEF c, Joins

(* ParseMethodDescriptor finds one type for each parameter of the method,  *)
(* whatever the dimensions of its arrays: the flag is_array is set by any  *)
(* number of brackets and reset by the base type that follows them.        *)
THEOREM DescriptorParsed ==
  ASSUME NEW m \in Methods
  PROVE  ParseMethodDescriptor(Descriptor(m)) = TypesOf(m)
<1> DEFINE ps == Params[m]
           n == Len(ps)
           d == Descriptor(m)
           dims(i) == ps[i].dims
<1>0. n \in Nat /\ \A i \in 1 .. n : dims(i) \in Nat /\ ps[i].base \in Bases BY ParamType
<1>1. PICK tk \in [0 .. n -> Seq(Token)] :
        /\ d = tk[n] /\ tk[0] = << >>
        /\ \A i \in 1 .. n : tk[i] = tk[i - 1] \o Brackets(ps[i]) \o <<ps[i].base>>
  BY DescriptorSteps, Zenon
<1> DEFINE at(i) == Len(tk[i])
<1> HIDE DEF d, n
<1>2. \A i \in 1 .. n :
        /\ i - 1 \in 0 .. n /\ i \in 0 .. n
        /\ tk[i - 1] \in Seq(Token) /\ tk[i] \in Seq(Token)
        /\ at(i) = at(i - 1) + dims(i) + 1 /\ at(i - 1) \in Nat
        /\ \A j \in 1 .. at(i - 1) : tk[i][j] = tk[i - 1][j]
        /\ \A j \in 1 .. dims(i) : tk[i][at(i - 1) + j] = "["
        /\ tk[i][at(i - 1) + dims(i) + 1] = ps[i].base
  <2> SUFFICES ASSUME NEW i \in 1 .. n
               PROVE  /\ i - 1 \in 0 .. n /\ i \in 0 .. n
                      /\ tk[i - 1] \in Seq(Token) /\ tk[i] \in Seq(Token)
                      /\ at(i) = at(i - 1) + dims(i) + 1 /\ at(i - 1) \in Nat
                      /\ \A j \in 1 .. at(i - 1) : tk[i][j] = tk[i - 1][j]
                      /\ \A j \in 1 .. dims(i) : tk[i][at(i - 1) + j] = "["
                      /\ tk[i][at(i - 1) + dims(i) + 1] = ps[i].base
    OBVIOUS
  <2>1. i - 1 \in 0 .. n /\ i \in 0 .. n BY <1>0
  <2> DEFINE s == tk[i - 1]  b == Brackets(ps[i])  e == ps[i].base
  <2>2. s \in Seq(Token) /\ tk[i] \in Seq(Token) BY <2>1, Zenon
  <2>3. /\ b \in Seq(Token) /\ Len(b) = dims(i) /\ dims(i) \in Nat /\ e \in Token
        /\ \A j \in 1 .. dims(i) : b[j] = "["
    BY <1>0, ParamType DEF Token, n
  <2>4. tk[i] = s \o b \o <<e>> BY <1>1, Zenon
  <2> HIDE DEF s, b, e
  <2> DEFINE t == tk[i]
  <2>5. s \in Seq(Token) /\ b \in Seq(Token) /\ e \in Token /\ t = s \o b \o <<e>>
    BY <2>2, <2>3, <2>4, Zenon
  <2> HIDE DEF t
  <2>6. /\ Len(t) = Len(s) + Len(b) + 1
        /\ \A j \in 1 .. Len(s) : t[j] = s[j]
        /\ \A j \in 1 .. Len(b) : t[Len(s) + j] = b[j]
        /\ t[Len(s) + Len(b) + 1] = e
    <3>1. Joins(t, s, b, e) BY <2>5, ThreeParts, Zenon
    <3> QED BY <3>1 DEF Joins
  <2>7. Len(s) \in Nat BY <2>2
  <2> QED BY <2>1, <2>2, <2>3, <2>6, <2>7, Zenon DEF s, t, e
<1>3. d \in Seq(Token) /\ Len(d) \in Nat /\ \A i \in 0 .. n : at(i) \in Nat
  <2>1. n \in 0 .. n BY <1>0
  <2> QED BY <1>1, <2>1
<1>4. PICK p \in [0 .. Len(d) -> ParseState] :
        /\ ParseMethodDescriptor(d) = p[Len(d)].types
        /\ p[0] = [types |-> << >>, is_array |-> FALSE]
        /\ \A i \in 1 .. Len(d) : p[i] = Parsed(p[i - 1], d[i])
  BY <1>3, ParseSteps, Zenon
<1> DEFINE Extends(i, k) == at(k) <= at(i) /\ \A j \in 1 .. at(k) : tk[i][j] = tk[k][j]
           P == {i \in 0 .. n : \A k \in 0 .. i : Extends(i, k)}
<1>5. \A k \in 0 .. n : Extends(n, k)
  <2>1. 0 \in P BY <1>0, <1>3
  <2>2. \A i \in 0 .. n - 1 : i \in P => i + 1 \in P
    <3> SUFFICES ASSUME NEW i \in 0 .. n - 1, i \in P PROVE i + 1 \in P OBVIOUS
    <3>1. i + 1 \in 1 .. n /\ i + 1 \in 0 .. n /\ (i + 1) - 1 = i BY <1>0
    <3>2. at(i) <= at(i + 1) /\ \A j \in 1 .. at(i) : tk[i + 1][j] = tk[i][j]
      <4>1. at(i + 1) = at(i) + dims(i + 1) + 1 /\ at(i) \in Nat /\ dims(i + 1) \in Nat
        BY <1>0, <1>2, <3>1, Zenon
      <4>2. \A j \in 1 .. at(i) : tk[i + 1][j] = tk[i][j]
        <5> DEFINE l == i + 1
        <5>1. \A j \in 1 .. at(l - 1) : tk[l][j] = tk[l - 1][j] BY <1>2, <3>1, Zenon
        <5>2. l - 1 = i BY <3>1
        <5> HIDE DEF l
        <5>3. \A j \in 1 .. at(i) : tk[l][j] = tk[i][j] BY <5>1, <5>2, Zenon
        <5> QED BY <5>3 DEF l
      <4>3. at(i) <= at(i + 1)
        <5> HIDE DEF at, dims
        <5> QED BY <4>1
      <4> QED BY <4>2, <4>3, Zenon
    <3>3. \A k \in 0 .. i + 1 : Extends(i + 1, k)
      <4> SUFFICES ASSUME NEW k \in 0 .. i + 1 PROVE Extends(i + 1, k) OBVIOUS
      <4>1. CASE k = i + 1 BY <4>1, <1>3, <3>1
      <4>2. CASE k # i + 1
        <5>1. k \in 0 .. i /\ k \in 0 .. n /\ i \in 0 .. n BY <4>2, <1>0
        <5>2. Extends(i, k) BY <5>1, Zenon
        <5>3. at(k) \in Nat /\ at(i) \in Nat /\ at(i + 1) \in Nat BY <5>1, <3>1, <1>3, Zenon
        <5> QED BY <5>2, <5>3, <3>2
      <4> QED BY <4>1, <4>2
    <3> QED BY <3>1, <3>3, Zenon
  <2>3. n \in P
    <3> HIDE DEF P
    <3>1. 0 .. n \subseteq P BY <1>0, <2>1, <2>2, Induction
    <3> QED BY <1>0, <3>1
  <2> QED BY <2>3, Zenon
<1> DEFINE ts == TypesOf(m)
           Q == {i \in 0 .. n : p[at(i)] = [types |-> SubSeq(ts, 1, i), is_array |-> FALSE]}
<1>6. ts \in Seq(Token) /\ Len(ts) = n /\ \A i \in 1 .. n : ts[i] = TypeOf(ps[i])
  BY TypesType, Zenon DEF n
<1>7. 0 \in Q
  <2>1. SubSeq(ts, 1, 0) = << >> BY SubSeqEmpty
  <2>2. at(0) = 0 /\ 0 \in 0 .. n BY <1>0, <1>1
  <2> QED BY <2>1, <2>2, <1>4, Zenon
<1>8. \A i \in 0 .. n - 1 : i \in Q => i + 1 \in Q
  <2> SUFFICES ASSUME NEW i \in 0 .. n - 1, i \in Q PROVE i + 1 \in Q OBVIOUS
  <2> DEFINE l == i + 1  o == at(i)  D == dims(i + 1)  us == SubSeq(ts, 1, i)
  <2>1. l \in 1 .. n /\ l \in 0 .. n /\ l - 1 = i /\ i \in 0 .. n BY <1>0
  <2>2. D \in Nat /\ o \in Nat /\ at(l) = o + D + 1 /\ at(l) <= Len(d)
    BY <1>0, <1>1, <1>2, <1>3, <1>5, <2>1, Zenon
  <2>3. /\ \A j \in 1 .. D : d[o + j] = "["
        /\ d[o + D + 1] = ps[l].base
    <3>1. \A j \in 1 .. at(l) : d[j] = tk[l][j] BY <1>1, <1>5, <2>1, Zenon
    <3>2. /\ \A j \in 1 .. D : tk[l][o + j] = "["
          /\ tk[l][o + D + 1] = ps[l].base
      <4>1. D = dims(l) /\ o = at(i) OBVIOUS
      <4> HIDE DEF l, o, D, Q
      <4>2. /\ \A j \in 1 .. dims(l) : tk[l][at(l - 1) + j] = "["
            /\ tk[l][at(l - 1) + dims(l) + 1] = ps[l].base
        BY <1>2, <2>1, Zenon
      <4>3. l - 1 = i BY <2>1, Zenon
      <4>4. at(l - 1) = o BY <4>1, <4>3, Zenon
      <4> QED BY <4>1, <4>2, <4>4, Zenon
    <3>3. (\A j \in 1 .. D : o + j \in 1 .. at(l)) /\ o + D + 1 \in 1 .. at(l)
      <4> HIDE DEF at, o, D, l
      <4> QED BY <2>2
    <3> QED BY <3>1, <3>2, <3>3, Zenon
  <2>4. us \in Seq(Token) BY <1>6, <2>1, SubSeqProperties
  <2>5. p[o] = [types |-> us, is_array |-> FALSE] OBVIOUS
  <2> HIDE DEF l, o, D, us
  <2>6. p[o + D] = [types |-> us, is_array |-> D > 0]
    <3> DEFINE T == {j \in 0 .. D : p[o + j] = [types |-> us, is_array |-> j > 0]}
    <3>1. 0 \in T
      <4>1. o + 0 = o /\ 0 \in 0 .. D /\ (0 > 0) = FALSE BY <2>2
      <4> QED BY <2>5, <4>1, Zenon
    <3>2. \A j \in 0 .. D - 1 : j \in T => j + 1 \in T
      <4> SUFFICES ASSUME NEW j \in 0 .. D - 1, j \in T PROVE j + 1 \in T OBVIOUS
      <4>1. /\ j + 1 \in 1 .. D /\ j + 1 \in 0 .. D /\ o + (j + 1) \in 1 .. Len(d)
            /\ (o + (j + 1)) - 1 = o + j /\ (j + 1 > 0) = TRUE
        BY <1>3, <2>2
      <4>2. p[o + (j + 1)] = Parsed(p[o + j], "[") BY <1>4, <2>3, <4>1, Zenon
      <4>4. p[o + j] = [types |-> us, is_array |-> j > 0] BY Zenon
      <4>5. p[o + (j + 1)] = [types |-> us, is_array |-> TRUE]
        BY <4>2, <4>4, ParsedBracket, Zenon
      <4> QED BY <4>1, <4>5, Zenon
    <3>3. D \in T
      <4> HIDE DEF T
      <4>1. 0 .. D \subseteq T BY <2>2, <3>1, <3>2, Induction
      <4> QED BY <2>2, <4>1
    <3> QED BY <3>3
  <2>7. p[o + D + 1] = [types |-> Append(us, ts[l]), is_array |-> FALSE]
    <3>1. o + D + 1 \in 1 .. Len(d) /\ (o + D + 1) - 1 = o + D BY <1>3, <2>2
    <3>2. p[o + D + 1] = Parsed(p[o + D], ps[l].base) BY <1>4, <2>3, <3>1, Zenon
    <3>3. ps[l].base # "[" BY <1>0, <2>1 DEF Bases
    <3>4. p[o + D + 1] = [types |-> Append(p[o + D].types, IF p[o + D].is_array THEN "[" ELSE ps[l].base),
                          is_array |-> FALSE]
      BY <3>2, <3>3, Zenon DEF Parsed
    <3>5. p[o + D].types = us /\ p[o + D].is_array = (D > 0) BY <2>6
    <3>6. (IF p[o + D].is_array THEN "[" ELSE ps[l].base) = ts[l]
      BY <3>5, <1>6, <2>1, Zenon DEF TypeOf, D, l
    <3> QED BY <3>4, <3>5, <3>6, Zenon
  <2>8. SubSeq(ts, 1, l) = Append(us, ts[l])
    <3>1. l \in 1 .. Len(ts) /\ 1 \in 1 .. Len(ts) /\ l \in 1 .. Len(ts) /\ ts[l] \in Token
      BY <1>6, <2>1
    <3>2. SubSeq(ts, 1, l) = SubSeq(ts, 1, l - 1) \o <<ts[l]>>
      BY <1>6, <3>1, SubSeqRecursiveSecond, Zenon
    <3>3. Append(us, ts[l]) = us \o <<ts[l]>> BY <2>4, <3>1, AppendIsConcat, Zenon
    <3> QED BY <2>1, <3>2, <3>3, Zenon DEF us
  <2> QED BY <2>1, <2>2, <2>7, <2>8, Zenon DEF l
<1>9. n \in Q
  <2> HIDE DEF Q
  <2>1. 0 .. n \subseteq Q BY <1>0, <1>7, <1>8, Induction
  <2> QED BY <1>0, <2>1
<1>10. SubSeq(ts, 1, n) = ts BY <1>6, SubSeqFull, Zenon
<1>11. p[Len(d)] = [types |-> ts, is_array |-> FALSE] BY <1>1, <1>9, <1>10, Zenon
<1> QED BY <1>4, <1>11 DEF d

(* A prefix of a sequence and the one that is one longer. *)
LEMMA PrefixStep ==
  ASSUME NEW A, NEW s \in Seq(A), NEW l \in 1 .. Len(s)
  PROVE  /\ SubSeq(s, 1, l - 1) \in Seq(A)
         /\ SubSeq(s, 1, l) = Append(SubSeq(s, 1, l - 1), s[l])
<1>1. l \in 1 .. Len(s) /\ 1 \in 1 .. Len(s) /\ s[l] \in A OBVIOUS
<1>2. SubSeq(s, 1, l) = SubSeq(s, 1, l - 1) \o <<s[l]>>
  BY <1>1, SubSeqRecursiveSecond, Zenon
<1>3. SubSeq(s, 1, l - 1) \in Seq(A) BY SubSeqProperties
<1> QED BY <1>1, <1>2, <1>3, AppendIsConcat, Zenon

(* Count of two sequences put together. *)
LEMMA CountConcat ==
  ASSUME NEW A, NEW s \in Seq(A), NEW t \in Seq(A), NEW kind
  PROVE  Count(s \o t, kind) = Count(s, kind) + Count(t, kind)
<1> DEFINE S == {u \in Seq(A) : Count(s \o u, kind) = Count(s, kind) + Count(u, kind)}
<1>1. << >> \in S
  <2>1. s \o << >> = s /\ << >> \in Seq(A) BY ConcatEmptySeq
  <2>2. Count(s, kind) + 0 = Count(s, kind) BY CountType
  <2> QED BY <2>1, <2>2, CountEmpty, Zenon
<1>2. \A u \in Seq(A), e \in A : u \in S => Append(u, e) \in S
  <2> SUFFICES ASSUME NEW u \in Seq(A), NEW e \in A, u \in S PROVE Append(u, e) \in S
    OBVIOUS
  <2>1. s \o Append(u, e) = Append(s \o u, e) /\ s \o u \in Seq(A) /\ Append(u, e) \in Seq(A)
    OBVIOUS
  <2> DEFINE x == IF e = kind THEN 1 ELSE 0
  <2>2. Count(s \o Append(u, e), kind) = Count(s \o u, kind) + x
    <3> DEFINE w == s \o u
    <3>1. w \in Seq(A) BY <2>1
    <3>2. Count(Append(w, e), kind) = Count(w, kind) + x
      <4> HIDE DEF w
      <4> QED BY <3>1, CountAppend
    <3> QED BY <2>1, <3>2, Zenon
  <2>3. Count(Append(u, e), kind) = Count(u, kind) + x BY CountAppend
  <2>4. Count(s, kind) \in Nat /\ Count(u, kind) \in Nat /\ x \in Nat BY CountType
  <2>5. Count(s \o u, kind) = Count(s, kind) + Count(u, kind) BY Zenon
  <2> HIDE DEF x
  <2>6. Count(s \o Append(u, e), kind) = Count(s, kind) + Count(Append(u, e), kind)
    BY <2>2, <2>3, <2>4, <2>5
  <2> QED BY <2>1, <2>6, Zenon
<1>3. t \in S
  <2> HIDE DEF S
  <2> QED BY <1>1, <1>2, SeqInduction
<1> QED BY <1>3, Zenon

(* ArgKinds has the kinds of the parameters, after that of the receiver. *)
LEMMA ParamKindsType ==
  ASSUME NEW m \in Methods
  PROVE  /\ ParamKinds(m) \in Seq(Kinds) /\ Len(ParamKinds(m)) = Len(Params[m])
         /\ \A i \in 1 .. Len(Params[m]) : ParamKinds(m)[i] = KindOf(Params[m][i])
         /\ ArgKinds(m) \in Seq(Kinds)
         /\ m \in Static => ArgKinds(m) = ParamKinds(m)
         /\ m \notin Static => ArgKinds(m) = <<"R">> \o ParamKinds(m)
<1>1. \A i \in 1 .. Len(Params[m]) : KindOf(Params[m][i]) \in Kinds
  BY ParamType DEF KindOf, Bases, Kinds
<1>2. Len(Params[m]) \in Nat BY ParamType
<1>3. /\ ParamKinds(m) \in Seq(Kinds) /\ Len(ParamKinds(m)) = Len(Params[m])
      /\ \A i \in 1 .. Len(Params[m]) : ParamKinds(m)[i] = KindOf(Params[m][i])
  BY <1>1, <1>2 DEF ParamKinds
<1>4. <<"R">> \in Seq(Kinds) BY DEF Kinds
<1>5. m \in Static => ArgKinds(m) = ParamKinds(m)
  <2>1. m \in Static => ArgKinds(m) = << >> \o ParamKinds(m) BY Zenon DEF ArgKinds
  <2> QED BY <1>3, <2>1, ConcatEmptySeq, Zenon
<1>6. m \notin Static => ArgKinds(m) = <<"R">> \o ParamKinds(m)
  BY Zenon DEF ArgKinds
<1>7. <<"R">> \o ParamKinds(m) \in Seq(Kinds) BY <1>3, <1>4, ConcatProperties, Zenon
<1> QED BY <1>3, <1>5, <1>6, <1>7, Zenon

(* The slots a compiler counts for the arguments of a call. *)
LEMMA CompilerDepthOfCall ==
  ASSUME NEW m \in Methods
  PROVE  CompilerDepth(ArgKinds(m)) =
           (IF m \in Static THEN 0 ELSE 1) + Len(Params[m]) + Count(ParamKinds(m), "J")
<1> DEFINE ks == ParamKinds(m)
<1>1. ks \in Seq(Kinds) /\ Len(ks) = Len(Params[m]) /\ Count(ks, "J") \in Nat /\ Len(ks) \in Nat
  <2>1. ks \in Seq(Kinds) /\ Len(ks) = Len(Params[m]) BY ParamKindsType, Zenon
  <2> HIDE DEF ks
  <2> QED BY <2>1, CountType
<1>2. CASE m \in Static
  <2>1. ArgKinds(m) = ks BY <1>2, ParamKindsType, Zenon
  <2> HIDE DEF ks
  <2> QED BY <1>1, <1>2, <2>1 DEF CompilerDepth, ks
<1>3. CASE m \notin Static
  <2> DEFINE r == <<"R">>
  <2>1. ArgKinds(m) = r \o ks BY <1>3, ParamKindsType, Zenon
  <2>2. r \in Seq(Kinds) /\ Len(r) = 1 BY DEF Kinds
  <2>3. Count(r, "J") = 0
    <3>1. r = Append(<< >>, "R") /\ << >> \in Seq(Kinds) /\ "R" \in Kinds BY DEF Kinds
    <3>2. Count(Append(<< >>, "R"), "J") = Count(<< >>, "J") + IF "R" = "J" THEN 1 ELSE 0
      BY <3>1, CountAppend, ZenonT(40)
    <3> QED BY <3>1, <3>2, CountEmpty
  <2> HIDE DEF ks, r
  <2>4. Count(r \o ks, "J") = Count(ks, "J")
    <3>1. Count(r \o ks, "J") = Count(r, "J") + Count(ks, "J")
      BY <1>1, <2>2, CountConcat, Zenon
    <3> QED BY <3>1, <2>3, <1>1
  <2>5. Len(r \o ks) = 1 + Len(ks) BY <1>1, <2>2, ConcatProperties
  <2> QED BY <1>1, <1>3, <2>1, <2>4, <2>5 DEF CompilerDepth, ks
<1> QED BY <1>2, <1>3

(* CalcArgSlotCount, which adds up what ParseMethodDescriptor finds in the *)
(* descriptor, is the number of slots a compiler counts for the arguments, *)
(* the receiver included: a reference is one slot, although the frames     *)
(* keep it in two.                                                         *)
THEOREM ArgSlotCount ==
  ASSUME NEW m \in Methods
  PROVE  CalcArgSlotCount(m) = CompilerDepth(ArgKinds(m))
<1> DEFINE n == Len(Params[m])
           ts == TypesOf(m)
           ks == ParamKinds(m)
           a == IF m \in Static THEN 0 ELSE 1
           count[i \in 0 .. Len(ts)] ==
             IF i = 0 THEN (IF m \in Static THEN 0 ELSE 1)
             ELSE count[i - 1] + (IF ts[i] = "J" THEN 2 ELSE 1)
           f == [i \in 0 .. n |-> a + i + Count(SubSeq(ks, 1, i), "J")]
           Step(g) == [i \in 0 .. n |-> IF i = 0 THEN a ELSE g[i - 1] + (IF ts[i] = "J" THEN 2 ELSE 1)]
<1>0. n \in Nat /\ a \in Nat BY ParamType
<1>1. Len(ts) = n /\ \A i \in 1 .. n : ts[i] = TypeOf(Params[m][i]) BY TypesType, Zenon
<1>2. ks \in Seq(Kinds) /\ Len(ks) = n /\ \A i \in 1 .. n : ks[i] = KindOf(Params[m][i])
  BY ParamKindsType, Zenon
<1>3. \A i \in 1 .. n : ts[i] = "J" <=> ks[i] = "J"
  <2>1. \A i \in 1 .. n : Params[m][i].dims \in Nat /\ Params[m][i].base \in Bases BY ParamType
  <2> HIDE DEF n, ts, ks
  <2>2. \A i \in 1 .. n : TypeOf(Params[m][i]) = "J" <=> KindOf(Params[m][i]) = "J"
    BY <2>1 DEF TypeOf, KindOf, Bases
  <2> QED BY <1>1, <1>2, <2>2, Zenon
<1>4. CalcArgSlotCount(m) = count[Len(ts)]
  <2>1. ts = ParseMethodDescriptor(Descriptor(m)) BY DescriptorParsed, Zenon
  <2> HIDE DEF ts
  <2> QED BY <2>1 DEF CalcArgSlotCount
<1> HIDE DEF a, ts, ks, n
<1>5. \A i \in 0 .. n : SubSeq(ks, 1, i) \in Seq(Kinds) /\ Count(SubSeq(ks, 1, i), "J") \in Nat
  <2> SUFFICES ASSUME NEW i \in 0 .. n
               PROVE  SubSeq(ks, 1, i) \in Seq(Kinds) /\ Count(SubSeq(ks, 1, i), "J") \in Nat
    OBVIOUS
  <2>1. SubSeq(ks, 1, i) \in Seq(Kinds)
    <3>1. \A j \in 1 .. i : ks[j] \in Kinds BY <1>0, <1>2
    <3> QED BY <3>1, SubSeqProperties
  <2> QED BY <2>1, CountType
<1>6. f[0] = a
  <2>1. SubSeq(ks, 1, 0) = << >> BY SubSeqEmpty
  <2>2. a + 0 + 0 = a /\ 0 \in 0 .. n BY <1>0
  <2> QED BY <2>1, <2>2, CountEmpty, Zenon
<1>7. \A i \in 1 .. n : f[i] = f[i - 1] + (IF ts[i] = "J" THEN 2 ELSE 1)
  <2> SUFFICES ASSUME NEW i \in 1 .. n PROVE f[i] = f[i - 1] + (IF ts[i] = "J" THEN 2 ELSE 1)
    OBVIOUS
  <2>1. i \in 0 .. n /\ i - 1 \in 0 .. n /\ i \in 1 .. Len(ks) /\ ks[i] \in Kinds BY <1>0, <1>2
  <2>2. SubSeq(ks, 1, i - 1) \in Seq(Kinds) /\ SubSeq(ks, 1, i) = Append(SubSeq(ks, 1, i - 1), ks[i])
    BY <1>2, <2>1, PrefixStep, Zenon
  <2> DEFINE us == SubSeq(ks, 1, i - 1)  c == Count(us, "J")  e == Count(SubSeq(ks, 1, i), "J")
  <2>3. c \in Nat BY <1>5, <2>1, Zenon
  <2>4. e = c + IF ks[i] = "J" THEN 1 ELSE 0
    <3>0. us \in Seq(Kinds) BY <2>2
    <3>1. Count(Append(us, ks[i]), "J") = Count(us, "J") + IF ks[i] = "J" THEN 1 ELSE 0
      <4> HIDE DEF us
      <4> QED BY <2>1, <3>0, CountAppend
    <3> QED BY <2>2, <3>1, Zenon
  <2>5. f[i] = a + i + e /\ f[i - 1] = a + (i - 1) + c BY <2>1, Zenon
  <2> HIDE DEF c, e, f
  <2> QED BY <1>0, <1>3, <2>3, <2>4, <2>5
<1>8. 0 \in 0 .. n /\ (\A i \in 1 .. n : i \in 0 .. n /\ i # 0)
      /\ (\A i \in 0 .. n : i # 0 => i \in 1 .. n) BY <1>0
<1>9. f = Step(f)
  <2>1. f = [i \in 0 .. n |-> f[i]] BY Zenon
  <2>2. Step(f) = [i \in 0 .. n |-> Step(f)[i]]
    <3> HIDE DEF f
    <3> QED BY Zenon
  <2>3. \A i \in 0 .. n : f[i] = Step(f)[i]
    <3> HIDE DEF f
    <3> QED BY <1>6, <1>7, <1>8, Zenon
  <2> HIDE DEF f
  <2> QED BY <2>1, <2>2, <2>3, SameFunction, Zenon
<1> HIDE DEF f
<1>10. count = Step(count) BY <1>1, <1>9, Zenon DEF a
<1> HIDE DEF count
<1>11. count[0] = f[0] BY <1>6, <1>8, <1>10, Zenon
<1>12. \A i \in 1 .. n : count[i - 1] = f[i - 1] => count[i] = f[i]
  BY <1>7, <1>8, <1>10, Zenon
<1>13. count[n] = f[n] BY <1>0, <1>11, <1>12, SameIteration
<1>14. f[n] = a + n + Count(ks, "J")
  <2>1. n \in 0 .. n BY <1>0
  <2>2. SubSeq(ks, 1, n) = ks BY <1>2, SubSeqFull, Zenon
  <2> QED BY <2>1, <2>2, Zenon DEF f
<1>15. CompilerDepth(ArgKinds(m)) = a + n + Count(ks, "J")
  BY CompilerDepthOfCall, Zenon DEF a, n, ks
<1> QED BY <1>1, <1>4, <1>13, <1>14, <1>15, Zenon

-----------------------------------------------------------------------------
(* The first elements and the rest make the sequence. *)
LEMMA FirstRest ==
  ASSUME NEW A, NEW s \in Seq(A), NEW k \in 0 .. Len(s)
  PROVE  /\ First(s, k) \in Seq(A) /\ Len(First(s, k)) = k
         /\ \A i \in 1 .. k : First(s, k)[i] = s[i]
         /\ Rest(s, k) \in Seq(A) /\ Len(Rest(s, k)) = Len(s) - k
         /\ \A i \in 1 .. Len(s) - k : Rest(s, k)[i] = s[k + i]
         /\ First(s, k) \o Rest(s, k) = s
<1>0. Len(s) \in Nat OBVIOUS
<1>1. /\ First(s, k) \in Seq(A) /\ Len(First(s, k)) = k
      /\ \A i \in 1 .. k : First(s, k)[i] = s[i]
  BY SubSeqProperties DEF First
<1>2. /\ Rest(s, k) \in Seq(A) /\ Len(Rest(s, k)) = Len(s) - k
      /\ \A i \in 1 .. Len(s) - k : Rest(s, k)[i] = s[k + i]
  BY SubSeqProperties DEF Rest
<1>3. First(s, k) \o Rest(s, k) = s
  <2>1. 1 \in 1 .. Len(s) + 1 /\ k \in 1 - 1 .. Len(s) /\ Len(s) \in k .. Len(s) BY <1>0
  <2>2. SubSeq(s, 1, k) \o SubSeq(s, k + 1, Len(s)) = SubSeq(s, 1, Len(s))
    BY <2>1, ConcatAdjacentSubSeq, Zenon
  <2>3. SubSeq(s, 1, Len(s)) = s BY SubSeqFull, Zenon
  <2> QED BY <2>2, <2>3, Zenon DEF First, Rest
<1> QED BY <1>1, <1>2, <1>3, Zenon

(* As many of the first elements as asked for. *)
LEMMA FirstLength ==
  \A A : \A s \in Seq(A) : \A k \in 0 .. Len(s) : Len(First(s, k)) = k
BY FirstRest

(* Of two sequences put together, the parts are found by their lengths. *)
LEMMA FirstRestOfConcat ==
  ASSUME NEW A, NEW s \in Seq(A), NEW t \in Seq(A), NEW u \in Seq(A), u = s \o t
  PROVE  First(u, Len(u) - Len(t)) = s /\ Rest(u, Len(u) - Len(t)) = t
<1>1. /\ Len(s) \in Nat /\ Len(t) \in Nat /\ Len(u) = Len(s) + Len(t)
      /\ \A i \in 1 .. Len(u) : u[i] = IF i <= Len(s) THEN s[i] ELSE t[i - Len(s)]
  BY ConcatProperties
<1>2. Len(s) \in 0 .. Len(u) /\ Len(u) - Len(t) = Len(s) BY <1>1
<1>3. First(u, Len(s)) = s
  <2>1. /\ First(u, Len(s)) \in Seq(A) /\ Len(First(u, Len(s))) = Len(s)
        /\ \A i \in 1 .. Len(s) : First(u, Len(s))[i] = u[i]
    BY <1>2, FirstRest, Zenon
  <2>2. \A i \in 1 .. Len(s) : u[i] = s[i] BY <1>1
  <2>3. \A i \in 1 .. Len(First(u, Len(s))) : First(u, Len(s))[i] = s[i] BY <2>1, <2>2, Zenon
  <2> QED BY <2>1, <2>3, SeqEqual, Zenon
<1>4. Rest(u, Len(s)) = t
  <2>1. /\ Rest(u, Len(s)) \in Seq(A) /\ Len(Rest(u, Len(s))) = Len(u) - Len(s)
        /\ \A i \in 1 .. Len(u) - Len(s) : Rest(u, Len(s))[i] = u[Len(s) + i]
    BY <1>2, FirstRest, Zenon
  <2>2. Len(u) - Len(s) = Len(t) /\ \A i \in 1 .. Len(t) : u[Len(s) + i] = t[i]
    <3>1. \A i \in 1 .. Len(t) : /\ Len(s) + i \in 1 .. Len(u) /\ ~ (Len(s) + i <= Len(s))
                                 /\ (Len(s) + i) - Len(s) = i
      BY <1>1
    <3>2. \A i \in 1 .. Len(t) : u[Len(s) + i] = t[(Len(s) + i) - Len(s)] BY <1>1, <3>1, Zenon
    <3>3. \A i \in 1 .. Len(t) : u[Len(s) + i] = t[i] BY <3>1, <3>2, Zenon
    <3> QED BY <1>1, <3>3
  <2>3. \A i \in 1 .. Len(Rest(u, Len(s))) : Rest(u, Len(s))[i] = t[i] BY <2>1, <2>2, Zenon
  <2> QED BY <2>1, <2>2, <2>3, SeqEqual, Zenon
<1> QED BY <1>2, <1>3, <1>4, Zenon

(* The kinds of the first values. *)
LEMMA KindsInFirst ==
  ASSUME NEW vs \in Seq(Value), NEW k \in 0 .. Len(vs)
  PROVE  KindsIn(First(vs, k)) = First(KindsIn(vs), k)
<1>1. /\ First(vs, k) \in Seq(Value) /\ Len(First(vs, k)) = k
      /\ \A i \in 1 .. k : First(vs, k)[i] = vs[i]
  BY FirstRest, Zenon
<1>2. KindsIn(vs) \in Seq(Kinds) /\ Len(KindsIn(vs)) = Len(vs) BY KindsInType
<1>3. /\ First(KindsIn(vs), k) \in Seq(Kinds) /\ Len(First(KindsIn(vs), k)) = k
      /\ \A i \in 1 .. k : First(KindsIn(vs), k)[i] = KindsIn(vs)[i]
  <2>1. k \in 0 .. Len(KindsIn(vs)) BY <1>2, Zenon
  <2> QED BY <1>2, <2>1, FirstRest, Zenon
<1>4. KindsIn(First(vs, k)) \in Seq(Kinds) /\ Len(KindsIn(First(vs, k))) = k
  BY <1>1, KindsInType
<1>5. \A i \in 1 .. k : KindsIn(First(vs, k))[i] = First(KindsIn(vs), k)[i]
  <2> SUFFICES ASSUME NEW i \in 1 .. k PROVE KindsIn(First(vs, k))[i] = First(KindsIn(vs), k)[i]
    OBVIOUS
  <2>1. i \in 1 .. Len(vs) /\ i \in 1 .. Len(First(vs, k)) BY <1>1
  <2>2. KindsIn(First(vs, k))[i] = First(vs, k)[i].kind BY <2>1, Zenon DEF KindsIn
  <2>3. KindsIn(vs)[i] = vs[i].kind BY <2>1, Zenon DEF KindsIn
  <2> QED BY <1>1, <1>3, <2>2, <2>3, Zenon
<1> QED BY <1>3, <1>4, <1>5, SeqEqual, Zenon

(* Nothing occurs in a prefix more often than in the sequence. *)
LEMMA CountFirst ==
  ASSUME NEW A, NEW s \in Seq(A), NEW k \in 0 .. Len(s), NEW kind
  PROVE  Count(First(s, k), kind) \in Nat /\ Count(First(s, k), kind) <= Count(s, kind)
<1> DEFINE a == First(s, k)  b == Rest(s, k)
<1>1. a \in Seq(A) /\ b \in Seq(A) /\ s = a \o b BY FirstRest, Zenon
<1> HIDE DEF a, b
<1>2. Count(s, kind) = Count(a, kind) + Count(b, kind) BY <1>1, CountConcat, Zenon
<1>3. Count(a, kind) \in Nat /\ Count(b, kind) \in Nat BY <1>1, CountType
<1> QED BY <1>2, <1>3 DEF a

(* Popping the slots of the newest values leaves the slots of the others. *)
LEMMA ValuesPopped ==
  ASSUME NEW vs \in Seq(Value), NEW k \in 0 .. Len(vs), NEW n,
         n = Len(Flatten(Rest(vs, k)))
  PROVE  /\ n \in Nat /\ Len(Flatten(First(vs, k))) \in Nat
         /\ Len(Flatten(vs)) = Len(Flatten(First(vs, k))) + n
         /\ First(Flatten(vs), Len(Flatten(vs)) - n) = Flatten(First(vs, k))
         /\ Rest(Flatten(vs), Len(Flatten(vs)) - n) = Flatten(Rest(vs, k))
<1> DEFINE a == First(vs, k)  b == Rest(vs, k)  fa == Flatten(a)  fb == Flatten(b)  f == Flatten(vs)
<1>1. a \in Seq(Value) /\ b \in Seq(Value) /\ vs = a \o b BY FirstRest, Zenon
<1>2. f = fa \o fb
  <2> HIDE DEF a, b
  <2> QED BY <1>1, FlattenConcat, Zenon
<1>3. fa \in Seq(Slot) /\ fb \in Seq(Slot) /\ f \in Seq(Slot)
  <2> HIDE DEF a, b
  <2> QED BY <1>1, FlattenType, Zenon
<1> HIDE DEF fa, fb, f
<1>4. Len(f) = Len(fa) + Len(fb) /\ Len(fa) \in Nat /\ Len(fb) \in Nat
  BY <1>2, <1>3, ConcatProperties
<1>5. First(f, Len(f) - Len(fb)) = fa /\ Rest(f, Len(f) - Len(fb)) = fb
  BY <1>2, <1>3, FirstRestOfConcat, Zenon
<1> QED BY <1>4, <1>5, Zenon DEF fa, fb, f

-----------------------------------------------------------------------------
(* The frames of a method, and all frames *)
FrameOf(m) ==
  [method : {m}, locals : [0 .. MaxLocalsOf(m) - 1 -> Slot], stack : Seq(Slot),
   args : Seq(Value), this : Slot, shadow : Seq(Value), left : Int,
   invoked : BOOLEAN, clean : BOOLEAN]
Frame == UNION {FrameOf(m) : m \in Methods}

(* The properties, of one frame: SlotsAccounted, ValuesArrive,             *)
(* ReceiverFound                                                           *)
Accounted(f) == Len(f.stack) = Len(Flatten(f.shadow)) + f.left

Arrived(f) ==
  /\ f.stack = Flatten(f.shadow)
  /\ \A j \in 1 .. Len(Flatten(f.args)) : f.locals[j - 1] = Flatten(f.args)[j]

Found(f) ==
  f.invoked /\ f.method \notin Static /\ References(ArgKinds(f.method)) = 1
    => f.this = Half(f.args[1], 1)

(* What holds of each frame.  A clean frame has got no reference, unless   *)
(* it is that of main, whose only argument is one.                         *)
FrameOK(f) ==
  /\ KindsIn(f.args) = ArgKinds(f.method)
  /\ Accounted(f)
  /\ f.clean => Arrived(f) /\ (References(ArgKinds(f.method)) = 0 \/ f.method = Main)
  /\ Found(f)

(* The newest frame is about to pass more than one reference *)
WildCall == \E m \in Methods \ Static : MayCall(m) /\ References(ArgKinds(m)) > 1

(* The frames are as they should be, that of main first *)
StackOK(fs) ==
  /\ fs \in Seq(Frame)
  /\ \A i \in 1 .. Len(fs) : FrameOK(fs[i])
  /\ fs # << >> => fs[1].method = Main

(* The inductive invariant *)
IInv ==
  /\ status \in {"ok", "done", "fatal", "segv"}
  /\ StackOK(frames)
  /\ Running => frames # << >>
  /\ status = "segv" /\ Newest.clean => WildCall

-----------------------------------------------------------------------------
(* The sizes of methods are numbers. *)
LEMMA SizesType ==
  ASSUME NEW m \in Methods
  PROVE  /\ CompilerDepth(ArgKinds(m)) \in Nat /\ References(ArgKinds(m)) \in Nat
         /\ CalcArgSlotCount(m) \in Nat /\ MaxLocalsOf(m) \in Nat /\ MaxStackOf(m) \in Nat
<1>1. ArgKinds(m) \in Seq(Kinds) BY ParamKindsType, Zenon
<1>2. Len(ArgKinds(m)) \in Nat /\ Count(ArgKinds(m), "J") \in Nat /\ Count(ArgKinds(m), "R") \in Nat
  BY <1>1, CountType
<1>3. CompilerDepth(ArgKinds(m)) \in Nat /\ References(ArgKinds(m)) \in Nat
  BY <1>2 DEF CompilerDepth, References
<1>4. CalcArgSlotCount(m) \in Nat BY <1>3, ArgSlotCount, Zenon
<1> QED BY <1>3, <1>4, MethodAssumption DEF MaxLocalsOf, MaxStackOf

(* The fields of a frame. *)
LEMMA FrameFields ==
  ASSUME NEW f \in Frame
  PROVE  /\ f.method \in Methods /\ f.locals \in [0 .. MaxLocalsOf(f.method) - 1 -> Slot]
         /\ f.stack \in Seq(Slot) /\ f.args \in Seq(Value) /\ f.this \in Slot
         /\ f.shadow \in Seq(Value) /\ f.left \in Int /\ f.invoked \in BOOLEAN /\ f.clean \in BOOLEAN
<1>1. PICK m \in Methods : f \in FrameOf(m) BY Zenon DEF Frame
<1>2. f.method = m BY <1>1 DEF FrameOf
<1> QED BY <1>1, <1>2 DEF FrameOf

(* g differs from f in its operand stack and history only; g has these *)
Same(g, f) ==
  /\ g \in Frame
  /\ g.method = f.method /\ g.locals = f.locals /\ g.args = f.args /\ g.this = f.this
  /\ g.invoked = f.invoked

Holds(g, stack, shadow, left, clean) ==
  g.stack = stack /\ g.shadow = shadow /\ g.left = left /\ g.clean = clean

(* Pushed changes the operand stack and its history. *)
LEMMA FramePushed ==
  ASSUME NEW f \in Frame, NEW slots \in Seq(Slot), NEW v \in Value, NEW g, g = Pushed(f, slots, v)
  PROVE  Same(g, f) /\ Holds(g, f.stack \o slots, Append(f.shadow, v), f.left, f.clean)
<1>1. PICK m \in Methods : f \in FrameOf(m) BY Zenon DEF Frame
<1>2. g \in FrameOf(m)
  <2> DEFINE a == f.stack \o slots  b == Append(f.shadow, v)
  <2>1. g = [f EXCEPT !.stack = a, !.shadow = b] BY Zenon DEF Pushed
  <2>2. a \in Seq(Slot) /\ b \in Seq(Value)
    BY FrameFields, ConcatProperties, AppendProperties, Zenon
  <2> HIDE DEF a, b
  <2> QED BY <1>1, <2>1, <2>2 DEF FrameOf
<1>3. /\ g.method = f.method /\ g.locals = f.locals /\ g.args = f.args /\ g.this = f.this
      /\ g.stack = f.stack \o slots /\ g.shadow = Append(f.shadow, v) /\ g.left = f.left
  BY <1>1 DEF FrameOf, Pushed
<1>4. g.clean = f.clean /\ g.invoked = f.invoked BY <1>1 DEF FrameOf, Pushed
<1> QED BY <1>2, <1>3, <1>4, Zenon DEF Frame, Same, Holds

(* Called changes the operand stack and its history. *)
LEMMA FrameCalled ==
  ASSUME NEW f \in Frame, NEW m \in Methods, NEW slots \in 0 .. Len(f.stack),
         NEW values \in 0 .. Len(f.shadow), NEW g, g = Called(f, m, slots, values)
  PROVE  Same(g, f) /\ Holds(g, First(f.stack, slots), First(f.shadow, values),
                             f.left + References(ArgKinds(m)), f.clean /\ References(ArgKinds(m)) = 0)
<1> DEFINE a == First(f.stack, slots)  b == First(f.shadow, values)
           c == f.left + References(ArgKinds(m))  d == f.clean /\ References(ArgKinds(m)) = 0
<1>1. a \in Seq(Slot) /\ b \in Seq(Value) /\ d \in BOOLEAN BY FrameFields, FirstRest, Zenon
<1>2. c \in Int BY FrameFields, SizesType
<1>3. g = [f EXCEPT !.stack = a, !.shadow = b, !.left = c, !.clean = d] BY Zenon DEF Called
<1> HIDE DEF a, b, c, d
<1>4. /\ g \in Frame
      /\ g.method = f.method /\ g.locals = f.locals /\ g.args = f.args /\ g.this = f.this
      /\ g.invoked = f.invoked /\ g.stack = a /\ g.shadow = b /\ g.left = c /\ g.clean = d
  <2>1. PICK k \in Methods : f \in FrameOf(k) BY Zenon DEF Frame
  <2>2. g \in FrameOf(k) BY <1>1, <1>2, <1>3, <2>1 DEF FrameOf
  <2>3. /\ g.method = f.method /\ g.locals = f.locals /\ g.args = f.args /\ g.this = f.this
        /\ g.stack = a /\ g.shadow = b /\ g.left = c
    BY <1>3, <2>1 DEF FrameOf
  <2>4. g.clean = d /\ g.invoked = f.invoked BY <1>3, <2>1 DEF FrameOf
  <2> QED BY <2>2, <2>3, <2>4, Zenon DEF Frame
<1> QED BY <1>4, Zenon DEF Same, Holds, a, b, c, d

(* g is a new frame of m *)
Fresh(g, m, slots, args, this, invoked) ==
  /\ g \in Frame /\ g.method = m /\ g.locals = LocalVars(m, slots) /\ g.args = args
  /\ g.this = this /\ g.invoked = invoked
  /\ Holds(g, << >>, << >>, 0, invoked /\ References(KindsIn(args)) = 0)

(* NewFrame makes a frame. *)
LEMMA FrameNew ==
  ASSUME NEW m \in Methods, NEW slots \in Seq(Slot), NEW args \in Seq(Value), NEW this \in Slot,
         NEW invoked \in BOOLEAN, NEW g, g = NewFrame(m, LocalVars(m, slots), args, this, invoked)
  PROVE  Fresh(g, m, slots, args, this, invoked)
<1>1. LocalVars(m, slots) \in [0 .. MaxLocalsOf(m) - 1 -> Slot]
  <2>1. Zero \in Slot
    <3>1. <<0, 0>> \in Nat \X Nat OBVIOUS
    <3> QED BY <3>1 DEF Zero, Slot, Kinds
  <2>2. \A i \in 0 .. MaxLocalsOf(m) - 1 : i < Len(slots) => slots[i + 1] \in Slot
    <3>1. \A i \in 0 .. MaxLocalsOf(m) - 1 : i < Len(slots) => i + 1 \in 1 .. Len(slots)
      <4>1. MaxLocalsOf(m) \in Nat /\ Len(slots) \in Nat BY SizesType
      <4> QED BY <4>1
    <3> QED BY <3>1, ElementOfSeq, Zenon
  <2> QED BY <2>1, <2>2 DEF LocalVars
<1> DEFINE c == invoked /\ References(KindsIn(args)) = 0
<1>2. c \in BOOLEAN OBVIOUS
<1>3. g = [method |-> m, locals |-> LocalVars(m, slots), stack |-> << >>, args |-> args, this |-> this,
           shadow |-> << >>, left |-> 0, invoked |-> invoked, clean |-> c]
  BY Zenon DEF NewFrame
<1> HIDE DEF c
<1>4. g \in FrameOf(m)
  <2>1. << >> \in Seq(Slot) /\ << >> \in Seq(Value) /\ 0 \in Int OBVIOUS
  <2> QED BY <1>1, <1>2, <1>3, <2>1 DEF FrameOf
<1>5. /\ g.method = m /\ g.locals = LocalVars(m, slots) /\ g.stack = << >> /\ g.args = args
      /\ g.this = this /\ g.shadow = << >> /\ g.left = 0
  BY <1>3
<1>6. g.invoked = invoked /\ g.clean = c BY <1>3
<1> QED BY <1>4, <1>5, <1>6, Zenon DEF Frame, Fresh, Holds, c

(* What a println of m leaves behind, the first parameter aside; the value *)
(* its bytecode takes for the result, when k values stay.                  *)
Behind(m) == SlotCount(Rest(ParamKinds(m), 1))
Expected(m, k) ==
  IF Result[m] = "V" THEN << >> ELSE <<[at |-> <<Len(frames), k + 1>>, kind |-> Result[m]]>>

(* Printed changes the operand stack and its history. *)
LEMMA FramePrinted ==
  ASSUME NEW f \in Frame, NEW m \in Methods, NEW slots \in 0 .. Len(f.stack),
         NEW values \in 0 .. Len(f.shadow), NEW us \in Seq(Value), us = Expected(m, values),
         Behind(m) \in Nat, NEW g, g = Printed(f, m, slots, values)
  PROVE  Same(g, f) /\ Holds(g, First(f.stack, slots), First(f.shadow, values) \o us,
                             f.left + Behind(m) - Len(Flatten(us)),
                             f.clean /\ Len(Params[m]) = 1 /\ us = << >>)
<1> DEFINE a == First(f.stack, slots)  b == First(f.shadow, values) \o us
           c == f.left + Behind(m) - Len(Flatten(us))
           d == f.clean /\ Len(Params[m]) = 1 /\ us = << >>
<1>1. a \in Seq(Slot) /\ b \in Seq(Value) /\ d \in BOOLEAN
  BY FrameFields, FirstRest, ConcatProperties, Zenon
<1>2. c \in Int
  <2>1. f.left \in Int /\ Flatten(us) \in Seq(Slot) BY FrameFields, FlattenType, Zenon
  <2>2. Len(Flatten(us)) \in Nat BY <2>1, LenProperties, Zenon
  <2> DEFINE x == Len(Flatten(us))  y == Behind(m)  z == f.left
  <2>3. x \in Nat /\ y \in Nat /\ z \in Int BY <2>1, <2>2
  <2> HIDE DEF x, y, z
  <2>4. z + y - x \in Int BY <2>3
  <2> QED BY <2>4 DEF x, y, z
<1>3. g = [f EXCEPT !.stack = a, !.shadow = b, !.left = c, !.clean = d]
  BY Zenon DEF Printed, Behind, Expected
<1> HIDE DEF a, b, c, d
<1>4. PICK k \in Methods : f \in FrameOf(k) BY Zenon DEF Frame
<1>5. g \in FrameOf(k) BY <1>1, <1>2, <1>3, <1>4 DEF FrameOf
<1>6. /\ g.method = f.method /\ g.locals = f.locals /\ g.args = f.args /\ g.this = f.this
      /\ g.stack = a /\ g.shadow = b /\ g.left = c
  BY <1>3, <1>4 DEF FrameOf
<1>7. g.clean = d /\ g.invoked = f.invoked BY <1>3, <1>4 DEF FrameOf
<1> QED BY <1>5, <1>6, <1>7, Zenon DEF Frame, Same, Holds, a, b, c, d

(* A frame of which only clean changes. *)
LEMMA FrameMarked ==
  ASSUME NEW f \in Frame, NEW clean \in BOOLEAN, NEW g, g = [f EXCEPT !.clean = clean]
  PROVE  Same(g, f) /\ Holds(g, f.stack, f.shadow, f.left, clean)
<1>1. PICK k \in Methods : f \in FrameOf(k) BY Zenon DEF Frame
<1>2. g \in FrameOf(k) BY <1>1 DEF FrameOf
<1>3. /\ g.method = f.method /\ g.locals = f.locals /\ g.args = f.args /\ g.this = f.this
      /\ g.stack = f.stack /\ g.shadow = f.shadow /\ g.left = f.left
  BY <1>1 DEF FrameOf
<1>4. g.clean = clean /\ g.invoked = f.invoked BY <1>1 DEF FrameOf
<1> QED BY <1>2, <1>3, <1>4, Zenon DEF Frame, Same, Holds

(* FrameOK is kept by a push of as many slots as the value has; the frame  *)
(* may stay clean when they are the slots of the value.                    *)
LEMMA PushKeeps ==
  ASSUME NEW f \in Frame, NEW slots \in Seq(Slot), NEW v \in Value, FrameOK(f),
         Len(slots) = Len(Slots(v)), NEW clean, clean => f.clean /\ slots = Slots(v),
         NEW g, Same(g, f), Holds(g, f.stack \o slots, Append(f.shadow, v), f.left, clean)
  PROVE  FrameOK(g)
<1>1. f.stack \in Seq(Slot) /\ f.shadow \in Seq(Value) /\ f.left \in Int BY FrameFields, Zenon
<1>2. /\ g.method = f.method /\ g.locals = f.locals /\ g.args = f.args /\ g.this = f.this
      /\ g.invoked = f.invoked
      /\ g.stack = f.stack \o slots /\ g.shadow = Append(f.shadow, v) /\ g.left = f.left
      /\ g.clean = clean
  BY Zenon DEF Same, Holds
<1>3. Flatten(g.shadow) = Flatten(f.shadow) \o Slots(v) BY <1>1, <1>2, FlattenAppend, Zenon
<1>4. Flatten(f.shadow) \in Seq(Slot) /\ Slots(v) \in Seq(Slot) BY <1>1, FlattenType, SlotsType, Zenon
<1>5. Accounted(g)
  <2> DEFINE d == f.left  e == Len(slots)  a == Flatten(f.shadow)  b == Slots(v)  c == f.stack
  <2>1. Len(a \o b) = Len(a) + Len(b) /\ Len(c \o slots) = Len(c) + Len(slots)
    BY <1>1, <1>4, ConcatProperties, Zenon
  <2>2. Len(a) \in Nat /\ Len(b) \in Nat /\ Len(c) \in Nat BY <1>1, <1>4, LenProperties, Zenon
  <2>3. Len(c) = Len(a) + f.left BY Zenon DEF FrameOK, Accounted
  <2>4. Len(g.stack) = Len(c \o slots) /\ Len(Flatten(g.shadow)) = Len(a \o b) BY <1>2, <1>3, Zenon
  <2> HIDE DEF a, b, c
  <2>5. Len(b) = e BY DEF b
  <2>6. Len(c) = Len(a) + d /\ d \in Int BY <1>1, <2>3
  <2> HIDE DEF d, e
  <2>7. Len(c) + e = (Len(a) + Len(b)) + d BY <2>2, <2>5, <2>6
  <2> QED BY <1>2, <2>1, <2>4, <2>7, Zenon DEF Accounted, d, e
<1>6. g.clean => Arrived(g)
  <2> SUFFICES ASSUME g.clean PROVE Arrived(g) OBVIOUS
  <2>1. f.clean /\ slots = Slots(v) BY <1>2, Zenon
  <2>2. f.stack = Flatten(f.shadow) /\ slots = Slots(v) BY <2>1, Zenon DEF FrameOK, Arrived
  <2>3. g.stack = Flatten(g.shadow) BY <1>2, <1>3, <2>2, Zenon
  <2> QED BY <1>2, <2>1, <2>3, Zenon DEF FrameOK, Arrived
<1>7. g.clean => f.clean BY <1>2, Zenon
<1> QED BY <1>2, <1>5, <1>6, <1>7, Zenon DEF FrameOK, Found

(* Of the slots of the newest values, n are popped and r left behind: when *)
(* r is zero the rest of the stack, and what is popped, are as expected.   *)
LEMMA PoppedSlots ==
  ASSUME NEW f \in Frame, FrameOK(f), NEW k \in 0 .. Len(f.shadow), NEW n \in Nat, NEW r \in Nat,
         n <= Len(f.stack), Len(Flatten(Rest(f.shadow, k))) = n + r
  PROVE  /\ Len(f.stack) - n \in 0 .. Len(f.stack)
         /\ Len(f.stack) - n = Len(Flatten(First(f.shadow, k))) + (f.left + r)
         /\ f.clean /\ r = 0 => /\ First(f.stack, Len(f.stack) - n) = Flatten(First(f.shadow, k))
                                /\ Rest(f.stack, Len(f.stack) - n) = Flatten(Rest(f.shadow, k))
<1> DEFINE vs == f.shadow  p == Len(Flatten(Rest(vs, k)))  a == Len(Flatten(First(vs, k)))
           b == Len(f.stack)  c == Len(Flatten(vs))  d == f.left
<1>1. f.stack \in Seq(Slot) /\ vs \in Seq(Value) /\ d \in Int BY FrameFields, Zenon
<1>2. /\ p \in Nat /\ a \in Nat /\ c = a + p
      /\ First(Flatten(vs), c - p) = Flatten(First(vs, k))
      /\ Rest(Flatten(vs), c - p) = Flatten(Rest(vs, k))
  BY <1>1, ValuesPopped, Zenon
<1>3. b = c + d /\ b \in Nat BY <1>1 DEF FrameOK, Accounted
<1>4. p = n + r /\ n <= b OBVIOUS
<1>5. f.clean => f.stack = Flatten(vs) BY Zenon DEF FrameOK, Arrived
<1>6. b - n \in 0 .. b /\ b - n = a + (d + r)
  <2> HIDE DEF vs, a, b, c, d, p
  <2> QED BY <1>1, <1>2, <1>3, <1>4
<1>7. f.clean /\ r = 0 => /\ First(f.stack, b - n) = Flatten(First(vs, k))
                          /\ Rest(f.stack, b - n) = Flatten(Rest(vs, k))
  <2> SUFFICES ASSUME f.clean, r = 0
               PROVE  /\ First(f.stack, b - n) = Flatten(First(vs, k))
                      /\ Rest(f.stack, b - n) = Flatten(Rest(vs, k))
    BY Zenon
  <2>1. b = c BY <1>5, Zenon
  <2>2. n = p
    <3> HIDE DEF p
    <3> QED BY <1>4
  <2> QED BY <1>2, <1>5, <2>1, <2>2, Zenon
<1> QED BY <1>6, <1>7, Zenon

(* FrameOK is kept when n of n + r slots are popped and the r others       *)
(* counted in left.                                                        *)
LEMMA PopKeeps ==
  ASSUME NEW f \in Frame, FrameOK(f), NEW k \in 0 .. Len(f.shadow), NEW n \in Nat, NEW r \in Nat,
         n <= Len(f.stack), Len(Flatten(Rest(f.shadow, k))) = n + r,
         NEW g, Same(g, f),
         Holds(g, First(f.stack, Len(f.stack) - n), First(f.shadow, k), f.left + r, f.clean /\ r = 0)
  PROVE  FrameOK(g)
<1>1. f.stack \in Seq(Slot) BY FrameFields, Zenon
<1>2. /\ Len(f.stack) - n \in 0 .. Len(f.stack)
      /\ Len(f.stack) - n = Len(Flatten(First(f.shadow, k))) + (f.left + r)
      /\ f.clean /\ r = 0 => First(f.stack, Len(f.stack) - n) = Flatten(First(f.shadow, k))
  BY PoppedSlots, Zenon
<1>3. Len(First(f.stack, Len(f.stack) - n)) = Len(f.stack) - n BY <1>1, <1>2, FirstRest, Zenon
<1>4. Accounted(g) BY <1>2, <1>3, Zenon DEF Holds, Accounted
<1>5. g.clean => f.clean /\ r = 0 BY Zenon DEF Holds
<1>6. g.clean => g.stack = Flatten(g.shadow) BY <1>2, <1>5, Zenon DEF Holds
<1>7. g.clean => Arrived(g) BY <1>5, <1>6, Zenon DEF FrameOK, Arrived, Same
<1> QED BY <1>4, <1>5, <1>7, Zenon DEF FrameOK, Found, Same

(* FrameOK is kept when, besides, values are expected whose slots have not *)
(* been pushed.                                                            *)
LEMMA PrintKeeps ==
  ASSUME NEW f \in Frame, FrameOK(f), NEW k \in 0 .. Len(f.shadow), NEW n \in Nat, NEW r \in Nat,
         n <= Len(f.stack), Len(Flatten(Rest(f.shadow, k))) = n + r,
         NEW us \in Seq(Value), NEW clean, clean => f.clean /\ r = 0 /\ us = << >>,
         NEW g, Same(g, f),
         Holds(g, First(f.stack, Len(f.stack) - n), First(f.shadow, k) \o us,
               f.left + r - Len(Flatten(us)), clean)
  PROVE  FrameOK(g)
<1> DEFINE vs == First(f.shadow, k)  x == Len(Flatten(us))  a == Len(Flatten(vs))
           b == Len(f.stack) - n  d == f.left
<1>1. f.stack \in Seq(Slot) /\ f.shadow \in Seq(Value) /\ d \in Int BY FrameFields, Zenon
<1>2. /\ b \in 0 .. Len(f.stack) /\ b = a + (d + r)
      /\ f.clean /\ r = 0 => First(f.stack, b) = Flatten(vs)
  BY PoppedSlots, Zenon
<1>3. Len(First(f.stack, b)) = b
  <2>1. b \in 0 .. Len(f.stack) BY <1>2, Zenon
  <2> DEFINE s == f.stack
  <2>2. s \in Seq(Slot) /\ b \in 0 .. Len(s) BY <1>1, <2>1, Zenon
  <2> HIDE DEF b, s
  <2>3. Len(First(s, b)) = b BY <2>2, FirstLength, Zenon
  <2> QED BY <2>3 DEF s
<1>4. vs \in Seq(Value) BY <1>1, FirstRest, Zenon
<1>5. /\ g.stack = First(f.stack, b) /\ g.shadow = vs \o us /\ g.left = d + r - x /\ g.clean = clean
  BY Zenon DEF Holds
<1>6. Len(Flatten(g.shadow)) = a + x /\ a \in Nat /\ x \in Nat
  <2> HIDE DEF vs
  <2> DEFINE s == Flatten(vs)  u == Flatten(us)
  <2>1. s \in Seq(Slot) /\ u \in Seq(Slot) BY <1>4, FlattenType, Zenon
  <2>2. Flatten(vs \o us) = s \o u BY <1>4, FlattenConcat, Zenon
  <2> HIDE DEF s, u
  <2>3. Len(s \o u) = Len(s) + Len(u) /\ Len(s) \in Nat /\ Len(u) \in Nat
    BY <2>1, ConcatProperties, LenProperties, Zenon
  <2> QED BY <1>5, <2>2, <2>3, Zenon DEF s, u
<1>7. Accounted(g)
  <2>1. b = (a + x) + (d + r - x)
    <3> HIDE DEF a, b, d, x
    <3> QED BY <1>1, <1>2, <1>6
  <2> QED BY <1>3, <1>5, <1>6, <2>1, Zenon DEF Accounted
<1>8. g.clean => f.clean /\ r = 0 /\ us = << >> BY <1>5, Zenon
<1>9. g.clean => g.stack = Flatten(g.shadow)
  <2>1. vs \o << >> = vs BY <1>4, ConcatEmptySeq, Zenon
  <2> QED BY <1>2, <1>5, <1>8, <2>1, Zenon
<1>10. g.clean => Arrived(g) BY <1>8, <1>9, Zenon DEF FrameOK, Arrived, Same
<1> QED BY <1>7, <1>8, <1>10, Zenon DEF FrameOK, Found, Same

(* The slots of the arguments of a call, of which InvokeMethod takes       *)
(* CalcArgSlotCount.                                                       *)
LEMMA PassedLength ==
  ASSUME NEW m \in Methods, NEW vs \in Seq(Value), KindsIn(vs) = ArgKinds(m)
  PROVE  Len(Flatten(vs)) = CalcArgSlotCount(m) + References(ArgKinds(m))
BY FlattenLength, ArgSlotCount, Zenon

(* The frame InvokeMethod makes is as FrameOK says. *)
LEMMA CalleeOK ==
  ASSUME NEW f \in Frame, FrameOK(f), NEW k \in 0 .. Len(f.shadow), NEW m \in Methods,
         NEW n, n = CalcArgSlotCount(m), n <= MaxLocalsOf(m), n <= Len(f.stack),
         NEW vs, vs = Rest(f.shadow, k), KindsIn(vs) = ArgKinds(m),
         NEW this \in Slot,
         f.clean /\ m \notin Static /\ References(ArgKinds(m)) = 1 => this = Half(vs[1], 1),
         NEW g, g = NewFrame(m, LocalVars(m, Rest(f.stack, Len(f.stack) - n)), vs, this, f.clean)
  PROVE  g \in Frame /\ FrameOK(g)
<1> DEFINE r == References(ArgKinds(m))  slots == Rest(f.stack, Len(f.stack) - n)
<1>1. /\ f.stack \in Seq(Slot) /\ f.shadow \in Seq(Value) /\ f.clean \in BOOLEAN
  BY FrameFields, Zenon
<1>2. n \in Nat /\ r \in Nat /\ MaxLocalsOf(m) \in Nat BY SizesType, Zenon
<1>3. vs \in Seq(Value) BY <1>1, FirstRest, Zenon
<1>4. Len(Flatten(vs)) = n + r BY <1>3, PassedLength, Zenon
<1> HIDE DEF r
<1>5. /\ Len(f.stack) - n \in 0 .. Len(f.stack)
      /\ f.clean /\ r = 0 => slots = Flatten(vs)
  BY <1>2, <1>4, PoppedSlots, Zenon
<1>6. slots \in Seq(Slot) BY <1>1, <1>5, FirstRest, Zenon
<1> HIDE DEF slots
<1>7. /\ g \in Frame /\ g.method = m /\ g.locals = LocalVars(m, slots) /\ g.args = vs
      /\ g.this = this /\ g.invoked = f.clean
      /\ Holds(g, << >>, << >>, 0, f.clean /\ References(KindsIn(vs)) = 0)
  <2>1. g = NewFrame(m, LocalVars(m, slots), vs, this, f.clean) BY DEF slots
  <2>2. Fresh(g, m, slots, vs, this, f.clean) BY <1>1, <1>3, <1>6, <2>1, FrameNew, Zenon
  <2> QED BY <2>2, Zenon DEF Fresh
<1>8. g.clean => f.clean /\ r = 0 BY <1>7, Zenon DEF Holds, r
<1>9. g.stack = Flatten(g.shadow) BY <1>7, FlattenEmpty, Zenon DEF Holds
<1>10. Accounted(g)
  <2>1. Len(<< >>) = Len(<< >>) + 0 OBVIOUS
  <2> QED BY <1>7, <2>1, FlattenEmpty, Zenon DEF Holds, Accounted
<1>11. g.clean => \A j \in 1 .. Len(Flatten(vs)) : LocalVars(m, slots)[j - 1] = Flatten(vs)[j]
  <2> SUFFICES ASSUME g.clean, NEW j \in 1 .. Len(Flatten(vs))
               PROVE  LocalVars(m, slots)[j - 1] = Flatten(vs)[j]
    OBVIOUS
  <2>1. slots = Flatten(vs) /\ Len(slots) = n
    <3>1. slots = Flatten(vs) /\ r = 0 BY <1>5, <1>8, Zenon
    <3>2. n + r = n BY <1>2, <3>1
    <3> QED BY <1>4, <3>1, <3>2, Zenon
  <2>2. j - 1 \in 0 .. MaxLocalsOf(m) - 1 /\ j - 1 < Len(slots) /\ (j - 1) + 1 = j
    <3>1. j \in 1 .. n BY <2>1, Zenon
    <3> QED BY <1>2, <2>1, <3>1
  <2>3. LocalVars(m, slots)[j - 1] = slots[(j - 1) + 1] BY <2>2, Zenon DEF LocalVars
  <2> QED BY <2>1, <2>2, <2>3, Zenon
<1>12. g.clean => Arrived(g)
  <2>1. g.args = vs /\ g.locals = LocalVars(m, slots) BY <1>7, Zenon
  <2>2. g.clean => \A j \in 1 .. Len(Flatten(g.args)) : g.locals[j - 1] = Flatten(g.args)[j]
    BY <1>11, <2>1
  <2> QED BY <1>9, <2>2, Zenon DEF Arrived
<1>13. Found(g) BY <1>7, Zenon DEF Found
<1> QED BY <1>7, <1>8, <1>10, <1>12, <1>13, Zenon DEF FrameOK, r

(* Count of a single element. *)
LEMMA CountOne ==
  ASSUME NEW A, NEW e \in A, NEW kind
  PROVE  Count(<<e>>, kind) = IF e = kind THEN 1 ELSE 0
<1>1. << >> \in Seq(A) /\ Append(<< >>, e) = <<e>> OBVIOUS
<1>2. Count(Append(<< >>, e), kind) = Count(<< >>, kind) + IF e = kind THEN 1 ELSE 0
  <2> DEFINE s == << >>
  <2>1. s \in Seq(A) BY <1>1
  <2> HIDE DEF s
  <2>2. Count(Append(s, e), kind) = Count(s, kind) + IF e = kind THEN 1 ELSE 0
    BY <2>1, CountAppend
  <2> QED BY <2>2 DEF s
<1>3. Count(<< >>, kind) = 0 BY CountEmpty, Zenon
<1>4. \A x \in {0, 1} : 0 + x = x OBVIOUS
<1> DEFINE x == IF e = kind THEN 1 ELSE 0
<1>5. 0 + x = x OBVIOUS
<1> QED BY <1>1, <1>2, <1>3, <1>5, Zenon

(* A sequence of at most one element that is not empty. *)
LEMMA Single ==
  ASSUME NEW A, NEW s \in Seq(A), s # << >>, Len(s) <= 1
  PROVE  Len(s) = 1 /\ 1 \in 1 .. Len(s) /\ s[1] \in A /\ s = <<s[1]>>
<1>0. Len(s) \in Nat \ {0} BY EmptySeq, Zenon
<1>1. Len(s) = 1 BY <1>0
<1>2. s[1] \in A BY <1>1
<1>3. <<s[1]>> \in Seq(A) /\ Len(<<s[1]>>) = 1 /\ <<s[1]>>[1] = s[1] BY <1>2
<1>4. \A i \in 1 .. 1 : i = 1 OBVIOUS
<1>5. \A i \in 1 .. Len(s) : s[i] = <<s[1]>>[i] BY <1>1, <1>3, <1>4, Zenon
<1>6. s = <<s[1]>> BY <1>1, <1>3, <1>5, SeqEqual, Zenon
<1> QED BY <1>1, <1>2, <1>6

(* SlotCount of two sequences put together, of a single kind and of none. *)
LEMMA SlotCountConcat ==
  ASSUME NEW s \in Seq(Kinds), NEW t \in Seq(Kinds)
  PROVE  SlotCount(s) \in Nat /\ SlotCount(t) \in Nat /\ SlotCount(s \o t) = SlotCount(s) + SlotCount(t)
<1> DEFINE a == Len(s)  b == Count(s, "J")  c == Count(s, "R")
           x == Len(t)  y == Count(t, "J")  z == Count(t, "R")
           p == Len(s \o t)  q == Count(s \o t, "J")  r == Count(s \o t, "R")
<1>1. a \in Nat /\ b \in Nat /\ c \in Nat /\ x \in Nat /\ y \in Nat /\ z \in Nat
  BY CountType, LenProperties, Zenon
<1>2. p = a + x BY ConcatProperties, Zenon
<1>3. q = b + y /\ r = c + z BY CountConcat, Zenon
<1>4. SlotCount(s) = a + b + c /\ SlotCount(t) = x + y + z /\ SlotCount(s \o t) = p + q + r
  BY Zenon DEF SlotCount, CompilerDepth, References
<1> HIDE DEF a, b, c, x, y, z, p, q, r
<1> QED BY <1>1, <1>2, <1>3, <1>4

LEMMA SlotCountOne ==
  ASSUME NEW e \in Kinds
  PROVE  SlotCount(<<e>>) = IF e = "I" THEN 1 ELSE 2
<1>1. /\ Count(<<e>>, "J") = IF e = "J" THEN 1 ELSE 0
      /\ Count(<<e>>, "R") = IF e = "R" THEN 1 ELSE 0
  BY CountOne, Zenon
<1> DEFINE a == Count(<<e>>, "J")  b == Count(<<e>>, "R")  c == Len(<<e>>)
<1>2. SlotCount(<<e>>) = c + a + b BY Zenon DEF SlotCount, CompilerDepth, References
<1>3. c = 1 OBVIOUS
<1> HIDE DEF a, b, c
<1>4. a = (IF e = "J" THEN 1 ELSE 0) /\ b = (IF e = "R" THEN 1 ELSE 0) BY <1>1, Zenon DEF a, b
<1> QED BY <1>2, <1>3, <1>4 DEF Kinds

LEMMA SlotCountEmpty == SlotCount(<< >>) = 0
<1>1. Len(<< >>) = 0 /\ 0 + 0 + 0 = 0 OBVIOUS
<1> QED BY <1>1, CountEmpty, Zenon DEF SlotCount, CompilerDepth, References

(* Of the slots of its arguments HackPrintln pops those of the receiver    *)
(* and as many as its first parameter has, reference or not.               *)
LEMMA PrintlnLength ==
  ASSUME NEW m \in Println, Params[m] # << >>, NEW vs \in Seq(Value), KindsIn(vs) = ArgKinds(m)
  PROVE  /\ Behind(m) \in Nat /\ (Len(Params[m]) = 1 => Behind(m) = 0)
         /\ Len(Flatten(vs)) = ((IF KindOf(Params[m][1]) = "I" THEN 1 ELSE 2)
                                 + (IF m \in Static THEN 0 ELSE 2)) + Behind(m)
<1> DEFINE e == KindOf(Params[m][1])  ks == ParamKinds(m)  r == <<"R">>  t == Rest(ks, 1)
<1>0. m \in Methods BY MethodAssumption
<1>1. Len(Params[m]) \in Nat \ {0} /\ 1 \in 1 .. Len(Params[m])
  <2>1. Params[m] \in Seq([dims : Nat, base : Bases]) BY <1>0, MethodAssumption
  <2>2. Len(Params[m]) \in Nat \ {0} BY <2>1, EmptySeq, Zenon
  <2> QED BY <2>2
<1>2. ks \in Seq(Kinds) /\ Len(ks) = Len(Params[m]) /\ ks[1] = e BY <1>0, <1>1, ParamKindsType, Zenon
<1> HIDE DEF e, ks
<1>3. 1 \in 0 .. Len(ks) /\ 1 \in 1 .. 1 BY <1>1, <1>2
<1>4. /\ First(ks, 1) \in Seq(Kinds) /\ Len(First(ks, 1)) = 1 /\ First(ks, 1)[1] = ks[1]
      /\ t \in Seq(Kinds) /\ Len(t) = Len(ks) - 1 /\ First(ks, 1) \o t = ks
  BY <1>2, <1>3, FirstRest, ZenonT(40)
<1>5. First(ks, 1) = <<e>> /\ e \in Kinds
  <2>1. Len(<< >>) # 1 /\ 1 <= 1 OBVIOUS
  <2>2. First(ks, 1) # << >> /\ Len(First(ks, 1)) <= 1 BY <1>4, <2>1, Zenon
  <2> QED BY <1>2, <1>4, <2>2, Single, Zenon
<1>6. Behind(m) = SlotCount(t) BY Zenon DEF Behind, ks
<1> HIDE DEF t
<1> DEFINE s == <<e>>
<1>7. s \in Seq(Kinds) /\ ks = s \o t BY <1>4, <1>5
<1>8. SlotCount(s) = IF e = "I" THEN 1 ELSE 2 BY <1>5, SlotCountOne, Zenon
<1> HIDE DEF s
<1>9. SlotCount(t) \in Nat /\ SlotCount(ks) = SlotCount(s) + SlotCount(t)
  BY <1>4, <1>7, SlotCountConcat, Zenon
<1>10. Len(Params[m]) = 1 => SlotCount(t) = 0
  <2> SUFFICES ASSUME Len(Params[m]) = 1 PROVE SlotCount(t) = 0 OBVIOUS
  <2>1. Len(t) = 1 - 1 BY <1>2, <1>4, Zenon
  <2>2. Len(t) = 0 BY <2>1
  <2>3. t = << >> BY <1>4, <2>2, EmptySeq, Zenon
  <2> QED BY <2>3, SlotCountEmpty, Zenon
<1>11. Len(Flatten(vs)) = SlotCount(ArgKinds(m)) BY FlattenLength, Zenon DEF SlotCount
<1>12. SlotCount(ArgKinds(m)) = (IF m \in Static THEN 0 ELSE 2) + SlotCount(ks)
  <2>0. SlotCount(ks) \in Nat BY <1>2, SlotCountConcat, Zenon
  <2>1. CASE m \in Static
    <3>1. ArgKinds(m) = ks BY <1>0, <2>1, ParamKindsType, Zenon DEF ks
    <3> QED BY <2>0, <2>1, <3>1
  <2>2. CASE m \notin Static
    <3>1. ArgKinds(m) = r \o ks BY <1>0, <2>2, ParamKindsType, Zenon DEF ks
    <3>2. "R" \in Kinds /\ r \in Seq(Kinds) BY DEF Kinds
    <3>3. SlotCount(r) = IF "R" = "I" THEN 1 ELSE 2 BY <3>2, SlotCountOne, Zenon
    <3> HIDE DEF r
    <3>4. SlotCount(r \o ks) = SlotCount(r) + SlotCount(ks) BY <1>2, <3>2, SlotCountConcat, Zenon
    <3>5. SlotCount(r) = 2 BY <3>3
    <3>6. SlotCount(ArgKinds(m)) = 2 + SlotCount(ks) BY <3>1, <3>4, <3>5, Zenon
    <3> QED BY <2>2, <3>6, Zenon
  <2> QED BY <2>1, <2>2, Zenon
<1>13. Len(Flatten(vs)) = ((IF e = "I" THEN 1 ELSE 2) + (IF m \in Static THEN 0 ELSE 2)) + SlotCount(t)
  <2> DEFINE a == Len(Flatten(vs))  b == SlotCount(t)  c == SlotCount(s)
             p == IF e = "I" THEN 1 ELSE 2  q == IF m \in Static THEN 0 ELSE 2
  <2>1. a = q + (c + b) /\ c = p /\ b \in Nat BY <1>8, <1>9, <1>11, <1>12, Zenon
  <2>2. p \in Nat /\ q \in Nat OBVIOUS
  <2> HIDE DEF a, b, c, p, q
  <2>3. a = (p + q) + b BY <2>1, <2>2
  <2> QED BY <2>3, Zenon DEF a, b, p, q
<1> QED BY <1>6, <1>9, <1>10, <1>13, Zenon DEF e

(* u is s, then t *)
Cat(u, s, t) ==
  /\ Len(u) = Len(s) + Len(t)
  /\ \A i \in 1 .. Len(s) + Len(t) : u[i] = IF i <= Len(s) THEN s[i] ELSE t[i - Len(s)]

(* Cat describes a concatenation. *)
LEMMA CatOf ==
  ASSUME NEW A, NEW s \in Seq(A), NEW t \in Seq(A)
  PROVE  Cat(s \o t, s, t) /\ s \o t \in Seq(A)
<1>1. /\ Len(s \o t) = Len(s) + Len(t) /\ s \o t \in Seq(A)
      /\ \A i \in 1 .. Len(s) + Len(t) : (s \o t)[i] = IF i <= Len(s) THEN s[i] ELSE t[i - Len(s)]
  BY ConcatProperties, Zenon
<1> QED BY <1>1, Zenon DEF Cat

(* The elements of the second of three sequences put together. *)
LEMMA Middle ==
  ASSUME NEW A, NEW a \in Seq(A), NEW b \in Seq(A), NEW c \in Seq(A), NEW j \in 1 .. Len(b),
         NEW t, Cat(t, a, b), NEW u, Cat(u, t, c)
  PROVE  Len(a) + j \in 1 .. Len(u) /\ u[Len(a) + j] = b[j]
<1>1. /\ Len(t) = Len(a) + Len(b)
      /\ \A i \in 1 .. Len(a) + Len(b) : t[i] = IF i <= Len(a) THEN a[i] ELSE b[i - Len(a)]
  BY Zenon DEF Cat
<1>2. /\ Len(u) = Len(t) + Len(c)
      /\ \A i \in 1 .. Len(t) + Len(c) : u[i] = IF i <= Len(t) THEN t[i] ELSE c[i - Len(t)]
  BY Zenon DEF Cat
<1>3. Len(a) \in Nat /\ Len(b) \in Nat /\ Len(c) \in Nat OBVIOUS
<1>4. /\ Len(a) + j \in 1 .. Len(u)
      /\ Len(a) + j \in 1 .. Len(a) + Len(b) /\ Len(a) + j \in 1 .. Len(t) + Len(c)
      /\ Len(a) + j <= Len(t) /\ ~ (Len(a) + j <= Len(a)) /\ (Len(a) + j) - Len(a) = j
  BY <1>1, <1>2, <1>3
<1>5. u[Len(a) + j] = t[Len(a) + j] BY <1>2, <1>4, Zenon
<1>6. t[Len(a) + j] = b[(Len(a) + j) - Len(a)] BY <1>1, <1>4, Zenon
<1> QED BY <1>4, <1>5, <1>6, Zenon

(* Where the slots of value k are. *)
LEMMA FlattenMiddle ==
  ASSUME NEW vs \in Seq(Value), NEW k \in 1 .. Len(vs), NEW j \in 1 .. Len(Slots(vs[k]))
  PROVE  /\ Len(Flatten(First(vs, k - 1))) + j \in 1 .. Len(Flatten(vs))
         /\ Flatten(vs)[Len(Flatten(First(vs, k - 1))) + j] = Slots(vs[k])[j]
<1> DEFINE a == First(vs, k - 1)  v == vs[k]  b == First(vs, k)  c == Rest(vs, k)
           fa == Flatten(a)  sv == Slots(v)  fb == Flatten(b)  fc == Flatten(c)  fs == Flatten(vs)
<1>1. k - 1 \in 0 .. Len(vs) /\ k \in 0 .. Len(vs) /\ v \in Value OBVIOUS
<1>2. a \in Seq(Value) /\ b \in Seq(Value) /\ c \in Seq(Value) /\ vs = b \o c
  BY <1>1, FirstRest, Zenon
<1>3. b = Append(a, v)
  <2>1. SubSeq(vs, 1, k) = Append(SubSeq(vs, 1, k - 1), vs[k]) BY PrefixStep, Zenon
  <2> QED BY <2>1, Zenon DEF First
<1>4. j \in 1 .. Len(sv) OBVIOUS
<1> HIDE DEF a, b, c, v
<1>5. fa \in Seq(Slot) /\ sv \in Seq(Slot) /\ fc \in Seq(Slot)
  BY <1>1, <1>2, FlattenType, SlotsType, Zenon
<1>6. fb = fa \o sv BY <1>1, <1>2, <1>3, FlattenAppend, Zenon
<1>7. fs = fb \o fc BY <1>2, FlattenConcat, Zenon
<1> HIDE DEF fa, fb, fc, fs, sv
<1>9. Cat(fb, fa, sv) /\ Cat(fs, fb, fc) /\ fb \in Seq(Slot)
  <2>1. Cat(fb, fa, sv) /\ fb \in Seq(Slot) BY <1>5, <1>6, CatOf, Zenon
  <2> QED BY <1>5, <1>7, <2>1, CatOf, Zenon
<1>8. Len(fa) + j \in 1 .. Len(fs) /\ fs[Len(fa) + j] = sv[j]
  <2>1. \A t, u : Cat(t, fa, sv) /\ Cat(u, t, fc)
                    => Len(fa) + j \in 1 .. Len(u) /\ u[Len(fa) + j] = sv[j]
    BY <1>4, <1>5, Middle
  <2> QED BY <1>9, <2>1, Zenon
<1> QED BY <1>8, Zenon DEF fa, fs, sv, a, v

(* An index below a bound. *)
LEMMA IndexBound ==
  ASSUME NEW i \in Nat, NEW n \in Nat, NEW max \in Nat, i + n <= max, NEW j \in 1 .. n
  PROVE  i + j - 1 \in 0 .. max - 1
OBVIOUS

(* Two ways of writing an index. *)
LEMMA IndexSame ==
  ASSUME NEW i \in Nat, NEW n \in Nat
  PROVE  \A j \in 1 .. n : (i + j) - 1 = i + j - 1
OBVIOUS

(* Load finds the slots of the argument in a clean frame: no reference is  *)
(* before it, so the local variable the compiler chose is the one its      *)
(* slots were stored from.                                                 *)
LEMMA LoadedSlots ==
  ASSUME NEW f \in Frame, FrameOK(f), NEW k \in 1 .. Len(f.args),
         NEW v, v = f.args[k], NEW index, index = LocalIndex(KindsIn(f.args), k),
         NEW n, n = Len(Slots(v)), index + n <= MaxLocalsOf(f.method),
         NEW slots, slots = [j \in 1 .. n |-> f.locals[index + j - 1]]
  PROVE  slots \in Seq(Slot) /\ Len(slots) = Len(Slots(v)) /\ (f.clean => slots = Slots(v))
<1> DEFINE as == f.args  a == First(as, k - 1)  ks == KindsIn(as)
<1>1. /\ as \in Seq(Value) /\ f.locals \in [0 .. MaxLocalsOf(f.method) - 1 -> Slot]
      /\ f.method \in Methods
  BY FrameFields, Zenon
<1>2. v \in Value /\ k - 1 \in 0 .. Len(as) /\ Len(as) \in Nat BY <1>1
<1>3. Slots(v) \in Seq(Slot) /\ n \in Nat
  <2>1. Slots(v) \in Seq(Slot) BY <1>2, SlotsType, Zenon
  <2> QED BY <2>1
<1>4. a \in Seq(Value) BY <1>1, <1>2, FirstRest, Zenon
<1>5. KindsIn(a) = First(ks, k - 1) BY <1>1, <1>2, KindsInFirst, Zenon
<1>6. /\ Len(Flatten(a)) = index + References(KindsIn(a))
      /\ index \in Nat /\ References(KindsIn(a)) \in Nat
  <2>1. index = CompilerDepth(KindsIn(a)) BY <1>5, Zenon DEF LocalIndex
  <2> HIDE DEF a
  <2> QED BY <1>4, <2>1, FlattenLength, Zenon
<1>7. MaxLocalsOf(f.method) \in Nat BY <1>1, SizesType, Zenon
<1>8. \A j \in 1 .. n : index + j - 1 \in 0 .. MaxLocalsOf(f.method) - 1
  BY <1>3, <1>6, <1>7, IndexBound, Zenon
<1>9. slots \in Seq(Slot) /\ Len(slots) = n
  <2>1. \A j \in 1 .. n : f.locals[index + j - 1] \in Slot BY <1>1, <1>8, Zenon
  <2> QED BY <1>3, <2>1
<1>10. f.clean => slots = Slots(v)
  <2> SUFFICES ASSUME f.clean PROVE slots = Slots(v) OBVIOUS
  <2>1. References(KindsIn(a)) = 0
    <3>1. References(ArgKinds(f.method)) = 0 \/ f.method = Main BY Zenon DEF FrameOK
    <3>2. ks = ArgKinds(f.method) /\ ks \in Seq(Kinds) /\ Len(ks) = Len(as)
      BY <1>1, KindsInType, Zenon DEF FrameOK
    <3>3. CASE References(ArgKinds(f.method)) = 0
      <4>1. k - 1 \in 0 .. Len(ks) BY <1>2, <3>2, Zenon
      <4>2. Count(First(ks, k - 1), "R") \in Nat /\ Count(First(ks, k - 1), "R") <= Count(ks, "R")
        BY <3>2, <4>1, CountFirst, Zenon
      <4>3. Count(ks, "R") = 0 BY <3>2, <3>3, Zenon DEF References
      <4> DEFINE x == Count(First(ks, k - 1), "R")
      <4>4. x \in Nat /\ x <= 0 BY <4>2, <4>3, Zenon
      <4> HIDE DEF x
      <4>5. x = 0 BY <4>4
      <4> QED BY <1>5, <4>5, Zenon DEF References, x
    <3>4. CASE f.method = Main
      <4>1. Len(ArgKinds(Main)) = 1
        <5>1. Main \in Methods /\ Main \in Static /\ Len(Params[Main]) = 1 BY MethodAssumption
        <5> QED BY <5>1, ParamKindsType, Zenon
      <4>2. Len(as) = 1 BY <3>2, <3>4, <4>1, Zenon
      <4>3. k - 1 = 0 BY <4>2
      <4>4. a = << >> BY <4>3, SubSeqEmpty DEF First
      <4>5. KindsIn(<< >>) = << >> BY DEF KindsIn
      <4> QED BY <4>4, <4>5, CountEmpty, Zenon DEF References
    <3> QED BY <3>1, <3>3, <3>4, Zenon
  <2>2. Len(Flatten(a)) = index BY <1>6, <2>1
  <2>3. \A j \in 1 .. Len(Flatten(as)) : f.locals[j - 1] = Flatten(as)[j]
    BY Zenon DEF FrameOK, Arrived
  <2>4. \A j \in 1 .. n : index + j \in 1 .. Len(Flatten(as)) /\ Flatten(as)[index + j] = Slots(v)[j]
    <3> SUFFICES ASSUME NEW j \in 1 .. n
                 PROVE  index + j \in 1 .. Len(Flatten(as)) /\ Flatten(as)[index + j] = Slots(v)[j]
      BY Zenon
    <3>1. j \in 1 .. Len(Slots(as[k])) BY Zenon
    <3>2. /\ Len(Flatten(a)) + j \in 1 .. Len(Flatten(as))
          /\ Flatten(as)[Len(Flatten(a)) + j] = Slots(as[k])[j]
      BY <1>1, <3>1, FlattenMiddle, Zenon
    <3> QED BY <2>2, <3>2, Zenon
  <2>5. \A j \in 1 .. n : f.locals[(index + j) - 1] = Slots(v)[j] BY <2>3, <2>4, Zenon
  <2>6. \A j \in 1 .. n : (index + j) - 1 = index + j - 1 BY <1>3, <1>6, IndexSame, Zenon
  <2>7. \A j \in 1 .. n : slots[j] = f.locals[index + j - 1] BY Zenon
  <2>8. \A j \in 1 .. n : slots[j] = Slots(v)[j] BY <2>5, <2>6, <2>7, Zenon
  <2> QED BY <1>3, <1>9, <2>8, SeqEqual, Zenon
<1> QED BY <1>9, <1>10, Zenon

(* The reference v is at i on the operand stack of f *)
Receives(f, v, i) ==
  /\ v \in Value /\ v.kind = "R"
  /\ f.stack[i] = Half(v, 1) /\ f.stack[i + 1] = Half(v, 2)

(* Of a clean frame that is about to pass one reference, the receiver,     *)
(* GetRefFromTop(arg_slot_count_ - 1) reads both halves of it: the         *)
(* receiver has one slot more than the count says, and the peek starts one *)
(* below.                                                                  *)
LEMMA ReceiverPeeked ==
  ASSUME NEW f \in Frame, FrameOK(f), f.clean, NEW m \in Methods \ Static, References(ArgKinds(m)) = 1,
         NEW k \in 0 .. Len(f.shadow), KindsIn(Rest(f.shadow, k)) = ArgKinds(m)
  PROVE  Receives(f, Rest(f.shadow, k)[1], Len(f.stack) - CalcArgSlotCount(m))
<1> DEFINE vs == Rest(f.shadow, k)  top == Len(f.stack)  n == CalcArgSlotCount(m)
           ss == f.shadow  a == Len(Flatten(First(ss, k)))
<1>1. f.stack \in Seq(Slot) /\ ss \in Seq(Value) /\ f.stack = Flatten(ss)
  BY FrameFields, Zenon DEF FrameOK, Arrived
<1>2. /\ vs \in Seq(Value) /\ Len(vs) = Len(ss) - k
      /\ \A i \in 1 .. Len(ss) - k : vs[i] = ss[k + i]
  <2>1. /\ Rest(ss, k) \in Seq(Value) /\ Len(Rest(ss, k)) = Len(ss) - k
        /\ \A i \in 1 .. Len(ss) - k : Rest(ss, k)[i] = ss[k + i]
    <3>1. ss \in Seq(Value) /\ k \in 0 .. Len(ss) BY <1>1, Zenon
    <3> HIDE DEF ss
    <3>2. \A s \in Seq(Value) : \A j \in 0 .. Len(s) :
            /\ Rest(s, j) \in Seq(Value) /\ Len(Rest(s, j)) = Len(s) - j
            /\ \A i \in 1 .. Len(s) - j : Rest(s, j)[i] = s[j + i]
      BY FirstRest
    <3> QED BY <3>1, <3>2, Zenon
  <2> QED BY <2>1
<1>3. 1 \in 1 .. Len(vs) /\ ArgKinds(m)[1] = "R"
  <2> DEFINE r == <<"R">>  ks == ParamKinds(m)
  <2>1. ArgKinds(m) = r \o ks /\ ks \in Seq(Kinds) BY ParamKindsType, Zenon
  <2>2. r \in Seq(Kinds) /\ Len(r) = 1 /\ r[1] = "R" BY DEF Kinds
  <2>3. Cat(ArgKinds(m), r, ks) BY <2>1, <2>2, CatOf, Zenon
  <2>4. Len(vs) = Len(ArgKinds(m)) BY <1>2, KindsInType, Zenon
  <2> HIDE DEF r, ks
  <2>5. Len(ks) \in Nat BY <2>1
  <2>6. 1 \in 1 .. Len(r) + Len(ks) /\ 1 <= Len(r) BY <2>2, <2>5
  <2>7. 1 \in 1 .. Len(vs) BY <2>3, <2>4, <2>6, Zenon DEF Cat
  <2> QED BY <2>2, <2>3, <2>6, <2>7, Zenon DEF Cat
<1>4. vs[1] \in Value BY <1>2, <1>3, ElementOfSeq, Zenon
<1>5. vs[1].kind = "R"
  <2>1. KindsIn(vs)[1] = vs[1].kind BY <1>3, Zenon DEF KindsIn
  <2> QED BY <1>3, <2>1, Zenon
<1>6. k + 1 \in 1 .. Len(ss) /\ vs[1] = ss[k + 1] /\ (k + 1) - 1 = k
  <2>1. Len(ss) \in Nat /\ 1 \in 1 .. Len(ss) - k BY <1>1, <1>2, <1>3
  <2>2. k + 1 \in 1 .. Len(ss) /\ (k + 1) - 1 = k
    <3> DEFINE l == Len(ss)
    <3>1. l \in Nat /\ 1 \in 1 .. l - k /\ k \in 0 .. l BY <2>1
    <3> HIDE DEF l
    <3>2. k + 1 \in 1 .. l /\ (k + 1) - 1 = k BY <3>1
    <3> QED BY <3>2 DEF l
  <2> QED BY <1>2, <2>1, <2>2, Zenon
<1>7. /\ Len(Slots(vs[1])) = 2
      /\ Slots(vs[1])[1] = Half(vs[1], 1) /\ Slots(vs[1])[2] = Half(vs[1], 2)
  <2>1. vs[1].kind # "I" BY <1>5
  <2> QED BY <1>4, <2>1, SlotsType, Zenon
<1>8. \A j \in 1 .. 2 : f.stack[a + j] = Slots(vs[1])[j]
  <2> SUFFICES ASSUME NEW j \in 1 .. 2 PROVE f.stack[a + j] = Slots(vs[1])[j] BY Zenon
  <2>1. j \in 1 .. Len(Slots(ss[k + 1])) BY <1>6, <1>7, Zenon
  <2>2. Flatten(ss)[Len(Flatten(First(ss, (k + 1) - 1))) + j] = Slots(ss[k + 1])[j]
    <3> DEFINE i == k + 1
    <3>1. i \in 1 .. Len(ss) /\ j \in 1 .. Len(Slots(ss[i])) BY <1>6, <2>1, Zenon
    <3> HIDE DEF i, ss
    <3>2. Flatten(ss)[Len(Flatten(First(ss, i - 1))) + j] = Slots(ss[i])[j]
      BY <1>1, <3>1, FlattenMiddle, ZenonT(40)
    <3> QED BY <3>2, Zenon DEF i
  <2> QED BY <1>1, <1>6, <2>2, Zenon
<1>9. a \in Nat /\ top = a + (n + 1) /\ n \in Nat
  <2>1. n \in Nat BY SizesType, Zenon
  <2>2. Len(Flatten(vs)) = n + 1 BY <1>2, PassedLength, Zenon
  <2>3. a \in Nat /\ Len(Flatten(ss)) = a + Len(Flatten(Rest(ss, k)))
    BY <1>1, ValuesPopped, ZenonT(40)
  <2> QED BY <1>1, <2>1, <2>2, <2>3, Zenon
<1>10. top - n = a + 1 /\ top - n + 1 = a + 2
  <2> HIDE DEF a
  <2> QED BY <1>9
<1>11. 1 \in 1 .. 2 /\ 2 \in 1 .. 2 OBVIOUS
<1> QED BY <1>4, <1>5, <1>7, <1>8, <1>10, <1>11, ZenonT(40) DEF Receives

(* f returns v, as value *)
Returns(f, value, v) ==
  value \in Seq(Slot) /\ Len(value) = Len(Slots(v)) /\ (f.clean => value = Slots(v))

(* What Return takes from a clean frame is the value its bytecode returns. *)
LEMMA ReturnedSlots ==
  ASSUME NEW f \in Frame, FrameOK(f), f.shadow # << >>, NEW v, v = f.shadow[Len(f.shadow)],
         Len(Slots(v)) <= Len(f.stack)
  PROVE  v \in Value /\ Returns(f, Rest(f.stack, Len(f.stack) - Len(Slots(v))), v)
<1> DEFINE n == Len(Slots(v))  value == Rest(f.stack, Len(f.stack) - n)
           ss == f.shadow  k == Len(ss) - 1  l == Len(f.stack)
<1>1. f.stack \in Seq(Slot) /\ ss \in Seq(Value) BY FrameFields, Zenon
<1>2. Len(ss) \in Nat \ {0} BY <1>1, EmptySeq, Zenon
<1>3. k \in 0 .. Len(ss) /\ Len(ss) \in 1 .. Len(ss) /\ k + 1 = Len(ss) /\ Len(ss) - k = 1
  <2> DEFINE p == Len(ss)
  <2>1. p \in Nat \ {0} BY <1>2
  <2> HIDE DEF p
  <2>2. p - 1 \in 0 .. p /\ p \in 1 .. p /\ (p - 1) + 1 = p /\ p - (p - 1) = 1 BY <2>1
  <2> QED BY <2>2 DEF p
<1>4. v \in Value BY <1>1, <1>3, ElementOfSeq, Zenon
<1>5. Slots(v) \in Seq(Slot) /\ n \in Nat
  <2>1. Slots(v) \in Seq(Slot) BY <1>4, SlotsType, Zenon
  <2> QED BY <2>1
<1>6. l \in Nat BY <1>1
<1>7. l - n \in 0 .. l /\ l - (l - n) = n
  <2>1. n <= l OBVIOUS
  <2> HIDE DEF l
  <2> QED BY <1>5, <1>6, <2>1
<1>8. value \in Seq(Slot) /\ Len(value) = n
  <2>1. Rest(f.stack, l - n) \in Seq(Slot) /\ Len(Rest(f.stack, l - n)) = l - (l - n)
    BY <1>1, <1>7, FirstRest, Zenon
  <2> QED BY <1>7, <2>1, Zenon
<1>9. Flatten(Rest(ss, k)) = Slots(v)
  <2> DEFINE t == Rest(ss, k)
  <2>1. t \in Seq(Value) /\ Len(t) = Len(ss) - k /\ \A i \in 1 .. Len(ss) - k : t[i] = ss[k + i]
    BY <1>1, <1>3, FirstRest, ZenonT(40)
  <2> HIDE DEF t
  <2>2. Len(t) = 1 /\ t[1] = v
    <3>1. 1 \in 1 .. 1 OBVIOUS
    <3> QED BY <1>3, <2>1, <3>1, Zenon
  <2>3. t = <<v>>
    <3>1. Len(<< >>) # 1 /\ 1 <= 1 OBVIOUS
    <3>2. t # << >> /\ Len(t) <= 1 BY <2>2, <3>1, Zenon
    <3> QED BY <2>1, <2>2, <3>2, Single, Zenon
  <2> DEFINE e == << >>
  <2>4. e \in Seq(Value) /\ <<v>> = Append(e, v) OBVIOUS
  <2>5. Flatten(e) = << >> BY FlattenEmpty, Zenon
  <2>6. Flatten(Append(e, v)) = << >> \o Slots(v)
    <3> HIDE DEF e
    <3> QED BY <1>4, <2>4, <2>5, FlattenAppend, Zenon
  <2>7. << >> \o Slots(v) = Slots(v) BY <1>5, ConcatEmptySeq, Zenon
  <2> QED BY <2>3, <2>4, <2>6, <2>7, Zenon DEF t
<1>10. f.clean => value = Slots(v)
  <2>1. n = n + 0 /\ 0 \in Nat BY <1>5
  <2>2. f.clean /\ 0 = 0 => Rest(f.stack, l - n) = Flatten(Rest(ss, k))
    <3>1. Len(Flatten(Rest(ss, k))) = n + 0 BY <1>9, <2>1, Zenon
    <3> QED BY <1>3, <1>5, <2>1, <3>1, PoppedSlots, Zenon
  <2> QED BY <1>9, <2>2, Zenon
<1> QED BY <1>4, <1>8, <1>10, Zenon DEF Returns

-----------------------------------------------------------------------------
(* The newest of the frames. *)
LEMMA NewestType ==
  ASSUME NEW fs, StackOK(fs), fs # << >>, NEW l, l = Len(fs)
  PROVE  /\ l \in Nat \ {0} /\ l \in 1 .. l /\ l - 1 \in 0 .. l
         /\ fs[l] \in Frame /\ FrameOK(fs[l])
<1>1. fs \in Seq(Frame) /\ \A i \in 1 .. Len(fs) : FrameOK(fs[i]) BY Zenon DEF StackOK
<1>2. l \in Nat \ {0} BY <1>1, EmptySeq, Zenon
<1>3. l \in 1 .. l /\ l - 1 \in 0 .. l BY <1>2
<1>4. fs[l] \in Frame BY <1>1, <1>3, ElementOfSeq, Zenon
<1> QED BY <1>1, <1>2, <1>3, <1>4, Zenon

(* StackOK is kept when the newest frame is replaced. *)
LEMMA StackReplaced ==
  ASSUME NEW fs, StackOK(fs), fs # << >>, NEW g \in Frame, FrameOK(g),
         g.method = fs[Len(fs)].method, NEW gs, gs = [fs EXCEPT ![Len(fs)] = g]
  PROVE  StackOK(gs) /\ gs # << >>
<1> DEFINE l == Len(fs)
<1>1. /\ fs \in Seq(Frame) /\ \A i \in 1 .. l : FrameOK(fs[i])
      /\ fs[1].method = Main
  BY Zenon DEF StackOK
<1>2. l \in Nat \ {0} /\ l \in 1 .. l BY NewestType, Zenon
<1>3. /\ gs \in Seq(Frame) /\ Len(gs) = l
      /\ \A i \in 1 .. l : gs[i] = IF i = l THEN g ELSE fs[i]
  <2>1. /\ [fs EXCEPT ![l] = g] \in Seq(Frame) /\ Len([fs EXCEPT ![l] = g]) = l
        /\ \A i \in 1 .. l : [fs EXCEPT ![l] = g][i] = IF i = l THEN g ELSE fs[i]
    <3>1. fs \in Seq(Frame) /\ l \in 1 .. Len(fs) BY <1>1, <1>2
    <3>2. \A s \in Seq(Frame), i \in Nat : i \in 1 .. Len(s) =>
            /\ [s EXCEPT ![i] = g] \in Seq(Frame) /\ Len([s EXCEPT ![i] = g]) = Len(s)
            /\ \A j \in 1 .. Len(s) : [s EXCEPT ![i] = g][j] = IF j = i THEN g ELSE s[j]
      BY ExceptSeq
    <3> QED BY <1>2, <3>1, <3>2, Zenon
  <2> QED BY <2>1
<1>4. \A i \in 1 .. Len(gs) : FrameOK(gs[i]) BY <1>1, <1>3, Zenon
<1>5. 1 \in 1 .. l
  <2> HIDE DEF l
  <2> QED BY <1>2
<1>6. gs[1].method = Main BY <1>1, <1>3, <1>5, Zenon
<1>7. gs # << >>
  <2>1. Len(<< >>) = 0 /\ 0 \notin Nat \ {0} OBVIOUS
  <2> QED BY <1>2, <1>3, <2>1, Zenon
<1> QED BY <1>3, <1>4, <1>6, <1>7, Zenon DEF StackOK

(* StackOK is kept when a frame is added. *)
LEMMA StackAdded ==
  ASSUME NEW fs, StackOK(fs), fs # << >>, NEW g \in Frame, FrameOK(g), NEW gs, gs = Append(fs, g)
  PROVE  StackOK(gs) /\ gs # << >>
<1> DEFINE l == Len(fs)
<1>1. fs \in Seq(Frame) /\ fs[1].method = Main /\ \A i \in 1 .. l : FrameOK(fs[i])
  BY Zenon DEF StackOK
<1>2. l \in Nat \ {0} BY NewestType, Zenon
<1>3. /\ gs \in Seq(Frame) /\ gs # << >> /\ Len(gs) = l + 1
      /\ \A i \in 1 .. l : gs[i] = fs[i] /\ gs[l + 1] = g
  BY <1>1, AppendProperties
<1> HIDE DEF l
<1>4. 1 \in 1 .. l /\ \A i \in 1 .. l + 1 : i \in 1 .. l \/ i = l + 1 BY <1>2
<1>5. \A i \in 1 .. Len(gs) : FrameOK(gs[i]) BY <1>1, <1>3, <1>4, Zenon
<1> QED BY <1>1, <1>3, <1>4, <1>5, Zenon DEF StackOK

(* StackOK is kept when the newest frame is dropped. *)
LEMMA StackDropped ==
  ASSUME NEW fs, StackOK(fs), fs # << >>, NEW gs, gs = First(fs, Len(fs) - 1)
  PROVE  StackOK(gs) /\ Len(gs) = Len(fs) - 1
<1> DEFINE l == Len(fs)
<1>1. fs \in Seq(Frame) /\ fs[1].method = Main /\ \A i \in 1 .. l : FrameOK(fs[i])
  BY Zenon DEF StackOK
<1>2. l \in Nat \ {0} /\ l - 1 \in 0 .. l BY NewestType, Zenon
<1>3. /\ gs \in Seq(Frame) /\ Len(gs) = l - 1
      /\ \A i \in 1 .. l - 1 : gs[i] = fs[i]
  <2>1. /\ First(fs, l - 1) \in Seq(Frame) /\ Len(First(fs, l - 1)) = l - 1
        /\ \A i \in 1 .. l - 1 : First(fs, l - 1)[i] = fs[i]
    BY <1>1, <1>2, FirstRest, ZenonT(40)
  <2> QED BY <2>1
<1> HIDE DEF l
<1>4. \A i \in 1 .. l - 1 : i \in 1 .. l BY <1>2
<1>5. \A i \in 1 .. Len(gs) : FrameOK(gs[i]) BY <1>1, <1>3, <1>4, Zenon
<1>6. gs # << >> => gs[1].method = Main
  <2> SUFFICES ASSUME gs # << >> PROVE gs[1].method = Main OBVIOUS
  <2>1. Len(gs) \in Nat \ {0} BY <1>3, EmptySeq, Zenon
  <2>2. 1 \in 1 .. l - 1 BY <1>2, <1>3, <2>1
  <2> QED BY <1>1, <1>3, <2>2, Zenon
<1> QED BY <1>3, <1>5, <1>6, Zenon DEF StackOK, l

(* The invariant is kept by the end of the program: a wild pointer is met  *)
(* only from a frame that is not clean or in a call that passes two        *)
(* references.                                                             *)
LEMMA DieKeeps ==
  ASSUME IInv, NEW how, Die(how), how = "fatal" \/ (how = "segv" /\ (Newest.clean => WildCall))
  PROVE  IInv'
<1>1. status' = how /\ frames' = frames BY Zenon DEF Die
<1>2. StackOK(frames') BY <1>1, Zenon DEF IInv
<1>3. ~ Running' /\ status' \in {"ok", "done", "fatal", "segv"} BY <1>1 DEF Running
<1>4. (status = "segv" /\ Newest.clean => WildCall)'
  <2>1. CASE how = "fatal" BY <1>1, <2>1
  <2>2. CASE Newest.clean => WildCall
    <3>1. Newest' = Newest BY <1>1, Zenon DEF Newest
    <3>2. WildCall' = WildCall BY <3>1, Zenon DEF WildCall, MayCall
    <3> QED BY <2>2, <3>1, <3>2, Zenon
  <2> QED BY <2>1, <2>2
<1> QED BY <1>2, <1>3, <1>4, Zenon DEF IInv

(* What is to be shown for a step after which the program runs on. *)
LEMMA StepKeeps ==
  ASSUME StackOK(frames'), status' = "ok", frames' # << >>
  PROVE  IInv'
<1>1. status' \in {"ok", "done", "fatal", "segv"} /\ status' # "segv" OBVIOUS
<1> QED BY <1>1, Zenon DEF IInv

(* The invariant is kept by a push on the newest frame. *)
LEMMA PushStep ==
  ASSUME IInv, Running, NEW slots \in Seq(Slot), NEW v \in Value,
         Len(slots) = Len(Slots(v)), Newest.clean => slots = Slots(v),
         frames' = SetNewest(Pushed(Newest, slots, v)), UNCHANGED status
  PROVE  IInv'
<1> DEFINE f == Newest  g == Pushed(f, slots, v)
<1>1. StackOK(frames) /\ frames # << >> BY Zenon DEF IInv
<1>2. f \in Frame /\ FrameOK(f) /\ f = frames[Len(frames)] BY <1>1, NewestType, Zenon DEF Newest
<1>3. frames' = [frames EXCEPT ![Len(frames)] = g] BY Zenon DEF SetNewest
<1>4. g = Pushed(f, slots, v) OBVIOUS
<1>5. Newest.clean => slots = Slots(v) OBVIOUS
<1> HIDE DEF g
<1>6. Same(g, f) /\ Holds(g, f.stack \o slots, Append(f.shadow, v), f.left, f.clean)
  BY <1>2, <1>4, FramePushed, Zenon
<1>7. FrameOK(g) BY <1>2, <1>5, <1>6, PushKeeps, Zenon
<1>8. g \in Frame /\ g.method = frames[Len(frames)].method BY <1>2, <1>6, Zenon DEF Same
<1>9. StackOK(frames') /\ frames' # << >> BY <1>1, <1>3, <1>7, <1>8, StackReplaced, Zenon
<1> QED BY <1>9, StepKeeps, Zenon DEF Running

(* What the invariant says of the newest frame. *)
LEMMA NewestOK ==
  ASSUME IInv, Running
  PROVE  /\ StackOK(frames) /\ frames # << >> /\ Newest = frames[Len(frames)]
         /\ Newest \in Frame /\ FrameOK(Newest) /\ Len(frames) \in Nat \ {0}
<1>1. StackOK(frames) /\ frames # << >> BY Zenon DEF IInv
<1> QED BY <1>1, NewestType, Zenon DEF Newest

-----------------------------------------------------------------------------
(* Push keeps the invariant. *)
LEMMA PushOK ==
  ASSUME IInv, Running, NEW kind \in Kinds, Push(kind)
  PROVE  IInv'
<1> DEFINE v == [at |-> <<Len(frames), Len(Newest.shadow) + 1>>, kind |-> kind]
<1>1. \/ Die("fatal")
      \/ frames' = SetNewest(Pushed(Newest, Slots(v), v)) /\ UNCHANGED status
  BY Zenon DEF Push
<1>2. v \in Value
  <2>1. Len(frames) \in Nat BY NewestOK
  <2>2. Newest.shadow \in Seq(Value) BY NewestOK, FrameFields, Zenon
  <2>3. Len(Newest.shadow) + 1 \in Nat
    <3> DEFINE s == Newest.shadow
    <3>1. s \in Seq(Value) BY <2>2
    <3> HIDE DEF s
    <3>2. Len(s) + 1 \in Nat BY <3>1
    <3> QED BY <3>2 DEF s
  <2> QED BY <2>1, <2>3 DEF Value
<1> HIDE DEF v
<1>3. Slots(v) \in Seq(Slot) BY <1>2, SlotsType, Zenon
<1>4. CASE Die("fatal") BY <1>4, DieKeeps, Zenon
<1>5. CASE frames' = SetNewest(Pushed(Newest, Slots(v), v)) /\ UNCHANGED status
  BY <1>2, <1>3, <1>5, PushStep, Zenon
<1> QED BY <1>1, <1>4, <1>5, Zenon

(* Load keeps the invariant. *)
LEMMA LoadOK ==
  ASSUME IInv, Running, NEW k \in 1 .. Len(Newest.args), Load(k)
  PROVE  IInv'
<1> DEFINE f == Newest  v == f.args[k]  index == LocalIndex(KindsIn(f.args), k)  n == Len(Slots(v))
           slots == [j \in 1 .. n |-> f.locals[index + j - 1]]
<1>1. \/ Die("fatal")
      \/ /\ index + n <= MaxLocalsOf(f.method)
         /\ frames' = SetNewest(Pushed(f, slots, v)) /\ UNCHANGED status
  BY Zenon DEF Load
<1>2. f \in Frame /\ FrameOK(f) BY NewestOK, Zenon
<1>3. v \in Value
  <2>1. f.args \in Seq(Value) BY <1>2, FrameFields, Zenon
  <2> QED BY <2>1, ElementOfSeq, Zenon
<1>4. CASE Die("fatal") BY <1>4, DieKeeps, Zenon
<1>5. CASE /\ index + n <= MaxLocalsOf(f.method)
           /\ frames' = SetNewest(Pushed(f, slots, v)) /\ UNCHANGED status
  <2>1. k \in 1 .. Len(f.args) /\ v = f.args[k] /\ index = LocalIndex(KindsIn(f.args), k)
        /\ n = Len(Slots(v)) /\ index + n <= MaxLocalsOf(f.method)
        /\ slots = [j \in 1 .. n |-> f.locals[index + j - 1]]
        /\ f = Newest /\ frames' = SetNewest(Pushed(Newest, slots, v)) /\ UNCHANGED status
    BY <1>5, Zenon
  <2> HIDE DEF f, v, index, n, slots
  <2>2. slots \in Seq(Slot) /\ Len(slots) = Len(Slots(v)) /\ (f.clean => slots = Slots(v))
    BY <1>2, <2>1, LoadedSlots, SMTT(30)
  <2> QED BY <1>3, <2>1, <2>2, PushStep, Zenon
<1> QED BY <1>1, <1>4, <1>5, Zenon

(* The newest frame of a program that may call m has the arguments of m. *)
LEMMA MayCallArguments ==
  ASSUME IInv, Running, NEW m \in Methods, MayCall(m), NEW k, k = Len(Newest.shadow) - Len(ArgKinds(m))
  PROVE  /\ k \in 0 .. Len(Newest.shadow)
         /\ KindsIn(Rest(Newest.shadow, k)) = ArgKinds(m)
         /\ Rest(Newest.shadow, k) \in Seq(Value)
<1> DEFINE s == Newest.shadow  ks == ArgKinds(m)
<1>1. k >= 0 /\ KindsIn(Rest(s, k)) = ks BY Zenon DEF MayCall
<1>2. s \in Seq(Value) /\ ks \in Seq(Kinds) BY NewestOK, FrameFields, ParamKindsType, Zenon
<1>3. k = Len(s) - Len(ks) OBVIOUS
<1> HIDE DEF s, ks
<1>4. k \in 0 .. Len(s)
  <2>1. Len(s) \in Nat /\ Len(ks) \in Nat BY <1>2
  <2> QED BY <1>1, <1>3, <2>1
<1>5. Rest(s, k) \in Seq(Value) BY <1>2, <1>4, FirstRest, Zenon
<1> QED BY <1>1, <1>4, <1>5, Zenon DEF s, ks

(* InvokeMethod keeps the invariant, when the receiver it is given is the  *)
(* right one in the case Found is about.                                   *)
LEMMA InvokeStep ==
  ASSUME IInv, Running, NEW m \in Methods, MayCall(m), NEW this \in Slot,
         NEW vs, vs = Rest(Newest.shadow, Len(Newest.shadow) - Len(ArgKinds(m))),
         Newest.clean /\ m \notin Static /\ References(ArgKinds(m)) = 1 => this = Half(vs[1], 1),
         InvokeMethod(m, this)
  PROVE  IInv'
<1> DEFINE f == Newest  n == CalcArgSlotCount(m)  r == References(ArgKinds(m))
           k == Len(f.shadow) - Len(ArgKinds(m))  below == Len(f.stack) - n
           g == Called(f, m, below, k)
           h == NewFrame(m, LocalVars(m, Rest(f.stack, below)), Rest(f.shadow, k), this, f.clean)
<1>1. \/ Die("fatal")
      \/ /\ ~ (below < 0) /\ ~ (n > MaxLocalsOf(m))
         /\ frames' = Append(SetNewest(g), h) /\ UNCHANGED status
  BY Zenon DEF InvokeMethod
<1>2. CASE Die("fatal") BY <1>2, DieKeeps, Zenon
<1>3. CASE /\ ~ (below < 0) /\ ~ (n > MaxLocalsOf(m))
           /\ frames' = Append(SetNewest(g), h) /\ UNCHANGED status
  <2>1. /\ StackOK(frames) /\ frames # << >> /\ f = frames[Len(frames)]
        /\ f \in Frame /\ FrameOK(f)
    BY NewestOK, Zenon
  <2>2. k \in 0 .. Len(f.shadow) /\ KindsIn(vs) = ArgKinds(m) /\ vs \in Seq(Value)
    BY MayCallArguments, Zenon
  <2>3. n \in Nat /\ r \in Nat /\ n <= MaxLocalsOf(m) /\ n <= Len(f.stack)
    <3> DEFINE max == MaxLocalsOf(m)  l == Len(f.stack)
    <3>1. n \in Nat /\ r \in Nat /\ max \in Nat BY SizesType, Zenon
    <3>2. ~ (n > max) /\ ~ (l - n < 0) BY <1>3, Zenon
    <3>3. f.stack \in Seq(Slot) BY <2>1, FrameFields, Zenon
    <3>4. l \in Nat BY <3>3
    <3> HIDE DEF n, max, l
    <3>5. n <= max /\ n <= l BY <3>1, <3>2, <3>4
    <3> QED BY <3>1, <3>5 DEF max, l
  <2>4. Len(Flatten(vs)) = n + r BY <2>2, PassedLength, Zenon
  <2>5. /\ n = CalcArgSlotCount(m) /\ r = References(ArgKinds(m)) /\ vs = Rest(f.shadow, k)
        /\ below = Len(f.stack) - n
        /\ g = Called(f, m, below, k)
        /\ h = NewFrame(m, LocalVars(m, Rest(f.stack, below)), vs, this, f.clean)
        /\ f.clean /\ m \notin Static /\ r = 1 => this = Half(vs[1], 1)
        /\ frames' = Append(SetNewest(g), h) /\ status' = status
    BY <1>3, Zenon
  <2> HIDE DEF f, n, r, k, below, g, h
  <2>6. Len(Flatten(Rest(f.shadow, k))) = n + r BY <2>4, <2>5, Zenon
  <2>7. below \in 0 .. Len(f.stack)
    <3>1. Len(f.stack) - n \in 0 .. Len(f.stack) BY <2>1, <2>2, <2>3, <2>6, PoppedSlots, Zenon
    <3> QED BY <2>5, <3>1, Zenon
  <2>8. Same(g, f) /\ Holds(g, First(f.stack, below), First(f.shadow, k), f.left + r, f.clean /\ r = 0)
    BY <2>1, <2>2, <2>5, <2>7, FrameCalled, Zenon
  <2>9. FrameOK(g)
    <3>1. Holds(g, First(f.stack, Len(f.stack) - n), First(f.shadow, k), f.left + r, f.clean /\ r = 0)
      BY <2>5, <2>8, Zenon
    <3> QED BY <2>1, <2>2, <2>3, <2>6, <2>8, <3>1, PopKeeps, Zenon
  <2>10. h \in Frame /\ FrameOK(h)
    <3>1. h = NewFrame(m, LocalVars(m, Rest(f.stack, Len(f.stack) - n)), vs, this, f.clean)
      BY <2>5, Zenon
    <3>2. f.clean /\ m \notin Static /\ References(ArgKinds(m)) = 1 => this = Half(vs[1], 1)
      BY <2>5, Zenon
    <3> QED BY <2>1, <2>2, <2>3, <2>5, <3>1, <3>2, CalleeOK, ZenonT(40)
  <2> DEFINE gs == SetNewest(g)
  <2>11. gs = [frames EXCEPT ![Len(frames)] = g] BY Zenon DEF SetNewest
  <2>12. frames' = Append(gs, h) /\ status' = "ok" BY <2>5, Zenon DEF Running
  <2> HIDE DEF gs
  <2>13. g \in Frame /\ g.method = frames[Len(frames)].method BY <2>1, <2>8, Zenon DEF Same
  <2>14. StackOK(gs) /\ gs # << >> BY <2>1, <2>9, <2>11, <2>13, StackReplaced, Zenon
  <2>15. StackOK(frames') /\ frames' # << >> BY <2>10, <2>12, <2>14, StackAdded, Zenon
  <2> QED BY <2>12, <2>15, StepKeeps, Zenon
<1> QED BY <1>1, <1>2, <1>3, Zenon

(* Zero is a slot. *)
LEMMA ZeroSlot == Zero \in Slot
<1>1. <<0, 0>> \in Nat \X Nat OBVIOUS
<1> QED BY <1>1 DEF Zero, Slot, Kinds

(* INVOKE_STATIC keeps the invariant. *)
LEMMA StaticOK ==
  ASSUME IInv, Running, NEW m \in Methods, INVOKE_STATIC(m)
  PROVE  IInv'
<1> DEFINE vs == Rest(Newest.shadow, Len(Newest.shadow) - Len(ArgKinds(m)))
<1>1. m \in Static /\ MayCall(m) /\ InvokeMethod(m, Zero) BY Zenon DEF INVOKE_STATIC
<1>2. Newest.clean /\ m \notin Static /\ References(ArgKinds(m)) = 1 => Zero = Half(vs[1], 1)
  BY <1>1, Zenon
<1>3. vs = Rest(Newest.shadow, Len(Newest.shadow) - Len(ArgKinds(m))) OBVIOUS
<1> HIDE DEF vs
<1> QED BY <1>1, <1>2, <1>3, ZeroSlot, InvokeStep, Zenon

(* INVOKE_INSTANCE keeps the invariant, the wild pointer included. *)
LEMMA InstanceOK ==
  ASSUME IInv, Running, NEW m \in Methods, INVOKE_INSTANCE(m)
  PROVE  IInv'
<1> DEFINE f == Newest  k == Len(f.shadow) - Len(ArgKinds(m))  vs == Rest(f.shadow, k)
           top == Len(f.stack)  n == CalcArgSlotCount(m)  a == f.stack[top - n]  b == f.stack[top - n + 1]
           Halves == a.kind = "R" /\ a.half = 1 /\ b = [a EXCEPT !.half = 2]
<1>1. m \notin Static /\ MayCall(m) BY Zenon DEF INVOKE_INSTANCE
<1>2. \/ Die("fatal")
      \/ top > n + 1 /\ Halves /\ InvokeMethod(m, a)
      \/ top > n + 1 /\ ~ Halves /\ Die("segv")
  <2>1. Peeked(m)[1] = a /\ Peeked(m)[2] = b BY DEF Peeked
  <2>2. \/ Die("fatal")
        \/ /\ top > n + 1
           /\ \/ /\ Peeked(m)[1].kind = "R" /\ Peeked(m)[1].half = 1
                 /\ Peeked(m)[2] = [Peeked(m)[1] EXCEPT !.half = 2]
                 /\ InvokeMethod(m, Peeked(m)[1])
              \/ /\ ~ (/\ Peeked(m)[1].kind = "R" /\ Peeked(m)[1].half = 1
                       /\ Peeked(m)[2] = [Peeked(m)[1] EXCEPT !.half = 2])
                 /\ Die("segv")
    BY Zenon DEF INVOKE_INSTANCE
  <2> HIDE DEF f, k, vs, top, n, a, b
  <2> QED BY <2>1, <2>2, Zenon
<1>3. f \in Frame /\ FrameOK(f) BY NewestOK, Zenon
<1>4. f.stack \in Seq(Slot) BY <1>3, FrameFields, Zenon
<1>5. k \in 0 .. Len(f.shadow) /\ KindsIn(vs) = ArgKinds(m) /\ vs \in Seq(Value)
  BY <1>1, MayCallArguments, Zenon
<1>6. n \in Nat /\ References(ArgKinds(m)) \in Nat BY SizesType, Zenon
<1>7. f.clean /\ References(ArgKinds(m)) = 1
        => /\ vs[1] \in Value /\ vs[1].kind = "R"
           /\ a = Half(vs[1], 1) /\ b = Half(vs[1], 2)
  <2>1. m \in Methods \ Static BY <1>1
  <2>2. /\ vs = Rest(f.shadow, k) /\ top = Len(f.stack) /\ n = CalcArgSlotCount(m)
        /\ a = f.stack[top - n] /\ b = f.stack[top - n + 1]
    OBVIOUS
  <2>3. KindsIn(Rest(f.shadow, k)) = ArgKinds(m) BY <1>5, Zenon
  <2> HIDE DEF f, k, vs, top, n, a, b
  <2>4. f.clean /\ References(ArgKinds(m)) = 1
          => Receives(f, Rest(f.shadow, k)[1], Len(f.stack) - CalcArgSlotCount(m))
    BY <1>3, <1>5, <2>1, <2>3, ReceiverPeeked, Zenon
  <2> QED BY <2>2, <2>4, Zenon DEF Receives
<1>8. CASE Die("fatal") BY <1>8, DieKeeps, Zenon
<1>9. CASE top > n + 1 /\ Halves /\ InvokeMethod(m, a)
  <2>1. a \in Slot
    <3>1. top \in Nat BY <1>4
    <3>2. top > n + 1 BY <1>9, Zenon
    <3>3. top - n \in 1 .. top
      <4> HIDE DEF top, n
      <4> QED BY <1>6, <3>1, <3>2
    <3> QED BY <1>4, <3>3, ElementOfSeq, Zenon
  <2>2. Newest.clean /\ m \notin Static /\ References(ArgKinds(m)) = 1 => a = Half(vs[1], 1)
    BY <1>7, Zenon
  <2>3. vs = Rest(Newest.shadow, Len(Newest.shadow) - Len(ArgKinds(m))) OBVIOUS
  <2>4. InvokeMethod(m, a) BY <1>9, Zenon
  <2> HIDE DEF vs, a
  <2> QED BY <1>1, <2>1, <2>2, <2>3, <2>4, InvokeStep, Zenon
<1>10. CASE top > n + 1 /\ ~ Halves /\ Die("segv")
  <2>1. f.clean => References(ArgKinds(m)) # 1
    <3> SUFFICES ASSUME f.clean, References(ArgKinds(m)) = 1 PROVE FALSE BY Zenon
    <3>1. /\ vs[1] \in Value /\ vs[1].kind = "R"
          /\ a = Half(vs[1], 1) /\ b = Half(vs[1], 2)
      BY <1>7, Zenon
    <3> HIDE DEF a, b, vs
    <3>2. Halves BY <3>1 DEF Half, Value
    <3> QED BY <1>10, <3>2, Zenon
  <2>2. References(ArgKinds(m)) # 0
    <3> DEFINE r == <<"R">>  ks == ParamKinds(m)
    <3>1. ArgKinds(m) = r \o ks /\ ks \in Seq(Kinds) BY <1>1, ParamKindsType, Zenon
    <3>2. r \in Seq(Kinds) /\ "R" \in Kinds BY DEF Kinds
    <3>3. Count(r, "R") = IF "R" = "R" THEN 1 ELSE 0 BY <3>2, CountOne, Zenon
    <3> HIDE DEF r, ks
    <3>4. Count(r \o ks, "R") = Count(r, "R") + Count(ks, "R") BY <3>1, <3>2, CountConcat, Zenon
    <3>5. Count(ks, "R") \in Nat BY <3>1, CountType, Zenon
    <3> DEFINE x == Count(r \o ks, "R")  y == Count(ks, "R")
    <3>6. x = 1 + y /\ y \in Nat BY <3>3, <3>4, <3>5
    <3> HIDE DEF x, y
    <3>7. x # 0 BY <3>6
    <3> QED BY <3>1, <3>7, Zenon DEF References, x
  <2>3. f.clean => WildCall
    <3> SUFFICES ASSUME f.clean PROVE WildCall BY Zenon
    <3> DEFINE x == References(ArgKinds(m))
    <3>1. x \in Nat /\ x # 0 /\ x # 1 BY <1>6, <2>1, <2>2, Zenon
    <3> HIDE DEF x
    <3>2. x > 1 BY <3>1
    <3>3. m \in Methods \ Static BY <1>1
    <3> QED BY <1>1, <3>2, <3>3, Zenon DEF WildCall, x
  <2>4. Newest.clean => WildCall BY <2>3, Zenon
  <2>5. Die("segv") BY <1>10, Zenon
  <2> QED BY <2>4, <2>5, DieKeeps, Zenon
<1> QED BY <1>2, <1>8, <1>9, <1>10, Zenon

(* HackPrintln keeps the invariant. *)
LEMMA PrintlnOK ==
  ASSUME IInv, Running, NEW m \in Println, HackPrintln(m)
  PROVE  IInv'
<1> DEFINE f == Newest  k == Len(f.shadow) - Len(ArgKinds(m))
           n == (IF KindOf(Params[m][1]) = "I" THEN 1 ELSE 2) + (IF m \in Static THEN 0 ELSE 2)
           below == Len(f.stack) - n
           g == Printed(f, m, below, k)
<1>1. MayCall(m) BY Zenon DEF HackPrintln
<1>2. \/ Die("fatal")
      \/ Params[m] /= << >> /\ ~ (below < 0) /\ frames' = SetNewest(g) /\ UNCHANGED status
  BY Zenon DEF HackPrintln
<1>3. CASE Die("fatal") BY <1>3, DieKeeps, Zenon
<1>4. CASE Params[m] /= << >> /\ ~ (below < 0) /\ frames' = SetNewest(g) /\ UNCHANGED status
  <2> DEFINE r == Behind(m)  us == Expected(m, k)
             clean == f.clean /\ Len(Params[m]) = 1 /\ us = << >>
  <2>0. m \in Methods BY MethodAssumption
  <2>1. /\ StackOK(frames) /\ frames # << >> /\ f = frames[Len(frames)]
        /\ f \in Frame /\ FrameOK(f) /\ Len(frames) \in Nat
    BY NewestOK
  <2>2. /\ k \in 0 .. Len(f.shadow) /\ KindsIn(Rest(f.shadow, k)) = ArgKinds(m)
        /\ Rest(f.shadow, k) \in Seq(Value)
    BY <1>1, <2>0, MayCallArguments, Zenon
  <2>3. /\ r \in Nat /\ (Len(Params[m]) = 1 => r = 0)
        /\ Len(Flatten(Rest(f.shadow, k))) = n + r
    BY <1>4, <2>2, PrintlnLength, Zenon
  <2>4. n \in Nat
    <3> HIDE DEF f
    <3> QED OBVIOUS
  <2>5. f.stack \in Seq(Slot) /\ f.shadow \in Seq(Value) BY <2>1, FrameFields, Zenon
  <2>6. /\ below = Len(f.stack) - n /\ g = Printed(f, m, below, k) /\ us = Expected(m, k)
        /\ frames' = [frames EXCEPT ![Len(frames)] = g] /\ status' = "ok"
        /\ ~ (below < 0)
    BY <1>4, Zenon DEF SetNewest, Running
  <2>7. us \in Seq(Value)
    <3>1. Result[m] \in Kinds \cup {"V"} BY <2>0, MethodAssumption
    <3>2. k \in Nat BY <2>2
    <3> HIDE DEF k, f
    <3>3. Result[m] # "V" => [at |-> <<Len(frames), k + 1>>, kind |-> Result[m]] \in Value
      BY <2>1, <3>1, <3>2 DEF Value
    <3> QED BY <3>3 DEF Expected
  <2>8. below \in 0 .. Len(f.stack) /\ n <= Len(f.stack)
    <3> DEFINE l == Len(f.stack)
    <3>1. l \in Nat BY <2>5, LenProperties, Zenon
    <3>2. below = l - n /\ ~ (below < 0) BY <2>6
    <3> HIDE DEF below, l, n
    <3>3. below \in 0 .. l /\ n <= l BY <2>4, <3>1, <3>2
    <3> QED BY <3>3 DEF l
  <2>9. clean => f.clean /\ r = 0 /\ us = << >> BY <2>3, Zenon
  <2> HIDE DEF n, k, below, g, us, r
  <2>10. Same(g, f) /\ Holds(g, First(f.stack, below), First(f.shadow, k) \o us,
                             f.left + r - Len(Flatten(us)), clean)
    <3>1. Behind(m) \in Nat BY <2>3, Zenon DEF r
    <3>2. Same(g, f) /\ Holds(g, First(f.stack, below), First(f.shadow, k) \o us,
                              f.left + Behind(m) - Len(Flatten(us)),
                              f.clean /\ Len(Params[m]) = 1 /\ us = << >>)
      <4> HIDE DEF f
      <4> QED BY <2>0, <2>1, <2>2, <2>6, <2>7, <2>8, <3>1, FramePrinted, ZenonT(40)
    <3> QED BY <3>2, Zenon DEF r
  <2> HIDE DEF f, clean
  <2>11. Holds(g, First(f.stack, Len(f.stack) - n), First(f.shadow, k) \o us,
               f.left + r - Len(Flatten(us)), clean)
    BY <2>6, <2>10, Zenon
  <2>12. FrameOK(g)
    BY <2>1, <2>2, <2>3, <2>4, <2>7, <2>8, <2>9, <2>10, <2>11, PrintKeeps, ZenonT(40)
  <2>13. g \in Frame /\ g.method = frames[Len(frames)].method BY <2>1, <2>10, Zenon DEF Same
  <2>14. StackOK(frames') /\ frames' # << >> BY <2>1, <2>6, <2>12, <2>13, StackReplaced, Zenon
  <2> QED BY <2>6, <2>14, StepKeeps, Zenon
<1> QED BY <1>2, <1>3, <1>4, Zenon

(* INVOKE_NATIVE keeps the invariant; a native frame with reference        *)
(* arguments is not clean.                                                 *)
LEMMA NativeOK ==
  ASSUME IInv, Running, INVOKE_NATIVE
  PROVE  IInv'
<1> DEFINE f == Newest  v == [at |-> <<Len(frames), 1>>, kind |-> Result[f.method]]
<1>1. f \in Frame /\ FrameOK(f) /\ Len(frames) \in Nat BY NewestOK
<1>2. \/ Die("fatal")
      \/ f.method \in Native /\ References(ArgKinds(f.method)) > 0 /\ Die("segv")
      \/ /\ Result[f.method] /= "V"
         /\ frames' = SetNewest(Pushed(Newest, Slots(v), v)) /\ UNCHANGED status
  BY Zenon DEF INVOKE_NATIVE
<1>3. CASE Die("fatal") BY <1>3, DieKeeps, Zenon
<1>4. CASE f.method \in Native /\ References(ArgKinds(f.method)) > 0 /\ Die("segv")
  <2>1. Main \notin Native BY MethodAssumption
  <2>2. f.clean => References(ArgKinds(f.method)) = 0 \/ f.method = Main BY <1>1, Zenon DEF FrameOK
  <2>3. ~ (0 > 0) OBVIOUS
  <2>4. ~ f.clean BY <1>4, <2>1, <2>2, <2>3, Zenon
  <2>5. Newest.clean => WildCall BY <2>4, Zenon
  <2>6. Die("segv") BY <1>4, Zenon
  <2> QED BY <2>5, <2>6, DieKeeps, Zenon
<1>5. CASE /\ Result[f.method] /= "V"
           /\ frames' = SetNewest(Pushed(Newest, Slots(v), v)) /\ UNCHANGED status
  <2>1. f.method \in Methods BY <1>1, FrameFields, Zenon
  <2>2. \A m \in Methods : Result[m] \in Kinds \cup {"V"} BY MethodAssumption
  <2>3. Result[f.method] \in Kinds BY <1>5, <2>1, <2>2
  <2>4. v \in Value
    <3> DEFINE kind == Result[f.method]
    <3>1. kind \in Kinds BY <2>3
    <3> HIDE DEF kind
    <3>2. [at |-> <<Len(frames), 1>>, kind |-> kind] \in Value BY <1>1, <3>1 DEF Value
    <3> QED BY <3>2 DEF kind
  <2>5. frames' = SetNewest(Pushed(Newest, Slots(v), v)) /\ UNCHANGED status BY <1>5, Zenon
  <2> HIDE DEF v
  <2>6. Slots(v) \in Seq(Slot) BY <2>4, SlotsType, Zenon
  <2> QED BY <2>4, <2>5, <2>6, PushStep, Zenon
<1> QED BY <1>2, <1>3, <1>4, <1>5, Zenon

(* Return keeps the invariant; the frame of main returns nothing. *)
LEMMA ReturnOK ==
  ASSUME IInv, Running, Return
  PROVE  IInv'
<1> DEFINE f == Newest
           kind == Result[f.method]
           v == f.shadow[Len(f.shadow)]
           n == ResultSlots(kind)
           value == Rest(f.stack, Len(f.stack) - n)
           below == First(frames, Len(frames) - 1)
           invoker == below[Len(below)]
           p == Pushed(invoker, value, v)
           g == Resumed(invoker, f, value, v)
<1>1. \/ /\ frames' = below
         /\ status' = IF below = << >> THEN "done" ELSE "ok"
      \/ kind /= "V" /\ Die("fatal")
      \/ /\ kind /= "V" /\ f.shadow /= << >> /\ v.kind = kind /\ ~ (Len(f.stack) < n)
         /\ frames' = [below EXCEPT ![Len(below)] = g] /\ UNCHANGED status
  BY Zenon DEF Return
<1>2. /\ StackOK(frames) /\ frames # << >> /\ f = frames[Len(frames)] /\ Len(frames) \in Nat \ {0}
      /\ f \in Frame /\ FrameOK(f)
  BY NewestOK, Zenon
<1>3. StackOK(below) /\ Len(below) = Len(frames) - 1 BY <1>2, StackDropped, Zenon
<1>4. CASE /\ frames' = below
           /\ status' = IF below = << >> THEN "done" ELSE "ok"
  <2> HIDE DEF below
  <2>1. StackOK(frames') BY <1>3, <1>4, Zenon
  <2>2. status' = "done" \/ (status' = "ok" /\ frames' # << >>) BY <1>4, Zenon
  <2>3. status' \in {"ok", "done", "fatal", "segv"} /\ status' # "segv" BY <2>2
  <2>4. Running' => frames' # << >> BY <2>2 DEF Running
  <2> QED BY <2>1, <2>3, <2>4, Zenon DEF IInv
<1>5. CASE kind /= "V" /\ Die("fatal") BY <1>5, DieKeeps, Zenon
<1>6. CASE /\ kind /= "V" /\ f.shadow /= << >> /\ v.kind = kind /\ ~ (Len(f.stack) < n)
           /\ frames' = [below EXCEPT ![Len(below)] = g] /\ UNCHANGED status
  <2>1. below # << >>
    <3> SUFFICES ASSUME below = << >> PROVE FALSE BY Zenon
    <3> HIDE DEF below
    <3>1. Len(below) = 0 OBVIOUS
    <3>2. Len(frames) = 1
      <4> DEFINE l == Len(frames)
      <4>1. l \in Nat \ {0} /\ l - 1 = 0 BY <1>2, <1>3, <3>1, Zenon
      <4> HIDE DEF l
      <4>2. l = 1 BY <4>1
      <4> QED BY <4>2 DEF l
    <3>3. f.method = Main BY <1>2, <3>2, Zenon DEF StackOK
    <3>4. Result[Main] = "V" BY MethodAssumption
    <3> QED BY <1>6, <3>3, <3>4, Zenon
  <2>2. invoker \in Frame /\ FrameOK(invoker)
    <3>1. Len(below) = Len(below) OBVIOUS
    <3> HIDE DEF below
    <3> QED BY <1>3, <2>1, <3>1, NewestType, Zenon
  <2>3. f.stack \in Seq(Slot) /\ f.shadow \in Seq(Value) /\ f.clean \in BOOLEAN
    BY <1>2, FrameFields, Zenon
  <2>4. v \in Value
    <3> DEFINE s == f.shadow
    <3>1. s \in Seq(Value) /\ s # << >> BY <1>6, <2>3, Zenon
    <3> HIDE DEF s, f
    <3>2. Len(s) \in Nat \ {0} BY <3>1, EmptySeq, Zenon
    <3>3. Len(s) \in 1 .. Len(s) BY <3>2
    <3>4. s[Len(s)] \in Value BY <3>1, <3>3, ElementOfSeq, Zenon
    <3> QED BY <3>4 DEF s
  <2>5. n = Len(Slots(v)) BY <1>6, <2>4, SlotsType, Zenon DEF ResultSlots
  <2>6. n <= Len(f.stack)
    <3> DEFINE l == Len(f.stack)
    <3>1. l \in Nat BY <2>3
    <3>2. ~ (l < n) BY <1>6, Zenon
    <3>3. n \in Nat
      <4> HIDE DEF kind
      <4> QED BY DEF ResultSlots
    <3> HIDE DEF l, n
    <3>4. n <= l BY <3>1, <3>2, <3>3
    <3> QED BY <3>4 DEF l
  <2>7. f.shadow # << >> /\ v = f.shadow[Len(f.shadow)] /\ value = Rest(f.stack, Len(f.stack) - n)
    BY <1>6, Zenon
  <2>8. p = Pushed(invoker, value, v) /\ g = [p EXCEPT !.clean = p.clean /\ f.clean] BY Zenon DEF Resumed
  <2>9. frames' = [below EXCEPT ![Len(below)] = g] /\ status' = "ok" BY <1>6, Zenon DEF Running
  <2>10. invoker = below[Len(below)] OBVIOUS
  <2> HIDE DEF f, kind, v, n, value, below, invoker, p, g
  <2>11. value \in Seq(Slot) /\ Len(value) = n /\ (f.clean => value = Slots(v))
    <3>1. Len(Slots(v)) <= Len(f.stack) BY <2>5, <2>6, Zenon
    <3>2. Returns(f, Rest(f.stack, Len(f.stack) - Len(Slots(v))), v)
      BY <1>2, <2>7, <3>1, ReturnedSlots, Zenon
    <3> QED BY <2>5, <2>7, <3>2, Zenon DEF Returns
  <2>12. Same(p, invoker)
         /\ Holds(p, invoker.stack \o value, Append(invoker.shadow, v), invoker.left, invoker.clean)
    BY <2>2, <2>4, <2>8, <2>11, FramePushed, Zenon
  <2>13. p \in Frame /\ p.clean = invoker.clean BY <2>12, Zenon DEF Same, Holds
  <2> DEFINE c == p.clean /\ f.clean
  <2>14. c \in BOOLEAN /\ (c => invoker.clean /\ f.clean) /\ g = [p EXCEPT !.clean = c]
    BY <2>8, <2>13, Zenon
  <2> HIDE DEF c
  <2>15. Same(g, p) /\ Holds(g, p.stack, p.shadow, p.left, c) BY <2>13, <2>14, FrameMarked
  <2>16. Same(g, invoker)
    BY <2>12, <2>15, Zenon DEF Same
  <2>17. Holds(g, invoker.stack \o value, Append(invoker.shadow, v), invoker.left, c)
    BY <2>12, <2>15, Zenon DEF Holds
  <2>18. FrameOK(g)
    <3>1. c => invoker.clean /\ value = Slots(v) BY <2>11, <2>14, Zenon
    <3>2. Len(value) = Len(Slots(v)) BY <2>5, <2>11, Zenon
    <3> QED BY <2>2, <2>4, <2>11, <2>16, <2>17, <3>1, <3>2, PushKeeps, Zenon
  <2>19. g \in Frame /\ g.method = below[Len(below)].method BY <2>10, <2>16, Zenon DEF Same
  <2>20. StackOK(frames') /\ frames' # << >> BY <1>3, <2>1, <2>9, <2>18, <2>19, StackReplaced, Zenon
  <2> QED BY <2>9, <2>20, StepKeeps, Zenon
<1> QED BY <1>1, <1>4, <1>5, <1>6, Zenon

-----------------------------------------------------------------------------
(* The slots of a single value. *)
LEMMA FlattenOne ==
  ASSUME NEW v \in Value
  PROVE  Flatten(<<v>>) = Slots(v) /\ <<v>> \in Seq(Value)
<1> DEFINE e == << >>
<1>1. e \in Seq(Value) /\ <<v>> = Append(e, v) /\ <<v>> \in Seq(Value) OBVIOUS
<1>2. Flatten(e) = << >> BY FlattenEmpty, Zenon
<1>3. Flatten(Append(e, v)) = << >> \o Slots(v)
  <2> HIDE DEF e
  <2> QED BY <1>1, <1>2, FlattenAppend, Zenon
<1>4. Slots(v) \in Seq(Slot) BY SlotsType, Zenon
<1>5. << >> \o Slots(v) = Slots(v) BY <1>4, ConcatEmptySeq, Zenon
<1> QED BY <1>1, <1>3, <1>5, Zenon

(* JVM::Start establishes the invariant. *)
LEMMA InitOK == Init => IInv
<1> SUFFICES ASSUME Init PROVE IInv OBVIOUS
<1> DEFINE v == [at |-> <<0, 1>>, kind |-> "R"]
           fits == MaxLocals[Main] >= 2
           slots == IF fits THEN Slots(v) ELSE << >>
           main == NewFrame(Main, LocalVars(Main, slots), <<v>>, Zero, fits)
           g == [main EXCEPT !.clean = fits]
<1>1. frames = <<g>> /\ status = IF fits THEN "ok" ELSE "fatal" BY Zenon DEF Init
<1>2. Main \in Methods /\ Main \in Static /\ Main \notin Native BY MethodAssumption
<1>3. v \in Value
  <2>1. <<0, 1>> \in Nat \X Nat OBVIOUS
  <2> QED BY <2>1 DEF Value, Kinds
<1>4. v.kind = "R" OBVIOUS
<1>5. fits \in BOOLEAN OBVIOUS
<1>6. fits => MaxLocalsOf(Main) >= 2 BY <1>2, Zenon DEF MaxLocalsOf
<1>7. main = NewFrame(Main, LocalVars(Main, slots), <<v>>, Zero, fits)
      /\ g = [main EXCEPT !.clean = fits] /\ slots = IF fits THEN Slots(v) ELSE << >>
  OBVIOUS
<1> HIDE DEF v, fits, slots, main, g
<1>8. /\ Slots(v) \in Seq(Slot) /\ Len(Slots(v)) = 2 /\ Flatten(<<v>>) = Slots(v) /\ <<v>> \in Seq(Value)
  <2>1. v.kind # "I" BY <1>4
  <2> QED BY <1>3, <2>1, SlotsType, FlattenOne, Zenon
<1>9. slots \in Seq(Slot)
  <2>1. << >> \in Seq(Slot) OBVIOUS
  <2> QED BY <1>7, <1>8, <2>1, Zenon
<1>10. Fresh(main, Main, slots, <<v>>, Zero, fits)
  BY <1>2, <1>5, <1>7, <1>8, <1>9, ZeroSlot, FrameNew, Zenon
<1>11. main \in Frame BY <1>10, Zenon DEF Fresh
<1>12. Same(g, main) /\ Holds(g, main.stack, main.shadow, main.left, fits)
  BY <1>5, <1>7, <1>11, FrameMarked, Zenon
<1>13. /\ g \in Frame /\ g.method = Main /\ g.locals = LocalVars(Main, slots) /\ g.args = <<v>>
       /\ g.stack = << >> /\ g.shadow = << >> /\ g.left = 0 /\ g.clean = fits
  BY <1>10, <1>12, Zenon DEF Fresh, Same, Holds
<1>14. KindsIn(g.args) = ArgKinds(Main)
  <2>1. KindsIn(<<v>>) = <<"R">> BY <1>4 DEF KindsIn
  <2>2. ParamKinds(Main) = <<"R">>
    <3>1. Params[Main] = <<[dims |-> 1, base |-> "L"]>> BY MethodAssumption
    <3>2. Len(Params[Main]) = 1 /\ Params[Main][1].base = "L" /\ 1 \in 1 .. 1 BY <3>1
    <3>3. ParamKinds(Main) \in Seq(Kinds) /\ Len(ParamKinds(Main)) = 1
          /\ ParamKinds(Main)[1] = KindOf(Params[Main][1])
      BY <1>2, <3>2, ParamKindsType, Zenon
    <3>4. KindOf(Params[Main][1]) = "R" BY <3>2, Zenon DEF KindOf
    <3>5. Len(<< >>) # 1 /\ 1 <= 1 OBVIOUS
    <3>6. ParamKinds(Main) # << >> /\ Len(ParamKinds(Main)) <= 1 BY <3>3, <3>5, Zenon
    <3>7. ParamKinds(Main) = <<ParamKinds(Main)[1]>> BY <3>3, <3>6, Single, Zenon
    <3> QED BY <3>3, <3>4, <3>7, Zenon
  <2>3. ArgKinds(Main) = ParamKinds(Main) BY <1>2, ParamKindsType, Zenon
  <2> QED BY <1>13, <2>1, <2>2, <2>3, Zenon
<1>15. Accounted(g)
  <2>1. Len(<< >>) = Len(<< >>) + 0 OBVIOUS
  <2> QED BY <1>13, <2>1, FlattenEmpty, Zenon DEF Accounted
<1>16. g.clean => Arrived(g)
  <2> SUFFICES ASSUME fits PROVE Arrived(g) BY <1>13, Zenon
  <2>1. slots = Slots(v) /\ Len(slots) = 2 BY <1>7, <1>8, Zenon
  <2>2. MaxLocalsOf(Main) \in Nat /\ MaxLocalsOf(Main) >= 2 BY <1>2, <1>6, SizesType, Zenon
  <2>3. \A j \in 1 .. 2 : j - 1 \in 0 .. MaxLocalsOf(Main) - 1 /\ j - 1 < 2 /\ (j - 1) + 1 = j
    BY <2>2
  <2>4. \A j \in 1 .. 2 : LocalVars(Main, slots)[j - 1] = slots[j]
    BY <2>1, <2>3, Zenon DEF LocalVars
  <2>5. Flatten(g.args) = slots /\ Len(slots) = 2 /\ g.locals = LocalVars(Main, slots)
    BY <1>8, <1>13, <2>1, Zenon
  <2>6. g.stack = Flatten(g.shadow) BY <1>13, FlattenEmpty, Zenon
  <2> QED BY <2>4, <2>5, <2>6 DEF Arrived
<1>17. FrameOK(g) BY <1>2, <1>13, <1>14, <1>15, <1>16, Zenon DEF FrameOK, Found
<1>18. StackOK(frames) /\ frames # << >>
  <2>1. frames \in Seq(Frame) /\ frames[1] = g /\ Len(frames) = 1 /\ frames # << >> BY <1>1, <1>13
  <2>2. \A i \in 1 .. 1 : i = 1 OBVIOUS
  <2> QED BY <1>13, <1>17, <2>1, <2>2, Zenon DEF StackOK
<1>19. status \in {"ok", "done", "fatal", "segv"} /\ status # "segv" BY <1>1
<1> QED BY <1>18, <1>19, Zenon DEF IInv

(* Every step keeps the invariant. *)
LEMMA NextOK == IInv /\ [Next]_vars => IInv'
<1> SUFFICES ASSUME IInv, [Next]_vars PROVE IInv' OBVIOUS
<1>1. ASSUME Next PROVE IInv'
  <2>1. \A m \in Println : m \in Methods BY MethodAssumption
  <2>2. \/ \E kind \in Kinds : Running /\ Push(kind)
        \/ Running /\ \E k \in 1 .. Len(Newest.args) : Load(k)
        \/ \E m \in Methods : Running /\ INVOKE_STATIC(m)
        \/ \E m \in Methods : Running /\ INVOKE_INSTANCE(m)
        \/ \E m \in Println : Running /\ HackPrintln(m)
        \/ Running /\ INVOKE_NATIVE
        \/ Running /\ Return
    BY <1>1, Zenon DEF Next
  <2> QED BY <2>2, PushOK, LoadOK, StaticOK, InstanceOK, PrintlnOK, NativeOK, ReturnOK, Zenon
<1>2. ASSUME UNCHANGED vars PROVE IInv'
  <2>1. frames' = frames /\ status' = status BY <1>2 DEF vars
  <2>2. Newest' = Newest /\ Running' = Running BY <2>1, Zenon DEF Newest, Running
  <2>3. WildCall' = WildCall BY <2>2, Zenon DEF WildCall, MayCall
  <2> QED BY <2>1, <2>2, <2>3 DEF IInv
<1> QED BY <1>1, <1>2

(* The invariant holds in every reachable state. *)
LEMMA InvariantHolds == Spec => []IInv
<1>1. Init => IInv BY InitOK
<1>2. IInv /\ [Next]_vars => IInv' BY NextOK
<1> QED BY <1>1, <1>2, PTL DEF Spec

(* SlotsAccounted holds for every program: no call or return loses or      *)
(* makes up a slot beyond the one that InvokeMethod leaves behind for each *)
(* reference it passes, nor a println, of any descriptor, beyond the slots *)
(* of its second and later parameters and those of its result.             *)
THEOREM NoSlotLost == Spec => []SlotsAccounted
<1>1. IInv => SlotsAccounted
  <2> SUFFICES ASSUME IInv, NEW i \in DOMAIN frames
               PROVE  Len(frames[i].stack) = Len(Flatten(frames[i].shadow)) + frames[i].left
    BY Zenon DEF SlotsAccounted
  <2>1. StackOK(frames) BY Zenon DEF IInv
  <2>2. frames \in Seq(Frame) BY <2>1, Zenon DEF StackOK
  <2>3. DOMAIN frames = 1 .. Len(frames) BY <2>2, LenProperties, Zenon
  <2> QED BY <2>1, <2>3, Zenon DEF StackOK, FrameOK, Accounted
<1> QED BY <1>1, InvariantHolds, PTL

(* ValuesArrive holds for every program: where no reference is passed, nor *)
(* a println called that has a result or other than one parameter,         *)
(* arguments and results of any number, size and order are in the local    *)
(* variables and on the operand stacks their bytecode takes them from.     *)
THEOREM ArgumentsArrive == Spec => []ValuesArrive
<1>1. IInv => ValuesArrive
  <2> SUFFICES ASSUME IInv, NEW i \in DOMAIN frames, frames[i].clean PROVE Arrived(frames[i])
    BY Zenon DEF ValuesArrive, Arrived
  <2>1. StackOK(frames) BY Zenon DEF IInv
  <2>2. frames \in Seq(Frame) BY <2>1, Zenon DEF StackOK
  <2>3. DOMAIN frames = 1 .. Len(frames) BY <2>2, LenProperties, Zenon
  <2> QED BY <2>1, <2>3, Zenon DEF StackOK, FrameOK
<1> QED BY <1>1, InvariantHolds, PTL

(* ReceiverFound holds for every program: as long as the invoker is clean, *)
(* a call whose only reference is the receiver dispatches on the receiver, *)
(* and only a call that passes a second reference can meet a wild pointer. *)
THEOREM ReceiverIsFound == Spec => []ReceiverFound
<1>1. IInv => ReceiverFound
  <2> SUFFICES ASSUME IInv PROVE ReceiverFound OBVIOUS
  <2>1. StackOK(frames) BY Zenon DEF IInv
  <2>2. frames \in Seq(Frame) BY <2>1, Zenon DEF StackOK
  <2>3. \A i \in 2 .. Len(frames) : i \in 1 .. Len(frames)
    <3>1. Len(frames) \in Nat BY <2>2
    <3> QED BY <3>1
  <2>4. \A i \in 2 .. Len(frames) : Found(frames[i]) BY <2>1, <2>3, Zenon DEF StackOK, FrameOK
  <2>5. status = "segv" /\ Newest.clean => WildCall BY Zenon DEF IInv
  <2> QED BY <2>4, <2>5, Zenon DEF ReceiverFound, Found, WildCall
<1> QED BY <1>1, InvariantHolds, PTL
=============================================================================
