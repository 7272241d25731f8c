-------------------------- MODULE ClassFileProofs --------------------------
(***************************************************************************)
(* InStep, PoolsAgree and ConstantsExact of ClassFile for every set of     *)
(* well-formed class files, of any size and with any attributes.           *)
(*                                                                         *)
(* A file is a list of cells (fields of bytes).  At(p, s) says that s is   *)
(* what is left of it from byte p on, and the lemmas on reading say that a *)
(* parse function at p takes the cells written for it and leaves the rest. *)
(* Matches(f, w, s) says that s is what was written for the tasks of w,    *)
(* one list of cells for each.  FileInv, the inductive invariant, is that  *)
(* what is left of the file matches the work that is left, that the class  *)
(* file's pool is right as far as it is parsed (Parsed), and the run-time  *)
(* pool as far as it is made (Made).                                       *)
(***************************************************************************)
EXTENDS ClassFile, WellFoundedInduction, FiniteSetTheorems, SequenceTheorems, TLAPS

-----------------------------------------------------------------------------
(* Induction for a set, where the library's theorems take an operator,     *)
(* which no prover here instantiates                                       *)

(* A set of numbers that is not empty has a least element. *)
LEMMA LeastNat ==
  ASSUME NEW T, T \subseteq Nat, T # {}
  PROVE  \E x \in T : \A y \in T : x <= y
<1> DEFINE R == OpToRel(<, Nat)
<1>1. IsWellFoundedOn(R, Nat) BY NatLessThanWellFounded, Zenon
<1>2. \A x, y \in Nat : x < y => <<x, y>> \in R BY DEF OpToRel
<1> HIDE DEF R
<1>3. PICK x \in T : \A y \in T : ~ (<<y, x>> \in R) BY <1>1, WFMin, Zenon
<1>4. \A y \in T : ~ (y < x) BY <1>2, <1>3, Zenon
<1>5. \A y \in T : x <= y BY <1>4
<1> QED BY <1>5

(* Induction up to n, for a set. *)
LEMMA Induction ==
  ASSUME NEW n \in Nat, NEW S, 0 \in S, \A i \in 0 .. n - 1 : i \in S => i + 1 \in S
  PROVE  0 .. n \subseteq S
<1> SUFFICES ASSUME NEW k \in 0 .. n, k \notin S PROVE FALSE OBVIOUS
<1> DEFINE T == {i \in 0 .. n : i \notin S}
<1>1. PICK x \in T : \A y \in T : x <= y
  <2> HIDE DEF T
  <2>1. T \subseteq Nat /\ T # {} BY DEF T
  <2> QED BY <2>1, LeastNat
<1>2. x - 1 \in 0 .. n - 1 BY <1>1
<1>3. x - 1 \in S BY <1>1, <1>2
<1> QED BY <1>1, <1>2, <1>3

(* f has n steps of G, from a, in V *)
Iterates(f, n, V, a, G) ==
  f \in [0 .. n -> V] /\ f[0] = a /\ \A i \in 1 .. n : f[i] = G[i][f[i - 1]]

(* There is a function with a given start whose every value is computed    *)
(* from the one before.                                                    *)
LEMMA RecursionExists ==
  ASSUME NEW n \in Nat, NEW V, NEW a \in V, NEW G \in [1 .. n -> [V -> V]]
  PROVE  \E f : Iterates(f, n, V, a, G)
<1> DEFINE Upto(k, f) == f[0] = a /\ \A i \in 1 .. k : f[i] = G[i][f[i - 1]]
           S == {k \in 0 .. n : \E f \in [0 .. k -> V] : Upto(k, f)}
<1>1. 0 \in S
  <2> DEFINE g == [i \in 0 .. 0 |-> a]
  <2>1. g \in [0 .. 0 -> V] /\ Upto(0, g) OBVIOUS
  <2>2. \E f \in [0 .. 0 -> V] : Upto(0, f) BY <2>1, Zenon
  <2>3. 0 \in 0 .. n OBVIOUS
  <2> QED BY <2>2, <2>3, Zenon
<1>2. \A k \in 0 .. n - 1 : k \in S => k + 1 \in S
  <2> SUFFICES ASSUME NEW k \in 0 .. n - 1, k \in S PROVE k + 1 \in S OBVIOUS
  <2>1. PICK f \in [0 .. k -> V] : Upto(k, f) OBVIOUS
  <2> DEFINE g == [i \in 0 .. k + 1 |-> IF i = k + 1 THEN G[k + 1][f[k]] ELSE f[i]]
  <2>2. g \in [0 .. k + 1 -> V] OBVIOUS
  <2>3. g[0] = a BY <2>1
  <2>4. \A i \in 1 .. k + 1 : g[i] = G[i][g[i - 1]] BY <2>1
  <2>5. \E h \in [0 .. k + 1 -> V] : Upto(k + 1, h)
    <3> HIDE DEF g
    <3> QED BY <2>2, <2>3, <2>4, Zenon
  <2>6. k + 1 \in 0 .. n OBVIOUS
  <2> QED BY <2>5, <2>6, Zenon
<1>3. n \in S
  <2> HIDE DEF S
  <2>1. 0 .. n \subseteq S BY <1>1, <1>2, Induction
  <2> QED BY <2>1
<1> QED BY <1>3 DEF Iterates

(* Two functions that start the same and continue the same end the same. *)
LEMMA SameIteration ==
  ASSUME NEW n \in Nat, NEW f, NEW h, h[0] = f[0],
         \A i \in 1 .. n : h[i - 1] = f[i - 1] => h[i] = f[i]
  PROVE  h[n] = f[n]
<1> DEFINE S == {i \in 0 .. n : h[i] = f[i]}
<1>1. 0 \in S OBVIOUS
<1>2. \A i \in 0 .. n - 1 : i \in S => i + 1 \in S
  <2> SUFFICES ASSUME NEW i \in 0 .. n - 1, i \in S PROVE i + 1 \in S OBVIOUS
  <2>1. i + 1 \in 0 .. n /\ i + 1 \in 1 .. n /\ (i + 1) - 1 = i OBVIOUS
  <2> QED BY <2>1, Zenon
<1>3. n \in S
  <2> HIDE DEF S
  <2>1. 0 .. n \subseteq S BY <1>1, <1>2, Induction
  <2> QED BY <2>1
<1> QED BY <1>3

(* Functions are equal when their values are. *)
LEMMA SameFunction ==
  ASSUME NEW D, NEW f, NEW h, f = [i \in D |-> f[i]], h = [i \in D |-> h[i]],
         \A i \in D : f[i] = h[i]
  PROVE  f = h
OBVIOUS

-----------------------------------------------------------------------------
(* Where fields begin *)

(* The bytes before a field are finitely many, and the field adds its own. *)
LEMMA BytesStep ==
  ASSUME NEW w \in Seq(Nat), NEW i \in 1 .. Len(w), IsFiniteSet(BytesBefore(w, i))
  PROVE  /\ IsFiniteSet(BytesBefore(w, i + 1))
         /\ Cardinality(BytesBefore(w, i + 1)) = Cardinality(BytesBefore(w, i)) + w[i]
<1> DEFINE B == BytesBefore(w, i)  C == {i} \X (1 .. w[i])
<1>1. w[i] \in Nat /\ i \in Nat OBVIOUS
<1>2. IsFiniteSet(C) /\ Cardinality(C) = w[i]
  <2>1. IsFiniteSet(1 .. w[i]) /\ Cardinality(1 .. w[i]) = w[i]
    <3>1. 1 \in Int /\ w[i] \in Int BY <1>1
    <3>2. /\ IsFiniteSet(1 .. w[i])
          /\ Cardinality(1 .. w[i]) = IF 1 > w[i] THEN 0 ELSE w[i] - 1 + 1
      BY <3>1, FS_Interval, Zenon
    <3> QED BY <1>1, <3>2
  <2>2. IsFiniteSet({i}) /\ Cardinality({i}) = 1 BY FS_Singleton, Zenon
  <2>3. IsFiniteSet(C) /\ Cardinality(C) = Cardinality({i}) * Cardinality(1 .. w[i])
    BY <2>1, <2>2, FS_Product, Zenon
  <2> QED BY <1>1, <2>1, <2>2, <2>3
<1>3. BytesBefore(w, i + 1) = B \cup C
  <2>1. 1 .. (i + 1) - 1 = (1 .. i - 1) \cup {i} BY <1>1
  <2> QED BY <2>1, Zenon DEF BytesBefore
<1>4. B \cap C = {}
  <2>1. i \notin 1 .. i - 1 BY <1>1
  <2>2. \A x : x \in B => \E j \in 1 .. i - 1 : x \in {j} \X (1 .. w[j]) BY Zenon DEF BytesBefore
  <2>3. \A x, j : x \in {j} \X (1 .. w[j]) => x[1] = j OBVIOUS
  <2>4. \A x \in C : x[1] = i OBVIOUS
  <2> SUFFICES ASSUME NEW x \in B, x \in C PROVE FALSE OBVIOUS
  <2>5. PICK j \in 1 .. i - 1 : x \in {j} \X (1 .. w[j]) BY <2>2, Zenon
  <2>6. x[1] = j BY <2>3, <2>5, Zenon
  <2>7. x[1] = i BY <2>4, Zenon
  <2> QED BY <2>1, <2>5, <2>6, <2>7, Zenon
<1>5. IsFiniteSet(B \cup C) /\ Cardinality(B \cup C) = Cardinality(B) + Cardinality(C) - Cardinality(B \cap C)
  BY <1>2, FS_Union, Zenon
<1>6. Cardinality(B \cap C) = 0 BY <1>4, FS_EmptySet, Zenon
<1>7. Cardinality(B) \in Nat BY FS_CardinalityType, Zenon
<1>8. Cardinality(B \cup C) = Cardinality(B) + w[i]
  <2> HIDE DEF B, C
  <2> QED BY <1>1, <1>2, <1>5, <1>6, <1>7
<1> QED BY <1>3, <1>5, <1>8, Zenon

LEMMA BytesFinite ==
  ASSUME NEW w \in Seq(Nat)
  PROVE  /\ \A i \in 1 .. Len(w) + 1 : IsFiniteSet(BytesBefore(w, i))
         /\ Cardinality(BytesBefore(w, 1)) = 0
<1> DEFINE n == Len(w)  S == {i \in 0 .. n : IsFiniteSet(BytesBefore(w, i + 1))}
<1>0. n \in Nat OBVIOUS
<1>1. BytesBefore(w, 1) = {}
  <2>1. 1 .. 1 - 1 = {} OBVIOUS
  <2> QED BY <2>1, Zenon DEF BytesBefore
<1>2. 0 \in S
  <2>1. 0 + 1 = 1 /\ 0 \in 0 .. n BY <1>0
  <2> QED BY <1>1, <2>1, FS_EmptySet, Zenon
<1>3. \A i \in 0 .. n - 1 : i \in S => i + 1 \in S
  <2> SUFFICES ASSUME NEW i \in 0 .. n - 1, i \in S PROVE i + 1 \in S OBVIOUS
  <2>1. i + 1 \in 1 .. Len(w) /\ i + 1 \in 0 .. n BY <1>0
  <2>2. IsFiniteSet(BytesBefore(w, i + 1)) BY Zenon
  <2>3. IsFiniteSet(BytesBefore(w, (i + 1) + 1)) BY <2>1, <2>2, BytesStep, Zenon
  <2> QED BY <2>1, <2>3, Zenon
<1>4. 0 .. n \subseteq S
  <2> HIDE DEF n, S
  <2> QED BY <1>0, <1>2, <1>3, Induction, Zenon
<1>5. \A i \in 1 .. Len(w) + 1 : IsFiniteSet(BytesBefore(w, i))
  <2> SUFFICES ASSUME NEW i \in 1 .. Len(w) + 1 PROVE IsFiniteSet(BytesBefore(w, i)) OBVIOUS
  <2>1. i - 1 \in 0 .. n /\ (i - 1) + 1 = i BY <1>0
  <2>2. i - 1 \in S BY <1>4, <2>1, Zenon
  <2>3. IsFiniteSet(BytesBefore(w, (i - 1) + 1)) BY <2>2, Zenon
  <2> QED BY <2>1, <2>3, Zenon
<1> QED BY <1>1, <1>5, FS_EmptySet, Zenon

(* Each field begins where the one before ends. *)
LEMMA StartsStep ==
  ASSUME NEW w \in Seq(Nat), NEW p \in Nat
  PROVE  /\ Starts(p, w) \in [1 .. Len(w) + 1 -> Nat]
         /\ Starts(p, w)[1] = p
         /\ \A i \in 1 .. Len(w) : Starts(p, w)[i + 1] = Starts(p, w)[i] + w[i]
         /\ End(p, w) = Starts(p, w)[Len(w) + 1]
         /\ End(p, w) \in Nat
<1> DEFINE c(i) == Cardinality(BytesBefore(w, i))
<1>0. Len(w) \in Nat OBVIOUS
<1>1. \A i \in 1 .. Len(w) + 1 : IsFiniteSet(BytesBefore(w, i)) BY BytesFinite, Zenon
<1>2. \A i \in 1 .. Len(w) + 1 : c(i) \in Nat BY <1>1, FS_CardinalityType, Zenon
<1>3. c(1) = 0 BY BytesFinite, Zenon
<1>4. \A i \in 1 .. Len(w) : c(i + 1) = c(i) + w[i]
  <2>1. \A i \in 1 .. Len(w) : i \in 1 .. Len(w) + 1 BY <1>0
  <2> QED BY <1>1, <2>1, BytesStep, Zenon
<1>5. Starts(p, w) = [i \in 1 .. Len(w) + 1 |-> p + c(i)] BY Zenon DEF Starts
<1> HIDE DEF c
<1>6. Starts(p, w) \in [1 .. Len(w) + 1 -> Nat] BY <1>2, <1>5
<1>7. Starts(p, w)[1] = p BY <1>0, <1>3, <1>5
<1>8. \A i \in 1 .. Len(w) : Starts(p, w)[i + 1] = Starts(p, w)[i] + w[i]
  <2> SUFFICES ASSUME NEW i \in 1 .. Len(w)
               PROVE  Starts(p, w)[i + 1] = Starts(p, w)[i] + w[i]
    OBVIOUS
  <2>1. i \in 1 .. Len(w) + 1 /\ i + 1 \in 1 .. Len(w) + 1 /\ w[i] \in Nat BY <1>0
  <2>2. Starts(p, w)[i] = p + c(i) /\ Starts(p, w)[i + 1] = p + c(i + 1) BY <1>5, <2>1, Zenon
  <2>3. c(i) \in Nat BY <1>2, <2>1, Zenon
  <2> QED BY <1>4, <2>1, <2>2, <2>3
<1>9. Len(Starts(p, w)) = Len(w) + 1 BY <1>0, <1>6
<1>10. End(p, w) = Starts(p, w)[Len(w) + 1] BY <1>9, Zenon DEF End, Last
<1>11. End(p, w) \in Nat BY <1>0, <1>6, <1>10
<1> QED BY <1>6, <1>7, <1>8, <1>10, <1>11, Zenon

(* v is the part of w behind k, and the part begins at q if w does at p. *)
PartFrom(w, v, k, p, q) ==
  /\ k + Len(v) <= Len(w) /\ \A i \in 1 .. Len(v) : w[k + i] = v[i]
  /\ Starts(p, w)[k + 1] = q

(* The starts of a part of a list are those of the part by itself. *)
LEMMA StartsShift ==
  ASSUME NEW w \in Seq(Nat), NEW v \in Seq(Nat), NEW k \in Nat, NEW p \in Nat, NEW q \in Nat,
         PartFrom(w, v, k, p, q)
  PROVE  \A i \in 1 .. Len(v) + 1 : Starts(p, w)[k + i] = Starts(q, v)[i]
<1> DEFINE n == Len(v)
           S == {i \in 0 .. n : Starts(p, w)[k + (i + 1)] = Starts(q, v)[i + 1]}
<1> USE DEF PartFrom
<1>0. n \in Nat /\ Len(w) \in Nat OBVIOUS
<1>1. 0 \in S
  <2>1. 0 \in 0 .. n /\ 0 + 1 = 1 BY <1>0
  <2>2. Starts(q, v)[1] = q BY StartsStep, Zenon
  <2> QED BY <2>1, <2>2, Zenon
<1>2. \A i \in 0 .. n - 1 : i \in S => i + 1 \in S
  <2> SUFFICES ASSUME NEW i \in 0 .. n - 1, i \in S PROVE i + 1 \in S OBVIOUS
  <2>1. i + 1 \in 1 .. n /\ i + 1 \in 0 .. n /\ k + (i + 1) \in 1 .. Len(w)
        /\ k + ((i + 1) + 1) = (k + (i + 1)) + 1
    BY <1>0
  <2>2. Starts(q, v)[(i + 1) + 1] = Starts(q, v)[i + 1] + v[i + 1]
    BY <2>1, StartsStep, Zenon
  <2>3. Starts(p, w)[(k + (i + 1)) + 1] = Starts(p, w)[k + (i + 1)] + w[k + (i + 1)]
    BY <2>1, StartsStep, Zenon
  <2>4. Starts(p, w)[k + (i + 1)] = Starts(q, v)[i + 1] BY Zenon
  <2>5. w[k + (i + 1)] = v[i + 1] BY <2>1, Zenon
  <2>6. Starts(p, w)[k + ((i + 1) + 1)] = Starts(q, v)[(i + 1) + 1]
    BY <2>1, <2>2, <2>3, <2>4, <2>5, Zenon
  <2> QED BY <2>1, <2>6, Zenon
<1>3. 0 .. n \subseteq S
  <2> HIDE DEF n, S
  <2> QED BY <1>0, <1>1, <1>2, Induction, Zenon
<1> SUFFICES ASSUME NEW i \in 1 .. Len(v) + 1 PROVE Starts(p, w)[k + i] = Starts(q, v)[i]
  OBVIOUS
<1>4. i - 1 \in 0 .. n /\ (i - 1) + 1 = i BY <1>0
<1>5. i - 1 \in S BY <1>3, <1>4, Zenon
<1>6. Starts(p, w)[k + ((i - 1) + 1)] = Starts(q, v)[(i - 1) + 1] BY <1>5, Zenon
<1> QED BY <1>4, <1>6, Zenon

(* Fields of at least one byte begin at different places. *)
LEMMA StartsDistinct ==
  ASSUME NEW w \in Seq(Nat), NEW p \in Nat, \A i \in 1 .. Len(w) : w[i] # 0
  PROVE  \A i, j \in 1 .. Len(w) + 1 : Starts(p, w)[i] = Starts(p, w)[j] => i = j
<1> DEFINE n == Len(w)  t == Starts(p, w)
           S == {j \in 0 .. n : \A i \in 1 .. j : t[i] < t[j + 1]}
<1>0. n \in Nat /\ t \in [1 .. n + 1 -> Nat]
  <2>1. n \in Nat OBVIOUS
  <2> QED BY <2>1, StartsStep, Zenon
<1>1. 0 \in S BY <1>0
<1>2. \A j \in 0 .. n - 1 : j \in S => j + 1 \in S
  <2> SUFFICES ASSUME NEW j \in 0 .. n - 1, j \in S PROVE j + 1 \in S OBVIOUS
  <2>1. j + 1 \in 1 .. n BY <1>0
  <2>2. t[(j + 1) + 1] = t[j + 1] + w[j + 1] BY <2>1, StartsStep, Zenon
  <2>3. w[j + 1] \in Nat /\ w[j + 1] # 0 BY <2>1
  <2>4. \A i \in 1 .. j : t[i] < t[j + 1] BY Zenon
  <2> HIDE DEF t, n
  <2>5. \A i \in 1 .. j + 1 : t[i] < t[(j + 1) + 1]
    <3> SUFFICES ASSUME NEW i \in 1 .. j + 1 PROVE t[i] < t[(j + 1) + 1] OBVIOUS
    <3>1. t[i] \in Nat /\ t[j + 1] \in Nat BY <1>0
    <3>2. CASE i = j + 1 BY <2>2, <2>3, <3>1, <3>2
    <3>3. CASE i # j + 1
      <4>1. i \in 1 .. j BY <3>3
      <4>2. t[i] < t[j + 1] BY <2>4, <4>1, Zenon
      <4> QED BY <2>2, <2>3, <3>1, <4>2
    <3> QED BY <3>2, <3>3
  <2> QED BY <1>0, <2>1, <2>5
<1>3. 0 .. n \subseteq S
  <2> HIDE DEF n, S, t
  <2> QED BY <1>0, <1>1, <1>2, Induction, Zenon
<1> HIDE DEF t, n
<1>4. \A i, j \in 1 .. n + 1 : i < j => t[i] < t[j]
  <2> SUFFICES ASSUME NEW i \in 1 .. n + 1, NEW j \in 1 .. n + 1, i < j PROVE t[i] < t[j]
    OBVIOUS
  <2>1. j - 1 \in 0 .. n /\ i \in 1 .. j - 1 /\ (j - 1) + 1 = j BY <1>0
  <2>2. j - 1 \in S BY <1>3, <2>1, Zenon
  <2>3. t[i] < t[(j - 1) + 1] BY <2>1, <2>2, Zenon
  <2> QED BY <2>1, <2>3, Zenon
<1>5. \A i, j \in 1 .. n + 1 : t[i] = t[j] => i = j
  <2> SUFFICES ASSUME NEW i \in 1 .. n + 1, NEW j \in 1 .. n + 1, t[i] = t[j] PROVE i = j
    OBVIOUS
  <2>1. t[i] \in Nat /\ t[j] \in Nat /\ i \in Nat /\ j \in Nat BY <1>0
  <2>2. ~ (i < j) /\ ~ (j < i)
    <3>1. i < j => t[i] < t[j] BY <1>4, Zenon
    <3>2. j < i => t[j] < t[i] BY <1>4, Zenon
    <3> QED BY <2>1, <3>1, <3>2
  <2> QED BY <2>1, <2>2
<1> QED BY <1>5 DEF t, n

-----------------------------------------------------------------------------
(* Reading what was written *)

Values == Nat \cup BOOLEAN \cup STRING \cup Kinds \cup SUBSET (0 .. 63)
Cells == [width : Nat \ {0}, value : Values]

LEMMA WidthsType ==
  ASSUME NEW x \in Seq(Cells)
  PROVE  /\ Widths(x) \in Seq(Nat) /\ Len(Widths(x)) = Len(x)
         /\ \A i \in 1 .. Len(x) : Widths(x)[i] = x[i].width /\ Widths(x)[i] # 0
<1> HIDE DEF Values
<1>1. Len(x) \in Nat /\ DOMAIN x = 1 .. Len(x) OBVIOUS
<1>2. \A i \in 1 .. Len(x) : x[i].width \in Nat /\ x[i].width # 0
  <2>1. \A c \in Cells : c.width \in Nat /\ c.width # 0 BY DEF Cells
  <2>2. \A i \in 1 .. Len(x) : x[i] \in Cells OBVIOUS
  <2> QED BY <2>1, <2>2, Zenon
<1>3. Widths(x) = [i \in 1 .. Len(x) |-> x[i].width] BY <1>1, Zenon DEF Widths
<1>4. Widths(x) \in Seq(Nat) /\ Len(Widths(x)) = Len(x) BY <1>1, <1>2, <1>3
<1> QED BY <1>2, <1>3, <1>4, Zenon

LEMMA WidthsConcat ==
  ASSUME NEW x \in Seq(Cells), NEW y \in Seq(Cells)
  PROVE  /\ Len(x \o y) = Len(x) + Len(y) /\ x \o y \in Seq(Cells)
         /\ \A i \in 1 .. Len(x) : Widths(x \o y)[i] = Widths(x)[i]
         /\ \A i \in 1 .. Len(y) : Widths(x \o y)[Len(x) + i] = Widths(y)[i]
<1> HIDE DEF Cells
<1>1. x \o y \in Seq(Cells) /\ Len(x \o y) = Len(x) + Len(y) /\ Len(x) \in Nat /\ Len(y) \in Nat
  OBVIOUS
<1>2. \A i \in 1 .. Len(x) + Len(y) : (x \o y)[i] = IF i <= Len(x) THEN x[i] ELSE y[i - Len(x)]
  OBVIOUS
<1>3. \A i \in 1 .. Len(x) : (x \o y)[i] = x[i] /\ i \in 1 .. Len(x \o y) BY <1>1, <1>2
<1>4. \A i \in 1 .. Len(y) : (x \o y)[Len(x) + i] = y[i] /\ Len(x) + i \in 1 .. Len(x \o y)
  BY <1>1, <1>2
<1>5. \A i \in 1 .. Len(x \o y) : Widths(x \o y)[i] = (x \o y)[i].width
  BY <1>1, WidthsType, Zenon
<1>6. \A i \in 1 .. Len(x) : Widths(x)[i] = x[i].width BY WidthsType, Zenon
<1>7. \A i \in 1 .. Len(y) : Widths(y)[i] = y[i].width BY WidthsType, Zenon
<1>8. \A i \in 1 .. Len(x) : Widths(x \o y)[i] = Widths(x)[i] BY <1>3, <1>5, <1>6, Zenon
<1>9. \A i \in 1 .. Len(y) : Widths(x \o y)[Len(x) + i] = Widths(y)[i] BY <1>4, <1>5, <1>7, Zenon
<1> QED BY <1>1, <1>8, <1>9, Zenon

(* s is what is left of the file from p on. *)
At(p, s) ==
  \E d \in Seq(Cells) : WrittenFields(file) = d \o s /\ p = End(0, Widths(d))

(* The bytes are those of a file that is a list of cells. *)
Ready == bytes = Written(file) /\ WrittenFields(file) \in Seq(Cells)

(* A field is found where it begins. *)
LEMMA FoundAt ==
  ASSUME Ready, NEW j \in 1 .. Len(WrittenFields(file))
  PROVE  LET q == Starts(0, Widths(WrittenFields(file)))[j] IN
         q \in DOMAIN bytes.at /\ bytes.at[q] = WrittenFields(file)[j]
<1> DEFINE F == WrittenFields(file)  t == Starts(0, Widths(F))
<1> HIDE DEF Cells
<1>1. F \in Seq(Cells) /\ DOMAIN F = 1 .. Len(F) /\ Len(F) \in Nat BY DEF Ready
<1> HIDE DEF F
<1>2. Widths(F) \in Seq(Nat) /\ Len(Widths(F)) = Len(F) /\ 0 \in Nat
      /\ \A i \in 1 .. Len(Widths(F)) : Widths(F)[i] # 0
  BY <1>1, WidthsType, Zenon
<1>3. \A i, k \in 1 .. Len(F) + 1 : t[i] = t[k] => i = k BY <1>2, StartsDistinct, Zenon
<1>4. bytes.at = [p \in {t[i] : i \in DOMAIN F} |-> F[CHOOSE i \in DOMAIN F : t[i] = p]]
  BY DEF Ready, Written, F
<1> HIDE DEF t
<1>5. j \in DOMAIN F BY <1>1 DEF F
<1>6. t[j] \in {t[i] : i \in DOMAIN F} BY <1>5, Zenon
<1>7. t[j] \in DOMAIN bytes.at /\ bytes.at[t[j]] = F[CHOOSE i \in DOMAIN F : t[i] = t[j]]
  <2> DEFINE D == {t[i] : i \in DOMAIN F}  e(p) == F[CHOOSE i \in DOMAIN F : t[i] = p]
  <2>1. bytes.at = [p \in D |-> e(p)] BY <1>4, Zenon
  <2> HIDE DEF e, D
  <2>2. t[j] \in D BY <1>6, Zenon DEF D
  <2>3. t[j] \in DOMAIN bytes.at /\ bytes.at[t[j]] = e(t[j]) BY <2>1, <2>2
  <2> QED BY <2>3, Zenon DEF e
<1>8. \A i \in DOMAIN F : i \in 1 .. Len(F) + 1 BY <1>1
<1>9. (CHOOSE i \in DOMAIN F : t[i] = t[j]) = j BY <1>3, <1>5, <1>8, Zenon
<1> QED BY <1>7, <1>9, Zenon DEF t, F

(* Where cells begin. *)
LEMMA CellStarts ==
  ASSUME NEW x \in Seq(Cells), NEW p \in Nat
  PROVE  /\ Starts(p, Widths(x)) \in [1 .. Len(x) + 1 -> Nat]
         /\ Starts(p, Widths(x))[1] = p
         /\ \A i \in 1 .. Len(x) : Starts(p, Widths(x))[i + 1] = Starts(p, Widths(x))[i] + x[i].width
         /\ End(p, Widths(x)) = Starts(p, Widths(x))[Len(x) + 1]
         /\ End(p, Widths(x)) \in Nat
<1> HIDE DEF Cells
<1> DEFINE w == Widths(x)
<1>1. w \in Seq(Nat) BY WidthsType, Zenon
<1>2. Len(w) = Len(x) BY WidthsType, Zenon
<1>3. \A i \in 1 .. Len(x) : w[i] = x[i].width BY WidthsType, Zenon
<1> HIDE DEF w
<1>4. /\ Starts(p, w) \in [1 .. Len(w) + 1 -> Nat]
      /\ Starts(p, w)[1] = p
      /\ \A i \in 1 .. Len(w) : Starts(p, w)[i + 1] = Starts(p, w)[i] + w[i]
      /\ End(p, w) = Starts(p, w)[Len(w) + 1]
      /\ End(p, w) \in Nat
  BY <1>1, StartsStep, Zenon
<1>5. /\ Starts(p, w) \in [1 .. Len(x) + 1 -> Nat]
      /\ \A i \in 1 .. Len(x) : Starts(p, w)[i + 1] = Starts(p, w)[i] + w[i]
      /\ End(p, w) = Starts(p, w)[Len(x) + 1]
  BY <1>2, <1>4, Zenon
<1>6. \A i \in 1 .. Len(x) : Starts(p, w)[i + 1] = Starts(p, w)[i] + x[i].width
  BY <1>3, <1>5, Zenon
<1> QED BY <1>4, <1>5, <1>6, Zenon DEF w

(* Behind d, t begins at p. *)
BehindAt(d, t, p) == Starts(0, Widths(d \o t))[Len(d) + 1] = p

(* Cells begin behind those before, where they would begin by themselves. *)
LEMMA CellShift ==
  ASSUME NEW d \in Seq(Cells), NEW x \in Seq(Cells), NEW s \in Seq(Cells),
         NEW p \in Nat, BehindAt(d, x \o s, p)
  PROVE  \A i \in 1 .. Len(x) + 1 :
           Starts(0, Widths(d \o (x \o s)))[Len(d) + i] = Starts(p, Widths(x))[i]
<1> HIDE DEF Cells
<1> DEFINE F == d \o (x \o s)  w == Widths(F)  v == Widths(x)  k == Len(d)
<1>0. 0 \in Nat /\ k \in Nat /\ Len(x) \in Nat /\ Len(s) \in Nat OBVIOUS
<1>1. x \o s \in Seq(Cells) /\ Len(x \o s) = Len(x) + Len(s) BY WidthsConcat, Zenon
<1>2. F \in Seq(Cells) /\ Len(F) = k + Len(x \o s) BY <1>1, WidthsConcat, Zenon
<1>3. w \in Seq(Nat) /\ v \in Seq(Nat) BY <1>2, WidthsType, Zenon
<1>4. Len(w) = Len(F) /\ Len(v) = Len(x) BY <1>2, WidthsType, Zenon
<1>5. \A i \in 1 .. Len(x) : w[k + i] = v[i]
  <2>1. \A i \in 1 .. Len(x) : i \in 1 .. Len(x \o s) BY <1>0, <1>1
  <2>2. \A i \in 1 .. Len(x \o s) : w[k + i] = Widths(x \o s)[i] BY <1>1, WidthsConcat, Zenon
  <2>3. \A i \in 1 .. Len(x) : Widths(x \o s)[i] = v[i] BY WidthsConcat, Zenon
  <2> QED BY <2>1, <2>2, <2>3, Zenon
<1>6. Starts(0, w)[k + 1] = p BY Zenon DEF BehindAt
<1> HIDE DEF F, w, v, k
<1>7. k + Len(v) <= Len(w) BY <1>0, <1>1, <1>2, <1>4
<1>8. \A i \in 1 .. Len(v) : w[k + i] = v[i] BY <1>4, <1>5, Zenon
<1>9. \A i \in 1 .. Len(v) + 1 : Starts(0, w)[k + i] = Starts(p, v)[i]
  <2>1. PartFrom(w, v, k, 0, p) BY <1>6, <1>7, <1>8, Zenon DEF PartFrom
  <2> QED BY <1>0, <1>3, <2>1, StartsShift
<1>10. \A i \in 1 .. Len(x) + 1 : Starts(0, w)[k + i] = Starts(p, v)[i] BY <1>4, <1>9, Zenon
<1> QED BY <1>10, Zenon DEF F, w, v, k

(* The end of the first cells is where the others begin. *)
LEMMA CellEnd ==
  ASSUME NEW y \in Seq(Cells), NEW z \in Seq(Cells)
  PROVE  Starts(0, Widths(y \o z))[Len(y) + 1] = End(0, Widths(y))
<1> HIDE DEF Cells
<1> DEFINE e == << >>  F == e \o (y \o z)
<1>0. 0 \in Nat /\ Len(y) \in Nat /\ e \in Seq(Cells) /\ Len(e) = 0 /\ 0 + 1 = 1 OBVIOUS
<1>1. y \o z \in Seq(Cells) /\ y \o z = F OBVIOUS
<1> HIDE DEF F, e
<1>2. F \in Seq(Cells) BY <1>1, Zenon
<1>3. Starts(0, Widths(F))[1] = 0 BY <1>0, <1>2, CellStarts, Zenon
<1>4. Starts(0, Widths(F))[Len(e) + 1] = 0 BY <1>0, <1>3, Zenon
<1>5. \A i \in 1 .. Len(y) + 1 : Starts(0, Widths(F))[Len(e) + i] = Starts(0, Widths(y))[i]
  <2>1. BehindAt(e, y \o z, 0) BY <1>4, Zenon DEF F, BehindAt
  <2>2. \A i \in 1 .. Len(y) + 1 :
          Starts(0, Widths(e \o (y \o z)))[Len(e) + i] = Starts(0, Widths(y))[i]
    <3>1. \A d \in Seq(Cells), p \in Nat : BehindAt(d, y \o z, p) =>
            \A i \in 1 .. Len(y) + 1 :
              Starts(0, Widths(d \o (y \o z)))[Len(d) + i] = Starts(p, Widths(y))[i]
      BY CellShift, Zenon
    <3>2. e \in Seq(Cells) /\ 0 \in Nat BY <1>0, Zenon
    <3> QED BY <2>1, <3>1, <3>2, Zenon
  <2> QED BY <2>2, Zenon DEF F
<1>6. Len(y) + 1 \in 1 .. Len(y) + 1 /\ Len(e) + (Len(y) + 1) = Len(y) + 1 BY <1>0
<1>7. Starts(0, Widths(F))[Len(y) + 1] = Starts(0, Widths(y))[Len(y) + 1] BY <1>5, <1>6, Zenon
<1>8. End(0, Widths(y)) = Starts(0, Widths(y))[Len(y) + 1] BY <1>0, CellStarts, Zenon
<1> QED BY <1>1, <1>7, <1>8, Zenon

(* Fields are read as they were written, and what follows is left. *)
LEMMA Reads ==
  ASSUME Ready, NEW p, NEW x \in Seq(Cells), NEW s \in Seq(Cells), At(p, x \o s)
  PROVE  /\ p \in Nat
         /\ Fits(p, Widths(x))
         /\ \A i \in 1 .. Len(x) : ValueAt(Starts(p, Widths(x))[i]) = x[i].value
         /\ At(End(p, Widths(x)), s)
<1> DEFINE F == WrittenFields(file)
<1> HIDE DEF Cells
<1>0. F \in Seq(Cells) BY DEF Ready
<1>1. PICK d \in Seq(Cells) : F = d \o (x \o s) /\ p = End(0, Widths(d)) BY Zenon DEF At
<1> HIDE DEF F
<1>2. x \o s \in Seq(Cells) /\ Len(x \o s) = Len(x) + Len(s) BY WidthsConcat, Zenon
<1>3. d \o x \in Seq(Cells) /\ Len(d \o x) = Len(d) + Len(x) BY WidthsConcat, Zenon
<1>4. F = (d \o x) \o s BY <1>1
<1>5. /\ Len(d) \in Nat /\ Len(x) \in Nat /\ Len(s) \in Nat /\ Len(F) \in Nat /\ 0 \in Nat
      /\ Len(F) = Len(d) + Len(x) + Len(s)
  BY <1>1, <1>2
<1>7. p \in Nat
  <2>1. End(0, Widths(d)) \in Nat BY <1>5, CellStarts, Zenon
  <2> QED BY <1>1, <2>1, Zenon
<1>9. Starts(0, Widths(d \o (x \o s)))[Len(d) + 1] = p
  <2>1. Starts(0, Widths(d \o (x \o s)))[Len(d) + 1] = End(0, Widths(d)) BY <1>2, CellEnd, Zenon
  <2> QED BY <1>1, <2>1, Zenon
<1>11. \A i \in 1 .. Len(x) + 1 : Starts(0, Widths(F))[Len(d) + i] = Starts(p, Widths(x))[i]
  <2>1. \A i \in 1 .. Len(x) + 1 :
          Starts(0, Widths(d \o (x \o s)))[Len(d) + i] = Starts(p, Widths(x))[i]
    BY <1>7, <1>9, CellShift DEF BehindAt
  <2> QED BY <1>1, <2>1, Zenon
<1>12. \A i \in 1 .. Len(x) :
         LET q == Starts(p, Widths(x))[i] IN q \in DOMAIN bytes.at /\ bytes.at[q] = x[i]
  <2> SUFFICES ASSUME NEW i \in 1 .. Len(x)
               PROVE  LET q == Starts(p, Widths(x))[i] IN
                      q \in DOMAIN bytes.at /\ bytes.at[q] = x[i]
    OBVIOUS
  <2>1. Len(d) + i \in 1 .. Len(F) /\ i \in 1 .. Len(x) + 1 BY <1>5
  <2>2. F[Len(d) + i] = x[i]
    <3>1. i \in 1 .. Len(x \o s) BY <1>2, <1>5
    <3>2. (x \o s)[i] = x[i] OBVIOUS
    <3>3. F[Len(d) + i] = (x \o s)[i] BY <1>1, <1>2, <1>5, <3>1
    <3> QED BY <3>2, <3>3, Zenon
  <2>3. LET q == Starts(0, Widths(F))[Len(d) + i] IN
        q \in DOMAIN bytes.at /\ bytes.at[q] = F[Len(d) + i]
    BY <2>1, FoundAt, Zenon DEF F
  <2> QED BY <1>11, <2>1, <2>2, <2>3, Zenon
<1>13. Fits(p, Widths(x))
  <2>1. DOMAIN Widths(x) = 1 .. Len(x) BY DEF Widths
  <2>2. \A i \in 1 .. Len(x) : Widths(x)[i] = x[i].width BY WidthsType, Zenon
  <2> QED BY <1>12, <2>1, <2>2, Zenon DEF Fits
<1>14. \A i \in 1 .. Len(x) : ValueAt(Starts(p, Widths(x))[i]) = x[i].value
  BY <1>12, Zenon DEF ValueAt
<1>15. At(End(p, Widths(x)), s)
  <2>1. Starts(0, Widths((d \o x) \o s))[Len(d \o x) + 1] = End(0, Widths(d \o x))
    BY <1>3, CellEnd, Zenon
  <2>2. Starts(0, Widths(F))[Len(d \o x) + 1] = End(0, Widths(d \o x)) BY <1>4, <2>1, Zenon
  <2>3. Len(d \o x) + 1 = Len(d) + (Len(x) + 1) /\ Len(x) + 1 \in 1 .. Len(x) + 1 BY <1>3, <1>5
  <2>4. Starts(0, Widths(F))[Len(d) + (Len(x) + 1)] = Starts(p, Widths(x))[Len(x) + 1]
    BY <1>11, <2>3, Zenon
  <2>5. End(p, Widths(x)) = Starts(p, Widths(x))[Len(x) + 1] BY <1>7, CellStarts, Zenon
  <2>6. End(0, Widths(d \o x)) = End(p, Widths(x)) BY <2>2, <2>3, <2>4, <2>5, Zenon
  <2> QED BY <1>3, <1>4, <2>6, Zenon DEF At, F
<1> QED BY <1>7, <1>13, <1>14, <1>15, Zenon

(* When nothing is left the position is the size of the file. *)
LEMMA AtEnd ==
  ASSUME Ready, NEW p, At(p, << >>)
  PROVE  p = bytes.size
<1> HIDE DEF Cells
<1>1. PICK d \in Seq(Cells) : WrittenFields(file) = d \o << >> /\ p = End(0, Widths(d))
  BY Zenon DEF At
<1>2. d \o << >> = d OBVIOUS
<1>3. bytes.size = End(0, Widths(WrittenFields(file))) BY DEF Ready, Written, End
<1> QED BY <1>1, <1>2, <1>3, Zenon

(* Nothing is read before the first field. *)
LEMMA AtStart == WrittenFields(file) \in Seq(Cells) => At(0, WrittenFields(file))
<1> SUFFICES ASSUME WrittenFields(file) \in Seq(Cells) PROVE At(0, WrittenFields(file)) OBVIOUS
<1> HIDE DEF Cells
<1>1. << >> \in Seq(Cells) /\ WrittenFields(file) = << >> \o WrittenFields(file) OBVIOUS
<1>2. 0 \in Nat /\ Len(<< >>) + 1 = 1 OBVIOUS
<1>3. /\ End(0, Widths(<< >>)) = Starts(0, Widths(<< >>))[Len(<< >>) + 1]
      /\ Starts(0, Widths(<< >>))[1] = 0
  BY <1>1, <1>2, CellStarts, Zenon
<1>4. End(0, Widths(<< >>)) = 0 BY <1>2, <1>3, Zenon
<1> QED BY <1>1, <1>4, Zenon DEF At

-----------------------------------------------------------------------------
(* Lists one after the other *)

LEMMA Concat ==
  /\ << >> \in Seq(Cells)
  /\ \A a \in Seq(Cells) : a \o << >> = a /\ << >> \o a = a
  /\ \A a, b \in Seq(Cells) : a \o b \in Seq(Cells)
  /\ \A a, b, c \in Seq(Cells) : (a \o b) \o c = a \o (b \o c)
<1> HIDE DEF Cells
<1>1. \A a, b, c \in Seq(Cells) : (a \o b) \o c = a \o (b \o c)
  <2> SUFFICES ASSUME NEW a \in Seq(Cells), NEW b \in Seq(Cells), NEW c \in Seq(Cells)
               PROVE  (a \o b) \o c = a \o (b \o c)
    OBVIOUS
  <2> QED OBVIOUS
<1>2. \A a, b \in Seq(Cells) : a \o b \in Seq(Cells) OBVIOUS
<1>3. \A a \in Seq(Cells) : a \o << >> = a /\ << >> \o a = a OBVIOUS
<1> QED BY <1>1, <1>2, <1>3

(* f holds what the first lists of ss make together. *)
Joins(ss, f) ==
  /\ f \in [0 .. Len(ss) -> Seq(Cells)] /\ f[0] = << >>
  /\ \A i \in 1 .. Len(ss) : f[i] = f[i - 1] \o ss[i]

LEMMA JoinsExists ==
  ASSUME NEW ss \in Seq(Seq(Cells))
  PROVE  \E f : Joins(ss, f)
<1> HIDE DEF Cells
<1> DEFINE n == Len(ss)  V == Seq(Cells)  G == [i \in 1 .. n |-> [v \in V |-> v \o ss[i]]]
<1>1. n \in Nat /\ << >> \in V OBVIOUS
<1>2. G \in [1 .. n -> [V -> V]] OBVIOUS
<1>3. \A i \in 1 .. n, v \in V : G[i][v] = v \o ss[i] OBVIOUS
<1> HIDE DEF G, V
<1>4. PICK f : Iterates(f, n, V, << >>, G) BY <1>1, <1>2, RecursionExists, Zenon
<1>5. f \in [0 .. n -> V] /\ f[0] = << >> /\ \A i \in 1 .. n : f[i] = G[i][f[i - 1]]
  BY <1>4, Zenon DEF Iterates
<1>6. \A i \in 1 .. n : f[i - 1] \in V
  <2>1. \A i \in 1 .. n : i - 1 \in 0 .. n BY <1>1
  <2> QED BY <1>5, <2>1, Zenon
<1>7. \A i \in 1 .. n : f[i] = f[i - 1] \o ss[i] BY <1>3, <1>5, <1>6, Zenon
<1> QED BY <1>5, <1>7, Zenon DEF Joins, V, n

LEMMA JoinsIs ==
  ASSUME NEW ss \in Seq(Seq(Cells)), NEW f, Joins(ss, f)
  PROVE  FlattenSeq(ss) = f[Len(ss)]
<1> HIDE DEF Cells
<1> DEFINE n == Len(ss)
           Step(h) == [i \in 1 .. n |-> IF i = 1 THEN ss[i] ELSE h[i - 1] \o ss[i]]
           flatten == CHOOSE h : h = Step(h)
<1>1. /\ n \in Nat /\ f \in [0 .. n -> Seq(Cells)] /\ f[0] = << >>
      /\ \A i \in 1 .. n : f[i] = f[i - 1] \o ss[i]
  <2>1. n \in Nat OBVIOUS
  <2> QED BY <2>1, Zenon DEF Joins
<1>2. CASE n = 0
  <2>1. FlattenSeq(ss) = ss BY <1>2, Zenon DEF FlattenSeq
  <2>2. ss = << >> BY <1>2
  <2> QED BY <1>1, <1>2, <2>1, <2>2, Zenon
<1>3. CASE n # 0
  <2>1. FlattenSeq(ss) = flatten[n] BY <1>3, Zenon DEF FlattenSeq
  <2> DEFINE g == [i \in 1 .. n |-> f[i]]
  <2>2. g = Step(g)
    <3>1. \A i \in 1 .. n : g[i] = IF i = 1 THEN ss[i] ELSE g[i - 1] \o ss[i]
      <4> SUFFICES ASSUME NEW i \in 1 .. n
                   PROVE  g[i] = IF i = 1 THEN ss[i] ELSE g[i - 1] \o ss[i]
        OBVIOUS
      <4>0. g[i] = f[i - 1] \o ss[i] BY <1>1, Zenon
      <4>1. CASE i = 1
        <5>1. i - 1 = 0 /\ ss[i] \in Seq(Cells) BY <4>1
        <5>2. << >> \o ss[i] = ss[i] BY <5>1
        <5> QED BY <1>1, <4>0, <4>1, <5>1, <5>2, Zenon
      <4>2. CASE i # 1
        <5>1. i - 1 \in 1 .. n BY <1>1, <4>2
        <5> QED BY <4>0, <4>2, <5>1, Zenon
      <4> QED BY <4>1, <4>2, Zenon
    <3> DEFINE e(i) == IF i = 1 THEN ss[i] ELSE g[i - 1] \o ss[i]
    <3>2. \A i \in 1 .. n : g[i] = e(i) BY <3>1, Zenon
    <3>3. g = [i \in 1 .. n |-> g[i]] OBVIOUS
    <3>4. Step(g) = [i \in 1 .. n |-> e(i)] OBVIOUS
    <3> HIDE DEF e, g
    <3> QED BY <3>2, <3>3, <3>4, Zenon
  <2> HIDE DEF g
  <2>3. flatten = Step(flatten) BY <2>2, Zenon
  <2> HIDE DEF flatten
  <2>4. \A i \in 1 .. n : flatten[i] = IF i = 1 THEN ss[i] ELSE flatten[i - 1] \o ss[i]
    BY <2>3, Zenon
  <2> DEFINE h == [i \in 0 .. n |-> IF i = 0 THEN << >> ELSE flatten[i]]
  <2>5. h[0] = f[0] BY <1>1
  <2>6. \A i \in 1 .. n : h[i - 1] = f[i - 1] => h[i] = f[i]
    <3> SUFFICES ASSUME NEW i \in 1 .. n, h[i - 1] = f[i - 1] PROVE h[i] = f[i] OBVIOUS
    <3>0. f[i] = f[i - 1] \o ss[i] BY <1>1, Zenon
    <3>1. i \in 0 .. n /\ i # 0 /\ i - 1 \in 0 .. n OBVIOUS
    <3>2. h[i] = flatten[i] BY <3>1, Zenon
    <3>3. CASE i = 1
      <4>1. i - 1 = 0 /\ << >> \o ss[i] = ss[i] BY <3>3
      <4> QED BY <1>1, <2>4, <3>0, <3>2, <3>3, <4>1, Zenon
    <3>4. CASE i # 1
      <4>1. i - 1 # 0 BY <3>4
      <4>2. h[i - 1] = flatten[i - 1] BY <3>1, <4>1, Zenon
      <4>3. flatten[i] = flatten[i - 1] \o ss[i] BY <2>4, <3>4, Zenon
      <4> QED BY <3>0, <3>2, <4>2, <4>3, Zenon
    <3> QED BY <3>3, <3>4, Zenon
  <2>7. h[n] = flatten[n] BY <1>1, <1>3
  <2>8. h[n] = f[n]
    <3> HIDE DEF h, n
    <3> QED BY <1>1, <2>5, <2>6, SameIteration, Zenon
  <2> QED BY <2>1, <2>7, <2>8, Zenon
<1> QED BY <1>2, <1>3, Zenon

LEMMA FlattenType ==
  ASSUME NEW ss \in Seq(Seq(Cells))
  PROVE  FlattenSeq(ss) \in Seq(Cells)
<1> HIDE DEF Cells
<1>1. PICK f : Joins(ss, f) BY JoinsExists, Zenon
<1>2. FlattenSeq(ss) = f[Len(ss)] BY <1>1, JoinsIs, Zenon
<1>3. f \in [0 .. Len(ss) -> Seq(Cells)] BY <1>1, Zenon DEF Joins
<1>4. Len(ss) \in 0 .. Len(ss) OBVIOUS
<1> QED BY <1>2, <1>3, <1>4, Zenon

LEMMA FlattenEmpty == FlattenSeq(<< >>) = << >>
<1>1. Len(<< >>) = 0 OBVIOUS
<1> QED BY <1>1, Zenon DEF FlattenSeq

LEMMA FlattenCons ==
  ASSUME NEW ss \in Seq(Seq(Cells)), ss # << >>
  PROVE  FlattenSeq(ss) = ss[1] \o FlattenSeq(Tail(ss))
<1> HIDE DEF Cells
<1> DEFINE n == Len(ss)  tt == Tail(ss)
<1>0. /\ n \in Nat /\ n # 0 /\ tt \in Seq(Seq(Cells)) /\ Len(tt) = n - 1 /\ ss[1] \in Seq(Cells)
      /\ \A i \in 1 .. n - 1 : tt[i] = ss[i + 1] /\ tt[i] \in Seq(Cells)
  OBVIOUS
<1> HIDE DEF tt
<1>1. PICK f : Joins(ss, f) BY JoinsExists, Zenon
<1>2. PICK g : Joins(tt, g) BY <1>0, JoinsExists, Zenon
<1>3. FlattenSeq(ss) = f[n] BY <1>1, JoinsIs, Zenon
<1>4. FlattenSeq(tt) = g[n - 1] BY <1>0, <1>2, JoinsIs, Zenon
<1>5. f[0] = << >> /\ \A i \in 1 .. n : f[i] = f[i - 1] \o ss[i] BY <1>1, Zenon DEF Joins
<1>6. g \in [0 .. n - 1 -> Seq(Cells)] /\ g[0] = << >>
      /\ \A i \in 1 .. n - 1 : g[i] = g[i - 1] \o tt[i]
  BY <1>0, <1>2, Zenon DEF Joins
<1> DEFINE S == {i \in 0 .. n - 1 : f[i + 1] = ss[1] \o g[i]}
<1>7. 0 \in S
  <2>1. 0 \in 0 .. n - 1 /\ 0 + 1 = 1 /\ 1 - 1 = 0 /\ 1 \in 1 .. n BY <1>0
  <2>2. << >> \o ss[1] = ss[1] /\ ss[1] \o << >> = ss[1] BY <1>0
  <2>3. f[1] = ss[1] BY <1>5, <2>1, <2>2, Zenon
  <2> QED BY <1>6, <2>1, <2>2, <2>3, Zenon
<1>8. \A i \in 0 .. (n - 1) - 1 : i \in S => i + 1 \in S
  <2> SUFFICES ASSUME NEW i \in 0 .. (n - 1) - 1, i \in S PROVE i + 1 \in S OBVIOUS
  <2>1. i + 1 \in 1 .. n - 1 /\ (i + 1) + 1 \in 1 .. n /\ i + 1 \in 0 .. n - 1
        /\ (i + 1) - 1 = i /\ ((i + 1) + 1) - 1 = i + 1 /\ i \in 0 .. n - 1
    BY <1>0
  <2>2. f[(i + 1) + 1] = f[i + 1] \o ss[(i + 1) + 1] BY <1>5, <2>1, Zenon
  <2>3. g[i + 1] = g[i] \o tt[i + 1] BY <1>6, <2>1, Zenon
  <2>4. tt[i + 1] = ss[(i + 1) + 1] /\ tt[i + 1] \in Seq(Cells) BY <1>0, <2>1, Zenon
  <2>5. f[i + 1] = ss[1] \o g[i] BY Zenon
  <2>6. g[i] \in Seq(Cells) BY <1>6, <2>1, Zenon
  <2>8. (ss[1] \o g[i]) \o tt[i + 1] = ss[1] \o (g[i] \o tt[i + 1])
    BY <1>0, <2>4, <2>6, Concat, ZenonT(40)
  <2>9. f[(i + 1) + 1] = ss[1] \o g[i + 1] BY <2>2, <2>3, <2>4, <2>5, <2>8, Zenon
  <2> QED BY <2>1, <2>9, Zenon
<1>9. 0 .. n - 1 \subseteq S
  <2>1. n - 1 \in Nat BY <1>0
  <2> DEFINE m == n - 1
  <2> HIDE DEF m, n, S
  <2>2. m \in Nat /\ 0 \in S /\ \A i \in 0 .. m - 1 : i \in S => i + 1 \in S
    BY <1>7, <1>8, <2>1, Zenon DEF m
  <2>3. 0 .. m \subseteq S BY <2>2, Induction, Zenon
  <2> QED BY <2>3, Zenon DEF m
<1>10. n - 1 \in 0 .. n - 1 /\ (n - 1) + 1 = n BY <1>0
<1>11. n - 1 \in S BY <1>9, <1>10, Zenon
<1>12. f[(n - 1) + 1] = ss[1] \o g[n - 1] BY <1>11, Zenon
<1> QED BY <1>3, <1>4, <1>10, <1>12, Zenon DEF tt

-----------------------------------------------------------------------------
(* What is written is a list of cells *)

LEMMA WidthsOfConcat ==
  ASSUME NEW x \in Seq(Cells), NEW y \in Seq(Cells)
  PROVE  Widths(x \o y) = Widths(x) \o Widths(y)
<1> HIDE DEF Cells
<1> DEFINE u == Widths(x)  v == Widths(y)  w == Widths(x \o y)
<1>1. /\ Len(x \o y) = Len(x) + Len(y) /\ x \o y \in Seq(Cells)
      /\ \A i \in 1 .. Len(x) : w[i] = u[i]
      /\ \A i \in 1 .. Len(y) : w[Len(x) + i] = v[i]
  BY WidthsConcat, Zenon
<1>2. w \in Seq(Nat) /\ Len(w) = Len(x \o y) BY <1>1, WidthsType, Zenon
<1>3. u \in Seq(Nat) /\ Len(u) = Len(x) /\ v \in Seq(Nat) /\ Len(v) = Len(y) BY WidthsType, Zenon
<1>4. Len(x) \in Nat /\ Len(y) \in Nat OBVIOUS
<1> HIDE DEF u, v, w
<1>5. /\ u \o v \in Seq(Nat) /\ Len(u \o v) = Len(w)
      /\ \A i \in 1 .. Len(u) + Len(v) :
           (u \o v)[i] = IF i <= Len(u) THEN u[i] ELSE v[i - Len(u)]
  <2>1. Len(w) = Len(u) + Len(v) BY <1>1, <1>2, <1>3, Zenon
  <2> QED BY <1>3, <2>1, ConcatProperties, Zenon
<1>6. \A i \in 1 .. Len(w) : w[i] = (u \o v)[i]
  <2> SUFFICES ASSUME NEW i \in 1 .. Len(w) PROVE w[i] = (u \o v)[i] OBVIOUS
  <2>0. i \in 1 .. Len(u) + Len(v) BY <1>1, <1>2, <1>3, Zenon
  <2>1. CASE i <= Len(x)
    <3>1. i \in 1 .. Len(x) BY <1>4, <2>1
    <3>2. (u \o v)[i] = u[i] BY <1>3, <1>5, <2>0, <2>1, Zenon
    <3> QED BY <1>1, <3>1, <3>2, Zenon
  <2>2. CASE ~ (i <= Len(x))
    <3>1. i - Len(x) \in 1 .. Len(y) /\ Len(x) + (i - Len(x)) = i BY <1>3, <1>4, <2>0, <2>2
    <3>3. (u \o v)[i] = v[i - Len(x)] BY <1>3, <1>5, <2>0, <2>2, Zenon
    <3>2. w[Len(x) + (i - Len(x))] = v[i - Len(x)] BY <1>1, <3>1, Zenon
    <3> QED BY <3>1, <3>2, <3>3, Zenon
  <2> QED BY <2>1, <2>2
<1>7. w = u \o v BY <1>2, <1>5, <1>6, SeqEqual, Zenon
<1> QED BY <1>7, Zenon DEF u, v, w

LEMMA OneCell ==
  ASSUME NEW n \in Nat \ {0}, NEW v \in Values
  PROVE  LET x == <<Field(n, v)>> IN
         /\ Field(n, v) \in Cells /\ x \in Seq(Cells) /\ Len(x) = 1 /\ x[1] = Field(n, v)
         /\ Field(n, v).width = n /\ Field(n, v).value = v
         /\ Widths(x) = <<n>>
<1> HIDE DEF Values
<1>1. Field(n, v) \in Cells BY DEF Field, Cells
<1>2. Field(n, v).width = n /\ Field(n, v).value = v BY DEF Field
<1> DEFINE c == Field(n, v)
<1> HIDE DEF c, Cells
<1>3. <<c>> \in Seq(Cells) /\ Len(<<c>>) = 1 /\ <<c>>[1] = c /\ DOMAIN <<c>> = 1 .. 1
  BY <1>1 DEF c
<1>4. Widths(<<c>>) = <<n>>
  <2>1. Widths(<<c>>) = [i \in 1 .. 1 |-> <<c>>[i].width] BY <1>3, Zenon DEF Widths
  <2>2. \A i \in 1 .. 1 : <<c>>[i].width = n BY <1>2 DEF c
  <2>3. [i \in 1 .. 1 |-> <<c>>[i].width] = [i \in 1 .. 1 |-> n] BY <2>2, Zenon
  <2>4. [i \in 1 .. 1 |-> n] = <<n>> OBVIOUS
  <2> QED BY <2>1, <2>3, <2>4, Zenon
<1> QED BY <1>1, <1>2, <1>3, <1>4, Zenon DEF c

LEMMA NatValue == \A n \in Nat : n \in Values
BY DEF Values

LEMMA TypeU ==
  ASSUME NEW v \in Values
  PROVE  /\ U1(v) \in Seq(Cells) /\ Widths(U1(v)) = <<1>> /\ U1(v) = <<Field(1, v)>>
         /\ U2(v) \in Seq(Cells) /\ Widths(U2(v)) = <<2>> /\ U2(v) = <<Field(2, v)>>
         /\ U4(v) \in Seq(Cells) /\ Widths(U4(v)) = <<4>> /\ U4(v) = <<Field(4, v)>>
<1> HIDE DEF Values, Cells
<1>1. 1 \in Nat \ {0} /\ 2 \in Nat \ {0} /\ 4 \in Nat \ {0} OBVIOUS
<1> QED BY <1>1, OneCell, Zenon DEF U1, U2, U4

(* A list of m times c, of m two-byte zeros, and of their widths *)
Same(m, c) == [i \in 1 .. m |-> c]
Zeros(m) == Same(m, Field(2, 0))
Twos(m) == Same(m, 2)

(* The numbers of fields in an entry of a table *)
EntrySizes == {1, 2, 4, 5}

LEMMA ZerosType ==
  ASSUME NEW m \in Nat
  PROVE  Zeros(m) \in Seq(Cells) /\ Widths(Zeros(m)) = Twos(m)
<1> HIDE DEF Values, Cells
<1>1. Field(2, 0) \in Cells /\ Field(2, 0).width = 2
  <2>1. 2 \in Nat \ {0} /\ 0 \in Values
    <3>1. 0 \in Nat OBVIOUS
    <3>2. 0 \in Values BY <3>1, NatValue, Zenon
    <3> QED BY <3>2
  <2> QED BY <2>1, OneCell, Zenon
<1>2. Zeros(m) \in Seq(Cells) BY <1>1 DEF Zeros, Same
<1>3. DOMAIN Zeros(m) = 1 .. m BY DEF Zeros, Same
<1>4. \A i \in 1 .. m : Zeros(m)[i].width = 2 BY <1>1, Zenon DEF Zeros, Same
<1>5. Widths(Zeros(m)) = [i \in 1 .. m |-> Zeros(m)[i].width] BY <1>3, Zenon DEF Widths
<1>6. Widths(Zeros(m)) = [i \in 1 .. m |-> 2] BY <1>4, <1>5, Zenon
<1> QED BY <1>2, <1>6, Zenon DEF Twos, Same

(* Repeating a list of equal entries *)
LEMMA RepeatSame ==
  ASSUME NEW n \in Nat, NEW k \in EntrySizes, NEW c
  PROVE  Repeat(n, Same(k, c)) = Same(n * k, c) /\ n * k \in Nat
<1> DEFINE s == Same(k, c)
<1>0. k \in {1, 2, 4, 5} /\ n * k \in Nat BY SMT DEF EntrySizes
<1>1. Len(s) = k BY <1>0 DEF Same
<1>2. \A i \in 1 .. n * k : ((i - 1) % k) + 1 \in 1 .. k
  <2>1. \A j \in Nat : (j % k) \in 0 .. k - 1
    <3>1. CASE k = 1 BY <3>1, <1>0
    <3>2. CASE k = 2 BY <3>2
    <3>3. CASE k = 4 BY <3>3
    <3>4. CASE k = 5 BY <3>4
    <3> QED BY <1>0, <3>1, <3>2, <3>3, <3>4
  <2>2. \A i \in 1 .. n * k : i - 1 \in Nat BY <1>0
  <2>3. \A i \in 1 .. n * k : ((i - 1) % k) \in 0 .. k - 1 BY <2>1, <2>2, Zenon
  <2>4. \A q \in 0 .. k - 1 : q + 1 \in 1 .. k BY <1>0
  <2> QED BY <2>3, <2>4, Zenon
<1>3. \A j \in 1 .. k : s[j] = c BY DEF Same
<1> HIDE DEF s
<1>4. Repeat(n, s) = [i \in 1 .. n * k |-> s[((i - 1) % k) + 1]] BY <1>1, Zenon DEF Repeat
<1>5. \A i \in 1 .. n * k : s[((i - 1) % k) + 1] = c BY <1>2, <1>3, Zenon
<1>6. Repeat(n, s) = [i \in 1 .. n * k |-> c] BY <1>4, <1>5, Zenon
<1> QED BY <1>0, <1>6, Zenon DEF s, Same

LEMMA RepeatZeros ==
  ASSUME NEW n \in Nat
  PROVE  /\ Repeat(n, U2(0)) = Zeros(n * 1) /\ n * 1 \in Nat
         /\ Repeat(n, U2(0) \o U2(0)) = Zeros(n * 2) /\ n * 2 \in Nat
         /\ Repeat(n, Repeat(4, U2(0))) = Zeros(n * 4) /\ n * 4 \in Nat
         /\ Repeat(n, Repeat(5, U2(0))) = Zeros(n * 5) /\ n * 5 \in Nat
         /\ Repeat(n, <<2>>) = Twos(n * 1)
         /\ Repeat(n, <<2, 2>>) = Twos(n * 2)
         /\ Repeat(n, <<2, 2, 2, 2>>) = Twos(n * 4)
         /\ Repeat(n, <<2, 2, 2, 2, 2>>) = Twos(n * 5)
<1> DEFINE z == Field(2, 0)
<1> HIDE DEF z
<1>1. U2(0) = Same(1, z)
  <2>1. <<z>> = Same(1, z) BY DEF Same
  <2> QED BY <2>1, Zenon DEF U2, z
<1>2. U2(0) \o U2(0) = Same(2, z)
  <2>1. <<z>> \o <<z>> = Same(2, z) BY DEF Same
  <2> QED BY <2>1, Zenon DEF U2, z
<1>3. /\ <<2>> = Same(1, 2) /\ <<2, 2>> = Same(2, 2)
      /\ <<2, 2, 2, 2>> = Same(4, 2) /\ <<2, 2, 2, 2, 2>> = Same(5, 2)
  BY DEF Same
<1>4. \A c : \A k \in EntrySizes, m \in Nat :
        Repeat(m, Same(k, c)) = Same(m * k, c) /\ m * k \in Nat
  BY RepeatSame, Zenon
<1>5. 1 \in EntrySizes /\ 2 \in EntrySizes /\ 4 \in EntrySizes /\ 5 \in EntrySizes
      /\ 4 \in Nat /\ 5 \in Nat /\ 4 * 1 = 4 /\ 5 * 1 = 5
  BY DEF EntrySizes
<1>6. Repeat(4, U2(0)) = Same(4, z)
  <2>1. Repeat(4, Same(1, z)) = Same(4 * 1, z) BY <1>4, <1>5, Zenon
  <2> QED BY <1>1, <1>5, <2>1, Zenon
<1>7. Repeat(5, U2(0)) = Same(5, z)
  <2>1. Repeat(5, Same(1, z)) = Same(5 * 1, z) BY <1>4, <1>5, Zenon
  <2> QED BY <1>1, <1>5, <2>1, Zenon
<1>8. \A m : Zeros(m) = Same(m, z) BY Zenon DEF Zeros, z
<1>9. \A m : Twos(m) = Same(m, 2) BY Zenon DEF Twos
<1>10. Repeat(n, U2(0)) = Zeros(n * 1) /\ n * 1 \in Nat BY <1>1, <1>4, <1>5, <1>8, Zenon
<1>11. Repeat(n, U2(0) \o U2(0)) = Zeros(n * 2) /\ n * 2 \in Nat BY <1>2, <1>4, <1>5, <1>8, Zenon
<1>12. Repeat(n, Repeat(4, U2(0))) = Zeros(n * 4) /\ n * 4 \in Nat BY <1>6, <1>4, <1>5, <1>8, Zenon
<1>13. Repeat(n, Repeat(5, U2(0))) = Zeros(n * 5) /\ n * 5 \in Nat BY <1>7, <1>4, <1>5, <1>8, Zenon
<1>14. Repeat(n, <<2>>) = Twos(n * 1) BY <1>3, <1>4, <1>5, <1>9, Zenon
<1>15. Repeat(n, <<2, 2>>) = Twos(n * 2) BY <1>3, <1>4, <1>5, <1>9, Zenon
<1>16. Repeat(n, <<2, 2, 2, 2>>) = Twos(n * 4) BY <1>3, <1>4, <1>5, <1>9, Zenon
<1>17. Repeat(n, <<2, 2, 2, 2, 2>>) = Twos(n * 5) BY <1>3, <1>4, <1>5, <1>9, ZenonT(40)
<1> QED BY <1>10, <1>11, <1>12, <1>13, <1>14, <1>15, <1>16, <1>17, Zenon

(* A count and a table of m zeros *)
LEMMA TableType ==
  ASSUME NEW n \in Nat, NEW m \in Nat
  PROVE  LET x == U2(n) \o Zeros(m) IN
         /\ x \in Seq(Cells) /\ Widths(x) = <<2>> \o Twos(m)
         /\ Len(x) = 1 + m /\ x[1] = Field(2, n) /\ Field(2, n).value = n
<1> HIDE DEF Values, Cells
<1>1. n \in Values BY NatValue, Zenon
<1>2. U2(n) \in Seq(Cells) /\ Widths(U2(n)) = <<2>> /\ U2(n) = <<Field(2, n)>> BY <1>1, TypeU, Zenon
<1>3. Zeros(m) \in Seq(Cells) /\ Widths(Zeros(m)) = Twos(m) BY ZerosType, Zenon
<1>4. U2(n) \o Zeros(m) \in Seq(Cells) BY <1>2, <1>3, Concat, Zenon
<1>5. Widths(U2(n) \o Zeros(m)) = Widths(U2(n)) \o Widths(Zeros(m))
  BY <1>2, <1>3, WidthsOfConcat, Zenon
<1>6. Len(Zeros(m)) = m BY DEF Zeros, Same
<1> DEFINE c == Field(2, n)  z == Zeros(m)
<1> HIDE DEF c, z
<1>7. Len(<<c>> \o z) = 1 + m /\ (<<c>> \o z)[1] = c
  <2>1. <<c>> \in Seq(Cells) BY <1>2, Zenon DEF c
  <2>2. c \in Cells BY <2>1
  <2> QED BY <1>3, <1>6, <2>1, <2>2 DEF z
<1>8. Field(2, n).value = n BY DEF Field
<1> QED BY <1>2, <1>3, <1>4, <1>5, <1>7, <1>8, Zenon DEF c, z

-----------------------------------------------------------------------------
(* The numbers of constants *)

(* A long or double takes two numbers, another constant one. *)
NumbersOf(c) == IF c.kind \in Wide THEN 2 ELSE 1

LEMMA NumberStep ==
  ASSUME NEW cs, NEW S, cs \in Seq(S)
  PROVE  /\ Number(cs) \in [1 .. Len(cs) + 1 -> Nat \ {0}]
         /\ Number(cs)[1] = 1
         /\ \A i \in 1 .. Len(cs) : Number(cs)[i + 1] = Number(cs)[i] + NumbersOf(cs[i])
         /\ Last(Number(cs)) = Number(cs)[Len(cs) + 1]
         /\ DOMAIN cs = 1 .. Len(cs) /\ Len(cs) \in Nat
<1> DEFINE W(i) == {j \in 1 .. i - 1 : cs[j].kind \in Wide}  c(i) == Cardinality(W(i))
<1>0. Len(cs) \in Nat /\ DOMAIN cs = 1 .. Len(cs) OBVIOUS
<1>1. \A i \in Nat : IsFiniteSet(W(i))
  <2> SUFFICES ASSUME NEW i \in Nat PROVE IsFiniteSet(W(i)) OBVIOUS
  <2>1. 1 \in Int /\ i - 1 \in Int OBVIOUS
  <2>2. IsFiniteSet(1 .. i - 1) BY <2>1, FS_Interval, Zenon
  <2>3. W(i) \subseteq 1 .. i - 1 OBVIOUS
  <2> QED BY <2>2, <2>3, FS_Subset, Zenon
<1>2. \A i \in Nat : c(i) \in Nat BY <1>1, FS_CardinalityType, Zenon
<1>3. c(1) = 0
  <2>1. W(1) = {} OBVIOUS
  <2> QED BY <2>1, FS_EmptySet, Zenon
<1>4. \A i \in 1 .. Len(cs) : c(i + 1) = c(i) + (NumbersOf(cs[i]) - 1) /\ NumbersOf(cs[i]) \in {1, 2}
  <2> SUFFICES ASSUME NEW i \in 1 .. Len(cs)
               PROVE  c(i + 1) = c(i) + (NumbersOf(cs[i]) - 1) /\ NumbersOf(cs[i]) \in {1, 2}
    OBVIOUS
  <2>0. i \in Nat BY <1>0
  <2>1. CASE cs[i].kind \in Wide
    <3>1. W(i + 1) = W(i) \cup {i} BY <2>0, <2>1
    <3>2. i \notin W(i) BY <2>0
    <3>3. Cardinality(W(i) \cup {i}) = IF i \in W(i) THEN Cardinality(W(i)) ELSE Cardinality(W(i)) + 1
      BY <1>1, <2>0, FS_AddElement, Zenon
    <3>4. c(i + 1) = c(i) + 1 BY <3>1, <3>2, <3>3, Zenon
    <3>5. NumbersOf(cs[i]) = 2 BY <2>1, Zenon DEF NumbersOf
    <3> HIDE DEF c
    <3> QED BY <3>4, <3>5
  <2>2. CASE cs[i].kind \notin Wide
    <3>1. W(i + 1) = W(i) BY <2>0, <2>2
    <3>4. c(i + 1) = c(i) BY <3>1, Zenon
    <3>5. NumbersOf(cs[i]) = 1 BY <2>2, Zenon DEF NumbersOf
    <3>6. c(i) \in Nat BY <1>2, <2>0, Zenon
    <3> HIDE DEF c
    <3> QED BY <3>4, <3>5, <3>6
  <2> QED BY <2>1, <2>2
<1>5. Number(cs) = [i \in 1 .. Len(cs) + 1 |-> i + c(i)] BY Zenon DEF Number
<1> HIDE DEF c
<1>6. \A i \in 1 .. Len(cs) + 1 : i \in Nat \ {0} /\ c(i) \in Nat
  <2>1. \A i \in 1 .. Len(cs) + 1 : i \in Nat \ {0} /\ i \in Nat BY <1>0
  <2> QED BY <1>2, <2>1, Zenon
<1>7. Number(cs) \in [1 .. Len(cs) + 1 -> Nat \ {0}] BY <1>5, <1>6
<1>8. Number(cs)[1] = 1 BY <1>0, <1>3, <1>5
<1>9. \A i \in 1 .. Len(cs) : Number(cs)[i + 1] = Number(cs)[i] + NumbersOf(cs[i])
  <2> SUFFICES ASSUME NEW i \in 1 .. Len(cs)
               PROVE  Number(cs)[i + 1] = Number(cs)[i] + NumbersOf(cs[i])
    OBVIOUS
  <2>1. i \in 1 .. Len(cs) + 1 /\ i + 1 \in 1 .. Len(cs) + 1 BY <1>0
  <2>2. Number(cs)[i] = i + c(i) /\ Number(cs)[i + 1] = (i + 1) + c(i + 1) BY <1>5, <2>1, Zenon
  <2>3. c(i + 1) = c(i) + (NumbersOf(cs[i]) - 1) /\ NumbersOf(cs[i]) \in {1, 2} BY <1>4, Zenon
  <2>4. c(i) \in Nat BY <1>6, <2>1, Zenon
  <2> QED BY <2>2, <2>3, <2>4
<1>10. Len(Number(cs)) = Len(cs) + 1 BY <1>0, <1>7
<1>11. Last(Number(cs)) = Number(cs)[Len(cs) + 1] BY <1>10, Zenon DEF Last
<1> QED BY <1>0, <1>7, <1>8, <1>9, <1>11, Zenon

LEMMA NumberOrder ==
  ASSUME NEW cs, NEW S, cs \in Seq(S)
  PROVE  /\ \A i, j \in 1 .. Len(cs) + 1 : i < j => Number(cs)[i] < Number(cs)[j]
         /\ \A i, j \in 1 .. Len(cs) + 1 : Number(cs)[i] = Number(cs)[j] => i = j
<1> DEFINE n == Len(cs)  t == Number(cs)
           T == {j \in 0 .. n : \A i \in 1 .. j : t[i] < t[j + 1]}
<1>0. n \in Nat /\ t \in [1 .. n + 1 -> Nat \ {0}]
      /\ \A i \in 1 .. n : t[i + 1] = t[i] + NumbersOf(cs[i])
  BY NumberStep, Zenon
<1> HIDE DEF t, n
<1>1. 0 \in T BY <1>0
<1>2. \A j \in 0 .. n - 1 : j \in T => j + 1 \in T
  <2> SUFFICES ASSUME NEW j \in 0 .. n - 1, j \in T PROVE j + 1 \in T OBVIOUS
  <2>1. j + 1 \in 1 .. n BY <1>0
  <2>2. t[(j + 1) + 1] = t[j + 1] + NumbersOf(cs[j + 1]) BY <1>0, <2>1, Zenon
  <2>3. NumbersOf(cs[j + 1]) \in {1, 2} BY DEF NumbersOf
  <2>4. \A i \in 1 .. j : t[i] < t[j + 1] BY Zenon
  <2>5. \A i \in 1 .. j + 1 : t[i] < t[(j + 1) + 1]
    <3> SUFFICES ASSUME NEW i \in 1 .. j + 1 PROVE t[i] < t[(j + 1) + 1] OBVIOUS
    <3>1. t[i] \in Nat /\ t[j + 1] \in Nat BY <1>0
    <3>2. CASE i = j + 1 BY <2>2, <2>3, <3>1, <3>2
    <3>3. CASE i # j + 1
      <4>1. i \in 1 .. j BY <3>3
      <4>2. t[i] < t[j + 1] BY <2>4, <4>1, Zenon
      <4> QED BY <2>2, <2>3, <3>1, <4>2
    <3> QED BY <3>2, <3>3
  <2> QED BY <1>0, <2>1, <2>5
<1>3. 0 .. n \subseteq T
  <2> HIDE DEF T
  <2> QED BY <1>0, <1>1, <1>2, Induction, Zenon
<1>4. \A i, j \in 1 .. n + 1 : i < j => t[i] < t[j]
  <2> SUFFICES ASSUME NEW i \in 1 .. n + 1, NEW j \in 1 .. n + 1, i < j PROVE t[i] < t[j]
    OBVIOUS
  <2>1. j - 1 \in 0 .. n /\ i \in 1 .. j - 1 /\ (j - 1) + 1 = j BY <1>0
  <2>2. j - 1 \in T BY <1>3, <2>1, Zenon
  <2>3. t[i] < t[(j - 1) + 1] BY <2>1, <2>2, Zenon
  <2> QED BY <2>1, <2>3, Zenon
<1>5. \A i, j \in 1 .. n + 1 : t[i] = t[j] => i = j
  <2> SUFFICES ASSUME NEW i \in 1 .. n + 1, NEW j \in 1 .. n + 1, t[i] = t[j] PROVE i = j
    OBVIOUS
  <2>1. t[i] \in Nat /\ t[j] \in Nat /\ i \in Nat /\ j \in Nat BY <1>0
  <2>2. ~ (i < j) /\ ~ (j < i)
    <3>1. i < j => t[i] < t[j] BY <1>4, Zenon
    <3>2. j < i => t[j] < t[i] BY <1>4, Zenon
    <3> QED BY <2>1, <3>1, <3>2
  <2> QED BY <2>1, <2>2
<1> QED BY <1>4, <1>5 DEF t, n

(* A number is that of a constant, or the second of a long or double. *)
LEMMA NumberCovers ==
  ASSUME NEW cs, NEW S, cs \in Seq(S), NEW k \in 1 .. Last(Number(cs)) - 1
  PROVE  \E i \in 1 .. Len(cs) :
           k = Number(cs)[i] \/ (cs[i].kind \in Wide /\ k = Number(cs)[i] + 1)
<1> DEFINE n == Len(cs)  t == Number(cs)
           Is(x, i) == x = t[i] \/ (cs[i].kind \in Wide /\ x = t[i] + 1)
           T == {j \in 0 .. n : \A x \in 1 .. t[j + 1] - 1 : \E i \in 1 .. n : Is(x, i)}
<1>0. n \in Nat /\ t \in [1 .. n + 1 -> Nat \ {0}] /\ t[1] = 1 /\ Last(t) = t[n + 1]
      /\ \A i \in 1 .. n : t[i + 1] = t[i] + NumbersOf(cs[i])
  BY NumberStep, Zenon
<1> HIDE DEF t, n
<1>1. 0 \in T BY <1>0
<1>2. \A j \in 0 .. n - 1 : j \in T => j + 1 \in T
  <2> SUFFICES ASSUME NEW j \in 0 .. n - 1, j \in T PROVE j + 1 \in T OBVIOUS
  <2>1. j + 1 \in 1 .. n /\ j + 1 \in 0 .. n BY <1>0
  <2>2. t[(j + 1) + 1] = t[j + 1] + NumbersOf(cs[j + 1]) BY <1>0, <2>1, Zenon
  <2>3. t[j + 1] \in Nat BY <1>0
  <2>4. \A x \in 1 .. t[j + 1] - 1 : \E i \in 1 .. n : Is(x, i) BY Zenon
  <2>5. \A x \in 1 .. t[(j + 1) + 1] - 1 : \E i \in 1 .. n : Is(x, i)
    <3> SUFFICES ASSUME NEW x \in 1 .. t[(j + 1) + 1] - 1 PROVE \E i \in 1 .. n : Is(x, i)
      OBVIOUS
    <3>1. CASE x \in 1 .. t[j + 1] - 1 BY <2>4, <3>1, Zenon
    <3>2. CASE x \notin 1 .. t[j + 1] - 1
      <4>1. CASE cs[j + 1].kind \in Wide
        <5>1. NumbersOf(cs[j + 1]) = 2 BY <4>1, Zenon DEF NumbersOf
        <5>2. x = t[j + 1] \/ x = t[j + 1] + 1 BY <2>2, <2>3, <3>2, <5>1
        <5>3. Is(x, j + 1) BY <4>1, <5>2, Zenon
        <5> QED BY <2>1, <5>3, Zenon
      <4>2. CASE cs[j + 1].kind \notin Wide
        <5>1. NumbersOf(cs[j + 1]) = 1 BY <4>2, Zenon DEF NumbersOf
        <5>2. x = t[j + 1] BY <2>2, <2>3, <3>2, <5>1
        <5>3. Is(x, j + 1) BY <5>2, Zenon
        <5> QED BY <2>1, <5>3, Zenon
      <4> QED BY <4>1, <4>2
    <3> QED BY <3>1, <3>2
  <2> HIDE DEF Is
  <2> QED BY <2>1, <2>5, Zenon
<1>3. n \in T
  <2> HIDE DEF T
  <2>1. 0 .. n \subseteq T BY <1>0, <1>1, <1>2, Induction, Zenon
  <2>2. n \in 0 .. n BY <1>0
  <2> QED BY <2>1, <2>2, Zenon
<1>4. k \in 1 .. t[n + 1] - 1 BY <1>0, Zenon DEF t
<1>5. \E i \in 1 .. n : Is(k, i) BY <1>3, <1>4, Zenon
<1> QED BY <1>5, Zenon DEF t, n

(* The constant with the number of the i-th constant is the i-th. *)
LEMMA NumberedIs ==
  ASSUME NEW cs, NEW S, cs \in Seq(S), NEW i \in 1 .. Len(cs)
  PROVE  Numbered(cs, Number(cs)[i]) = cs[i]
<1> DEFINE t == Number(cs)
<1>1. DOMAIN cs = 1 .. Len(cs) /\ Len(cs) \in Nat OBVIOUS
<1>2. \A j \in DOMAIN cs : j \in 1 .. Len(cs) + 1 BY <1>1
<1>3. \A j, k \in 1 .. Len(cs) + 1 : t[j] = t[k] => j = k BY NumberOrder, Zenon
<1>4. i \in DOMAIN cs BY <1>1
<1> HIDE DEF t
<1>5. (CHOOSE j \in DOMAIN cs : t[j] = t[i]) = i BY <1>2, <1>3, <1>4, Zenon
<1> QED BY <1>5, Zenon DEF Numbered, t

-----------------------------------------------------------------------------
(* Constants as they are written *)

Constants == [kind : Kinds, text : STRING, bits : SUBSET (0 .. 63), refs : Seq(Nat)]
OfRefs == Kinds \ ({"Utf8", "MethodHandle"} \cup Numbers)

(* What stands behind the tag of a constant *)
Operands(c) ==
  CASE c.kind = "Utf8" /\ c.text = "" -> U2(0)
    [] c.kind = "Utf8" /\ c.text /= "" -> U2(TextSize) \o <<Field(TextSize, c.text)>>
    [] c.kind \in {"Integer", "Float"} -> U4(c.bits)
    [] c.kind \in Wide -> <<Field(8, c.bits)>>
    [] c.kind = "MethodHandle" -> U1(0) \o U2(c.refs[1])
    [] OTHER -> [i \in DOMAIN c.refs |-> Field(2, c.refs[i])]

LEMMA WrittenIs == \A c : WrittenConstant(c) = U1(c.kind) \o Operands(c)
BY Zenon DEF WrittenConstant, Operands

LEMMA OperandCases ==
  ASSUME NEW c
  PROVE  /\ c.kind = "Utf8" /\ c.text = "" => Operands(c) = U2(0)
         /\ c.kind = "Utf8" /\ c.text # "" => Operands(c) = U2(3) \o <<Field(3, c.text)>>
         /\ c.kind \in {"Integer", "Float"} => Operands(c) = U4(c.bits)
         /\ c.kind \in Wide => Operands(c) = <<Field(8, c.bits)>>
         /\ c.kind = "MethodHandle" => Operands(c) = U1(0) \o U2(c.refs[1])
         /\ c.kind \in OfRefs => Operands(c) = [i \in DOMAIN c.refs |-> Field(2, c.refs[i])]
<1> DEFINE a == U2(0)  b == U2(3) \o <<Field(3, c.text)>>  d == U4(c.bits)  e == <<Field(8, c.bits)>>
           f == U1(0) \o U2(c.refs[1])  g == [i \in DOMAIN c.refs |-> Field(2, c.refs[i])]
<1>1. Operands(c) = CASE c.kind = "Utf8" /\ c.text = "" -> a
                      [] c.kind = "Utf8" /\ c.text /= "" -> b
                      [] c.kind \in {"Integer", "Float"} -> d
                      [] c.kind \in Wide -> e
                      [] c.kind = "MethodHandle" -> f
                      [] OTHER -> g
  BY Zenon DEF Operands, TextSize
<1> HIDE DEF a, b, d, e, f, g
<1>2. c.kind = "Utf8" /\ c.text = "" => Operands(c) = a BY <1>1 DEF Wide
<1>3. c.kind = "Utf8" /\ c.text # "" => Operands(c) = b BY <1>1 DEF Wide
<1>4. c.kind \in {"Integer", "Float"} => Operands(c) = d BY <1>1 DEF Wide
<1>5. c.kind \in Wide => Operands(c) = e BY <1>1 DEF Wide
<1>6. c.kind = "MethodHandle" => Operands(c) = f BY <1>1 DEF Wide
<1>7. c.kind \in OfRefs => Operands(c) = g BY <1>1 DEF Wide, OfRefs, Numbers
<1> QED BY <1>2, <1>3, <1>4, <1>5, <1>6, <1>7, Zenon DEF a, b, d, e, f, g

LEMMA ConstantFacts ==
  ASSUME NEW c \in Constants
  PROVE  /\ c.kind \in Kinds /\ c.kind \in Values /\ c.text \in Values /\ c.bits \in Values
         /\ c.refs \in Seq(Nat) /\ c.text \in STRING
         /\ c.kind = "Utf8" \/ c.kind \in {"Integer", "Float"} \/ c.kind \in Wide
            \/ c.kind = "MethodHandle" \/ c.kind \in OfRefs
<1>1. c.kind \in Kinds /\ c.text \in STRING /\ c.bits \in SUBSET (0 .. 63) /\ c.refs \in Seq(Nat)
  BY DEF Constants
<1>3. c.kind = "Utf8" \/ c.kind \in {"Integer", "Float"} \/ c.kind \in Wide
            \/ c.kind = "MethodHandle" \/ c.kind \in OfRefs
  BY <1>1 DEF OfRefs, Numbers
<1> QED BY <1>1, <1>3, Zenon DEF Values

(* A cell for each reference *)
RefCells(refs) == [i \in DOMAIN refs |-> Field(2, refs[i])]

LEMMA RefCellsType ==
  ASSUME NEW refs \in Seq(Nat)
  PROVE  /\ RefCells(refs) \in Seq(Cells) /\ Len(RefCells(refs)) = Len(refs)
         /\ \A i \in 1 .. Len(refs) : RefCells(refs)[i].value = refs[i]
         /\ Widths(RefCells(refs)) = Twos(Len(refs))
<1> HIDE DEF Values, Cells
<1>1. Len(refs) \in Nat /\ DOMAIN refs = 1 .. Len(refs) /\ \A i \in 1 .. Len(refs) : refs[i] \in Nat
  OBVIOUS
<1>2. \A i \in 1 .. Len(refs) : /\ Field(2, refs[i]) \in Cells /\ Field(2, refs[i]).width = 2
                                /\ Field(2, refs[i]).value = refs[i]
  <2> SUFFICES ASSUME NEW i \in 1 .. Len(refs)
               PROVE  /\ Field(2, refs[i]) \in Cells /\ Field(2, refs[i]).width = 2
                      /\ Field(2, refs[i]).value = refs[i]
    OBVIOUS
  <2>1. refs[i] \in Values BY <1>1, NatValue, Zenon
  <2>2. 2 \in Nat \ {0} OBVIOUS
  <2> QED BY <2>1, <2>2, OneCell, Zenon
<1>3. RefCells(refs) = [i \in 1 .. Len(refs) |-> Field(2, refs[i])] BY <1>1, Zenon DEF RefCells
<1>4. RefCells(refs) \in Seq(Cells) /\ Len(RefCells(refs)) = Len(refs) BY <1>1, <1>2, <1>3
<1>5. \A i \in 1 .. Len(refs) : RefCells(refs)[i] = Field(2, refs[i]) BY <1>3, Zenon
<1>6. DOMAIN RefCells(refs) = 1 .. Len(refs) BY <1>3
<1>7. Widths(RefCells(refs)) = [i \in 1 .. Len(refs) |-> RefCells(refs)[i].width]
  BY <1>6, Zenon DEF Widths
<1>8. \A i \in 1 .. Len(refs) : RefCells(refs)[i].width = 2 BY <1>2, <1>5, Zenon
<1>9. Widths(RefCells(refs)) = Twos(Len(refs)) BY <1>7, <1>8, Zenon DEF Twos, Same
<1> QED BY <1>2, <1>4, <1>5, <1>9, Zenon

(* As many references as the kind has *)
LEMMA RefCountIs ==
  ASSUME NEW c \in Constants, Len(c.refs) = RefCount(c.kind)
  PROVE  /\ c.kind = "MethodHandle" => Len(c.refs) = 1 /\ c.refs[1] \in Nat
         /\ c.kind \in {"Class", "String", "MethodType", "Module", "Package"} => Len(c.refs) = 1
         /\ c.kind \in OfRefs \ {"Class", "String", "MethodType", "Module", "Package"}
              => Len(c.refs) = 2
         /\ c.kind \in Numbers \cup {"Utf8"} => c.refs = << >>
<1>1. c.kind \in Kinds /\ c.refs \in Seq(Nat) BY DEF Constants
<1>2. c.kind = "MethodHandle" => RefCount(c.kind) = 1 BY DEF RefCount, Named, MemberRefs
<1>3. c.kind \in {"Class", "String", "MethodType", "Module", "Package"} => RefCount(c.kind) = 1
  BY DEF RefCount, Named, MemberRefs
<1>4. c.kind \in OfRefs \ {"Class", "String", "MethodType", "Module", "Package"}
        => RefCount(c.kind) = 2
  BY <1>1 DEF RefCount, Named, OfRefs, Kinds, MemberRefs, Numbers, Wide
<1>5. c.kind \in Numbers \cup {"Utf8"} => RefCount(c.kind) = 0
  BY DEF RefCount, Named, MemberRefs, Numbers, Wide
<1>6. Len(c.refs) = 0 => c.refs = << >> BY <1>1
<1>7. Len(c.refs) = 1 => c.refs[1] \in Nat BY <1>1
<1> QED BY <1>2, <1>3, <1>4, <1>5, <1>6, <1>7, Zenon

LEMMA OperandsType ==
  ASSUME NEW c \in Constants, Len(c.refs) = RefCount(c.kind)
  PROVE  Operands(c) \in Seq(Cells)
<1> HIDE DEF Values, Cells
<1>1. c.kind = "Utf8" /\ c.text = "" => Operands(c) \in Seq(Cells)
  <2>1. 0 \in Values BY NatValue
  <2> QED BY <2>1, OperandCases, TypeU, Zenon
<1>2. c.kind = "Utf8" /\ c.text # "" => Operands(c) \in Seq(Cells)
  <2>1. 3 \in Nat \ {0} /\ 3 \in Values BY NatValue
  <2>2. U2(3) \in Seq(Cells) BY <2>1, TypeU, Zenon
  <2>3. <<Field(3, c.text)>> \in Seq(Cells) BY <2>1, ConstantFacts, OneCell, Zenon
  <2>4. U2(3) \o <<Field(3, c.text)>> \in Seq(Cells) BY <2>2, <2>3, Concat, Zenon
  <2> QED BY <2>4, OperandCases, Zenon
<1>3. c.kind \in {"Integer", "Float"} => Operands(c) \in Seq(Cells)
  <2>1. U4(c.bits) \in Seq(Cells) BY ConstantFacts, TypeU, Zenon
  <2> QED BY <2>1, OperandCases, Zenon
<1>4. c.kind \in Wide => Operands(c) \in Seq(Cells)
  <2>1. 8 \in Nat \ {0} OBVIOUS
  <2>2. <<Field(8, c.bits)>> \in Seq(Cells) BY <2>1, ConstantFacts, OneCell, Zenon
  <2> QED BY <2>2, OperandCases, Zenon
<1>5. c.kind = "MethodHandle" => Operands(c) \in Seq(Cells)
  <2> SUFFICES ASSUME c.kind = "MethodHandle" PROVE Operands(c) \in Seq(Cells) OBVIOUS
  <2>1. 0 \in Values BY NatValue
  <2>2. c.refs[1] \in Values BY RefCountIs, NatValue, Zenon
  <2>3. U1(0) \in Seq(Cells) /\ U2(c.refs[1]) \in Seq(Cells) BY <2>1, <2>2, TypeU, Zenon
  <2>4. U1(0) \o U2(c.refs[1]) \in Seq(Cells) BY <2>3, Concat, Zenon
  <2> QED BY <2>4, OperandCases, Zenon
<1>6. c.kind \in OfRefs => Operands(c) \in Seq(Cells)
  <2>1. RefCells(c.refs) \in Seq(Cells) BY ConstantFacts, RefCellsType, Zenon
  <2>2. c.kind \in OfRefs => Operands(c) = RefCells(c.refs) BY OperandCases, Zenon DEF RefCells
  <2> QED BY <2>1, <2>2, Zenon
<1> QED BY <1>1, <1>2, <1>3, <1>4, <1>5, <1>6, ConstantFacts, Zenon

-----------------------------------------------------------------------------
(* Attributes and members as they are written *)

LEMMA RawType ==
  ASSUME NEW n \in Nat
  PROVE  /\ Raw(n) \in Seq(Cells)
         /\ n = 0 => Raw(n) = << >>
         /\ n # 0 => Raw(n) = <<Field(n, 0)>> /\ Widths(Raw(n)) = <<n>>
<1> HIDE DEF Values, Cells
<1>1. n = 0 => Raw(n) = << >> BY Zenon DEF Raw
<1>2. n # 0 => Raw(n) = <<Field(n, 0)>> BY Zenon DEF Raw
<1>3. n # 0 => n \in Nat \ {0} OBVIOUS
<1>4. 0 \in Values BY NatValue
<1>5. n # 0 => <<Field(n, 0)>> \in Seq(Cells) /\ Widths(<<Field(n, 0)>>) = <<n>>
  BY <1>3, <1>4, OneCell, Zenon
<1> QED BY <1>1, <1>2, <1>5, Concat, Zenon

Tables == {"Exceptions", "LineNumberTable", "LocalVariableTable"}
Fixed == {"ConstantValue", "SourceFile"}
Empty == {"Synthetic", "Deprecated", "DepreCated"}

LEMMA BodyCases ==
  ASSUME NEW a, a.n \in Nat
  PROVE  /\ a.name \in Fixed => WrittenBody(a) = U2(0)
         /\ a.name \in Empty => WrittenBody(a) = << >>
         /\ a.name = "Exceptions" => WrittenBody(a) = U2(a.n) \o Zeros(a.n * 1)
         /\ a.name = "LineNumberTable" => WrittenBody(a) = U2(a.n) \o Zeros(a.n * 2)
         /\ a.name = "LocalVariableTable" => WrittenBody(a) = U2(a.n) \o Zeros(a.n * 5)
         /\ a.name \notin Fixed \cup Empty \cup Tables => WrittenBody(a) = Raw(a.n)
<1> DEFINE x == U2(0)  z == << >>  b == U2(a.n) \o Repeat(a.n, U2(0))
           d == U2(a.n) \o Repeat(a.n, U2(0) \o U2(0))
           e == U2(a.n) \o Repeat(a.n, Repeat(5, U2(0)))
           f == Raw(a.n)
<1>1. WrittenBody(a) = CASE a.name \in {"ConstantValue", "SourceFile"} -> x
                         [] a.name \in {"Synthetic", "Deprecated", "DepreCated"} -> z
                         [] a.name = "Exceptions" -> b
                         [] a.name = "LineNumberTable" -> d
                         [] a.name = "LocalVariableTable" -> e
                         [] OTHER -> f
  BY Zenon DEF WrittenBody
<1>2. b = U2(a.n) \o Zeros(a.n * 1) BY RepeatZeros, Zenon
<1>3. d = U2(a.n) \o Zeros(a.n * 2) BY RepeatZeros, Zenon
<1>4. e = U2(a.n) \o Zeros(a.n * 5) BY RepeatZeros, Zenon
<1> HIDE DEF x, z, b, d, e, f
<1>5. /\ a.name \in Fixed => WrittenBody(a) = x
      /\ a.name \in Empty => WrittenBody(a) = z
  BY <1>1 DEF Fixed, Empty
<1>6. /\ a.name = "Exceptions" => WrittenBody(a) = b
      /\ a.name = "LineNumberTable" => WrittenBody(a) = d
      /\ a.name = "LocalVariableTable" => WrittenBody(a) = e
  BY <1>1
<1>7. a.name \notin Fixed \cup Empty \cup Tables => WrittenBody(a) = f
  BY <1>1 DEF Fixed, Empty, Tables
<1> QED BY <1>2, <1>3, <1>4, <1>5, <1>6, <1>7, Zenon DEF x, z, f

LEMMA BodyType ==
  ASSUME NEW a, a.n \in Nat
  PROVE  WrittenBody(a) \in Seq(Cells)
<1> HIDE DEF Values, Cells
<1>1. a.n * 1 \in Nat /\ a.n * 2 \in Nat /\ a.n * 5 \in Nat OBVIOUS
<1>2. a.name \in Tables => WrittenBody(a) \in Seq(Cells)
  <2>1. /\ U2(a.n) \o Zeros(a.n * 1) \in Seq(Cells)
        /\ U2(a.n) \o Zeros(a.n * 2) \in Seq(Cells)
        /\ U2(a.n) \o Zeros(a.n * 5) \in Seq(Cells)
    BY <1>1, TableType, Zenon
  <2> QED BY <2>1, BodyCases, Zenon DEF Tables
<1>3. a.name \in Fixed => WrittenBody(a) \in Seq(Cells)
  <2>1. 0 \in Values BY NatValue
  <2>2. U2(0) \in Seq(Cells) BY <2>1, TypeU, Zenon
  <2> QED BY <2>2, BodyCases, Zenon
<1>4. a.name \in Empty => WrittenBody(a) \in Seq(Cells)
  <2>1. << >> \in Seq(Cells) BY Concat, Zenon
  <2>2. a.name \in Empty => WrittenBody(a) = << >> BY BodyCases, Zenon
  <2> QED BY <2>1, <2>2, Zenon
<1>5. a.name \notin Fixed \cup Empty \cup Tables => WrittenBody(a) \in Seq(Cells)
  BY BodyCases, RawType, Zenon
<1> QED BY <1>2, <1>3, <1>4, <1>5, Zenon

LEMMA NameNumberIs ==
  ASSUME NEW cs, NEW name \in Texts(cs), NEW S, cs \in Seq(S)
  PROVE  \E i \in 1 .. Len(cs) : /\ NameNumber(cs, name) = Number(cs)[i]
                                 /\ cs[i].kind = "Utf8" /\ cs[i].text = name
                                 /\ NameNumber(cs, name) \in Nat
<1>1. DOMAIN cs = 1 .. Len(cs) /\ Len(cs) \in Nat OBVIOUS
<1>2. \E i \in DOMAIN cs : cs[i].kind = "Utf8" /\ cs[i].text = name BY Zenon DEF Texts
<1> DEFINE i == CHOOSE i \in DOMAIN cs : cs[i].kind = "Utf8" /\ cs[i].text = name
<1>3. i \in DOMAIN cs /\ cs[i].kind = "Utf8" /\ cs[i].text = name BY <1>2, Zenon
<1>4. NameNumber(cs, name) = Number(cs)[i] BY Zenon DEF NameNumber
<1> HIDE DEF i
<1>5. i \in 1 .. Len(cs) BY <1>1, <1>3, Zenon
<1>6. Number(cs) \in [1 .. Len(cs) + 1 -> Nat \ {0}] BY NumberStep, Zenon
<1>7. Number(cs)[i] \in Nat BY <1>1, <1>5, <1>6
<1> QED BY <1>3, <1>4, <1>5, <1>7, Zenon

(* What is known of an attribute *)
LEMMA PlainFacts ==
  ASSUME NEW cs, NEW a \in PlainAttributes(cs)
  PROVE  a.name \in Texts(cs) /\ a.name # "Code" /\ a.n \in Nat
BY DEF PlainAttributes
LEMMA CodeFacts ==
  ASSUME NEW cs, NEW a \in CodeAttributes(cs)
  PROVE  /\ a.name \in Texts(cs) /\ a.name = "Code" /\ a.n \in Nat /\ a.n # 0
         /\ a.handlers \in Nat /\ a.nested \in Seq(PlainAttributes(cs))
<1> DEFINE P == PlainAttributes(cs)  T == Texts(cs)
<1>1. a \in [name : T \cap {"Code"}, n : Nat \ {0}, handlers : Nat, nested : Seq(P)]
  BY Zenon DEF CodeAttributes
<1> HIDE DEF P, T
<1>2. /\ a.name \in T /\ a.name = "Code" /\ a.n \in Nat /\ a.n # 0
      /\ a.handlers \in Nat /\ a.nested \in Seq(P)
  BY <1>1
<1> QED BY <1>2, Zenon DEF P, T

(* The cells of an attribute, of the attributes of a list, of a member,    *)
(* and of the members of a list                                            *)
AttributeBody(cs, a) == IF a.name = "Code" THEN WrittenCode(cs, a) ELSE WrittenBody(a)
AttributeCells(cs, a) == Attribute(cs, a, AttributeBody(cs, a))
AttributeList(cs, as) == [i \in DOMAIN as |-> AttributeCells(cs, as[i])]
MemberCells(cs, as) == U2(0) \o U2(0) \o U2(0) \o WrittenAttributes(cs, as)
MemberList(cs, ms) == [i \in DOMAIN ms |-> MemberCells(cs, ms[i])]

LEMMA ListsAre ==
  /\ \A cs, as : WrittenAttributes(cs, as) = U2(Len(as)) \o FlattenSeq(AttributeList(cs, as))
  /\ \A cs, ms : WrittenMembers(cs, ms) = U2(Len(ms)) \o FlattenSeq(MemberList(cs, ms))
<1>1. \A cs, as : WrittenAttributes(cs, as) = U2(Len(as)) \o FlattenSeq(AttributeList(cs, as))
  BY Zenon DEF WrittenAttributes, AttributeList, AttributeCells, AttributeBody
<1>2. \A cs, ms : WrittenMembers(cs, ms) = U2(Len(ms)) \o FlattenSeq(MemberList(cs, ms))
  BY Zenon DEF WrittenMembers, MemberList, MemberCells
<1> QED BY <1>1, <1>2, Zenon

(* The list of nested attributes is made as any other. *)
LEMMA NestedList ==
  ASSUME NEW cs, NEW as \in Seq(PlainAttributes(cs))
  PROVE  [i \in DOMAIN as |-> Attribute(cs, as[i], WrittenBody(as[i]))] = AttributeList(cs, as)
<1> DEFINE P == PlainAttributes(cs)
<1>1. \A i \in DOMAIN as : as[i] \in P
  <2>1. DOMAIN as = 1 .. Len(as) BY LenProperties, Zenon
  <2>2. \A i \in 1 .. Len(as) : as[i] \in P BY ElementOfSeq, Zenon
  <2> QED BY <2>1, <2>2, Zenon
<1>2. \A i \in DOMAIN as : as[i].name # "Code" BY <1>1, PlainFacts, Zenon
<1>3. \A i \in DOMAIN as : Attribute(cs, as[i], WrittenBody(as[i])) = AttributeCells(cs, as[i])
  BY <1>2, Zenon DEF AttributeCells, AttributeBody
<1> QED BY <1>3, Zenon DEF AttributeList

LEMMA IsSeq ==
  ASSUME NEW S, NEW n \in Nat, NEW f \in [1 .. n -> S]
  PROVE  f \in Seq(S) /\ Len(f) = n
OBVIOUS

(* Listing the cells of the elements of a list, whatever they are. *)
LEMMA ListType ==
  ASSUME NEW S, NEW as \in Seq(S), NEW f, DOMAIN f = DOMAIN as,
         f = [i \in DOMAIN as |-> f[i]], \A i \in DOMAIN as : f[i] \in Seq(Cells)
  PROVE  f \in Seq(Seq(Cells)) /\ FlattenSeq(f) \in Seq(Cells) /\ Len(f) = Len(as)
<1> HIDE DEF Cells
<1>1. DOMAIN as = 1 .. Len(as) /\ Len(as) \in Nat BY LenProperties, Zenon
<1>2. f = [i \in 1 .. Len(as) |-> f[i]] BY <1>1, Zenon
<1>3. \A i \in 1 .. Len(as) : f[i] \in Seq(Cells) BY <1>1, Zenon
<1>4. f \in Seq(Seq(Cells)) /\ Len(f) = Len(as)
  <2>1. f \in [1 .. Len(as) -> Seq(Cells)] BY <1>2, <1>3, Zenon
  <2> QED BY <1>1, <2>1, IsSeq, Zenon
<1> QED BY <1>4, FlattenType, Zenon

LEMMA AttributeType ==
  ASSUME NEW cs, NEW a, NEW body \in Seq(Cells), a.name \in Texts(cs), NEW S, cs \in Seq(S)
  PROVE  /\ Attribute(cs, a, body) \in Seq(Cells)
         /\ NameNumber(cs, a.name) \in Values /\ End(0, Widths(body)) \in Values
         /\ U2(NameNumber(cs, a.name)) \o U4(End(0, Widths(body))) \in Seq(Cells)
<1> HIDE DEF Values, Cells
<1>1. NameNumber(cs, a.name) \in Values BY NameNumberIs, NatValue, Zenon
<1>2. 0 \in Nat OBVIOUS
<1>3. End(0, Widths(body)) \in Nat BY <1>2, CellStarts, Zenon
<1>4. End(0, Widths(body)) \in Values BY <1>3, NatValue, Zenon
<1>5. U2(NameNumber(cs, a.name)) \in Seq(Cells) /\ U4(End(0, Widths(body))) \in Seq(Cells)
  BY <1>1, <1>4, TypeU, Zenon
<1>6. U2(NameNumber(cs, a.name)) \o U4(End(0, Widths(body))) \in Seq(Cells) BY <1>5, Concat, Zenon
<1>7. Attribute(cs, a, body) \in Seq(Cells) BY <1>6, Concat, Zenon DEF Attribute
<1> QED BY <1>1, <1>4, <1>6, <1>7, Zenon

LEMMA Closed ==
  ASSUME NEW a \in Seq(Cells), NEW b \in Seq(Cells)
  PROVE  a \o b \in Seq(Cells)
BY Concat, Zenon

(* Hypotheses in one piece, for the provers to match *)
Lists(a, b, c) == a \in Seq(Cells) /\ b \in Seq(Cells) /\ c \in Seq(Cells)
Joined(a, b, c) == (a \o b) \o c = a \o (b \o c)

LEMMA Assoc ==
  ASSUME NEW a, NEW b, NEW c, Lists(a, b, c)
  PROVE  Joined(a, b, c)
BY Concat, ZenonT(40) DEF Lists, Joined

Grouped(a, b, c, d, e) == (((a \o b) \o c) \o d) \o e = a \o ((b \o c) \o (d \o e))

LEMMA Group ==
  ASSUME NEW a, NEW b, NEW c, NEW d, NEW e, Lists(a, b, c), Lists(d, e, e)
  PROVE  Grouped(a, b, c, d, e)
<1> HIDE DEF Cells
<1> DEFINE y == b \o c  z == d \o e  x == a \o y
<1>0. /\ a \in Seq(Cells) /\ b \in Seq(Cells) /\ c \in Seq(Cells)
      /\ d \in Seq(Cells) /\ e \in Seq(Cells)
  BY Zenon DEF Lists
<1>1. y \in Seq(Cells) /\ z \in Seq(Cells) BY <1>0, Closed, Zenon
<1>2. (a \o b) \o c = a \o y
  <2>1. Joined(a, b, c) BY Assoc, Zenon
  <2> QED BY <2>1, Zenon DEF Joined
<1> HIDE DEF y
<1>3. x \in Seq(Cells) BY <1>0, <1>1, Closed, Zenon
<1> HIDE DEF x
<1>4. (x \o d) \o e = x \o z
  <2>1. Lists(x, d, e) BY <1>0, <1>3, Zenon DEF Lists
  <2>2. Joined(x, d, e) BY <2>1, Assoc, Zenon
  <2> QED BY <2>2, Zenon DEF Joined
<1> HIDE DEF z
<1>5. (a \o y) \o z = a \o (y \o z)
  <2>1. Lists(a, y, z) BY <1>0, <1>1, Zenon DEF Lists
  <2>2. Joined(a, y, z) BY <2>1, Assoc, Zenon
  <2> QED BY <2>2, Zenon DEF Joined
<1> QED BY <1>2, <1>4, <1>5, Zenon DEF x, y, z, Grouped

CodeHead(a) == U2(0) \o U2(0) \o U4(a.n) \o Raw(a.n)
CodeTable(a) == U2(a.handlers) \o Zeros(a.handlers * 4)

LEMMA PlainType ==
  ASSUME NEW cs, NEW S, cs \in Seq(S), NEW a \in PlainAttributes(cs)
  PROVE  AttributeCells(cs, a) \in Seq(Cells) /\ AttributeBody(cs, a) \in Seq(Cells)
<1> HIDE DEF Cells
<1>1. a.name \in Texts(cs) /\ a.name # "Code" /\ a.n \in Nat BY PlainFacts, Zenon
<1>2. WrittenBody(a) \in Seq(Cells) BY <1>1, BodyType, Zenon
<1>3. AttributeBody(cs, a) = WrittenBody(a) BY <1>1, Zenon DEF AttributeBody
<1>4. Attribute(cs, a, WrittenBody(a)) \in Seq(Cells) BY <1>1, <1>2, AttributeType, Zenon
<1> QED BY <1>2, <1>3, <1>4, Zenon DEF AttributeCells

(* The cells of a list of attributes, each of them cells *)
LEMMA AttributeListType ==
  ASSUME NEW cs, NEW P, NEW as \in Seq(P), \A a \in P : AttributeCells(cs, a) \in Seq(Cells)
  PROVE  /\ AttributeList(cs, as) \in Seq(Seq(Cells)) /\ Len(AttributeList(cs, as)) = Len(as)
         /\ FlattenSeq(AttributeList(cs, as)) \in Seq(Cells)
         /\ U2(Len(as)) \in Seq(Cells) /\ Len(as) \in Values
         /\ WrittenAttributes(cs, as) \in Seq(Cells)
<1> HIDE DEF Values, Cells
<1> DEFINE f == AttributeList(cs, as)
<1>1. DOMAIN as = 1 .. Len(as) /\ Len(as) \in Nat BY LenProperties, Zenon
<1>2. \A i \in 1 .. Len(as) : as[i] \in P BY ElementOfSeq, Zenon
<1>3. \A i \in DOMAIN as : AttributeCells(cs, as[i]) \in Seq(Cells) BY <1>1, <1>2, Zenon
<1>4. DOMAIN f = DOMAIN as /\ \A i \in DOMAIN as : f[i] = AttributeCells(cs, as[i])
  BY Zenon DEF AttributeList
<1>5. f = [i \in DOMAIN as |-> f[i]] BY Zenon DEF AttributeList
<1>6. \A i \in DOMAIN as : f[i] \in Seq(Cells) BY <1>3, <1>4, Zenon
<1> HIDE DEF f
<1>7. f \in Seq(Seq(Cells)) /\ FlattenSeq(f) \in Seq(Cells) /\ Len(f) = Len(as)
  BY <1>4, <1>5, <1>6, ListType
<1>8. Len(as) \in Values BY <1>1, NatValue, Zenon
<1>9. U2(Len(as)) \in Seq(Cells) BY <1>8, TypeU, Zenon
<1>10. U2(Len(as)) \o FlattenSeq(f) \in Seq(Cells) BY <1>7, <1>9, Concat, Zenon
<1>11. WrittenAttributes(cs, as) \in Seq(Cells) BY <1>10, ListsAre, Zenon DEF f
<1> QED BY <1>7, <1>8, <1>9, <1>11, Zenon DEF f

LEMMA CodeIs ==
  ASSUME NEW cs, NEW S, cs \in Seq(S), NEW a \in CodeAttributes(cs)
  PROVE  LET rest == FlattenSeq(AttributeList(cs, a.nested)) IN
         /\ CodeHead(a) \in Seq(Cells) /\ CodeTable(a) \in Seq(Cells)
         /\ U2(Len(a.nested)) \in Seq(Cells) /\ Len(a.nested) \in Values
         /\ rest \in Seq(Cells)
         /\ WrittenCode(cs, a) = CodeHead(a) \o (CodeTable(a) \o (U2(Len(a.nested)) \o rest))
<1> HIDE DEF Values, Cells
<1> DEFINE u == U2(0)  v == U4(a.n)  w == Raw(a.n)  x == U2(a.handlers)  y == Zeros(a.handlers * 4)
           m == U2(Len(a.nested))  rest == FlattenSeq(AttributeList(cs, a.nested))
<1>1. /\ a.n \in Nat /\ a.handlers \in Nat /\ a.nested \in Seq(PlainAttributes(cs))
  BY CodeFacts, Zenon
<1>2. 0 \in Values BY NatValue
<1>3. a.n \in Values /\ a.handlers \in Values BY <1>1, NatValue, Zenon
<1>4. u \in Seq(Cells) /\ v \in Seq(Cells) /\ x \in Seq(Cells) BY <1>2, <1>3, TypeU, Zenon
<1>5. w \in Seq(Cells) BY <1>1, RawType, Zenon
<1>6. a.handlers * 4 \in Nat /\ Repeat(a.handlers, Repeat(4, U2(0))) = y BY <1>1, RepeatZeros, Zenon
<1>7. y \in Seq(Cells) BY <1>6, ZerosType, Zenon
<1>8. \A b \in PlainAttributes(cs) : AttributeCells(cs, b) \in Seq(Cells) BY PlainType, Zenon
<1>9. m \in Seq(Cells) /\ rest \in Seq(Cells) /\ Len(a.nested) \in Values
  BY <1>1, <1>8, AttributeListType, Zenon
<1>10. [i \in DOMAIN a.nested |-> Attribute(cs, a.nested[i], WrittenBody(a.nested[i]))]
         = AttributeList(cs, a.nested)
  BY <1>1, NestedList, Zenon
<1>11. WrittenCode(cs, a) = ((((((u \o u) \o v) \o w) \o x) \o y) \o m) \o rest
  BY <1>6, <1>10, Zenon DEF WrittenCode
<1>12. CodeHead(a) = ((u \o u) \o v) \o w BY Zenon DEF CodeHead
<1>13. CodeTable(a) = x \o y BY Zenon DEF CodeTable
<1> HIDE DEF u, v, w, x, y, m, rest
<1>14. ((((((u \o u) \o v) \o w) \o x) \o y) \o m) \o rest
         = (((u \o u) \o v) \o w) \o ((x \o y) \o (m \o rest))
  <2> DEFINE h == ((u \o u) \o v) \o w
  <2>1. h \in Seq(Cells) BY <1>4, <1>5, Closed
  <2> HIDE DEF h
  <2>2. Lists(h, x, y) /\ Lists(m, rest, rest) BY <1>4, <1>7, <1>9, <2>1, Zenon DEF Lists
  <2>3. Grouped(h, x, y, m, rest) BY <2>2, Group, Zenon
  <2> QED BY <2>3, Zenon DEF h, Grouped
<1>15. CodeHead(a) \in Seq(Cells) BY <1>4, <1>5, <1>12, Closed
<1>16. CodeTable(a) \in Seq(Cells) BY <1>4, <1>7, <1>13, Closed, Zenon
<1>17. WrittenCode(cs, a) = CodeHead(a) \o (CodeTable(a) \o (m \o rest))
  BY <1>11, <1>12, <1>13, <1>14, Zenon
<1> QED BY <1>9, <1>15, <1>16, <1>17, Zenon DEF m, rest

LEMMA AnyType ==
  ASSUME NEW cs, NEW S, cs \in Seq(S)
  PROVE  \A a \in AllAttributes(cs) :
           AttributeCells(cs, a) \in Seq(Cells) /\ AttributeBody(cs, a) \in Seq(Cells)
<1> HIDE DEF Cells
<1>1. \A a \in PlainAttributes(cs) :
        AttributeCells(cs, a) \in Seq(Cells) /\ AttributeBody(cs, a) \in Seq(Cells)
  BY PlainType, Zenon
<1>2. \A a \in CodeAttributes(cs) :
        AttributeCells(cs, a) \in Seq(Cells) /\ AttributeBody(cs, a) \in Seq(Cells)
  <2> SUFFICES ASSUME NEW a \in CodeAttributes(cs)
               PROVE  AttributeCells(cs, a) \in Seq(Cells) /\ AttributeBody(cs, a) \in Seq(Cells)
    OBVIOUS
  <2> DEFINE rest == FlattenSeq(AttributeList(cs, a.nested))
             end == U2(Len(a.nested)) \o rest
  <2>1. a.name \in Texts(cs) /\ a.name = "Code" BY CodeFacts, Zenon
  <2>2. CodeHead(a) \in Seq(Cells) /\ CodeTable(a) \in Seq(Cells) BY CodeIs, Zenon
  <2>3. end \in Seq(Cells) BY CodeIs, Concat, Zenon
  <2>4. WrittenCode(cs, a) = CodeHead(a) \o (CodeTable(a) \o end) BY CodeIs, Zenon
  <2> HIDE DEF end
  <2>5. WrittenCode(cs, a) \in Seq(Cells) BY <2>2, <2>3, <2>4, Closed, Zenon
  <2>6. AttributeBody(cs, a) = WrittenCode(cs, a) BY <2>1, Zenon DEF AttributeBody
  <2>7. Attribute(cs, a, WrittenCode(cs, a)) \in Seq(Cells) BY <2>1, <2>5, AttributeType, Zenon
  <2> QED BY <2>5, <2>6, <2>7, Zenon DEF AttributeCells
<1> QED BY <1>1, <1>2, Zenon DEF AllAttributes

LEMMA AttributesType ==
  ASSUME NEW cs, NEW S, cs \in Seq(S), NEW as \in Seq(AllAttributes(cs))
  PROVE  /\ AttributeList(cs, as) \in Seq(Seq(Cells)) /\ Len(AttributeList(cs, as)) = Len(as)
         /\ FlattenSeq(AttributeList(cs, as)) \in Seq(Cells)
         /\ U2(Len(as)) \in Seq(Cells) /\ Len(as) \in Values
         /\ WrittenAttributes(cs, as) \in Seq(Cells)
<1> HIDE DEF Values, Cells
<1>1. \A a \in AllAttributes(cs) : AttributeCells(cs, a) \in Seq(Cells) BY AnyType, Zenon
<1> QED BY <1>1, AttributeListType, Zenon

LEMMA MembersType ==
  ASSUME NEW cs, NEW S, cs \in Seq(S), NEW ms \in Seq(Seq(AllAttributes(cs)))
  PROVE  /\ MemberList(cs, ms) \in Seq(Seq(Cells)) /\ Len(MemberList(cs, ms)) = Len(ms)
         /\ FlattenSeq(MemberList(cs, ms)) \in Seq(Cells)
         /\ U2(Len(ms)) \in Seq(Cells) /\ Len(ms) \in Values
         /\ WrittenMembers(cs, ms) \in Seq(Cells)
<1> HIDE DEF Values, Cells
<1> DEFINE P == Seq(AllAttributes(cs))  f == MemberList(cs, ms)
<1>0. 0 \in Values BY NatValue
<1>1. \A m \in P : MemberCells(cs, m) \in Seq(Cells)
  <2> SUFFICES ASSUME NEW m \in P PROVE MemberCells(cs, m) \in Seq(Cells) OBVIOUS
  <2>1. U2(0) \in Seq(Cells) BY <1>0, TypeU, Zenon
  <2>2. WrittenAttributes(cs, m) \in Seq(Cells) BY AttributesType, Zenon
  <2> QED BY <2>1, <2>2, Concat, Zenon DEF MemberCells
<1>2. DOMAIN ms = 1 .. Len(ms) /\ Len(ms) \in Nat BY LenProperties, Zenon
<1>3. \A i \in 1 .. Len(ms) : ms[i] \in P BY ElementOfSeq, Zenon
<1>4. \A i \in DOMAIN ms : MemberCells(cs, ms[i]) \in Seq(Cells) BY <1>1, <1>2, <1>3, Zenon
<1>5. DOMAIN f = DOMAIN ms /\ \A i \in DOMAIN ms : f[i] = MemberCells(cs, ms[i])
  BY Zenon DEF MemberList
<1>6. f = [i \in DOMAIN ms |-> f[i]] BY Zenon DEF MemberList
<1>7. \A i \in DOMAIN ms : f[i] \in Seq(Cells) BY <1>4, <1>5, Zenon
<1> HIDE DEF f, P
<1>8. f \in Seq(Seq(Cells)) /\ FlattenSeq(f) \in Seq(Cells) /\ Len(f) = Len(ms)
  <2>1. ms \in Seq(P) BY Zenon DEF P
  <2> QED BY <2>1, <1>5, <1>6, <1>7, ListType
<1>9. Len(ms) \in Values BY <1>2, NatValue, Zenon
<1>10. U2(Len(ms)) \in Seq(Cells) BY <1>9, TypeU, Zenon
<1>11. U2(Len(ms)) \o FlattenSeq(f) \in Seq(Cells) BY <1>8, <1>10, Concat, Zenon
<1>12. WrittenMembers(cs, ms) \in Seq(Cells) BY <1>11, ListsAre, Zenon DEF f
<1> QED BY <1>8, <1>9, <1>10, <1>12, Zenon DEF f

-----------------------------------------------------------------------------
(* The file as it is written *)

VersionCells(f) == U2(f.minor) \o U2(f.major)
ConstantCells(cs) == [i \in DOMAIN cs |-> WrittenConstant(cs[i])]
HeaderCells == U2(0) \o U2(0) \o U2(0)
InterfaceCells(f) == U2(f.interfaces) \o Zeros(f.interfaces * 1)
(* What follows the constant pool *)
Behind(f) ==
  HeaderCells \o (InterfaceCells(f) \o (WrittenMembers(f.constants, f.fields)
    \o (WrittenMembers(f.constants, f.methods) \o WrittenAttributes(f.constants, f.attributes))))

LEMMA ConstantCellsType ==
  ASSUME NEW cs, WellFormedPool(cs)
  PROVE  /\ ConstantCells(cs) \in Seq(Seq(Cells)) /\ Len(ConstantCells(cs)) = Len(cs)
         /\ FlattenSeq(ConstantCells(cs)) \in Seq(Cells)
         /\ cs \in Seq(Constants) /\ Len(cs) \in Nat /\ DOMAIN cs = 1 .. Len(cs)
         /\ \A i \in 1 .. Len(cs) : /\ cs[i] \in Constants
                                    /\ Len(cs[i].refs) = RefCount(cs[i].kind)
                                    /\ ConstantCells(cs)[i] = U1(cs[i].kind) \o Operands(cs[i])
<1> HIDE DEF Values, Cells
<1> DEFINE f == ConstantCells(cs)
<1>1. cs \in Seq(Constants) BY Zenon DEF WellFormedPool, Constants
<1> HIDE DEF Constants
<1>2. DOMAIN cs = 1 .. Len(cs) /\ Len(cs) \in Nat BY <1>1, LenProperties, Zenon
<1>3. \A i \in 1 .. Len(cs) : cs[i] \in Constants BY <1>1, ElementOfSeq, Zenon
<1>4. \A i \in 1 .. Len(cs) : Len(cs[i].refs) = RefCount(cs[i].kind)
  BY <1>2, Zenon DEF WellFormedPool
<1>5. \A i \in 1 .. Len(cs) : U1(cs[i].kind) \o Operands(cs[i]) \in Seq(Cells)
  <2> SUFFICES ASSUME NEW i \in 1 .. Len(cs)
               PROVE  U1(cs[i].kind) \o Operands(cs[i]) \in Seq(Cells)
    OBVIOUS
  <2>1. Operands(cs[i]) \in Seq(Cells) BY <1>3, <1>4, OperandsType, Zenon
  <2>2. cs[i].kind \in Values BY <1>3, ConstantFacts, Zenon
  <2>3. U1(cs[i].kind) \in Seq(Cells) BY <2>2, TypeU, Zenon
  <2> QED BY <2>1, <2>3, Closed, Zenon
<1>6. DOMAIN f = DOMAIN cs /\ \A i \in DOMAIN cs : f[i] = U1(cs[i].kind) \o Operands(cs[i])
  BY WrittenIs, Zenon DEF ConstantCells
<1>7. f = [i \in DOMAIN cs |-> f[i]] BY Zenon DEF ConstantCells
<1>8. \A i \in DOMAIN cs : f[i] \in Seq(Cells) BY <1>2, <1>5, <1>6, Zenon
<1> HIDE DEF f
<1>9. f \in Seq(Seq(Cells)) /\ FlattenSeq(f) \in Seq(Cells) /\ Len(f) = Len(cs)
  BY <1>1, <1>6, <1>7, <1>8, ListType
<1>10. \A i \in 1 .. Len(cs) : f[i] = U1(cs[i].kind) \o Operands(cs[i]) BY <1>2, <1>6, Zenon
<1> QED BY <1>1, <1>2, <1>3, <1>4, <1>9, <1>10, Zenon DEF f

(* Thirteen lists from the left, and as the parser takes them *)
Pieces(a, b, c, d, e, f, g, h, i, j, k, l, m) ==
  Lists(a, b, c) /\ Lists(d, e, f) /\ Lists(g, h, i) /\ Lists(j, k, l) /\ Lists(m, m, m)
Taken(a, b, c, d, e, f, g, h, i, j, k, l, m) ==
  (((((((((((a \o b) \o c) \o d) \o e) \o f) \o g) \o h) \o i) \o j) \o k) \o l) \o m
    = a \o ((b \o c) \o (d \o (e \o (((f \o g) \o h) \o ((i \o j) \o (k \o (l \o m)))))))

LEMMA Thirteen ==
  ASSUME NEW a, NEW b, NEW c, NEW d, NEW e, NEW f, NEW g, NEW h, NEW i, NEW j, NEW k, NEW l, NEW m,
         Pieces(a, b, c, d, e, f, g, h, i, j, k, l, m)
  PROVE  Taken(a, b, c, d, e, f, g, h, i, j, k, l, m)
<1> HIDE DEF Cells
<1> DEFINE L == Seq(Cells)
<1>1. a \in L /\ b \in L /\ c \in L /\ d \in L /\ e \in L /\ f \in L /\ g \in L
  BY Zenon DEF Lists, Pieces
<1>2. h \in L /\ i \in L /\ j \in L /\ k \in L /\ l \in L /\ m \in L BY Zenon DEF Lists, Pieces
<1>3. \A x, y \in L : x \o y \in L BY Concat, Zenon
<1>4. \A x, y, z \in L : Joined(x, y, z)
  <2>1. \A x, y, z \in L : Lists(x, y, z) BY Zenon DEF Lists
  <2> QED BY <2>1, Assoc, Zenon
<1> HIDE DEF L
<1> DEFINE q3 == (a \o b) \o c  q4 == q3 \o d  q5 == q4 \o e  q8 == ((q5 \o f) \o g) \o h
           q10 == (q8 \o i) \o j  q11 == q10 \o k
           bc == b \o c  fg == f \o g  fgh == fg \o h  ij == i \o j
           t1 == l \o m  t2 == k \o t1  t3 == ij \o t2  t4 == fgh \o t3  t5 == e \o t4  t6 == d \o t5
<1>5. q3 \in L /\ bc \in L /\ fg \in L /\ ij \in L /\ t1 \in L BY <1>1, <1>2, <1>3
<1>6. q3 = a \o bc
  <2>1. Joined(a, b, c) BY <1>1, <1>4
  <2> QED BY <2>1, Zenon DEF Joined
<1> HIDE DEF q3, bc
<1>7. q4 \in L BY <1>1, <1>3, <1>5, Zenon
<1> HIDE DEF q4
<1>8. q5 \in L BY <1>1, <1>3, <1>7, Zenon
<1> HIDE DEF q5
<1>9. q8 \in L /\ q8 = q5 \o fgh /\ fgh \in L
  <2>1. q5 \o f \in L BY <1>1, <1>3, <1>8, Zenon
  <2>2. (q5 \o f) \o g \in L BY <1>1, <1>3, <2>1, Zenon
  <2>3. q8 \in L BY <1>2, <1>3, <2>2, Zenon
  <2>4. Joined(q5, f, g) BY <1>1, <1>4, <1>8, Zenon
  <2>5. (q5 \o f) \o g = q5 \o fg BY <2>4, Zenon DEF Joined
  <2> HIDE DEF fg
  <2>6. Joined(q5, fg, h) BY <1>2, <1>4, <1>5, <1>8, Zenon
  <2>7. (q5 \o fg) \o h = q5 \o fgh BY <2>6, Zenon DEF Joined
  <2>8. fgh \in L BY <1>2, <1>3, <1>5, Zenon
  <2> QED BY <2>3, <2>5, <2>7, <2>8, Zenon
<1> HIDE DEF q8, fgh
<1>10. q10 = q8 \o ij /\ q10 \in L
  <2>1. Joined(q8, i, j) BY <1>2, <1>4, <1>9, Zenon
  <2>2. q10 = q8 \o ij BY <2>1, Zenon DEF Joined
  <2> QED BY <1>3, <1>5, <1>9, <2>2, Zenon
<1> HIDE DEF q10, ij
<1>11. q11 \in L BY <1>2, <1>3, <1>10, Zenon
<1>12. (q11 \o l) \o m = q11 \o t1
  <2> HIDE DEF q11
  <2>1. Joined(q11, l, m) BY <1>2, <1>4, <1>11, Zenon
  <2> QED BY <2>1, Zenon DEF Joined
<1> HIDE DEF t1
<1>13. q11 \o t1 = q10 \o t2 /\ t2 \in L
  <2>1. Joined(q10, k, t1) BY <1>2, <1>4, <1>5, <1>10, Zenon
  <2>2. t2 \in L BY <1>2, <1>3, <1>5, Zenon
  <2> QED BY <2>1, <2>2, Zenon DEF Joined
<1> HIDE DEF q11, t2
<1>14. q10 \o t2 = q8 \o t3 /\ t3 \in L
  <2>1. Joined(q8, ij, t2) BY <1>4, <1>5, <1>9, <1>13, Zenon
  <2>2. t3 \in L BY <1>3, <1>5, <1>13, Zenon
  <2> QED BY <1>10, <2>1, <2>2, Zenon DEF Joined
<1> HIDE DEF t3
<1>15. q8 \o t3 = q5 \o t4 /\ t4 \in L
  <2>1. Joined(q5, fgh, t3) BY <1>4, <1>8, <1>9, <1>14, Zenon
  <2>2. t4 \in L BY <1>3, <1>9, <1>14, Zenon
  <2> QED BY <1>9, <2>1, <2>2, Zenon DEF Joined
<1> HIDE DEF t4
<1>16. q5 \o t4 = q4 \o t5 /\ t5 \in L
  <2>1. Joined(q4, e, t4) BY <1>1, <1>4, <1>7, <1>15, Zenon
  <2>2. t5 \in L BY <1>1, <1>3, <1>15, Zenon
  <2> QED BY <2>1, <2>2, Zenon DEF Joined, q5
<1> HIDE DEF t5
<1>17. q4 \o t5 = q3 \o t6 /\ t6 \in L
  <2>1. Joined(q3, d, t5) BY <1>1, <1>4, <1>5, <1>16, Zenon
  <2>2. t6 \in L BY <1>1, <1>3, <1>16, Zenon
  <2> QED BY <2>1, <2>2, Zenon DEF Joined, q4
<1> HIDE DEF t6
<1>18. q3 \o t6 = a \o (bc \o t6)
  <2>1. Joined(a, bc, t6) BY <1>1, <1>4, <1>5, <1>17, Zenon
  <2> QED BY <1>6, <2>1, Zenon DEF Joined
<1>19. (q11 \o l) \o m = a \o (bc \o t6)
  BY <1>12, <1>13, <1>14, <1>15, <1>16, <1>17, <1>18, Zenon
<1> QED BY <1>19, Zenon DEF Taken, q3, q4, q5, q8, q10, q11, bc, fg, fgh, ij, t1, t2, t3, t4, t5, t6

PoolCount(f) == Number(f.constants)[Len(f.constants) + 1]

LEMMA FileIs ==
  ASSUME NEW f, WellFormed(f)
  PROVE  /\ U4(f.magic) \in Seq(Cells) /\ VersionCells(f) \in Seq(Cells)
         /\ U2(PoolCount(f)) \in Seq(Cells) /\ FlattenSeq(ConstantCells(f.constants)) \in Seq(Cells)
         /\ Behind(f) \in Seq(Cells)
         /\ WrittenFields(f) = U4(f.magic) \o (VersionCells(f) \o (U2(PoolCount(f))
              \o (FlattenSeq(ConstantCells(f.constants)) \o Behind(f))))
<1> HIDE DEF Values, Cells
<1> DEFINE cs == f.constants
           a == U4(f.magic)  b == U2(f.minor)  c == U2(f.major)  d == U2(PoolCount(f))
           e == FlattenSeq(ConstantCells(cs))  u == U2(0)
           i == U2(f.interfaces)  j == Zeros(f.interfaces * 1)
           k == WrittenMembers(cs, f.fields)  l == WrittenMembers(cs, f.methods)
           m == WrittenAttributes(cs, f.attributes)
<1>0. /\ f.magic \in BOOLEAN /\ f.minor \in Nat /\ f.major \in Nat /\ f.interfaces \in Nat
      /\ WellFormedPool(cs)
  BY Zenon DEF WellFormed
<1>1. /\ f.fields \in Seq(Seq(AllAttributes(cs))) /\ f.methods \in Seq(Seq(AllAttributes(cs)))
      /\ f.attributes \in Seq(AllAttributes(cs))
  BY Zenon DEF WellFormed
<1>2. cs \in Seq(Constants) /\ Len(cs) \in Nat /\ e \in Seq(Cells) BY <1>0, ConstantCellsType, Zenon
<1>3. 0 \in Values /\ f.magic \in Values
  <2>1. 0 \in Values BY NatValue
  <2> QED BY <1>0, <2>1, Zenon DEF Values
<1>4. f.minor \in Values /\ f.major \in Values /\ f.interfaces \in Values BY <1>0, NatValue, Zenon
<1>5. PoolCount(f) \in Values
  <2>1. Number(cs) \in [1 .. Len(cs) + 1 -> Nat \ {0}] BY <1>2, NumberStep, Zenon
  <2>2. Number(cs)[Len(cs) + 1] \in Nat BY <1>2, <2>1
  <2> QED BY <2>2, NatValue, Zenon DEF PoolCount
<1>6. a \in Seq(Cells) /\ b \in Seq(Cells) /\ c \in Seq(Cells) BY <1>3, <1>4, TypeU, Zenon
<1>7. d \in Seq(Cells) /\ u \in Seq(Cells) /\ i \in Seq(Cells) BY <1>3, <1>4, <1>5, TypeU, Zenon
<1>8. j \in Seq(Cells) /\ Repeat(f.interfaces, U2(0)) = j
  <2>1. Repeat(f.interfaces, U2(0)) = j /\ f.interfaces * 1 \in Nat BY <1>0, RepeatZeros, Zenon
  <2> QED BY <2>1, ZerosType, Zenon
<1>9. k \in Seq(Cells) /\ l \in Seq(Cells) BY <1>1, <1>2, MembersType, Zenon
<1>10. m \in Seq(Cells) BY <1>1, <1>2, AttributesType, Zenon
<1>11. WrittenFields(f)
         = (((((((((((a \o b) \o c) \o d) \o e) \o u) \o u) \o u) \o i) \o j) \o k) \o l) \o m
  BY <1>8, Zenon DEF WrittenFields, ConstantCells, PoolCount
<1>12. VersionCells(f) = b \o c BY Zenon DEF VersionCells
<1>13. Behind(f) = ((u \o u) \o u) \o ((i \o j) \o (k \o (l \o m)))
  BY Zenon DEF Behind, HeaderCells, InterfaceCells
<1> HIDE DEF a, b, c, d, e, u, i, j, k, l, m
<1>14. Pieces(a, b, c, d, e, u, u, u, i, j, k, l, m)
  BY <1>2, <1>6, <1>7, <1>8, <1>9, <1>10, Zenon DEF Lists, Pieces
<1>15. (((((((((((a \o b) \o c) \o d) \o e) \o u) \o u) \o u) \o i) \o j) \o k) \o l) \o m
           = a \o ((b \o c) \o (d \o (e \o (((u \o u) \o u) \o ((i \o j) \o (k \o (l \o m)))))))
  <2>1. Taken(a, b, c, d, e, u, u, u, i, j, k, l, m) BY <1>14, Thirteen, Zenon
  <2> QED BY <2>1, Zenon DEF Taken
<1>16. VersionCells(f) \in Seq(Cells) BY <1>6, <1>12, Closed, Zenon
<1>17. Behind(f) \in Seq(Cells)
  <2>1. l \o m \in Seq(Cells) BY <1>9, <1>10, Closed, Zenon
  <2>2. k \o (l \o m) \in Seq(Cells) BY <1>9, <2>1, Closed, Zenon
  <2>3. i \o j \in Seq(Cells) BY <1>7, <1>8, Closed, Zenon
  <2>4. (i \o j) \o (k \o (l \o m)) \in Seq(Cells) BY <2>2, <2>3, Closed, Zenon
  <2>5. u \o u \in Seq(Cells) BY <1>7, Closed, Zenon
  <2>6. (u \o u) \o u \in Seq(Cells) BY <1>7, <2>5, Closed, Zenon
  <2> QED BY <1>13, <2>4, <2>6, Closed, Zenon
<1>18. WrittenFields(f) = a \o (VersionCells(f) \o (d \o (e \o Behind(f))))
  BY <1>11, <1>12, <1>13, <1>15, Zenon
<1> QED BY <1>2, <1>6, <1>7, <1>16, <1>17, <1>18, Zenon DEF a, d, e

LEMMA FileType ==
  ASSUME NEW f, WellFormed(f)
  PROVE  WrittenFields(f) \in Seq(Cells)
<1> HIDE DEF Cells
<1> DEFINE a == U4(f.magic)  b == VersionCells(f)  c == U2(PoolCount(f))
           d == FlattenSeq(ConstantCells(f.constants))  e == Behind(f)
<1>1. a \in Seq(Cells) /\ b \in Seq(Cells) /\ c \in Seq(Cells) /\ d \in Seq(Cells) /\ e \in Seq(Cells)
      /\ WrittenFields(f) = a \o (b \o (c \o (d \o e)))
  BY FileIs, Zenon
<1> HIDE DEF a, b, c, d, e
<1>2. d \o e \in Seq(Cells) BY <1>1, Closed, Zenon
<1>3. c \o (d \o e) \in Seq(Cells) BY <1>1, <1>2, Closed, Zenon
<1>4. b \o (c \o (d \o e)) \in Seq(Cells) BY <1>1, <1>3, Closed, Zenon
<1> QED BY <1>1, <1>4, Closed, Zenon

-----------------------------------------------------------------------------
(* Reading constants and attributes *)

(* x is read at p, field by field, and s is left. *)
ReadsAs(p, x, s) ==
  /\ p \in Nat /\ Fits(p, Widths(x)) /\ At(End(p, Widths(x)), s)
  /\ Len(x) = 0 => End(p, Widths(x)) = p
  /\ Len(x) > 0 => ValueAt(p) = x[1].value
  /\ Len(x) > 1 => ValueAt(p + x[1].width) = x[2].value
  /\ Len(x) > 2 => ValueAt(p + x[1].width + x[2].width) = x[3].value
  /\ Len(x) > 3 => ValueAt(p + x[1].width + x[2].width + x[3].width) = x[4].value
  /\ Len(x) = 1 => End(p, Widths(x)) = p + x[1].width
  /\ Len(x) = 2 => End(p, Widths(x)) = p + x[1].width + x[2].width
  /\ Len(x) = 3 => End(p, Widths(x)) = p + x[1].width + x[2].width + x[3].width
  /\ Len(x) = 4 => End(p, Widths(x)) = p + x[1].width + x[2].width + x[3].width + x[4].width

LEMMA ReadsShort ==
  ASSUME Ready, NEW p, NEW x \in Seq(Cells), NEW s \in Seq(Cells), At(p, x \o s)
  PROVE  ReadsAs(p, x, s)
<1> HIDE DEF Cells
<1> DEFINE t == Starts(p, Widths(x))  e == End(p, Widths(x))  n == Len(x)
<1>1. /\ p \in Nat /\ Fits(p, Widths(x)) /\ At(e, s)
      /\ \A i \in 1 .. n : ValueAt(t[i]) = x[i].value
  BY Reads, Zenon
<1>2. /\ t[1] = p /\ e = t[n + 1]
      /\ \A i \in 1 .. n : t[i + 1] = t[i] + x[i].width
  BY <1>1, CellStarts, Zenon
<1>3. n \in Nat OBVIOUS
<1> HIDE DEF t, e, n
<1>4. n > 0 => t[2] = p + x[1].width /\ ValueAt(t[1]) = x[1].value
  <2>1. n > 0 => 1 \in 1 .. n /\ 1 + 1 = 2 BY <1>3
  <2> QED BY <1>1, <1>2, <2>1, Zenon
<1>5. n > 1 => t[3] = t[2] + x[2].width /\ ValueAt(t[2]) = x[2].value
  <2>1. n > 1 => 2 \in 1 .. n /\ 2 + 1 = 3 BY <1>3
  <2> QED BY <1>1, <1>2, <2>1, Zenon
<1>6. n > 2 => t[4] = t[3] + x[3].width /\ ValueAt(t[3]) = x[3].value
  <2>1. n > 2 => 3 \in 1 .. n /\ 3 + 1 = 4 BY <1>3
  <2> QED BY <1>1, <1>2, <2>1, Zenon
<1>7. n > 3 => t[5] = t[4] + x[4].width /\ ValueAt(t[4]) = x[4].value
  <2>1. n > 3 => 4 \in 1 .. n /\ 4 + 1 = 5 BY <1>3
  <2> QED BY <1>1, <1>2, <2>1, Zenon
<1>8. /\ n = 0 => e = t[1]
      /\ n = 1 => e = t[2]
      /\ n = 2 => e = t[3]
      /\ n = 3 => e = t[4]
      /\ n = 4 => e = t[5]
  BY <1>2
<1>9. /\ n > 1 => n > 0
      /\ n > 2 => n > 1
      /\ n > 3 => n > 2
      /\ n = 1 => n > 0
      /\ n = 2 => n > 1
      /\ n = 3 => n > 2
      /\ n = 4 => n > 3
  BY <1>3
<1>10. n > 1 => t[3] = p + x[1].width + x[2].width BY <1>4, <1>5, <1>9, Zenon
<1>11. n > 2 => t[4] = p + x[1].width + x[2].width + x[3].width BY <1>6, <1>9, <1>10, Zenon
<1>12. n > 3 => t[5] = p + x[1].width + x[2].width + x[3].width + x[4].width
  BY <1>7, <1>9, <1>11, Zenon
<1>13. /\ n = 0 => e = p
       /\ n > 0 => ValueAt(p) = x[1].value
       /\ n > 1 => ValueAt(p + x[1].width) = x[2].value
       /\ n > 2 => ValueAt(p + x[1].width + x[2].width) = x[3].value
       /\ n > 3 => ValueAt(p + x[1].width + x[2].width + x[3].width) = x[4].value
  BY <1>2, <1>4, <1>5, <1>6, <1>7, <1>8, <1>9, <1>10, <1>11, Zenon
<1>14. /\ n = 1 => e = p + x[1].width
       /\ n = 2 => e = p + x[1].width + x[2].width
       /\ n = 3 => e = p + x[1].width + x[2].width + x[3].width
       /\ n = 4 => e = p + x[1].width + x[2].width + x[3].width + x[4].width
  BY <1>4, <1>8, <1>9, <1>10, <1>11, <1>12, Zenon
<1> QED BY <1>1, <1>13, <1>14, Zenon DEF ReadsAs, t, e, n

(* A field v of n bytes stands at p, before s, and is read there. *)
OneAt(p, n, v, s) ==
  n \in Nat \ {0} /\ v \in Values /\ s \in Seq(Cells) /\ At(p, <<Field(n, v)>> \o s)
OneRead(p, n, v, s) ==
  p \in Nat /\ Fits(p, <<n>>) /\ ValueAt(p) = v /\ At(p + n, s)

LEMMA ReadOne ==
  ASSUME Ready, NEW p, NEW n, NEW v, NEW s, OneAt(p, n, v, s)
  PROVE  OneRead(p, n, v, s)
<1> HIDE DEF Cells, Values
<1>0. n \in Nat \ {0} /\ v \in Values /\ s \in Seq(Cells) /\ At(p, <<Field(n, v)>> \o s)
  BY Zenon DEF OneAt
<1> DEFINE x == <<Field(n, v)>>
<1>1. x \in Seq(Cells) /\ Len(x) = 1 /\ Widths(x) = <<n>> /\ x[1] = Field(n, v)
      /\ Field(n, v).width = n /\ Field(n, v).value = v
  BY <1>0, OneCell, Zenon
<1> HIDE DEF x
<1>2. ReadsAs(p, x, s) BY <1>0, <1>1, ReadsShort, Zenon DEF x
<1>3. 1 > 0 OBVIOUS
<1>4. p \in Nat /\ Fits(p, <<n>>) /\ ValueAt(p) = x[1].value /\ End(p, <<n>>) = p + x[1].width
      /\ At(End(p, <<n>>), s)
  BY <1>1, <1>2, <1>3, Zenon DEF ReadsAs
<1> QED BY <1>1, <1>4, Zenon DEF OneRead

LEMMA Pair ==
  ASSUME NEW a, NEW b
  PROVE  <<a>> \o <<b>> = <<a, b>>
<1> DEFINE S == {a, b}  x == <<a>>  y == <<b>>  z == <<a, b>>
<1>1. x \in Seq(S) /\ y \in Seq(S) /\ z \in Seq(S) OBVIOUS
<1>2. Len(x) = 1 /\ Len(y) = 1 /\ Len(z) = 2 /\ x[1] = a /\ y[1] = b /\ z[1] = a /\ z[2] = b
  OBVIOUS
<1> HIDE DEF S, x, y, z
<1>3. /\ x \o y \in Seq(S) /\ Len(x \o y) = Len(x) + Len(y)
      /\ \A i \in 1 .. Len(x) + Len(y) :
           (x \o y)[i] = IF i <= Len(x) THEN x[i] ELSE y[i - Len(x)]
  BY <1>1, ConcatProperties, Zenon
<1>4. Len(x \o y) = 2 /\ (x \o y)[1] = z[1] /\ (x \o y)[2] = z[2] BY <1>2, <1>3
<1>5. \A i \in 1 .. Len(x \o y) : (x \o y)[i] = z[i]
  <2>1. \A i \in 1 .. 2 : i = 1 \/ i = 2 OBVIOUS
  <2> QED BY <1>4, <2>1, Zenon
<1>6. x \o y = z
  <2>1. Len(x \o y) = Len(z) BY <1>2, <1>4, Zenon
  <2> QED BY <1>1, <1>3, <1>5, <2>1, SeqEqual, Zenon
<1> QED BY <1>6, Zenon DEF x, y, z

(* Two fields *)
TwoAt(p, n, v, m, w, s) ==
  /\ n \in Nat \ {0} /\ v \in Values /\ m \in Nat \ {0} /\ w \in Values
  /\ s \in Seq(Cells) /\ At(p, (<<Field(n, v)>> \o <<Field(m, w)>>) \o s)
TwoRead(p, n, v, m, w, s) ==
  /\ p \in Nat /\ Fits(p, <<n, m>>) /\ ValueAt(p) = v /\ ValueAt(p + n) = w
  /\ At(p + n + m, s)

LEMMA ReadTwo ==
  ASSUME Ready, NEW p, NEW n, NEW v, NEW m, NEW w, NEW s, TwoAt(p, n, v, m, w, s)
  PROVE  TwoRead(p, n, v, m, w, s)
<1> HIDE DEF Cells, Values
<1>0. /\ n \in Nat \ {0} /\ v \in Values /\ m \in Nat \ {0} /\ w \in Values
      /\ s \in Seq(Cells) /\ At(p, (<<Field(n, v)>> \o <<Field(m, w)>>) \o s)
  BY Zenon DEF TwoAt
<1> DEFINE y == <<Field(n, v)>>  z == <<Field(m, w)>>  x == y \o z
<1>1. y \in Seq(Cells) /\ Len(y) = 1 /\ Widths(y) = <<n>> /\ y[1] = Field(n, v)
      /\ Field(n, v).width = n /\ Field(n, v).value = v
  BY <1>0, OneCell, Zenon
<1>2. z \in Seq(Cells) /\ Len(z) = 1 /\ Widths(z) = <<m>> /\ z[1] = Field(m, w)
      /\ Field(m, w).width = m /\ Field(m, w).value = w
  BY <1>0, OneCell, Zenon
<1>3. x \in Seq(Cells) BY <1>1, <1>2, Closed, Zenon
<1> HIDE DEF y, z
<1>4. Widths(x) = <<n, m>>
  <2>1. Widths(x) = Widths(y) \o Widths(z) BY <1>1, <1>2, WidthsOfConcat, Zenon
  <2>2. <<n>> \o <<m>> = <<n, m>> BY Pair, Zenon
  <2> QED BY <1>1, <1>2, <2>1, <2>2, Zenon
<1>5. Len(x) = 2 /\ x[1] = y[1] /\ x[2] = z[1]
  <2> DEFINE c == Field(n, v)  d == Field(m, w)
  <2>1. x = <<c, d>> BY Pair, Zenon DEF y, z
  <2> HIDE DEF c, d
  <2>2. Len(<<c, d>>) = 2 /\ <<c, d>>[1] = c /\ <<c, d>>[2] = d OBVIOUS
  <2> QED BY <1>1, <1>2, <2>1, <2>2, Zenon DEF c, d
<1>6. ReadsAs(p, x, s) BY <1>0, <1>3, ReadsShort, Zenon DEF x, y, z
<1> HIDE DEF x
<1>7. 2 > 0 /\ 2 > 1 OBVIOUS
<1>8. x[1].width = n /\ x[1].value = v /\ x[2].width = m /\ x[2].value = w BY <1>1, <1>2, <1>5, Zenon
<1>9. p \in Nat /\ Fits(p, <<n, m>>) /\ ValueAt(p) = x[1].value
  BY <1>4, <1>5, <1>6, <1>7, Zenon DEF ReadsAs
<1>10. ValueAt(p + x[1].width) = x[2].value BY <1>5, <1>6, <1>7, Zenon DEF ReadsAs
<1>11. End(p, <<n, m>>) = p + x[1].width + x[2].width /\ At(End(p, <<n, m>>), s)
  BY <1>4, <1>5, <1>6, Zenon DEF ReadsAs
<1> QED BY <1>8, <1>9, <1>10, <1>11, Zenon DEF TwoRead

Single == {"Class", "String", "MethodType", "Module", "Package"}

LEMMA ConstantWidthsIs ==
  ASSUME NEW kind
  PROVE  /\ kind \in {"Integer", "Float"} => ConstantWidths(kind) = <<4>>
         /\ kind \in Wide => ConstantWidths(kind) = <<8>>
         /\ kind \in Single => ConstantWidths(kind) = <<2>>
         /\ kind = "MethodHandle" => ConstantWidths(kind) = <<1, 2>>
         /\ kind \in OfRefs \ Single => ConstantWidths(kind) = <<2, 2>>
<1> DEFINE a == <<4>>  b == <<8>>  c == <<2>>  d == <<1, 2>>  e == <<2, 2>>
<1>1. ConstantWidths(kind) = CASE kind \in {"Integer", "Float"} -> a
                               [] kind \in Wide -> b
                               [] kind \in Single -> c
                               [] kind = "MethodHandle" -> d
                               [] OTHER -> e
  BY Zenon DEF ConstantWidths, Single
<1> HIDE DEF a, b, c, d, e
<1>2. kind \in {"Integer", "Float"} => ConstantWidths(kind) = a BY <1>1 DEF Wide, Single
<1>3. kind \in Wide => ConstantWidths(kind) = b BY <1>1 DEF Wide, Single
<1>4. kind \in Single => ConstantWidths(kind) = c BY <1>1 DEF Wide, Single
<1>5. kind = "MethodHandle" => ConstantWidths(kind) = d BY <1>1 DEF Wide, Single
<1>6. kind \in OfRefs \ Single => ConstantWidths(kind) = e BY <1>1 DEF Wide, Single, OfRefs, Numbers
<1> QED BY <1>2, <1>3, <1>4, <1>5, <1>6, Zenon DEF a, b, c, d, e

LEMMA OperandWidths ==
  ASSUME NEW c \in Constants, Len(c.refs) = RefCount(c.kind), c.kind # "Utf8"
  PROVE  /\ Widths(Operands(c)) = ConstantWidths(c.kind)
         /\ c.kind \in Numbers => Len(Operands(c)) = 1 /\ Operands(c)[1].value = c.bits
         /\ c.kind \in OfRefs => Len(Operands(c)) = Len(c.refs)
                                 /\ \A i \in 1 .. Len(c.refs) : Operands(c)[i].value = c.refs[i]
<1> HIDE DEF Values, Cells
<1>0. c.bits \in Values /\ c.refs \in Seq(Nat) BY ConstantFacts, Zenon
<1>1. CASE c.kind \in {"Integer", "Float"}
  <2>1. Operands(c) = U4(c.bits) BY <1>1, OperandCases, Zenon
  <2>2. U4(c.bits) = <<Field(4, c.bits)>> /\ Widths(U4(c.bits)) = <<4>> BY <1>0, TypeU, Zenon
  <2>3. 4 \in Nat \ {0} OBVIOUS
  <2>4. Len(<<Field(4, c.bits)>>) = 1 /\ <<Field(4, c.bits)>>[1].value = c.bits
    BY <1>0, <2>3, OneCell, Zenon
  <2>5. c.kind \notin OfRefs BY <1>1 DEF OfRefs, Numbers
  <2>6. ConstantWidths(c.kind) = <<4>> BY <1>1, ConstantWidthsIs, Zenon
  <2> QED BY <2>1, <2>2, <2>4, <2>5, <2>6, Zenon
<1>2. CASE c.kind \in Wide
  <2>1. Operands(c) = <<Field(8, c.bits)>> BY <1>2, OperandCases, Zenon
  <2>3. 8 \in Nat \ {0} OBVIOUS
  <2>4. Len(<<Field(8, c.bits)>>) = 1 /\ <<Field(8, c.bits)>>[1].value = c.bits
        /\ Widths(<<Field(8, c.bits)>>) = <<8>>
    BY <1>0, <2>3, OneCell, Zenon
  <2>5. c.kind \notin OfRefs BY <1>2 DEF OfRefs, Numbers
  <2>6. ConstantWidths(c.kind) = <<8>> BY <1>2, ConstantWidthsIs, Zenon
  <2> QED BY <2>1, <2>4, <2>5, <2>6, Zenon
<1>3. CASE c.kind = "MethodHandle"
  <2>1. Operands(c) = U1(0) \o U2(c.refs[1]) BY <1>3, OperandCases, Zenon
  <2>2. 0 \in Values BY NatValue
  <2>3. c.refs[1] \in Values BY <1>3, RefCountIs, NatValue, Zenon
  <2>4. U1(0) \in Seq(Cells) /\ Widths(U1(0)) = <<1>> BY <2>2, TypeU, Zenon
  <2>5. U2(c.refs[1]) \in Seq(Cells) /\ Widths(U2(c.refs[1])) = <<2>> BY <2>3, TypeU, Zenon
  <2>6. Widths(U1(0) \o U2(c.refs[1])) = Widths(U1(0)) \o Widths(U2(c.refs[1]))
    BY <2>4, <2>5, WidthsOfConcat, Zenon
  <2>7. <<1>> \o <<2>> = <<1, 2>> BY Pair, Zenon
  <2>8. c.kind \notin OfRefs /\ c.kind \notin Numbers BY <1>3 DEF OfRefs, Numbers, Wide
  <2>9. ConstantWidths(c.kind) = <<1, 2>> BY <1>3, ConstantWidthsIs, Zenon
  <2> QED BY <2>1, <2>4, <2>5, <2>6, <2>7, <2>8, <2>9, Zenon
<1>4. CASE c.kind \in OfRefs
  <2>1. Operands(c) = RefCells(c.refs) BY <1>4, OperandCases, Zenon DEF RefCells
  <2>2. /\ Len(RefCells(c.refs)) = Len(c.refs)
        /\ \A i \in 1 .. Len(c.refs) : RefCells(c.refs)[i].value = c.refs[i]
        /\ Widths(RefCells(c.refs)) = Twos(Len(c.refs))
    BY <1>0, RefCellsType, Zenon
  <2>3. c.kind \notin Numbers BY <1>4 DEF OfRefs
  <2>4. Twos(Len(c.refs)) = ConstantWidths(c.kind)
    <3>1. Twos(1) = <<2>> /\ Twos(2) = <<2, 2>> BY DEF Twos, Same
    <3>2. CASE c.kind \in Single
      <4>1. Len(c.refs) = 1 BY <3>2, RefCountIs, Zenon DEF Single
      <4>2. ConstantWidths(c.kind) = <<2>> BY <3>2, ConstantWidthsIs, Zenon
      <4> QED BY <3>1, <4>1, <4>2, Zenon
    <3>3. CASE c.kind \notin Single
      <4>1. c.kind \in OfRefs \ Single BY <1>4, <3>3, Zenon
      <4>2. Len(c.refs) = 2 BY <4>1, RefCountIs, Zenon DEF Single
      <4>3. ConstantWidths(c.kind) = <<2, 2>> BY <4>1, ConstantWidthsIs, Zenon
      <4> QED BY <3>1, <4>2, <4>3, Zenon
    <3> QED BY <3>2, <3>3, Zenon
  <2> QED BY <2>1, <2>2, <2>3, <2>4, Zenon
<1> QED BY <1>1, <1>2, <1>3, <1>4, ConstantFacts, Zenon

(* What the parser makes of constant c *)
InfoOf(info, c) ==
  /\ info.kind = c.kind
  /\ c.kind = "Utf8" => info.text = c.text
  /\ c.kind \in OfRefs => info.refs = c.refs
  /\ c.kind \in Numbers => info.bits \in ParsedNumber(c.kind, c.bits)

LEMMA Utf8Reads ==
  ASSUME Ready, NEW p, NEW c \in Constants, c.kind = "Utf8",
         NEW s \in Seq(Cells), At(p, Operands(c) \o s)
  PROVE  LET read == ReadConstant(c.kind, p) IN
         read.fits /\ At(read.end, s) /\ \A info \in read.infos : InfoOf(info, c)
<1> HIDE DEF Values, Cells
<1> DEFINE n == ValueAt(p)  text == IF n = 0 THEN "" ELSE ValueAt(p + 2)
           info == [kind |-> "Utf8", text |-> text, bits |-> {}, refs |-> << >>]
           fits == Fits(p, <<2>>) /\ (n = 0 \/ Fits(p + 2, <<n>>))
           read == ReadConstant("Utf8", p)
<1>1. read = [fits |-> fits, end |-> p + 2 + n, infos |-> {info}] BY Zenon DEF ReadConstant
<1>2. text = c.text => InfoOf(info, c)
  <2>1. info.kind = "Utf8" /\ info.text = text OBVIOUS
  <2>2. "Utf8" \notin OfRefs /\ "Utf8" \notin Numbers BY DEF OfRefs, Numbers, Wide
  <2> HIDE DEF info
  <2> QED BY <2>1, <2>2, Zenon DEF InfoOf
<1> HIDE DEF info, fits
<1>3. read.fits = fits /\ read.end = p + 2 + n /\ read.infos = {info} BY <1>1
<1>4. CASE c.text = ""
  <2>1. Operands(c) = <<Field(2, 0)>> BY <1>4, OperandCases, Zenon DEF U2
  <2>2. 0 \in Values /\ 2 \in Nat \ {0} BY NatValue
  <2>3. p \in Nat /\ Fits(p, <<2>>) /\ ValueAt(p) = 0 /\ At(p + 2, s)
    <3>1. OneAt(p, 2, 0, s) BY <2>1, <2>2, Zenon DEF OneAt
    <3>2. OneRead(p, 2, 0, s) BY <3>1, ReadOne, Zenon
    <3> QED BY <3>2, Zenon DEF OneRead
  <2>4. p + 2 + n = p + 2 BY <2>3
  <2>5. text = c.text BY <1>4, <2>3, Zenon
  <2>6. fits BY <2>3, Zenon DEF fits
  <2>7. At(read.end, s) BY <1>3, <2>3, <2>4, Zenon
  <2>8. \A i \in read.infos : InfoOf(i, c) BY <1>2, <1>3, <2>5, Zenon
  <2> QED BY <1>3, <2>6, <2>7, <2>8, Zenon
<1>5. CASE c.text # ""
  <2> DEFINE y == <<Field(2, 3)>>  z == <<Field(3, c.text)>>
  <2>0. 3 \in Values /\ 2 \in Nat \ {0} /\ 3 \in Nat \ {0} BY NatValue
  <2>1. c.text \in Values BY ConstantFacts, Zenon
  <2>2. Operands(c) = y \o z BY <1>5, OperandCases, Zenon DEF U2
  <2>3. y \in Seq(Cells) /\ z \in Seq(Cells) BY <2>0, <2>1, OneCell, Zenon
  <2>4. Operands(c) \o s = y \o (z \o s) /\ z \o s \in Seq(Cells)
    <3> HIDE DEF y, z
    <3>1. Lists(y, z, s) BY <2>3, Zenon DEF Lists
    <3>2. Joined(y, z, s) BY <3>1, Assoc, Zenon
    <3>3. z \o s \in Seq(Cells) BY <2>3, Closed, Zenon
    <3> QED BY <2>2, <3>2, <3>3, Zenon DEF Joined
  <2>5. At(p, y \o (z \o s)) BY <2>4, Zenon
  <2>6. p \in Nat /\ Fits(p, <<2>>) /\ ValueAt(p) = 3 /\ At(p + 2, z \o s)
    <3>1. OneAt(p, 2, 3, z \o s) BY <2>0, <2>4, <2>5, Zenon DEF OneAt
    <3>2. OneRead(p, 2, 3, z \o s) BY <3>1, ReadOne, Zenon
    <3> QED BY <3>2, Zenon DEF OneRead
  <2>7. Fits(p + 2, <<3>>) /\ ValueAt(p + 2) = c.text /\ At(p + 2 + 3, s)
    <3>1. OneAt(p + 2, 3, c.text, s) BY <2>0, <2>1, <2>6, Zenon DEF OneAt
    <3>2. OneRead(p + 2, 3, c.text, s) BY <3>1, ReadOne, Zenon
    <3> QED BY <3>2, Zenon DEF OneRead
  <2>8. 3 # 0 OBVIOUS
  <2>9. text = c.text BY <2>6, <2>7, <2>8, Zenon
  <2>10. fits BY <2>6, <2>7, Zenon DEF fits
  <2>11. At(read.end, s) BY <1>3, <2>6, <2>7, Zenon
  <2>12. \A i \in read.infos : InfoOf(i, c) BY <1>2, <1>3, <2>9, Zenon
  <2> QED BY <1>3, <2>10, <2>11, <2>12, Zenon
<1> QED BY <1>4, <1>5, Zenon

LEMMA OtherReads ==
  ASSUME Ready, NEW p, NEW c \in Constants, c.kind # "Utf8", Len(c.refs) = RefCount(c.kind),
         NEW s \in Seq(Cells), At(p, Operands(c) \o s)
  PROVE  LET read == ReadConstant(c.kind, p) IN
         read.fits /\ At(read.end, s) /\ \A info \in read.infos : InfoOf(info, c)
<1> HIDE DEF Values, Cells
<1> DEFINE x == Operands(c)  widths == ConstantWidths(c.kind)
           refs == [i \in DOMAIN widths |-> ValueAt(Starts(p, widths)[i])]
           held == IF c.kind \in Numbers THEN << >> ELSE refs
           made(bits) == [kind |-> c.kind, text |-> "", bits |-> bits, refs |-> held]
           infos2 == IF c.kind \in Numbers
                     THEN {made(bits) : bits \in ParsedNumber(c.kind, refs[1])}
                     ELSE {made({})}
           read == ReadConstant(c.kind, p)
<1>1. read = [fits |-> Fits(p, widths), end |-> End(p, widths), infos |-> infos2]
  BY Zenon DEF ReadConstant
<1>2. \A b : made(b).kind = c.kind /\ made(b).bits = b /\ made(b).refs = held OBVIOUS
<1>3. x \in Seq(Cells) BY OperandsType, Zenon
<1>4. Widths(x) = widths BY OperandWidths, Zenon
<1>5. Fits(p, widths) /\ At(End(p, widths), s)
      /\ \A i \in 1 .. Len(x) : ValueAt(Starts(p, widths)[i]) = x[i].value
  <2>1. Fits(p, Widths(x)) /\ At(End(p, Widths(x)), s)
        /\ \A i \in 1 .. Len(x) : ValueAt(Starts(p, Widths(x))[i]) = x[i].value
    BY <1>3, Reads, Zenon
  <2> HIDE DEF x, widths
  <2> QED BY <1>4, <2>1, Zenon
<1>6. DOMAIN widths = 1 .. Len(x)
  <2>1. DOMAIN x = 1 .. Len(x) BY <1>3
  <2>2. DOMAIN Widths(x) = DOMAIN x BY Zenon DEF Widths
  <2> QED BY <1>4, <2>1, <2>2, Zenon
<1>7. refs = [i \in 1 .. Len(x) |-> x[i].value] BY <1>5, <1>6, Zenon
<1>8. c.kind \in Numbers => refs[1] = c.bits
  <2>1. c.kind \in Numbers => Len(x) = 1 /\ x[1].value = c.bits BY OperandWidths, Zenon
  <2>2. 1 \in 1 .. 1 OBVIOUS
  <2> HIDE DEF refs, x
  <2> QED BY <1>7, <2>1, <2>2, Zenon
<1>9. c.kind \in OfRefs => refs = c.refs
  <2>1. c.kind \in OfRefs => Len(x) = Len(c.refs) /\ \A i \in 1 .. Len(c.refs) : x[i].value = c.refs[i]
    BY OperandWidths, Zenon
  <2>2. c.refs \in Seq(Nat) BY ConstantFacts, Zenon
  <2>3. c.refs = [i \in 1 .. Len(c.refs) |-> c.refs[i]] BY <2>2
  <2> HIDE DEF refs, x
  <2> QED BY <1>7, <2>1, <2>3, Zenon
<1> HIDE DEF refs, x
<1>10. c.kind \in OfRefs => c.kind \notin Numbers BY DEF OfRefs
<1>11. \A i \in infos2 : InfoOf(i, c)
  <2>1. CASE c.kind \in Numbers
    <3>1. infos2 = {made(b) : b \in ParsedNumber(c.kind, c.bits)} BY <1>8, <2>1, Zenon
    <3> HIDE DEF made
    <3>2. \A b \in ParsedNumber(c.kind, c.bits) : InfoOf(made(b), c)
      BY <1>2, <1>10, <2>1, Zenon DEF InfoOf
    <3> QED BY <3>1, <3>2, Zenon
  <2>2. CASE c.kind \notin Numbers
    <3>1. infos2 = {made({})} BY <2>2, Zenon
    <3>2. held = refs BY <2>2, Zenon
    <3> HIDE DEF made, held
    <3>3. InfoOf(made({}), c) BY <1>2, <1>9, <2>2, <3>2, Zenon DEF InfoOf
    <3> QED BY <3>1, <3>3, Zenon
  <2> QED BY <2>1, <2>2, Zenon
<1> HIDE DEF infos2, widths
<1>12. read.fits = Fits(p, widths) /\ read.end = End(p, widths) /\ read.infos = infos2 BY <1>1
<1> QED BY <1>5, <1>11, <1>12, Zenon

LEMMA ConstantReads ==
  ASSUME Ready, NEW p, NEW c \in Constants, Len(c.refs) = RefCount(c.kind),
         NEW s \in Seq(Cells), At(p, Operands(c) \o s)
  PROVE  LET read == ReadConstant(c.kind, p) IN
         read.fits /\ At(read.end, s) /\ \A info \in read.infos : InfoOf(info, c)
<1> HIDE DEF Values, Cells
<1>1. CASE c.kind = "Utf8" BY <1>1, Utf8Reads, Zenon
<1>2. CASE c.kind # "Utf8" BY <1>2, OtherReads, Zenon
<1> QED BY <1>1, <1>2, Zenon

(* A count of n and a table of m zeros stand at p, before s. *)
TableAt(p, n, m, s) ==
  n \in Nat /\ m \in Nat /\ s \in Seq(Cells) /\ At(p, (U2(n) \o Zeros(m)) \o s)
TableRead(p, n, m, s) ==
  /\ p \in Nat /\ ValueAt(p) = n
  /\ Fits(p, <<2>> \o Twos(m)) /\ At(End(p, <<2>> \o Twos(m)), s)

LEMMA ReadTable ==
  ASSUME Ready, NEW p, NEW n, NEW m, NEW s, TableAt(p, n, m, s)
  PROVE  TableRead(p, n, m, s)
<1> HIDE DEF Cells, Values
<1> DEFINE x == U2(n) \o Zeros(m)
<1>0. n \in Nat /\ m \in Nat /\ s \in Seq(Cells) /\ At(p, x \o s) BY Zenon DEF TableAt
<1>1. /\ x \in Seq(Cells) /\ Widths(x) = <<2>> \o Twos(m)
      /\ Len(x) = 1 + m /\ x[1] = Field(2, n) /\ Field(2, n).value = n
  BY <1>0, TableType, Zenon
<1> HIDE DEF x
<1>2. ReadsAs(p, x, s) BY <1>0, <1>1, ReadsShort, Zenon
<1>3. Len(x) > 0 BY <1>0, <1>1
<1>4. p \in Nat /\ ValueAt(p) = x[1].value /\ Fits(p, Widths(x)) /\ At(End(p, Widths(x)), s)
  BY <1>2, <1>3, Zenon DEF ReadsAs
<1> DEFINE w == <<2>> \o Twos(m)
<1> HIDE DEF w
<1>5. Fits(p, w) /\ At(End(p, w), s) BY <1>1, <1>4, Zenon DEF w
<1>6. ValueAt(p) = n BY <1>1, <1>4, Zenon
<1> QED BY <1>4, <1>5, <1>6, Zenon DEF TableRead, w

FixedRead(p, widths) == [fits |-> Fits(p, widths), end |-> End(p, widths), nested |-> 0]
OtherRead(p, len) == [fits |-> len = 0 \/ Fits(p, <<len>>), end |-> p + len, nested |-> 0]
CodeRead(p) ==
  LET handlers == p + 8 + ValueAt(p + 4)
      table == TableWidths(handlers, <<2, 2, 2, 2>>)
      attributes == End(handlers, table)
  IN [fits |-> /\ Fits(p, <<2, 2, 4, ValueAt(p + 4)>>)
               /\ Fits(handlers, table) /\ Fits(attributes, <<2>>),
      end |-> attributes + 2, nested |-> ValueAt(attributes)]

LEMMA AttributeCases ==
  ASSUME NEW name, NEW len, NEW p
  PROVE  LET read == ReadAttribute(name, len, p) IN
         /\ name = "Code" => read = CodeRead(p)
         /\ name \in Fixed => read = FixedRead(p, <<2>>)
         /\ name \in {"Synthetic", "DepreCated"} => read = FixedRead(p, << >>)
         /\ name = "Exceptions" => read = FixedRead(p, TableWidths(p, <<2>>))
         /\ name = "LineNumberTable" => read = FixedRead(p, TableWidths(p, <<2, 2>>))
         /\ name = "LocalVariableTable" => read = FixedRead(p, TableWidths(p, <<2, 2, 2, 2, 2>>))
         /\ name \notin Fixed \cup Tables \cup {"Code", "Synthetic", "DepreCated"} => read = OtherRead(p, len)
<1> DEFINE read == ReadAttribute(name, len, p)
           a == CodeRead(p)  b == FixedRead(p, <<2>>)  c == FixedRead(p, << >>)
           d == FixedRead(p, TableWidths(p, <<2>>))  e == FixedRead(p, TableWidths(p, <<2, 2>>))
           f == FixedRead(p, TableWidths(p, <<2, 2, 2, 2, 2>>))  g == OtherRead(p, len)
<1>1. read = CASE name = "Code" -> a
               [] name \in {"ConstantValue", "SourceFile"} -> b
               [] name \in {"Synthetic", "DepreCated"} -> c
               [] name = "Exceptions" -> d
               [] name = "LineNumberTable" -> e
               [] name = "LocalVariableTable" -> f
               [] OTHER -> g
  BY Zenon DEF ReadAttribute, CodeRead, FixedRead, OtherRead
<1> HIDE DEF read, a, b, c, d, e, f, g
<1>2. name = "Code" => read = a BY <1>1
<1>3. name \in Fixed => read = b BY <1>1 DEF Fixed
<1>4. name \in {"Synthetic", "DepreCated"} => read = c BY <1>1
<1>5. name = "Exceptions" => read = d BY <1>1
<1>6. name = "LineNumberTable" => read = e BY <1>1
<1>7. name = "LocalVariableTable" => read = f BY <1>1
<1>8. name \notin Fixed \cup Tables \cup {"Code", "Synthetic", "DepreCated"} => read = g
  BY <1>1 DEF Fixed, Tables
<1> QED BY <1>2, <1>3, <1>4, <1>5, <1>6, <1>7, <1>8, Zenon DEF read, a, b, c, d, e, f, g

(* Three attributes are tables, with entries of these widths. *)
LEMMA TableRight ==
  ASSUME Ready, NEW p, NEW n, NEW s, NEW k \in EntrySizes, NEW entry, entry = Same(k, 2),
         TableAt(p, n, n * k, s)
  PROVE  LET w == TableWidths(p, entry) IN Fits(p, w) /\ At(End(p, w), s)
<1> HIDE DEF Cells, Values
<1>1. n \in Nat BY Zenon DEF TableAt
<1>2. TableRead(p, n, n * k, s) BY ReadTable, Zenon
<1>3. ValueAt(p) = n /\ Fits(p, <<2>> \o Twos(n * k)) /\ At(End(p, <<2>> \o Twos(n * k)), s)
  BY <1>2, Zenon DEF TableRead
<1>4. Repeat(n, Same(k, 2)) = Same(n * k, 2) BY <1>1, RepeatSame, Zenon
<1>5. TableWidths(p, entry) = <<2>> \o Repeat(n, Same(k, 2)) BY <1>3, Zenon DEF TableWidths
<1>6. TableWidths(p, entry) = <<2>> \o Twos(n * k) BY <1>4, <1>5, Zenon DEF Twos
<1> QED BY <1>3, <1>6, Zenon

LEMMA EntryWidths ==
  /\ <<2>> = Same(1, 2) /\ <<2, 2>> = Same(2, 2)
  /\ <<2, 2, 2, 2>> = Same(4, 2) /\ <<2, 2, 2, 2, 2>> = Same(5, 2)
  /\ 1 \in EntrySizes /\ 2 \in EntrySizes /\ 4 \in EntrySizes /\ 5 \in EntrySizes
BY DEF Same, EntrySizes

(* The read is right, has n attributes nested, and leaves s. *)
Right(read, n, s) == read.fits = TRUE /\ read.nested = n /\ At(read.end, s)

LEMMA FixedRight ==
  ASSUME NEW p, NEW w, NEW s, Fits(p, w), At(End(p, w), s)
  PROVE  Right(FixedRead(p, w), 0, s)
<1> DEFINE a == Fits(p, w)  b == End(p, w)  r == [fits |-> a, end |-> b, nested |-> 0]
<1>0. a = TRUE
  <2>1. a \in BOOLEAN BY Zenon DEF Fits
  <2> QED BY <2>1, Zenon
<1> HIDE DEF a, b
<1>1. r.fits = a /\ r.end = b /\ r.nested = 0 OBVIOUS
<1>2. FixedRead(p, w) = r BY Zenon DEF FixedRead, a, b
<1> HIDE DEF r
<1> QED BY <1>0, <1>1, <1>2, Zenon DEF Right, b

LEMMA OtherRight ==
  ASSUME Ready, NEW p, NEW n \in Nat, NEW s \in Seq(Cells), At(p, Raw(n) \o s)
  PROVE  Right(OtherRead(p, n), 0, s) /\ End(0, Widths(Raw(n))) = n /\ p \in Nat
<1> HIDE DEF Cells, Values
<1> DEFINE a == n = 0 \/ Fits(p, <<n>>)  b == p + n  r == [fits |-> a, end |-> b, nested |-> 0]
<1>1. a /\ At(b, s) /\ End(0, Widths(Raw(n))) = n /\ p \in Nat
  <2>1. CASE n = 0
    <3>1. Raw(n) = << >> BY <2>1, RawType, Zenon
    <3>2. << >> \o s = s BY Concat, Zenon
    <3>3. At(p, s) BY <3>1, <3>2, Zenon
    <3>4. << >> \in Seq(Cells) /\ At(p, << >> \o s) BY <3>1, <3>2, Concat, Zenon
    <3>5. p \in Nat BY <3>4, Reads, Zenon
    <3>6. b = p BY <2>1, <3>5
    <3>7. /\ End(0, Widths(<< >>)) = Starts(0, Widths(<< >>))[Len(<< >>) + 1]
          /\ Starts(0, Widths(<< >>))[1] = 0
      <4>1. 0 \in Nat OBVIOUS
      <4> QED BY <3>4, <4>1, CellStarts, Zenon
    <3>8. Len(<< >>) + 1 = 1 OBVIOUS
    <3> QED BY <2>1, <3>1, <3>3, <3>5, <3>6, <3>7, <3>8, Zenon
  <2>2. CASE n # 0
    <3>0. 0 \in Values /\ n \in Nat \ {0} /\ 0 \in Nat BY <2>2, NatValue
    <3> DEFINE x == <<Field(n, 0)>>
    <3>1. Raw(n) = x BY <2>2, RawType, Zenon
    <3>2. OneAt(p, n, 0, s) BY <3>0, <3>1, Zenon DEF OneAt
    <3>3. OneRead(p, n, 0, s) BY <3>2, ReadOne, Zenon
    <3>4. /\ x \in Seq(Cells) /\ Len(x) = 1 /\ x[1] = Field(n, 0) /\ Field(n, 0).width = n
      BY <3>0, OneCell, Zenon
    <3> HIDE DEF x
    <3>5. /\ End(0, Widths(x)) = Starts(0, Widths(x))[Len(x) + 1]
          /\ Starts(0, Widths(x))[1] = 0
          /\ \A i \in 1 .. Len(x) : Starts(0, Widths(x))[i + 1] = Starts(0, Widths(x))[i] + x[i].width
      BY <3>0, <3>4, CellStarts, Zenon
    <3>6. 1 \in 1 .. 1 /\ 1 + 1 = 2 /\ 0 + n = n OBVIOUS
    <3>7. End(0, Widths(x)) = n BY <3>4, <3>5, <3>6, Zenon
    <3> QED BY <3>1, <3>3, <3>7, Zenon DEF OneRead
  <2> QED BY <2>1, <2>2, Zenon
<1>2. a = TRUE
  <2>1. a \in BOOLEAN BY Zenon DEF Fits
  <2> QED BY <1>1, <2>1, Zenon
<1> HIDE DEF a, b
<1>3. r.fits = a /\ r.end = b /\ r.nested = 0 OBVIOUS
<1>4. OtherRead(p, n) = r BY Zenon DEF OtherRead, a, b
<1> HIDE DEF r
<1> QED BY <1>1, <1>2, <1>3, <1>4, Zenon DEF Right

(* Attributes without attributes of their own *)
LEMMA PlainReads ==
  ASSUME Ready, NEW p, NEW a, a.n \in Nat, a.name # "Code", NEW s \in Seq(Cells),
         At(p, WrittenBody(a) \o s)
  PROVE  Right(ReadAttribute(a.name, End(0, Widths(WrittenBody(a))), p), 0, s)
<1> HIDE DEF Cells, Values
<1> DEFINE len == End(0, Widths(WrittenBody(a)))  read == ReadAttribute(a.name, len, p)
<1> HIDE DEF len
<1>1. CASE a.name = "Exceptions"
  <2>1. WrittenBody(a) = U2(a.n) \o Zeros(a.n * 1) /\ a.n * 1 \in Nat
    BY <1>1, BodyCases, RepeatZeros, Zenon
  <2>2. TableAt(p, a.n, a.n * 1, s) BY <2>1, Zenon DEF TableAt
  <2>3. LET w == TableWidths(p, <<2>>) IN Fits(p, w) /\ At(End(p, w), s)
    BY <2>2, EntryWidths, TableRight, Zenon
  <2>4. Right(FixedRead(p, TableWidths(p, <<2>>)), 0, s) BY <2>3, FixedRight, Zenon
  <2>5. read = FixedRead(p, TableWidths(p, <<2>>)) BY <1>1, AttributeCases, ZenonT(40)
  <2> QED BY <2>4, <2>5, Zenon DEF len
<1>2. CASE a.name = "LineNumberTable"
  <2>1. WrittenBody(a) = U2(a.n) \o Zeros(a.n * 2) /\ a.n * 2 \in Nat
    BY <1>2, BodyCases, RepeatZeros, Zenon
  <2>2. TableAt(p, a.n, a.n * 2, s) BY <2>1, Zenon DEF TableAt
  <2>3. LET w == TableWidths(p, <<2, 2>>) IN Fits(p, w) /\ At(End(p, w), s)
    BY <2>2, EntryWidths, TableRight, Zenon
  <2>4. Right(FixedRead(p, TableWidths(p, <<2, 2>>)), 0, s) BY <2>3, FixedRight, Zenon
  <2>5. read = FixedRead(p, TableWidths(p, <<2, 2>>)) BY <1>2, AttributeCases, ZenonT(40)
  <2> QED BY <2>4, <2>5, Zenon DEF len
<1>3. CASE a.name = "LocalVariableTable"
  <2>1. WrittenBody(a) = U2(a.n) \o Zeros(a.n * 5) /\ a.n * 5 \in Nat
    BY <1>3, BodyCases, RepeatZeros, Zenon
  <2>2. TableAt(p, a.n, a.n * 5, s) BY <2>1, Zenon DEF TableAt
  <2>3. LET w == TableWidths(p, <<2, 2, 2, 2, 2>>) IN Fits(p, w) /\ At(End(p, w), s)
    BY <2>2, EntryWidths, TableRight, Zenon
  <2>4. Right(FixedRead(p, TableWidths(p, <<2, 2, 2, 2, 2>>)), 0, s) BY <2>3, FixedRight, Zenon
  <2>5. read = FixedRead(p, TableWidths(p, <<2, 2, 2, 2, 2>>)) BY <1>3, AttributeCases, Zenon
  <2> QED BY <2>4, <2>5, Zenon DEF len
<1>4. CASE a.name \in Fixed
  <2>0. 0 \in Values /\ 2 \in Nat \ {0} BY NatValue
  <2>1. WrittenBody(a) = <<Field(2, 0)>> BY <1>4, BodyCases, Zenon DEF U2
  <2>2. OneAt(p, 2, 0, s) BY <2>0, <2>1, Zenon DEF OneAt
  <2>3. p \in Nat /\ Fits(p, <<2>>) /\ At(p + 2, s) BY <2>2, ReadOne, Zenon DEF OneRead
  <2>4. End(p, <<2>>) = p + 2
    <3> DEFINE x == <<Field(2, 0)>>
    <3>1. /\ x \in Seq(Cells) /\ Len(x) = 1 /\ x[1] = Field(2, 0) /\ Field(2, 0).width = 2
          /\ Widths(x) = <<2>>
      BY <2>0, OneCell, Zenon
    <3> HIDE DEF x
    <3>2. ReadsAs(p, x, s) BY <2>1, <3>1, ReadsShort, Zenon DEF x
    <3>3. End(p, Widths(x)) = p + x[1].width BY <3>1, <3>2, Zenon DEF ReadsAs
    <3> QED BY <3>1, <3>3, Zenon
  <2>5. At(End(p, <<2>>), s) BY <2>3, <2>4, Zenon
  <2>6. Right(FixedRead(p, <<2>>), 0, s) BY <2>3, <2>5, FixedRight, Zenon
  <2>7. read = FixedRead(p, <<2>>) BY <1>4, AttributeCases, Zenon
  <2> QED BY <2>6, <2>7, Zenon DEF len
<1>5. CASE a.name \in {"Synthetic", "DepreCated"}
  <2>1. WrittenBody(a) = << >> BY <1>5, BodyCases, Zenon DEF Empty
  <2>2. << >> \in Seq(Cells) BY Concat, Zenon
  <2>3. At(p, << >> \o s) BY <2>1, Zenon
  <2>4. ReadsAs(p, << >>, s) BY <2>2, <2>3, ReadsShort, Zenon
  <2>5. Widths(<< >>) = << >> BY DEF Widths
  <2>6. Fits(p, << >>) /\ At(End(p, << >>), s) BY <2>4, <2>5, Zenon DEF ReadsAs
  <2>7. Right(FixedRead(p, << >>), 0, s) BY <2>6, FixedRight, Zenon
  <2>8. read = FixedRead(p, << >>) BY <1>5, AttributeCases, Zenon
  <2> QED BY <2>7, <2>8, Zenon DEF len
<1>6. CASE a.name \notin Fixed \cup Tables \cup {"Code", "Synthetic", "DepreCated"}
  <2>1. \E n \in Nat : WrittenBody(a) = Raw(n)
    <3>1. CASE a.name = "Deprecated"
      <4>1. WrittenBody(a) = << >> BY <3>1, BodyCases, Zenon DEF Empty
      <4>2. 0 \in Nat OBVIOUS
      <4>3. Raw(0) = << >> BY Zenon DEF Raw
      <4> QED BY <4>1, <4>2, <4>3, Zenon
    <3>2. CASE a.name # "Deprecated"
      <4>1. a.name \notin Fixed \cup Empty \cup Tables BY <1>6, <3>2 DEF Empty
      <4>2. WrittenBody(a) = Raw(a.n) BY <4>1, BodyCases, Zenon
      <4> QED BY <4>2, Zenon
    <3> QED BY <3>1, <3>2, Zenon
  <2>2. PICK n \in Nat : WrittenBody(a) = Raw(n) BY <2>1, Zenon
  <2>3. At(p, Raw(n) \o s) BY <2>2, Zenon
  <2>4. Right(OtherRead(p, n), 0, s) /\ End(0, Widths(Raw(n))) = n BY <2>3, OtherRight, Zenon
  <2>5. len = n BY <2>2, <2>4, Zenon DEF len
  <2>6. read = OtherRead(p, len) BY <1>6, AttributeCases, Zenon
  <2> QED BY <2>4, <2>5, <2>6, Zenon DEF len
<1>7. \/ a.name = "Exceptions" \/ a.name = "LineNumberTable" \/ a.name = "LocalVariableTable"
      \/ a.name \in Fixed \/ a.name \in {"Synthetic", "DepreCated"}
      \/ a.name \notin Fixed \cup Tables \cup {"Code", "Synthetic", "DepreCated"}
  BY DEF Tables
<1> QED BY <1>1, <1>2, <1>3, <1>4, <1>5, <1>6, <1>7, Zenon

(* x with e behind it *)
Extended(S, x, e, y) ==
  /\ y \in Seq(S) /\ Len(y) = Len(x) + 1
  /\ \A i \in 1 .. Len(x) : y[i] = x[i]
  /\ y[Len(x) + 1] = e

LEMMA Longer ==
  ASSUME NEW S, NEW x \in Seq(S), NEW e \in S
  PROVE  Extended(S, x, e, x \o <<e>>)
BY DEF Extended

ThreeCells(S, y, a, b, c) ==
  y \in Seq(S) /\ Len(y) = 3 /\ y[1] = a /\ y[2] = b /\ y[3] = c
FourCells(S, x, a, b, c, d) ==
  x \in Seq(S) /\ Len(x) = 4 /\ x[1] = a /\ x[2] = b /\ x[3] = c /\ x[4] = d

LEMMA Threes ==
  ASSUME NEW S, NEW a \in S, NEW b \in S, NEW c \in S
  PROVE  ThreeCells(S, (<<a>> \o <<b>>) \o <<c>>, a, b, c)
<1> DEFINE v == <<a>>  w == v \o <<b>>  y == w \o <<c>>
<1>1. v \in Seq(S) /\ Len(v) = 1 /\ v[1] = a OBVIOUS
<1> HIDE DEF v
<1>2. Extended(S, v, b, w) BY <1>1, Longer, Zenon
<1> HIDE DEF w
<1>3. w \in Seq(S) /\ Len(w) = 2 /\ w[1] = a /\ w[2] = b BY <1>1, <1>2 DEF Extended
<1>4. Extended(S, w, c, y) BY <1>3, Longer, Zenon
<1> HIDE DEF y
<1>5. ThreeCells(S, y, a, b, c) BY <1>3, <1>4 DEF Extended, ThreeCells
<1> QED BY <1>5, Zenon DEF v, w, y

LEMMA Fours ==
  ASSUME NEW S, NEW a \in S, NEW b \in S, NEW c \in S, NEW d \in S
  PROVE  FourCells(S, ((<<a>> \o <<b>>) \o <<c>>) \o <<d>>, a, b, c, d)
<1> DEFINE y == (<<a>> \o <<b>>) \o <<c>>  x == y \o <<d>>
<1>1. ThreeCells(S, y, a, b, c) BY Threes, Zenon
<1> HIDE DEF y
<1>2. y \in Seq(S) BY <1>1, Zenon DEF ThreeCells
<1>3. Extended(S, y, d, x) BY <1>2, Longer, Zenon
<1> HIDE DEF x
<1>4. FourCells(S, x, a, b, c, d) BY <1>1, <1>3 DEF Extended, ThreeCells, FourCells
<1> QED BY <1>4, Zenon DEF x, y

(* Three fields, and four *)
ThreeAt(p, a, b, c, s) ==
  /\ a \in Cells /\ b \in Cells /\ c \in Cells /\ s \in Seq(Cells)
  /\ At(p, ((<<a>> \o <<b>>) \o <<c>>) \o s)
ThreeRead(p, a, b, c, s) ==
  /\ p \in Nat /\ Fits(p, <<a.width, b.width, c.width>>)
  /\ At(p + a.width + b.width + c.width, s)
FourAt(p, a, b, c, d, s) ==
  /\ a \in Cells /\ b \in Cells /\ c \in Cells /\ d \in Cells /\ s \in Seq(Cells)
  /\ At(p, (((<<a>> \o <<b>>) \o <<c>>) \o <<d>>) \o s)
FourRead(p, a, b, c, d, s) ==
  /\ p \in Nat /\ Fits(p, <<a.width, b.width, c.width, d.width>>)
  /\ ValueAt(p + a.width + b.width) = c.value
  /\ ValueAt(p + a.width + b.width + c.width) = d.value
  /\ At(p + a.width + b.width + c.width + d.width, s)

LEMMA ReadThree ==
  ASSUME Ready, NEW p, NEW a, NEW b, NEW c, NEW s, ThreeAt(p, a, b, c, s)
  PROVE  ThreeRead(p, a, b, c, s)
<1> HIDE DEF Cells, Values
<1> DEFINE x == (<<a>> \o <<b>>) \o <<c>>
<1>0. a \in Cells /\ b \in Cells /\ c \in Cells /\ s \in Seq(Cells) /\ At(p, x \o s)
  BY Zenon DEF ThreeAt
<1>1. x \in Seq(Cells) /\ Len(x) = 3 /\ x[1] = a /\ x[2] = b /\ x[3] = c
  <2>1. ThreeCells(Cells, x, a, b, c) BY <1>0, Threes, Zenon
  <2> QED BY <2>1, Zenon DEF ThreeCells
<1> HIDE DEF x
<1>2. x \in Seq(Cells) /\ DOMAIN x = 1 .. 3 BY <1>1
<1>3. Widths(x) = <<a.width, b.width, c.width>>
  <2>1. Widths(x) = [i \in 1 .. 3 |-> x[i].width] BY <1>2, Zenon DEF Widths
  <2> QED BY <1>1, <2>1
<1>4. ReadsAs(p, x, s) BY <1>0, <1>2, ReadsShort, Zenon
<1>5. /\ p \in Nat /\ Fits(p, Widths(x)) /\ At(End(p, Widths(x)), s)
      /\ End(p, Widths(x)) = p + x[1].width + x[2].width + x[3].width
  BY <1>1, <1>4, Zenon DEF ReadsAs
<1>6. Fits(p, <<a.width, b.width, c.width>>) BY <1>3, <1>5, Zenon
<1>7. At(p + a.width + b.width + c.width, s) BY <1>1, <1>5, Zenon
<1> QED BY <1>5, <1>6, <1>7, Zenon DEF ThreeRead

LEMMA ReadFour ==
  ASSUME Ready, NEW p, NEW a, NEW b, NEW c, NEW d, NEW s, FourAt(p, a, b, c, d, s)
  PROVE  FourRead(p, a, b, c, d, s)
<1> HIDE DEF Cells, Values
<1> DEFINE x == ((<<a>> \o <<b>>) \o <<c>>) \o <<d>>
<1>0. a \in Cells /\ b \in Cells /\ c \in Cells /\ d \in Cells /\ s \in Seq(Cells) /\ At(p, x \o s)
  BY Zenon DEF FourAt
<1>1. x \in Seq(Cells) /\ Len(x) = 4 /\ x[1] = a /\ x[2] = b /\ x[3] = c /\ x[4] = d
  <2>1. FourCells(Cells, x, a, b, c, d) BY <1>0, Fours, Zenon
  <2> QED BY <2>1, Zenon DEF FourCells
<1> HIDE DEF x
<1>2. x \in Seq(Cells) /\ DOMAIN x = 1 .. 4 BY <1>1
<1>3. Widths(x) = <<a.width, b.width, c.width, d.width>>
  <2>1. Widths(x) = [i \in 1 .. 4 |-> x[i].width] BY <1>2, Zenon DEF Widths
  <2> QED BY <1>1, <2>1
<1>4. ReadsAs(p, x, s) BY <1>0, <1>2, ReadsShort, Zenon
<1>5. Len(x) > 2 /\ Len(x) > 3 BY <1>1
<1>6. /\ p \in Nat /\ Fits(p, Widths(x)) /\ At(End(p, Widths(x)), s)
      /\ End(p, Widths(x)) = p + x[1].width + x[2].width + x[3].width + x[4].width
  BY <1>1, <1>4, Zenon DEF ReadsAs
<1>7. ValueAt(p + x[1].width + x[2].width) = x[3].value BY <1>4, <1>5, Zenon DEF ReadsAs
<1>8. ValueAt(p + x[1].width + x[2].width + x[3].width) = x[4].value BY <1>4, <1>5, Zenon DEF ReadsAs
<1>9. Fits(p, <<a.width, b.width, c.width, d.width>>) BY <1>3, <1>6, Zenon
<1>10. At(p + a.width + b.width + c.width + d.width, s) BY <1>1, <1>6, Zenon
<1>11. ValueAt(p + a.width + b.width) = c.value BY <1>1, <1>7, Zenon
<1>12. ValueAt(p + a.width + b.width + c.width) = d.value BY <1>1, <1>8, Zenon
<1> QED BY <1>6, <1>9, <1>10, <1>11, <1>12, Zenon DEF FourRead

(* The fields before the exception table *)
LEMMA CodeHeadReads ==
  ASSUME Ready, NEW p, NEW a, a.n \in Nat, a.n # 0, NEW s \in Seq(Cells), At(p, CodeHead(a) \o s)
  PROVE  /\ p \in Nat /\ Fits(p, <<2, 2, 4, a.n>>) /\ ValueAt(p + 4) = a.n
         /\ At(p + 8 + a.n, s)
<1> HIDE DEF Cells, Values
<1> DEFINE n == a.n  z == Field(2, 0)  c == Field(4, n)  d == Field(n, 0)
<1>0. 0 \in Values /\ n \in Values /\ n \in Nat \ {0} /\ 2 \in Nat \ {0} /\ 4 \in Nat \ {0}
  BY NatValue
<1>1. z \in Cells /\ c \in Cells /\ d \in Cells BY <1>0, OneCell, Zenon
<1>2. z.width = 2 /\ c.width = 4 /\ c.value = n /\ d.width = n BY DEF Field
<1>3. CodeHead(a) = ((<<z>> \o <<z>>) \o <<c>>) \o <<d>>
  <2>1. Raw(n) = <<d>> BY RawType, Zenon
  <2> QED BY <2>1, Zenon DEF CodeHead, U2, U4
<1> HIDE DEF z, c, d
<1>4. FourAt(p, z, z, c, d, s) BY <1>1, <1>3, Zenon DEF FourAt
<1>5. FourRead(p, z, z, c, d, s) BY <1>4, ReadFour, Zenon
<1>6. /\ p \in Nat /\ Fits(p, <<z.width, z.width, c.width, d.width>>)
      /\ ValueAt(p + z.width + z.width) = c.value
      /\ At(p + z.width + z.width + c.width + d.width, s)
  BY <1>5, Zenon DEF FourRead
<1>7. /\ Fits(p, <<2, 2, 4, n>>) /\ ValueAt(p + 2 + 2) = n /\ At(p + 2 + 2 + 4 + n, s)
  BY <1>2, <1>6, Zenon
<1>8. p + 2 + 2 = p + 4 /\ p + 2 + 2 + 4 + n = p + 8 + n BY <1>0, <1>6
<1> QED BY <1>6, <1>7, <1>8, Zenon

LEMMA CodeReads ==
  ASSUME Ready, NEW p, NEW cs, NEW S, cs \in Seq(S), NEW a \in CodeAttributes(cs), NEW len,
         NEW s \in Seq(Cells), At(p, WrittenCode(cs, a) \o s)
  PROVE  Right(ReadAttribute(a.name, len, p), Len(a.nested),
               FlattenSeq(AttributeList(cs, a.nested)) \o s)
<1> HIDE DEF Cells, Values
<1> DEFINE x == CodeHead(a)  y == CodeTable(a)  n == Len(a.nested)  z == U2(n)
           rest == FlattenSeq(AttributeList(cs, a.nested))
<1>0. /\ a.name = "Code" /\ a.n \in Nat /\ a.n # 0 /\ a.handlers \in Nat
      /\ x \in Seq(Cells) /\ y \in Seq(Cells) /\ z \in Seq(Cells) /\ n \in Values /\ rest \in Seq(Cells)
      /\ WrittenCode(cs, a) = x \o (y \o (z \o rest))
  BY CodeFacts, CodeIs, Zenon
<1> HIDE DEF rest, x, y, z, n
<1>1. /\ rest \o s \in Seq(Cells) /\ z \o (rest \o s) \in Seq(Cells)
      /\ y \o (z \o (rest \o s)) \in Seq(Cells)
      /\ z \o rest \in Seq(Cells) /\ y \o (z \o rest) \in Seq(Cells)
  BY <1>0, Closed, Zenon
<1>2. (x \o (y \o (z \o rest))) \o s = x \o (y \o (z \o (rest \o s)))
  <2>1. Joined(x, y \o (z \o rest), s)
    <3>1. Lists(x, y \o (z \o rest), s) BY <1>0, <1>1, Zenon DEF Lists
    <3> QED BY <3>1, Assoc, Zenon
  <2>2. Joined(y, z \o rest, s)
    <3>1. Lists(y, z \o rest, s) BY <1>0, <1>1, Zenon DEF Lists
    <3> QED BY <3>1, Assoc, Zenon
  <2>3. Joined(z, rest, s)
    <3>1. Lists(z, rest, s) BY <1>0, <1>1, Zenon DEF Lists
    <3> QED BY <3>1, Assoc, Zenon
  <2> QED BY <2>1, <2>2, <2>3, Zenon DEF Joined
<1>3. At(p, x \o (y \o (z \o (rest \o s)))) BY <1>0, <1>2, Zenon
<1> DEFINE q == p + 8 + a.n  m == a.handlers
<1>4. p \in Nat /\ Fits(p, <<2, 2, 4, a.n>>) /\ ValueAt(p + 4) = a.n /\ At(q, y \o (z \o (rest \o s)))
  BY <1>0, <1>1, <1>3, CodeHeadReads, Zenon DEF x
<1> HIDE DEF q
<1> DEFINE w == TableWidths(q, <<2, 2, 2, 2>>)
<1>5. Fits(q, w) /\ At(End(q, w), z \o (rest \o s))
  <2>1. TableAt(q, m, m * 4, z \o (rest \o s))
    <3>1. m * 4 \in Nat BY <1>0
    <3> QED BY <1>0, <1>1, <1>4, <3>1, Zenon DEF TableAt, y, CodeTable
  <2> QED BY <2>1, EntryWidths, TableRight, Zenon
<1> DEFINE e == End(q, w)
<1> HIDE DEF e, w
<1>6. Fits(q, w) /\ At(e, z \o (rest \o s)) BY <1>5, Zenon DEF e
<1>7. Fits(e, <<2>>) /\ ValueAt(e) = n /\ At(e + 2, rest \o s)
  <2>0. 2 \in Nat \ {0} OBVIOUS
  <2>1. OneAt(e, 2, n, rest \o s) BY <1>0, <1>1, <1>6, <2>0, Zenon DEF OneAt, z, U2
  <2> QED BY <2>1, ReadOne, Zenon DEF OneRead
<1> DEFINE fits == Fits(p, <<2, 2, 4, a.n>>) /\ Fits(q, w) /\ Fits(e, <<2>>)
           r == [fits |-> fits, end |-> e + 2, nested |-> ValueAt(e)]
<1>8. CodeRead(p) = r
  <2>1. q = p + 8 + ValueAt(p + 4) BY <1>4, Zenon DEF q
  <2>2. CodeRead(p) = [fits |-> /\ Fits(p, <<2, 2, 4, ValueAt(p + 4)>>)
                                /\ Fits(q, w) /\ Fits(e, <<2>>),
                       end |-> e + 2, nested |-> ValueAt(e)]
    BY <2>1, Zenon DEF CodeRead, w, e
  <2> QED BY <1>4, <2>2, Zenon
<1>9. fits = TRUE
  <2>1. fits \in BOOLEAN BY Zenon DEF Fits
  <2> QED BY <1>4, <1>6, <1>7, <2>1, Zenon
<1> HIDE DEF fits
<1>10. r.fits = fits /\ r.end = e + 2 /\ r.nested = ValueAt(e) OBVIOUS
<1>11. ReadAttribute(a.name, len, p) = CodeRead(p) BY <1>0, AttributeCases, Zenon
<1> HIDE DEF r
<1> QED BY <1>7, <1>8, <1>9, <1>10, <1>11, Zenon DEF Right, n, rest

(* The lists of attributes and members, taken one by one *)
LEMMA NotEmpty ==
  ASSUME NEW T, NEW f \in Seq(T)
  PROVE  f # << >> <=> Len(f) # 0
OBVIOUS

LEMMA PartsOf ==
  ASSUME NEW S, NEW xs \in Seq(S), Len(xs) # 0
  PROVE  /\ xs[1] \in S /\ Tail(xs) \in Seq(S) /\ Len(Tail(xs)) = Len(xs) - 1
         /\ Len(xs) \in Nat \ {0} /\ 1 \in DOMAIN xs
         /\ DOMAIN Tail(xs) = 1 .. Len(xs) - 1 /\ DOMAIN xs = 1 .. Len(xs)
         /\ \A i \in 1 .. Len(xs) - 1 : Tail(xs)[i] = xs[i + 1] /\ i + 1 \in 1 .. Len(xs)
         /\ Tail(xs) = [i \in 1 .. Len(xs) - 1 |-> xs[i + 1]]
<1>0. Len(xs) \in Nat OBVIOUS
<1>2. Len(xs) \in Nat \ {0} BY <1>0, Zenon
<1>1. xs[1] \in S /\ Tail(xs) \in Seq(S) /\ Len(Tail(xs)) = Len(xs) - 1
  <2>0. xs # << >> BY NotEmpty, Zenon
  <2>1. Tail(xs) \in Seq(S) /\ Len(Tail(xs)) = Len(xs) - 1 BY <2>0, HeadTailProperties, Zenon
  <2>2. 1 \in 1 .. Len(xs) BY <1>0
  <2>3. xs[1] \in S BY <2>2, ElementOfSeq, Zenon
  <2> QED BY <2>1, <2>3, Zenon
<1>3. DOMAIN xs = 1 .. Len(xs) /\ DOMAIN Tail(xs) = 1 .. Len(Tail(xs)) BY <1>1
<1>4. \A i \in 1 .. Len(xs) - 1 : Tail(xs)[i] = xs[i + 1] OBVIOUS
<1>5. Tail(xs) = [i \in 1 .. Len(xs) - 1 |-> Tail(xs)[i]]
  <2> DEFINE tt == Tail(xs)
  <2> HIDE DEF tt
  <2>1. tt \in Seq(S) BY <1>1, Zenon DEF tt
  <2>2. tt = [i \in 1 .. Len(tt) |-> tt[i]] BY <2>1
  <2> QED BY <1>1, <2>2, Zenon DEF tt
<1> DEFINE n == Len(xs)
<1> HIDE DEF n
<1>6. 1 \in 1 .. n /\ \A i \in 1 .. n - 1 : i + 1 \in 1 .. n
  <2>1. n \in Nat \ {0} BY <1>2, Zenon DEF n
  <2> QED BY <2>1
<1>7. Tail(xs) = [i \in 1 .. Len(xs) - 1 |-> xs[i + 1]] BY <1>4, <1>5, Zenon
<1> QED BY <1>1, <1>2, <1>3, <1>4, <1>6, <1>7, Zenon DEF n

LEMMA SeqParts ==
  ASSUME NEW S, NEW xs \in Seq(S), xs # << >>
  PROVE  /\ xs[1] \in S /\ Tail(xs) \in Seq(S) /\ Len(Tail(xs)) = Len(xs) - 1
         /\ Len(xs) \in Nat \ {0} /\ 1 \in DOMAIN xs
         /\ DOMAIN Tail(xs) = 1 .. Len(xs) - 1 /\ DOMAIN xs = 1 .. Len(xs)
         /\ \A i \in 1 .. Len(xs) - 1 : Tail(xs)[i] = xs[i + 1] /\ i + 1 \in 1 .. Len(xs)
         /\ Tail(xs) = [i \in 1 .. Len(xs) - 1 |-> xs[i + 1]]
<1>1. Len(xs) # 0 BY NotEmpty, Zenon
<1> QED BY <1>1, PartsOf, Zenon

LEMMA TailIs ==
  ASSUME NEW S, NEW xs \in Seq(S), xs # << >>, NEW T, NEW f \in Seq(T), Len(f) = Len(xs),
         NEW g, g = [i \in DOMAIN Tail(xs) |-> f[i + 1]]
  PROVE  Tail(f) = g /\ f # << >>
<1>1. Len(f) # 0 /\ Len(f) \in Nat
  <2>1. Len(xs) \in Nat \ {0} BY SeqParts, Zenon
  <2> QED BY <2>1
<1>2. f # << >> BY <1>1, NotEmpty, Zenon
<1>3. DOMAIN Tail(xs) = 1 .. Len(f) - 1 BY SeqParts, Zenon
<1>4. g = [i \in 1 .. Len(f) - 1 |-> f[i + 1]] BY <1>3, Zenon
<1>5. Tail(f) = [i \in 1 .. Len(f) - 1 |-> f[i + 1]] BY <1>2, SeqParts, Zenon
<1> QED BY <1>2, <1>4, <1>5, Zenon

LEMMA AttributeCons ==
  ASSUME NEW cs, NEW S, cs \in Seq(S), NEW xs \in Seq(AllAttributes(cs)), xs # << >>
  PROVE  FlattenSeq(AttributeList(cs, xs))
           = AttributeCells(cs, xs[1]) \o FlattenSeq(AttributeList(cs, Tail(xs)))
<1> HIDE DEF Cells, Values
<1> DEFINE A == AllAttributes(cs)  f == AttributeList(cs, xs)  g == AttributeList(cs, Tail(xs))
<1>1. f \in Seq(Seq(Cells)) /\ Len(f) = Len(xs) BY AttributesType, Zenon
<1>2. /\ 1 \in DOMAIN xs
      /\ DOMAIN Tail(xs) = 1 .. Len(xs) - 1 /\ DOMAIN xs = 1 .. Len(xs)
      /\ \A i \in 1 .. Len(xs) - 1 : Tail(xs)[i] = xs[i + 1]
      /\ Len(xs) \in Nat \ {0}
  BY SeqParts, Zenon
<1>3. \A i \in DOMAIN Tail(xs) : g[i] = f[i + 1]
  <2>1. \A i \in 1 .. Len(xs) - 1 : i + 1 \in 1 .. Len(xs) BY SeqParts, Zenon
  <2>2. \A i \in 1 .. Len(xs) - 1 : f[i + 1] = AttributeCells(cs, xs[i + 1])
    BY <1>2, <2>1, Zenon DEF AttributeList
  <2>3. \A i \in 1 .. Len(xs) - 1 : g[i] = AttributeCells(cs, xs[i + 1])
    BY <1>2, Zenon DEF AttributeList
  <2> QED BY <1>2, <2>2, <2>3, Zenon
<1>4. g = [i \in DOMAIN Tail(xs) |-> g[i]] BY Zenon DEF AttributeList
<1>5. f[1] = AttributeCells(cs, xs[1]) BY <1>2, Zenon DEF AttributeList
<1> HIDE DEF f, g
<1>6. g = [i \in DOMAIN Tail(xs) |-> f[i + 1]] BY <1>3, <1>4, Zenon
<1>7. Tail(f) = g /\ f # << >> BY <1>1, <1>6, TailIs, Zenon
<1>8. FlattenSeq(f) = f[1] \o FlattenSeq(Tail(f)) BY <1>1, <1>7, FlattenCons, Zenon
<1> QED BY <1>5, <1>7, <1>8, Zenon DEF f, g

LEMMA MemberCons ==
  ASSUME NEW cs, NEW S, cs \in Seq(S), NEW ms \in Seq(Seq(AllAttributes(cs))), ms # << >>
  PROVE  FlattenSeq(MemberList(cs, ms))
           = MemberCells(cs, ms[1]) \o FlattenSeq(MemberList(cs, Tail(ms)))
<1> HIDE DEF Cells, Values
<1> DEFINE f == MemberList(cs, ms)  g == MemberList(cs, Tail(ms))
<1>1. f \in Seq(Seq(Cells)) /\ Len(f) = Len(ms) BY MembersType, Zenon
<1>2. /\ 1 \in DOMAIN ms
      /\ DOMAIN Tail(ms) = 1 .. Len(ms) - 1 /\ DOMAIN ms = 1 .. Len(ms)
      /\ \A i \in 1 .. Len(ms) - 1 : Tail(ms)[i] = ms[i + 1]
      /\ Len(ms) \in Nat \ {0}
  BY SeqParts, Zenon
<1>3. \A i \in DOMAIN Tail(ms) : g[i] = f[i + 1]
  <2>1. \A i \in 1 .. Len(ms) - 1 : i + 1 \in 1 .. Len(ms) BY SeqParts, Zenon
  <2>2. \A i \in 1 .. Len(ms) - 1 : f[i + 1] = MemberCells(cs, ms[i + 1])
    BY <1>2, <2>1, Zenon DEF MemberList
  <2>3. \A i \in 1 .. Len(ms) - 1 : g[i] = MemberCells(cs, ms[i + 1])
    BY <1>2, Zenon DEF MemberList
  <2> QED BY <1>2, <2>2, <2>3, Zenon
<1>4. g = [i \in DOMAIN Tail(ms) |-> g[i]] BY Zenon DEF MemberList
<1>5. f[1] = MemberCells(cs, ms[1]) BY <1>2, Zenon DEF MemberList
<1> HIDE DEF f, g
<1>6. g = [i \in DOMAIN Tail(ms) |-> f[i + 1]] BY <1>3, <1>4, Zenon
<1>7. Tail(f) = g /\ f # << >> BY <1>1, <1>6, TailIs, Zenon
<1>8. FlattenSeq(f) = f[1] \o FlattenSeq(Tail(f)) BY <1>1, <1>7, FlattenCons, Zenon
<1> QED BY <1>5, <1>7, <1>8, Zenon DEF f, g

LEMMA NoAttributes ==
  ASSUME NEW cs
  PROVE  FlattenSeq(AttributeList(cs, << >>)) = << >> /\ FlattenSeq(MemberList(cs, << >>)) = << >>
<1>1. AttributeList(cs, << >>) = << >> /\ MemberList(cs, << >>) = << >>
  BY DEF AttributeList, MemberList
<1> QED BY <1>1, FlattenEmpty, Zenon

LEMMA SeqSubset ==
  ASSUME NEW A, NEW B, A \subseteq B, NEW x \in Seq(A)
  PROVE  x \in Seq(B)
<1>1. \A i \in 1 .. Len(x) : x[i] \in B BY ElementOfSeq, Zenon
<1>2. x = [i \in 1 .. Len(x) |-> x[i]] /\ Len(x) \in Nat OBVIOUS
<1>3. [i \in 1 .. Len(x) |-> x[i]] \in [1 .. Len(x) -> B] BY <1>1, Zenon
<1>4. x \in [1 .. Len(x) -> B] BY <1>2, <1>3, Zenon
<1> QED BY <1>2, <1>4, IsSeq, Zenon

(* An attribute of a list stands at p, before s; what its read leaves. *)
AttributeAt(cs, a, p, s) ==
  /\ \E S : cs \in Seq(S)
  /\ a \in AllAttributes(cs) /\ s \in Seq(Cells) /\ At(p, AttributeCells(cs, a) \o s)
NestedLeft(cs, read, s) ==
  \E xs \in Seq(AllAttributes(cs)) :
    Right(read, Len(xs), FlattenSeq(AttributeList(cs, xs)) \o s)
AttributeRead(cs, a, p, s) ==
  /\ p \in Nat /\ Fits(p, <<2, 4>>) /\ ValueAt(p) = NameNumber(cs, a.name)
  /\ a.name \in Texts(cs)
  /\ NestedLeft(cs, ReadAttribute(a.name, ValueAt(p + 2), p + 6), s)

LEMMA BodyReads ==
  ASSUME Ready, NEW p, NEW cs, NEW S, cs \in Seq(S), NEW a \in AllAttributes(cs),
         NEW s \in Seq(Cells), At(p, AttributeBody(cs, a) \o s)
  PROVE  NestedLeft(cs, ReadAttribute(a.name, End(0, Widths(AttributeBody(cs, a))), p), s)
<1> HIDE DEF Cells, Values
<1> DEFINE len == End(0, Widths(AttributeBody(cs, a)))
<1>1. CASE a \in PlainAttributes(cs)
  <2>1. a.name # "Code" /\ a.n \in Nat BY <1>1, PlainFacts, Zenon
  <2>2. AttributeBody(cs, a) = WrittenBody(a) BY <2>1, Zenon DEF AttributeBody
  <2>3. At(p, WrittenBody(a) \o s) BY <2>2, Zenon
  <2>4. Right(ReadAttribute(a.name, End(0, Widths(WrittenBody(a))), p), 0, s)
    BY <2>1, <2>3, PlainReads, Zenon
  <2>5. << >> \in Seq(AllAttributes(cs)) /\ Len(<< >>) = 0 OBVIOUS
  <2>6. FlattenSeq(AttributeList(cs, << >>)) \o s = s BY NoAttributes, Concat, Zenon
  <2>7. Right(ReadAttribute(a.name, len, p), 0, s) BY <2>2, <2>4, Zenon
  <2>8. Right(ReadAttribute(a.name, len, p), Len(<< >>), FlattenSeq(AttributeList(cs, << >>)) \o s)
    BY <2>5, <2>6, <2>7, Zenon
  <2> QED BY <2>5, <2>8, Zenon DEF NestedLeft
<1>2. CASE a \in CodeAttributes(cs)
  <2>1. a.name = "Code" /\ a.nested \in Seq(PlainAttributes(cs)) BY <1>2, CodeFacts, Zenon
  <2>2. AttributeBody(cs, a) = WrittenCode(cs, a) BY <2>1, Zenon DEF AttributeBody
  <2>3. At(p, WrittenCode(cs, a) \o s) BY <2>2, Zenon
  <2>4. Right(ReadAttribute(a.name, len, p), Len(a.nested),
              FlattenSeq(AttributeList(cs, a.nested)) \o s)
    BY <1>2, <2>3, CodeReads, Zenon
  <2>5. PlainAttributes(cs) \subseteq AllAttributes(cs) BY Zenon DEF AllAttributes
  <2>6. a.nested \in Seq(AllAttributes(cs)) BY <2>1, <2>5, SeqSubset, Zenon
  <2> QED BY <2>4, <2>6, Zenon DEF NestedLeft
<1> QED BY <1>1, <1>2, Zenon DEF AllAttributes

LEMMA AttributeReads ==
  ASSUME Ready, NEW p, NEW cs, NEW a, NEW s, AttributeAt(cs, a, p, s)
  PROVE  AttributeRead(cs, a, p, s)
<1> HIDE DEF Cells, Values
<1>0. a \in AllAttributes(cs) /\ s \in Seq(Cells) /\ At(p, AttributeCells(cs, a) \o s)
  BY Zenon DEF AttributeAt
<1>1. PICK S : cs \in Seq(S) BY Zenon DEF AttributeAt
<1>2. a.name \in Texts(cs) BY <1>0, PlainFacts, CodeFacts, Zenon DEF AllAttributes
<1> DEFINE body == AttributeBody(cs, a)  n == NameNumber(cs, a.name)  len == End(0, Widths(body))
           x == U2(n) \o U4(len)
<1>3. body \in Seq(Cells) BY <1>0, <1>1, AnyType, Zenon
<1>4. n \in Values /\ len \in Values /\ x \in Seq(Cells) BY <1>1, <1>2, <1>3, AttributeType, Zenon
<1>5. AttributeCells(cs, a) = x \o body BY Zenon DEF AttributeCells, Attribute
<1> HIDE DEF body
<1>6. body \o s \in Seq(Cells) BY <1>0, <1>3, Closed, Zenon
<1>7. At(p, x \o (body \o s))
  <2> HIDE DEF x
  <2>1. Lists(x, body, s) BY <1>0, <1>3, <1>4, Zenon DEF Lists
  <2>2. Joined(x, body, s) BY <2>1, Assoc, Zenon
  <2> QED BY <1>0, <1>5, <2>2, Zenon DEF Joined
<1> HIDE DEF n, len
<1>8. TwoRead(p, 2, n, 4, len, body \o s)
  <2>1. 2 \in Nat \ {0} /\ 4 \in Nat \ {0} OBVIOUS
  <2>2. TwoAt(p, 2, n, 4, len, body \o s) BY <1>4, <1>6, <1>7, <2>1, Zenon DEF TwoAt, U2, U4
  <2> QED BY <2>2, ReadTwo, Zenon
<1>9. /\ p \in Nat /\ Fits(p, <<2, 4>>) /\ ValueAt(p) = n /\ ValueAt(p + 2) = len
      /\ At(p + 2 + 4, body \o s)
  BY <1>8, Zenon DEF TwoRead
<1>10. p + 2 + 4 = p + 6 BY <1>9
<1>11. At(p + 6, body \o s) BY <1>9, <1>10, Zenon
<1>12. NestedLeft(cs, ReadAttribute(a.name, len, p + 6), s)
  BY <1>0, <1>1, <1>11, BodyReads, Zenon DEF body, len
<1> QED BY <1>2, <1>9, <1>12, Zenon DEF AttributeRead, n

(* A member of a list stands at p, before s. *)
MemberAt(cs, xs, p, s) ==
  /\ \E S : cs \in Seq(S)
  /\ xs \in Seq(AllAttributes(cs)) /\ s \in Seq(Cells) /\ At(p, MemberCells(cs, xs) \o s)
MemberRead(cs, xs, p, s) ==
  /\ Fits(p, <<2, 2, 2, 2>>) /\ ValueAt(p + 6) = Len(xs)
  /\ At(p + 8, FlattenSeq(AttributeList(cs, xs)) \o s)

LEMMA MemberReads ==
  ASSUME Ready, NEW p, NEW cs, NEW xs, NEW s, MemberAt(cs, xs, p, s)
  PROVE  MemberRead(cs, xs, p, s)
<1> HIDE DEF Cells, Values
<1>0. xs \in Seq(AllAttributes(cs)) /\ s \in Seq(Cells) /\ At(p, MemberCells(cs, xs) \o s)
  BY Zenon DEF MemberAt
<1>1. PICK S : cs \in Seq(S) BY Zenon DEF MemberAt
<1> DEFINE z == Field(2, 0)  n == Len(xs)  d == Field(2, n)  y == (<<z>> \o <<z>>) \o <<z>>
           rest == FlattenSeq(AttributeList(cs, xs))
<1>2. rest \in Seq(Cells) /\ U2(n) \in Seq(Cells) /\ n \in Values BY <1>0, <1>1, AttributesType, Zenon
<1>3. 2 \in Nat \ {0} /\ 0 \in Values BY NatValue
<1>4. z \in Cells /\ d \in Cells BY <1>2, <1>3, OneCell, Zenon
<1>5. z.width = 2 /\ d.width = 2 /\ d.value = n BY DEF Field
<1>6. MemberCells(cs, xs) = y \o (<<d>> \o rest) BY ListsAre, Zenon DEF MemberCells, U2
<1>7. y \in Seq(Cells)
  <2>1. ThreeCells(Cells, y, z, z, z) BY <1>4, Threes, Zenon
  <2> QED BY <2>1, Zenon DEF ThreeCells
<1>8. <<d>> \in Seq(Cells) BY <1>2, Zenon DEF U2
<1> HIDE DEF y, d, rest, n
<1>9. (y \o (<<d>> \o rest)) \o s = (y \o <<d>>) \o (rest \o s) /\ rest \o s \in Seq(Cells)
  <2> DEFINE dd == <<d>>
  <2> HIDE DEF dd
  <2>0. dd \in Seq(Cells) BY <1>8, Zenon DEF dd
  <2>1. dd \o rest \in Seq(Cells) /\ rest \o s \in Seq(Cells) BY <1>0, <1>2, <2>0, Closed, Zenon
  <2>2. Joined(y, dd \o rest, s)
    <3>1. Lists(y, dd \o rest, s) BY <1>0, <1>7, <2>1, Zenon DEF Lists
    <3> QED BY <3>1, Assoc, Zenon
  <2>3. Joined(dd, rest, s)
    <3>1. Lists(dd, rest, s) BY <1>0, <1>2, <2>0, Zenon DEF Lists
    <3> QED BY <3>1, Assoc, Zenon
  <2>4. Joined(y, dd, rest \o s)
    <3>1. Lists(y, dd, rest \o s) BY <1>7, <2>0, <2>1, Zenon DEF Lists
    <3> QED BY <3>1, Assoc, Zenon
  <2> QED BY <2>1, <2>2, <2>3, <2>4, Zenon DEF Joined, dd
<1>10. At(p, (y \o <<d>>) \o (rest \o s)) BY <1>0, <1>6, <1>9, Zenon
<1> HIDE DEF z
<1>11. FourAt(p, z, z, z, d, rest \o s) BY <1>4, <1>9, <1>10, Zenon DEF FourAt, y
<1>12. FourRead(p, z, z, z, d, rest \o s) BY <1>11, ReadFour, Zenon
<1>13. /\ p \in Nat /\ Fits(p, <<z.width, z.width, z.width, d.width>>)
       /\ ValueAt(p + z.width + z.width + z.width) = d.value
       /\ At(p + z.width + z.width + z.width + d.width, rest \o s)
  BY <1>12, Zenon DEF FourRead
<1>14. /\ Fits(p, <<2, 2, 2, 2>>) /\ ValueAt(p + 2 + 2 + 2) = n /\ At(p + 2 + 2 + 2 + 2, rest \o s)
  BY <1>5, <1>13, Zenon
<1>15. p + 2 + 2 + 2 = p + 6 /\ p + 2 + 2 + 2 + 2 = p + 8 BY <1>13
<1> QED BY <1>14, <1>15, Zenon DEF MemberRead, n, rest

-----------------------------------------------------------------------------
(* What is left to do, and what is left of the file *)

TaskNames == {"magic", "version", "pool", "constant", "header", "interfaces", "members",
              "member", "attributes", "attribute"}
Tasks == [name : TaskNames, left : Nat]

(* g is what was written for the task to read. *)
Members(f) == Seq(Seq(AllAttributes(f.constants)))
Attributes(f) == Seq(AllAttributes(f.constants))
HeaderOf(g) == g = HeaderCells
MembersOf(f, g) == \E ms \in Members(f) : g = WrittenMembers(f.constants, ms)
MemberOf(f, n, g) ==
  \E ms \in Members(f) : ms # << >> /\ Len(ms) = n /\ g = FlattenSeq(MemberList(f.constants, ms))
AttributesOf(f, g) == \E xs \in Attributes(f) : g = WrittenAttributes(f.constants, xs)
AttributeOf(f, n, g) ==
  \E xs \in Attributes(f) : xs # << >> /\ Len(xs) = n /\ g = FlattenSeq(AttributeList(f.constants, xs))
Good(f, task, g) ==
  \/ task.name = "header" /\ HeaderOf(g)
  \/ task.name = "interfaces" /\ g = InterfaceCells(f)
  \/ task.name = "members" /\ MembersOf(f, g)
  \/ task.name = "member" /\ MemberOf(f, task.left, g)
  \/ task.name = "attributes" /\ AttributesOf(f, g)
  \/ task.name = "attribute" /\ AttributeOf(f, task.left, g)

(* What is left, s, is what was written for the tasks of w, in order. *)
Fit(f, w, gs) ==
  gs \in Seq(Seq(Cells)) /\ Len(gs) = Len(w) /\ \A i \in 1 .. Len(w) : Good(f, w[i], gs[i])
Matches(f, w, s) == w \in Seq(Tasks) /\ \E gs : Fit(f, w, gs) /\ s = FlattenSeq(gs)

LEMMA GoodCases ==
  ASSUME NEW f, NEW task, NEW g, Good(f, task, g)
  PROVE  /\ task.name = "header" => HeaderOf(g)
         /\ task.name = "interfaces" => g = InterfaceCells(f)
         /\ task.name = "members" => MembersOf(f, g)
         /\ task.name = "member" => MemberOf(f, task.left, g)
         /\ task.name = "attributes" => AttributesOf(f, g)
         /\ task.name = "attribute" => AttributeOf(f, task.left, g)
         /\ task.name \notin {"magic", "version", "pool", "constant"}
<1> DEFINE n == task.name  a == HeaderOf(g)  b == g = InterfaceCells(f)  c == MembersOf(f, g)
           d == MemberOf(f, task.left, g)  e == AttributesOf(f, g)  h == AttributeOf(f, task.left, g)
<1>1. \/ n = "header" /\ a
      \/ n = "interfaces" /\ b
      \/ n = "members" /\ c
      \/ n = "member" /\ d
      \/ n = "attributes" /\ e
      \/ n = "attribute" /\ h
  BY Zenon DEF Good
<1>2. n = "header" => a
  <2> HIDE DEF a, b, c, d, e, h, n
  <2> QED BY <1>1
<1>3. n = "interfaces" => b
  <2> HIDE DEF a, b, c, d, e, h, n
  <2> QED BY <1>1
<1>4. n = "members" => c
  <2> HIDE DEF a, b, c, d, e, h, n
  <2> QED BY <1>1
<1>5. n = "member" => d
  <2> HIDE DEF a, b, c, d, e, h, n
  <2> QED BY <1>1
<1>6. n = "attributes" => e
  <2> HIDE DEF a, b, c, d, e, h, n
  <2> QED BY <1>1
<1>7. n = "attribute" => h
  <2> HIDE DEF a, b, c, d, e, h, n
  <2> QED BY <1>1
<1>8. n \notin {"magic", "version", "pool", "constant"}
  <2> HIDE DEF a, b, c, d, e, h, n
  <2> QED BY <1>1
<1> QED BY <1>2, <1>3, <1>4, <1>5, <1>6, <1>7, <1>8, Zenon

(* z is x before y. *)
Consed(S, x, y, z) ==
  /\ z \in Seq(S) /\ Len(z) = Len(y) + 1 /\ z # << >> /\ z[1] = x /\ Tail(z) = y
  /\ \A i \in 1 .. Len(y) : z[i + 1] = y[i]

LEMMA ConsParts ==
  ASSUME NEW S, NEW x \in S, NEW y \in Seq(S)
  PROVE  Consed(S, x, y, <<x>> \o y)
<1> DEFINE v == <<x>>  z == v \o y
<1>1. v \in Seq(S) /\ Len(v) = 1 /\ v[1] = x OBVIOUS
<1> HIDE DEF v
<1>2. /\ z \in Seq(S) /\ Len(z) = Len(v) + Len(y)
      /\ \A i \in 1 .. Len(v) + Len(y) : z[i] = IF i <= Len(v) THEN v[i] ELSE y[i - Len(v)]
  BY <1>1, ConcatProperties, Zenon
<1> HIDE DEF z
<1>3. Len(y) \in Nat OBVIOUS
<1>4. Len(z) = Len(y) + 1 /\ z[1] = x /\ Len(z) # 0 BY <1>1, <1>2, <1>3
<1>5. \A i \in 1 .. Len(y) : z[i + 1] = y[i] BY <1>1, <1>2, <1>3
<1>6. z # << >> BY <1>2, <1>4, NotEmpty, Zenon
<1>7. Tail(z) \in Seq(S) /\ Len(Tail(z)) = Len(z) - 1
      /\ \A i \in 1 .. Len(z) - 1 : Tail(z)[i] = z[i + 1]
  BY <1>2, <1>6, SeqParts, Zenon
<1>8. Len(z) - 1 = Len(y) BY <1>3, <1>4
<1>9. \A i \in 1 .. Len(Tail(z)) : Tail(z)[i] = y[i] BY <1>5, <1>7, <1>8, Zenon
<1>10. Tail(z) = y BY <1>7, <1>8, <1>9, SeqEqual, Zenon
<1> QED BY <1>2, <1>4, <1>5, <1>6, <1>10, Zenon DEF z, v, Consed

LEMMA MatchesCons ==
  ASSUME NEW f, NEW t \in Tasks, NEW g \in Seq(Cells), Good(f, t, g), NEW w, NEW s, Matches(f, w, s)
  PROVE  Matches(f, <<t>> \o w, g \o s)
<1> HIDE DEF Cells, Values, Tasks
<1>0. w \in Seq(Tasks) BY Zenon DEF Matches
<1>1. PICK gs : Fit(f, w, gs) /\ s = FlattenSeq(gs) BY Zenon DEF Matches
<1>2. gs \in Seq(Seq(Cells)) /\ Len(gs) = Len(w) /\ \A i \in 1 .. Len(w) : Good(f, w[i], gs[i])
  BY <1>1, Zenon DEF Fit
<1> DEFINE v == <<t>> \o w  hs == <<g>> \o gs
<1>3. v \in Seq(Tasks) /\ Len(v) = Len(w) + 1 /\ v[1] = t /\ \A i \in 1 .. Len(w) : v[i + 1] = w[i]
  <2>1. Consed(Tasks, t, w, v) BY <1>0, ConsParts, Zenon
  <2> QED BY <2>1, Zenon DEF Consed
<1>4. /\ hs \in Seq(Seq(Cells)) /\ Len(hs) = Len(gs) + 1 /\ hs # << >> /\ hs[1] = g /\ Tail(hs) = gs
      /\ \A i \in 1 .. Len(gs) : hs[i + 1] = gs[i]
  <2>1. Consed(Seq(Cells), g, gs, hs) BY <1>2, ConsParts, Zenon
  <2> QED BY <2>1, Zenon DEF Consed
<1> HIDE DEF v, hs
<1>5. \A i \in 1 .. Len(w) : Good(f, v[i + 1], hs[i + 1]) BY <1>2, <1>3, <1>4, Zenon
<1>6. \A i \in 1 .. Len(v) : Good(f, v[i], hs[i])
  <2> SUFFICES ASSUME NEW i \in 1 .. Len(v) PROVE Good(f, v[i], hs[i]) OBVIOUS
  <2>1. CASE i = 1 BY <1>3, <1>4, <2>1, Zenon
  <2>2. CASE i # 1
    <3>1. i - 1 \in 1 .. Len(w) /\ (i - 1) + 1 = i
      <4>1. Len(w) \in Nat BY <1>0
      <4> QED BY <1>3, <2>2, <4>1
    <3>2. Good(f, v[(i - 1) + 1], hs[(i - 1) + 1]) BY <1>5, <3>1, Zenon
    <3> QED BY <3>1, <3>2, Zenon
  <2> QED BY <2>1, <2>2, Zenon
<1>7. Fit(f, v, hs) BY <1>2, <1>3, <1>4, <1>6, Zenon DEF Fit
<1>8. FlattenSeq(hs) = g \o s BY <1>1, <1>4, FlattenCons, Zenon
<1> QED BY <1>3, <1>7, <1>8, Zenon DEF Matches, v

(* What the first task is to read, and the others *)
First(f, w, s, g, r) ==
  /\ g \in Seq(Cells) /\ r \in Seq(Cells) /\ s = g \o r
  /\ Good(f, w[1], g) /\ Matches(f, Tail(w), r) /\ w[1] \in Tasks

LEMMA MatchesHead ==
  ASSUME NEW f, NEW w, NEW s, Matches(f, w, s), w # << >>
  PROVE  \E g, r : First(f, w, s, g, r)
<1> HIDE DEF Cells, Values, Tasks
<1>0. w \in Seq(Tasks) BY Zenon DEF Matches
<1>1. PICK gs : Fit(f, w, gs) /\ s = FlattenSeq(gs) BY Zenon DEF Matches
<1>2. gs \in Seq(Seq(Cells)) /\ Len(gs) = Len(w) /\ \A i \in 1 .. Len(w) : Good(f, w[i], gs[i])
  BY <1>1, Zenon DEF Fit
<1>3. /\ w[1] \in Tasks /\ Tail(w) \in Seq(Tasks) /\ Len(Tail(w)) = Len(w) - 1
      /\ Len(w) \in Nat \ {0}
      /\ \A i \in 1 .. Len(w) - 1 : Tail(w)[i] = w[i + 1] /\ i + 1 \in 1 .. Len(w)
  BY <1>0, SeqParts, Zenon
<1>4. gs # << >>
  <2>1. Len(gs) # 0 BY <1>2, <1>3
  <2> QED BY <1>2, <2>1, NotEmpty, Zenon
<1>5. /\ gs[1] \in Seq(Cells) /\ Tail(gs) \in Seq(Seq(Cells)) /\ Len(Tail(gs)) = Len(gs) - 1
      /\ \A i \in 1 .. Len(gs) - 1 : Tail(gs)[i] = gs[i + 1]
  BY <1>2, <1>4, SeqParts, Zenon
<1> DEFINE r == FlattenSeq(Tail(gs))
<1>6. s = gs[1] \o r BY <1>1, <1>2, <1>4, FlattenCons, Zenon
<1>7. r \in Seq(Cells) BY <1>5, FlattenType, Zenon
<1>8. Good(f, w[1], gs[1])
  <2>1. 1 \in 1 .. Len(w) BY <1>3
  <2> QED BY <1>2, <2>1, Zenon
<1>9. \A i \in 1 .. Len(w) - 1 : Good(f, Tail(w)[i], Tail(gs)[i]) BY <1>2, <1>3, <1>5, Zenon
<1>10. Fit(f, Tail(w), Tail(gs)) BY <1>2, <1>3, <1>5, <1>9, Zenon DEF Fit
<1>11. Matches(f, Tail(w), r) BY <1>3, <1>10, Zenon DEF Matches
<1> HIDE DEF r
<1> DEFINE g == gs[1]
<1> HIDE DEF g
<1>12. g \in Seq(Cells) /\ s = g \o r /\ Good(f, w[1], g) BY <1>5, <1>6, <1>8, Zenon DEF g
<1>13. First(f, w, s, g, r) BY <1>3, <1>7, <1>11, <1>12, Zenon DEF First
<1> QED BY <1>13, Zenon

LEMMA MatchesEmpty ==
  ASSUME NEW f, NEW s
  PROVE  Matches(f, << >>, s) <=> s = << >>
<1> HIDE DEF Cells, Values, Tasks
<1>0. << >> \in Seq(Tasks) /\ << >> \in Seq(Seq(Cells)) /\ Len(<< >>) = 0 /\ 1 .. 0 = {} OBVIOUS
<1>1. ASSUME Matches(f, << >>, s) PROVE s = << >>
  <2>1. PICK gs : Fit(f, << >>, gs) /\ s = FlattenSeq(gs) BY <1>1, Zenon DEF Matches
  <2>2. gs \in Seq(Seq(Cells)) /\ Len(gs) = 0 BY <1>0, <2>1, Zenon DEF Fit
  <2>3. gs = << >> BY <2>2, NotEmpty, Zenon
  <2> QED BY <2>1, <2>3, FlattenEmpty, Zenon
<1>2. ASSUME s = << >> PROVE Matches(f, << >>, s)
  <2>1. Fit(f, << >>, << >>) BY <1>0, Zenon DEF Fit
  <2> QED BY <1>0, <1>2, <2>1, FlattenEmpty, Zenon DEF Matches
<1> QED BY <1>1, <1>2, Zenon

LEMMA MatchesType ==
  ASSUME NEW f, NEW w, NEW s, Matches(f, w, s)
  PROVE  s \in Seq(Cells) /\ w \in Seq(Tasks)
<1>1. PICK gs : Fit(f, w, gs) /\ s = FlattenSeq(gs) BY Zenon DEF Matches
<1>2. gs \in Seq(Seq(Cells)) BY <1>1, Zenon DEF Fit
<1>3. s \in Seq(Cells) BY <1>1, <1>2, FlattenType, Zenon
<1> QED BY <1>3, Zenon DEF Matches

LEMMA TaskType ==
  ASSUME NEW name \in TaskNames, NEW n \in Nat
  PROVE  Task(name, n) \in Tasks /\ Task(name, n).name = name /\ Task(name, n).left = n
BY DEF Task, Tasks

LEMMA LoopIs ==
  ASSUME NEW name, NEW w \in Seq(Tasks), NEW n
  PROVE  /\ n = 0 => Loop(name, n, w) = w
         /\ n # 0 => Loop(name, n, w) = <<Task(name, n)>> \o w
<1> HIDE DEF Tasks
<1>1. << >> \o w = w
  <2>1. << >> \o w = w OBVIOUS
  <2> QED BY <2>1
<1> QED BY <1>1, Zenon DEF Loop

LEMMA PoolIsSeq ==
  ASSUME NEW f, WellFormed(f)
  PROVE  f.constants \in Seq(Constants) /\ WellFormedPool(f.constants)
<1>1. WellFormedPool(f.constants) BY Zenon DEF WellFormed
<1> QED BY <1>1, ConstantCellsType, Zenon

LEMMA LoopAttributes ==
  ASSUME NEW f, WellFormed(f), NEW w, NEW s, Matches(f, w, s), NEW xs \in Attributes(f)
  PROVE  Matches(f, Loop("attribute", Len(xs), w), FlattenSeq(AttributeList(f.constants, xs)) \o s)
<1> HIDE DEF Cells, Values, Tasks, Constants
<1> DEFINE g == FlattenSeq(AttributeList(f.constants, xs))
<1>0. s \in Seq(Cells) /\ w \in Seq(Tasks) BY MatchesType, Zenon
<1>1. xs \in Seq(AllAttributes(f.constants)) BY Zenon DEF Attributes
<1>2. g \in Seq(Cells) BY <1>1, PoolIsSeq, AttributesType, Zenon
<1>3. Len(xs) \in Nat /\ (xs # << >> <=> Len(xs) # 0) BY <1>1, NotEmpty, LenProperties, Zenon
<1>4. CASE xs = << >>
  <2>1. g = << >> BY <1>4, NoAttributes, Zenon
  <2>2. << >> \o s = s BY <1>0, Concat, Zenon
  <2>3. Loop("attribute", Len(xs), w) = w BY <1>0, <1>3, <1>4, LoopIs, Zenon
  <2> HIDE DEF g
  <2>4. Matches(f, Loop("attribute", Len(xs), w), g \o s) BY <2>1, <2>2, <2>3, Zenon
  <2> QED BY <2>4, Zenon DEF g
<1>5. CASE xs # << >>
  <2> DEFINE t == Task("attribute", Len(xs))
  <2>0. "attribute" \in TaskNames BY DEF TaskNames
  <2>1. t \in Tasks /\ t.name = "attribute" /\ t.left = Len(xs) BY <1>3, <2>0, TaskType, Zenon
  <2>2. Loop("attribute", Len(xs), w) = <<t>> \o w BY <1>0, <1>3, <1>5, LoopIs, Zenon
  <2>3. AttributeOf(f, Len(xs), g) BY <1>5, Zenon DEF AttributeOf
  <2> HIDE DEF t, g
  <2>4. Good(f, t, g) BY <2>1, <2>3, Zenon DEF Good
  <2>5. Matches(f, <<t>> \o w, g \o s) BY <1>2, <2>1, <2>4, MatchesCons, Zenon
  <2> QED BY <2>2, <2>5, Zenon DEF g
<1> QED BY <1>4, <1>5, Zenon

LEMMA LoopMembers ==
  ASSUME NEW f, WellFormed(f), NEW w, NEW s, Matches(f, w, s), NEW ms \in Members(f)
  PROVE  Matches(f, Loop("member", Len(ms), w), FlattenSeq(MemberList(f.constants, ms)) \o s)
<1> HIDE DEF Cells, Values, Tasks, Constants
<1> DEFINE g == FlattenSeq(MemberList(f.constants, ms))
<1>0. s \in Seq(Cells) /\ w \in Seq(Tasks) BY MatchesType, Zenon
<1>1. ms \in Seq(Seq(AllAttributes(f.constants))) BY Zenon DEF Members
<1>2. g \in Seq(Cells) BY <1>1, PoolIsSeq, MembersType, Zenon
<1>3. Len(ms) \in Nat /\ (ms # << >> <=> Len(ms) # 0) BY <1>1, NotEmpty, LenProperties, Zenon
<1>4. CASE ms = << >>
  <2>1. g = << >> BY <1>4, NoAttributes, Zenon
  <2>2. << >> \o s = s BY <1>0, Concat, Zenon
  <2>3. Loop("member", Len(ms), w) = w BY <1>0, <1>3, <1>4, LoopIs, Zenon
  <2> HIDE DEF g
  <2>4. Matches(f, Loop("member", Len(ms), w), g \o s) BY <2>1, <2>2, <2>3, Zenon
  <2> QED BY <2>4, Zenon DEF g
<1>5. CASE ms # << >>
  <2> DEFINE t == Task("member", Len(ms))
  <2>0. "member" \in TaskNames BY DEF TaskNames
  <2>1. t \in Tasks /\ t.name = "member" /\ t.left = Len(ms) BY <1>3, <2>0, TaskType, Zenon
  <2>2. Loop("member", Len(ms), w) = <<t>> \o w BY <1>0, <1>3, <1>5, LoopIs, Zenon
  <2>3. MemberOf(f, Len(ms), g) BY <1>5, Zenon DEF MemberOf
  <2> HIDE DEF t, g
  <2>4. Good(f, t, g) BY <2>1, <2>3, Zenon DEF Good
  <2>5. Matches(f, <<t>> \o w, g \o s) BY <1>2, <2>1, <2>4, MatchesCons, Zenon
  <2> QED BY <2>2, <2>5, Zenon DEF g
<1> QED BY <1>4, <1>5, Zenon

-----------------------------------------------------------------------------
(* The steps behind the constant pool *)

(* What is left from p on is what the tasks of w are to read. *)
Onward(p, w) == \E s \in Seq(Cells) : At(p, s) /\ Matches(file, w, s)
Late == Ready /\ WellFormed(file) /\ work # << >> /\ Onward(pos, work)
(* What Current is to read stands at pos, before what Rest is to. *)
Ahead(g, r) ==
  /\ Ready /\ WellFormed(file) /\ At(pos, g \o r) /\ g \in Seq(Cells) /\ r \in Seq(Cells)
  /\ Good(file, Current, g) /\ Current \in Tasks
  /\ Matches(file, Rest, r) /\ Rest \in Seq(Tasks)

LEMMA LateAhead ==
  ASSUME Late
  PROVE  \E g, r : Ahead(g, r)
<1> HIDE DEF Cells, Values, Tasks
<1>1. Ready /\ WellFormed(file) /\ work # << >> BY Zenon DEF Late
<1>2. PICK s \in Seq(Cells) : At(pos, s) /\ Matches(file, work, s) BY Zenon DEF Late, Onward
<1>3. PICK g, r : First(file, work, s, g, r) BY <1>1, <1>2, MatchesHead, Zenon
<1>4. /\ g \in Seq(Cells) /\ r \in Seq(Cells) /\ s = g \o r
      /\ Good(file, work[1], g) /\ Matches(file, Tail(work), r) /\ work[1] \in Tasks
  BY <1>3, Zenon DEF First
<1>5. Tail(work) \in Seq(Tasks) BY <1>4, MatchesType, Zenon
<1>6. Ahead(g, r) BY <1>1, <1>2, <1>4, <1>5, Zenon DEF Ahead, Current, Rest
<1> QED BY <1>6, Zenon

LEMMA HeaderStep ==
  ASSUME Late, Current.name = "header"
  PROVE  Fits(pos, <<2, 2, 2>>) /\ Onward(pos + 6, Rest)
<1> HIDE DEF Cells, Values, Tasks
<1>1. PICK g, r : Ahead(g, r) BY LateAhead, Zenon
<1>2. Good(file, Current, g) BY <1>1, Zenon DEF Ahead
<1>3. HeaderOf(g) BY <1>2, GoodCases, Zenon
<1> DEFINE z == Field(2, 0)
<1>4. 2 \in Nat \ {0} /\ 0 \in Values BY NatValue
<1>5. z \in Cells BY <1>4, OneCell, Zenon
<1>6. z.width = 2 BY DEF Field
<1>7. At(pos, ((<<z>> \o <<z>>) \o <<z>>) \o r) /\ r \in Seq(Cells) /\ Ready
  BY <1>1, <1>3, Zenon DEF Ahead, HeaderOf, HeaderCells, U2
<1> HIDE DEF z
<1>8. ThreeAt(pos, z, z, z, r) BY <1>5, <1>7, Zenon DEF ThreeAt
<1>9. ThreeRead(pos, z, z, z, r) BY <1>7, <1>8, ReadThree, Zenon
<1>10. pos \in Nat /\ Fits(pos, <<2, 2, 2>>) /\ At(pos + 2 + 2 + 2, r)
  BY <1>6, <1>9, Zenon DEF ThreeRead
<1>11. pos + 2 + 2 + 2 = pos + 6 BY <1>10
<1>12. At(pos + 6, r) /\ Matches(file, Rest, r) BY <1>1, <1>10, <1>11, Zenon DEF Ahead
<1> QED BY <1>7, <1>10, <1>12, Zenon DEF Onward

LEMMA InterfacesStep ==
  ASSUME Late, Current.name = "interfaces"
  PROVE  LET w == TableWidths(pos, <<2>>) IN Fits(pos, w) /\ Onward(End(pos, w), Rest)
<1> HIDE DEF Cells, Values, Tasks
<1>1. PICK g, r : Ahead(g, r) BY LateAhead, Zenon
<1>2. Good(file, Current, g) BY <1>1, Zenon DEF Ahead
<1>3. g = InterfaceCells(file) BY <1>2, GoodCases, Zenon
<1> DEFINE n == file.interfaces  w == TableWidths(pos, <<2>>)
<1>4. n \in Nat BY <1>1, Zenon DEF Ahead, WellFormed
<1>5. n * 1 \in Nat BY <1>4, RepeatZeros, Zenon
<1>6. TableAt(pos, n, n * 1, r) BY <1>1, <1>3, <1>4, <1>5, Zenon DEF Ahead, InterfaceCells, TableAt
<1>7. Ready BY <1>1, Zenon DEF Ahead
<1>8. Fits(pos, w) /\ At(End(pos, w), r) BY <1>6, <1>7, EntryWidths, TableRight, Zenon
<1> HIDE DEF w
<1>9. r \in Seq(Cells) /\ Matches(file, Rest, r) BY <1>1, Zenon DEF Ahead
<1>10. Onward(End(pos, w), Rest) BY <1>8, <1>9, Zenon DEF Onward
<1> QED BY <1>8, <1>10, Zenon DEF w

(* A count before a list *)
LEMMA CountReads ==
  ASSUME Ready, NEW p, NEW n \in Values, NEW x \in Seq(Cells), NEW s \in Seq(Cells),
         U2(n) \in Seq(Cells), At(p, (U2(n) \o x) \o s)
  PROVE  p \in Nat /\ Fits(p, <<2>>) /\ ValueAt(p) = n /\ At(p + 2, x \o s)
<1> HIDE DEF Cells, Values
<1> DEFINE u == U2(n)
<1> HIDE DEF u
<1>1. x \o s \in Seq(Cells) BY Closed, Zenon
<1>2. At(p, u \o (x \o s))
  <2>1. Lists(u, x, s) BY Zenon DEF Lists, u
  <2>2. Joined(u, x, s) BY <2>1, Assoc, Zenon
  <2> QED BY <2>2, Zenon DEF Joined, u
<1>3. 2 \in Nat \ {0} OBVIOUS
<1>4. OneAt(p, 2, n, x \o s) BY <1>1, <1>2, <1>3, Zenon DEF OneAt, u, U2
<1> QED BY <1>4, ReadOne, Zenon DEF OneRead

LEMMA MembersStep ==
  ASSUME Late, Current.name = "members"
  PROVE  Fits(pos, <<2>>) /\ Onward(pos + 2, Loop("member", ValueAt(pos), Rest))
<1> HIDE DEF Cells, Values, Tasks, Constants
<1>1. PICK g, r : Ahead(g, r) BY LateAhead, Zenon
<1>2. Good(file, Current, g) BY <1>1, Zenon DEF Ahead
<1>3. MembersOf(file, g) BY <1>2, GoodCases, Zenon
<1> DEFINE cs == file.constants
<1>4. PICK ms \in Members(file) : g = WrittenMembers(cs, ms) BY <1>3, Zenon DEF MembersOf
<1>5. Ready /\ WellFormed(file) /\ r \in Seq(Cells) /\ Matches(file, Rest, r) /\ At(pos, g \o r)
  BY <1>1, Zenon DEF Ahead
<1> DEFINE n == Len(ms)  x == FlattenSeq(MemberList(cs, ms))
<1>6. x \in Seq(Cells) /\ U2(n) \in Seq(Cells) /\ n \in Values
  BY <1>5, PoolIsSeq, MembersType, Zenon DEF Members
<1>7. g = U2(n) \o x BY <1>4, ListsAre, Zenon
<1>8. Matches(file, Loop("member", n, Rest), x \o r) BY <1>5, LoopMembers, Zenon
<1> HIDE DEF n, x
<1>9. Fits(pos, <<2>>) /\ ValueAt(pos) = n /\ At(pos + 2, x \o r)
  BY <1>5, <1>6, <1>7, CountReads, Zenon
<1>10. x \o r \in Seq(Cells) BY <1>5, <1>6, Closed, Zenon
<1> QED BY <1>8, <1>9, <1>10, Zenon DEF Onward

LEMMA AttributesStep ==
  ASSUME Late, Current.name = "attributes"
  PROVE  Fits(pos, <<2>>) /\ Onward(pos + 2, Loop("attribute", ValueAt(pos), Rest))
<1> HIDE DEF Cells, Values, Tasks, Constants
<1>1. PICK g, r : Ahead(g, r) BY LateAhead, Zenon
<1>2. Good(file, Current, g) BY <1>1, Zenon DEF Ahead
<1>3. AttributesOf(file, g) BY <1>2, GoodCases, Zenon
<1> DEFINE cs == file.constants
<1>4. PICK xs \in Attributes(file) : g = WrittenAttributes(cs, xs) BY <1>3, Zenon DEF AttributesOf
<1>5. Ready /\ WellFormed(file) /\ r \in Seq(Cells) /\ Matches(file, Rest, r) /\ At(pos, g \o r)
  BY <1>1, Zenon DEF Ahead
<1> DEFINE n == Len(xs)  x == FlattenSeq(AttributeList(cs, xs))
<1>6. x \in Seq(Cells) /\ U2(n) \in Seq(Cells) /\ n \in Values
  BY <1>5, PoolIsSeq, AttributesType, Zenon DEF Attributes
<1>7. g = U2(n) \o x BY <1>4, ListsAre, Zenon
<1>8. Matches(file, Loop("attribute", n, Rest), x \o r) BY <1>5, LoopAttributes, Zenon
<1> HIDE DEF n, x
<1>9. Fits(pos, <<2>>) /\ ValueAt(pos) = n /\ At(pos + 2, x \o r)
  BY <1>5, <1>6, <1>7, CountReads, Zenon
<1>10. x \o r \in Seq(Cells) BY <1>5, <1>6, Closed, Zenon
<1> QED BY <1>8, <1>9, <1>10, Zenon DEF Onward

LEMMA TurnedIs ==
  ASSUME Rest \in Seq(Tasks), Current.left \in Nat \ {0}
  PROVE  Turned = Loop(Current.name, Current.left - 1, Rest)
<1> HIDE DEF Tasks
<1> DEFINE n == Current.left
<1>1. CASE n = 1
  <2>1. n - 1 = 0 BY <1>1
  <2>2. Loop(Current.name, n - 1, Rest) = Rest BY <2>1, LoopIs, Zenon
  <2> QED BY <1>1, <2>2, Zenon DEF Turned
<1>2. CASE n # 1
  <2>1. n - 1 # 0 BY <1>2
  <2>2. Loop(Current.name, n - 1, Rest) = <<Task(Current.name, n - 1)>> \o Rest
    BY <2>1, LoopIs, Zenon
  <2> QED BY <1>2, <2>2, Zenon DEF Turned
<1> QED BY <1>1, <1>2, Zenon

(* The entries of q are those of the first m constants of cs. *)
Parsed(q, cs, m) ==
  /\ \E S : q \in Seq(S)
  /\ Len(q) = Number(cs)[m + 1]
  /\ \A i \in 1 .. m : InfoOf(q[Number(cs)[i] + 1], cs[i])

LEMMA MemberStep ==
  ASSUME Late, Current.name = "member"
  PROVE  Fits(pos, <<2, 2, 2, 2>>) /\ Onward(pos + 8, Loop("attribute", ValueAt(pos + 6), Turned))
<1> HIDE DEF Cells, Values, Tasks, Constants
<1>1. PICK g, r : Ahead(g, r) BY LateAhead, Zenon
<1>2. Good(file, Current, g) BY <1>1, Zenon DEF Ahead
<1>3. MemberOf(file, Current.left, g) BY <1>2, GoodCases, Zenon
<1> DEFINE cs == file.constants
<1>4. PICK ms \in Members(file) :
        ms # << >> /\ Len(ms) = Current.left /\ g = FlattenSeq(MemberList(cs, ms))
  BY <1>3, Zenon DEF MemberOf
<1>5. /\ Ready /\ WellFormed(file) /\ r \in Seq(Cells) /\ Matches(file, Rest, r) /\ At(pos, g \o r)
      /\ Rest \in Seq(Tasks)
  BY <1>1, Zenon DEF Ahead
<1>6. cs \in Seq(Constants) BY <1>5, PoolIsSeq, Zenon
<1>7. ms \in Seq(Seq(AllAttributes(cs))) BY Zenon DEF Members
<1> DEFINE xs == ms[1]  ts == Tail(ms)  rest == FlattenSeq(MemberList(cs, ts))
           y == FlattenSeq(AttributeList(cs, xs))
<1>8. /\ xs \in Seq(AllAttributes(cs)) /\ ts \in Seq(Seq(AllAttributes(cs))) /\ Len(ts) = Len(ms) - 1
      /\ Len(ms) \in Nat \ {0}
  BY <1>4, <1>7, SeqParts, Zenon
<1>9. g = MemberCells(cs, xs) \o rest BY <1>4, <1>6, <1>7, MemberCons, Zenon
<1>10. ts \in Members(file) /\ xs \in Attributes(file) BY <1>8, Zenon DEF Members, Attributes
<1>11. Matches(file, Loop("member", Len(ts), Rest), rest \o r) BY <1>5, <1>10, LoopMembers, Zenon
<1>12. Turned = Loop("member", Len(ts), Rest) BY <1>4, <1>5, <1>8, TurnedIs, Zenon
<1>13. Matches(file, Turned, rest \o r) BY <1>11, <1>12, Zenon
<1>14. Matches(file, Loop("attribute", Len(xs), Turned), y \o (rest \o r))
  BY <1>5, <1>10, <1>13, LoopAttributes, Zenon
<1>15. rest \in Seq(Cells) BY <1>6, <1>8, MembersType, Zenon
<1>16. y \in Seq(Cells) /\ WrittenAttributes(cs, xs) \in Seq(Cells) BY <1>6, <1>8, AttributesType, Zenon
<1>17. rest \o r \in Seq(Cells) BY <1>5, <1>15, Closed, Zenon
<1> DEFINE c == MemberCells(cs, xs)
<1>18. c \in Seq(Cells)
  <2>1. 0 \in Values BY NatValue
  <2>2. U2(0) \in Seq(Cells) BY <2>1, TypeU, Zenon
  <2>3. U2(0) \o U2(0) \in Seq(Cells) BY <2>2, Closed, Zenon
  <2>4. (U2(0) \o U2(0)) \o U2(0) \in Seq(Cells) BY <2>2, <2>3, Closed, Zenon
  <2> QED BY <1>16, <2>4, Closed, Zenon DEF MemberCells
<1> HIDE DEF c, rest, y, xs
<1>19. At(pos, c \o (rest \o r))
  <2>1. Lists(c, rest, r) BY <1>5, <1>15, <1>18, Zenon DEF Lists
  <2>2. Joined(c, rest, r) BY <2>1, Assoc, Zenon
  <2> QED BY <1>5, <1>9, <2>2, Zenon DEF Joined, c
<1>20. MemberAt(cs, xs, pos, rest \o r) BY <1>6, <1>8, <1>17, <1>19, Zenon DEF MemberAt, c
<1>21. MemberRead(cs, xs, pos, rest \o r) BY <1>5, <1>20, MemberReads, Zenon
<1>22. Fits(pos, <<2, 2, 2, 2>>) /\ ValueAt(pos + 6) = Len(xs) /\ At(pos + 8, y \o (rest \o r))
  BY <1>21, Zenon DEF MemberRead, y
<1>23. y \o (rest \o r) \in Seq(Cells) BY <1>16, <1>17, Closed, Zenon
<1> QED BY <1>14, <1>22, <1>23, Zenon DEF Onward

(* The entry with the number of the i-th constant *)
LEMMA InfoAt ==
  ASSUME NEW cs, NEW T, cs \in Seq(T), Parsed(infos, cs, Len(cs)), NEW i \in 1 .. Len(cs)
  PROVE  /\ InfoOf(Info(Number(cs)[i]), cs[i])
         /\ Number(cs)[i] \in 1 .. Len(infos) - 1
<1> DEFINE t == Number(cs)  n == Len(cs)
<1>1. /\ Len(infos) = t[n + 1] /\ InfoOf(infos[t[i] + 1], cs[i]) BY Zenon DEF Parsed
<1>2. t \in [1 .. n + 1 -> Nat \ {0}] /\ n \in Nat BY NumberStep, Zenon
<1>3. i \in 1 .. n + 1 /\ n + 1 \in 1 .. n + 1 /\ i < n + 1 BY <1>2
<1>4. t[i] < t[n + 1] BY <1>3, NumberOrder, Zenon
<1>5. t[i] \in Nat \ {0} /\ t[n + 1] \in Nat BY <1>2, <1>3
<1> HIDE DEF t, n
<1>6. t[i] \in 1 .. Len(infos) - 1 BY <1>1, <1>4, <1>5
<1>7. Info(t[i]) = infos[t[i] + 1] BY <1>6, Zenon DEF Info
<1> QED BY <1>1, <1>6, <1>7, Zenon DEF t

(* The read of an attribute is right, and goes on with what it should. *)
Stepped(index, read) ==
  /\ Info(index).kind = "Utf8" /\ Fits(pos, <<2, 4>>) /\ read.fits = TRUE
  /\ Onward(read.end, Loop("attribute", read.nested, Turned))

LEMMA AttributeStep ==
  ASSUME Late, Current.name = "attribute", Parsed(infos, file.constants, Len(file.constants))
  PROVE  LET index == ValueAt(pos) IN
         Stepped(index, ReadAttribute(Info(index).text, ValueAt(pos + 2), pos + 6))
<1> HIDE DEF Cells, Values, Tasks, Constants
<1>1. PICK g, r : Ahead(g, r) BY LateAhead, Zenon
<1>2. Good(file, Current, g) BY <1>1, Zenon DEF Ahead
<1>3. AttributeOf(file, Current.left, g) BY <1>2, GoodCases, Zenon
<1> DEFINE cs == file.constants
<1>4. PICK xs \in Attributes(file) :
        xs # << >> /\ Len(xs) = Current.left /\ g = FlattenSeq(AttributeList(cs, xs))
  BY <1>3, Zenon DEF AttributeOf
<1>5. /\ Ready /\ WellFormed(file) /\ r \in Seq(Cells) /\ Matches(file, Rest, r) /\ At(pos, g \o r)
      /\ Rest \in Seq(Tasks)
  BY <1>1, Zenon DEF Ahead
<1>6. cs \in Seq(Constants) BY <1>5, PoolIsSeq, Zenon
<1>7. xs \in Seq(AllAttributes(cs)) BY Zenon DEF Attributes
<1> DEFINE a == xs[1]  ts == Tail(xs)  rest == FlattenSeq(AttributeList(cs, ts))
<1>8. /\ a \in AllAttributes(cs) /\ ts \in Seq(AllAttributes(cs)) /\ Len(ts) = Len(xs) - 1
      /\ Len(xs) \in Nat \ {0}
  BY <1>4, <1>7, SeqParts, Zenon
<1>9. g = AttributeCells(cs, a) \o rest BY <1>4, <1>6, <1>7, AttributeCons, Zenon
<1>10. ts \in Attributes(file) BY <1>8, Zenon DEF Attributes
<1>11. Matches(file, Loop("attribute", Len(ts), Rest), rest \o r) BY <1>5, <1>10, LoopAttributes, Zenon
<1>12. Turned = Loop("attribute", Len(ts), Rest) BY <1>4, <1>5, <1>8, TurnedIs, Zenon
<1>13. Matches(file, Turned, rest \o r) BY <1>11, <1>12, Zenon
<1>15. rest \in Seq(Cells) BY <1>6, <1>8, AttributesType, Zenon
<1>17. rest \o r \in Seq(Cells) BY <1>5, <1>15, Closed, Zenon
<1> DEFINE c == AttributeCells(cs, a)
<1>18. c \in Seq(Cells) BY <1>6, <1>8, AnyType, Zenon
<1> HIDE DEF c, rest, a
<1>19. At(pos, c \o (rest \o r))
  <2>1. Lists(c, rest, r) BY <1>5, <1>15, <1>18, Zenon DEF Lists
  <2>2. Joined(c, rest, r) BY <2>1, Assoc, Zenon
  <2> QED BY <1>5, <1>9, <2>2, Zenon DEF Joined, c
<1>20. AttributeAt(cs, a, pos, rest \o r) BY <1>6, <1>8, <1>17, <1>19, Zenon DEF AttributeAt, c
<1>21. AttributeRead(cs, a, pos, rest \o r) BY <1>5, <1>20, AttributeReads, Zenon
<1> DEFINE index == ValueAt(pos)  read == ReadAttribute(a.name, ValueAt(pos + 2), pos + 6)
<1>22. Fits(pos, <<2, 4>>) /\ index = NameNumber(cs, a.name) /\ a.name \in Texts(cs)
       /\ NestedLeft(cs, read, rest \o r)
  BY <1>21, Zenon DEF AttributeRead
<1>23. PICK i \in 1 .. Len(cs) : /\ NameNumber(cs, a.name) = Number(cs)[i]
                                 /\ cs[i].kind = "Utf8" /\ cs[i].text = a.name
  BY <1>6, <1>22, NameNumberIs, Zenon
<1>24. InfoOf(Info(Number(cs)[i]), cs[i]) BY <1>6, InfoAt, Zenon
<1>25. Info(index).kind = "Utf8" /\ Info(index).text = a.name BY <1>22, <1>23, <1>24, Zenon DEF InfoOf
<1> HIDE DEF read, index
<1>26. PICK zs \in Seq(AllAttributes(cs)) :
         Right(read, Len(zs), FlattenSeq(AttributeList(cs, zs)) \o (rest \o r))
  BY <1>22, Zenon DEF NestedLeft
<1> DEFINE y == FlattenSeq(AttributeList(cs, zs))
<1>27. read.fits = TRUE /\ read.nested = Len(zs) /\ At(read.end, y \o (rest \o r))
  BY <1>26, Zenon DEF Right
<1>28. zs \in Attributes(file) BY Zenon DEF Attributes
<1>29. Matches(file, Loop("attribute", Len(zs), Turned), y \o (rest \o r))
  BY <1>5, <1>13, <1>28, LoopAttributes, Zenon
<1>30. y \in Seq(Cells) BY <1>6, AttributesType, Zenon
<1> HIDE DEF y
<1>31. y \o (rest \o r) \in Seq(Cells) BY <1>17, <1>30, Closed, Zenon
<1>32. Onward(read.end, Loop("attribute", read.nested, Turned)) BY <1>27, <1>29, <1>31, Zenon DEF Onward
<1>33. Stepped(index, read) BY <1>22, <1>25, <1>27, <1>32, Zenon DEF Stepped
<1>34. read = ReadAttribute(Info(index).text, ValueAt(pos + 2), pos + 6) BY <1>25, Zenon DEF read
<1> QED BY <1>33, <1>34, Zenon DEF index

-----------------------------------------------------------------------------
(* The steps up to the end of the constant pool *)

Initial == <<Once("magic"), Once("version"), Once("pool"), Once("header"), Once("interfaces"),
             Once("members"), Once("members"), Once("attributes")>>
After == <<Once("header"), Once("interfaces"), Once("members"), Once("members"), Once("attributes")>>
AtVersion == <<Once("version"), Once("pool"), Once("header"), Once("interfaces"),
               Once("members"), Once("members"), Once("attributes")>>
AtPool == <<Once("pool"), Once("header"), Once("interfaces"),
            Once("members"), Once("members"), Once("attributes")>>

EightFacts(a, b, c, d, e, f, g) ==
  /\ Tail(<<a, b, c, d, e, f, f, g>>) = <<b, c, d, e, f, f, g>>
  /\ Tail(<<b, c, d, e, f, f, g>>) = <<c, d, e, f, f, g>>
  /\ Tail(<<c, d, e, f, f, g>>) = <<d, e, f, f, g>>
  /\ <<a, b, c, d, e, f, f, g>>[1] = a /\ <<b, c, d, e, f, f, g>>[1] = b
  /\ <<c, d, e, f, f, g>>[1] = c
FiveFacts(S, d, e, f, g) ==
  /\ Tail(<<d, e, f, f, g>>) = <<e, f, f, g>> /\ <<d, e, f, f, g>>[1] = d
  /\ Tail(<<e, f, f, g>>) = <<f, f, g>> /\ <<e, f, f, g>>[1] = e
  /\ Tail(<<f, f, g>>) = <<f, g>> /\ <<f, f, g>>[1] = f
  /\ Tail(<<f, g>>) = <<g>> /\ <<f, g>>[1] = f
  /\ Tail(<<g>>) = << >> /\ <<g>>[1] = g
  /\ <<d, e, f, f, g>> \in Seq(S) /\ <<e, f, f, g>> \in Seq(S) /\ <<f, f, g>> \in Seq(S)
  /\ <<f, g>> \in Seq(S) /\ <<g>> \in Seq(S)
  /\ <<d, e, f, f, g>> # << >> /\ <<e, f, f, g>> # << >> /\ <<f, f, g>> # << >>
  /\ <<f, g>> # << >> /\ <<g>> # << >>

LEMMA EightTail ==
  ASSUME NEW a, NEW b, NEW c, NEW d, NEW e, NEW f, NEW g
  PROVE  EightFacts(a, b, c, d, e, f, g)
BY DEF EightFacts

LEMMA FiveTail ==
  ASSUME NEW S, NEW d \in S, NEW e \in S, NEW f \in S, NEW g \in S
  PROVE  FiveFacts(S, d, e, f, g)
BY DEF FiveFacts

LEMMA InitialTails ==
  /\ Tail(Initial) = AtVersion /\ Tail(AtVersion) = AtPool /\ Tail(AtPool) = After
  /\ Initial[1] = Once("magic") /\ AtVersion[1] = Once("version") /\ AtPool[1] = Once("pool")
<1> DEFINE a == Once("magic")  b == Once("version")  c == Once("pool")  d == Once("header")
           e == Once("interfaces")  f == Once("members")  g == Once("attributes")
<1> HIDE DEF a, b, c, d, e, f, g
<1>1. EightFacts(a, b, c, d, e, f, g) BY EightTail, Zenon
<1>2. Initial = <<a, b, c, d, e, f, f, g>> BY Zenon DEF Initial, a, b, c, d, e, f, g
<1>3. AtVersion = <<b, c, d, e, f, f, g>> BY Zenon DEF AtVersion, b, c, d, e, f, g
<1>4. AtPool = <<c, d, e, f, f, g>> BY Zenon DEF AtPool, c, d, e, f, g
<1>5. After = <<d, e, f, f, g>> BY Zenon DEF After, d, e, f, g
<1>6. Tail(Initial) = AtVersion /\ Initial[1] = a BY <1>1, <1>2, <1>3, Zenon DEF EightFacts
<1>7. Tail(AtVersion) = AtPool /\ AtVersion[1] = b BY <1>1, <1>3, <1>4, Zenon DEF EightFacts
<1>8. Tail(AtPool) = After /\ AtPool[1] = c BY <1>1, <1>4, <1>5, Zenon DEF EightFacts
<1> QED BY <1>6, <1>7, <1>8, Zenon DEF a, b, c

LEMMA MatchesPut ==
  ASSUME NEW f, NEW w \in Seq(Tasks), w # << >>, NEW g \in Seq(Cells), Good(f, w[1], g),
         NEW s, Matches(f, Tail(w), s)
  PROVE  Matches(f, w, g \o s)
<1> HIDE DEF Cells, Values, Tasks
<1> DEFINE t == w[1]  v == Tail(w)  z == <<t>> \o v
<1>1. /\ t \in Tasks /\ v \in Seq(Tasks) /\ Len(v) = Len(w) - 1 /\ Len(w) \in Nat \ {0}
      /\ \A i \in 1 .. Len(w) - 1 : v[i] = w[i + 1]
  BY SeqParts, Zenon
<1> HIDE DEF t, v
<1>2. Consed(Tasks, t, v, z) BY <1>1, ConsParts, Zenon
<1>3. z \in Seq(Tasks) /\ Len(z) = Len(v) + 1 /\ z[1] = t /\ \A i \in 1 .. Len(v) : z[i + 1] = v[i]
  BY <1>2, Zenon DEF Consed
<1>4. Matches(f, z, g \o s) BY <1>1, MatchesCons, Zenon DEF t, v
<1> HIDE DEF z
<1>5. Len(z) = Len(w) BY <1>1, <1>3
<1>6. \A i \in 1 .. Len(z) : z[i] = w[i]
  <2> SUFFICES ASSUME NEW i \in 1 .. Len(z) PROVE z[i] = w[i] OBVIOUS
  <2>1. CASE i = 1 BY <1>3, <2>1, Zenon DEF t
  <2>2. CASE i # 1
    <3>1. i - 1 \in 1 .. Len(w) - 1 /\ (i - 1) + 1 = i BY <1>1, <1>5, <2>2
    <3>2. z[(i - 1) + 1] = w[(i - 1) + 1] BY <1>1, <1>3, <3>1, Zenon
    <3> QED BY <3>1, <3>2, Zenon
  <2> QED BY <2>1, <2>2, Zenon
<1>7. z = w BY <1>3, <1>5, <1>6, SeqEqual, Zenon
<1> QED BY <1>4, <1>7, Zenon

LEMMA OnceType ==
  ASSUME NEW name \in TaskNames
  PROVE  Once(name) \in Tasks /\ Once(name).name = name
<1>1. 1 \in Nat OBVIOUS
<1> QED BY <1>1, TaskType, Zenon DEF Once

(* What follows the pool is what the tasks after the pool are to read. *)
LEMMA AfterMatches ==
  ASSUME NEW f, WellFormed(f)
  PROVE  Matches(f, After, Behind(f)) /\ Behind(f) \in Seq(Cells) /\ After \in Seq(Tasks)
<1> HIDE DEF Cells, Values, Tasks, Constants
<1> DEFINE d == Once("header")  e == Once("interfaces")  m == Once("members")  h == Once("attributes")
           cs == f.constants  k == InterfaceCells(f)  l == WrittenMembers(cs, f.fields)
           n == WrittenMembers(cs, f.methods)  o == WrittenAttributes(cs, f.attributes)
<1>1. "header" \in TaskNames /\ "interfaces" \in TaskNames /\ "members" \in TaskNames
      /\ "attributes" \in TaskNames
  BY DEF TaskNames
<1>2. /\ d \in Tasks /\ d.name = "header" /\ e \in Tasks /\ e.name = "interfaces"
      /\ m \in Tasks /\ m.name = "members" /\ h \in Tasks /\ h.name = "attributes"
  BY <1>1, OnceType, Zenon
<1> HIDE DEF d, e, m, h
<1>3. cs \in Seq(Constants) BY PoolIsSeq, Zenon
<1>4. f.fields \in Members(f) /\ f.methods \in Members(f) /\ f.attributes \in Attributes(f)
      /\ f.interfaces \in Nat
  BY Zenon DEF WellFormed, Members, Attributes
<1>5. l \in Seq(Cells) /\ n \in Seq(Cells) BY <1>3, <1>4, MembersType, Zenon DEF Members
<1>6. o \in Seq(Cells) BY <1>3, <1>4, AttributesType, Zenon DEF Attributes
<1>7. k \in Seq(Cells)
  <2>1. f.interfaces * 1 \in Nat BY <1>4, RepeatZeros, Zenon
  <2> QED BY <1>4, <2>1, TableType, Zenon DEF InterfaceCells
<1>8. HeaderCells \in Seq(Cells)
  <2>1. 0 \in Values BY NatValue
  <2>2. U2(0) \in Seq(Cells) BY <2>1, TypeU, Zenon
  <2>3. U2(0) \o U2(0) \in Seq(Cells) BY <2>2, Closed, Zenon
  <2> QED BY <2>2, <2>3, Closed, Zenon DEF HeaderCells
<1>9. Good(f, d, HeaderCells) BY <1>2, Zenon DEF Good, HeaderOf
<1>10. Good(f, e, k) BY <1>2, Zenon DEF Good
<1>11. Good(f, m, l) /\ Good(f, m, n)
  <2>1. MembersOf(f, l) /\ MembersOf(f, n) BY <1>4, Zenon DEF MembersOf
  <2> HIDE DEF l, n
  <2> QED BY <1>2, <2>1, Zenon DEF Good
<1>12. Good(f, h, o)
  <2>1. AttributesOf(f, o) BY <1>4, Zenon DEF AttributesOf
  <2> HIDE DEF o
  <2> QED BY <1>2, <2>1, Zenon DEF Good
<1> HIDE DEF k, l, n, o
<1>0. FiveFacts(Tasks, d, e, m, h) BY <1>2, FiveTail, Zenon
<1>13. /\ Tail(<<d, e, m, m, h>>) = <<e, m, m, h>> /\ <<d, e, m, m, h>>[1] = d
       /\ Tail(<<e, m, m, h>>) = <<m, m, h>> /\ <<e, m, m, h>>[1] = e
       /\ Tail(<<m, m, h>>) = <<m, h>> /\ <<m, m, h>>[1] = m
       /\ Tail(<<m, h>>) = <<h>> /\ <<m, h>>[1] = m
       /\ Tail(<<h>>) = << >> /\ <<h>>[1] = h
  BY <1>0, Zenon DEF FiveFacts
<1>14. /\ <<d, e, m, m, h>> \in Seq(Tasks) /\ <<e, m, m, h>> \in Seq(Tasks) /\ <<m, m, h>> \in Seq(Tasks)
       /\ <<m, h>> \in Seq(Tasks) /\ <<h>> \in Seq(Tasks)
       /\ <<d, e, m, m, h>> # << >> /\ <<e, m, m, h>> # << >> /\ <<m, m, h>> # << >>
       /\ <<m, h>> # << >> /\ <<h>> # << >>
  BY <1>0, Zenon DEF FiveFacts
<1>15. Matches(f, << >>, << >>) BY MatchesEmpty, Zenon
<1>16. Matches(f, <<h>>, o \o << >>) BY <1>6, <1>12, <1>13, <1>14, <1>15, MatchesPut, Zenon
<1>17. Matches(f, <<h>>, o)
  <2>1. o \o << >> = o BY <1>6, Concat, Zenon
  <2> QED BY <1>16, <2>1, Zenon
<1>18. Matches(f, <<m, h>>, n \o o) BY <1>5, <1>11, <1>13, <1>14, <1>17, MatchesPut, Zenon
<1>19. Matches(f, <<m, m, h>>, l \o (n \o o)) BY <1>5, <1>11, <1>13, <1>14, <1>18, MatchesPut, Zenon
<1>20. Matches(f, <<e, m, m, h>>, k \o (l \o (n \o o)))
  BY <1>7, <1>10, <1>13, <1>14, <1>19, MatchesPut, Zenon
<1>21. Matches(f, <<d, e, m, m, h>>, HeaderCells \o (k \o (l \o (n \o o))))
  BY <1>8, <1>9, <1>13, <1>14, <1>20, MatchesPut, Zenon
<1>22. Matches(f, After, Behind(f)) BY <1>21, Zenon DEF After, Behind, d, e, m, h, k, l, n, o
<1> QED BY <1>22, MatchesType, Zenon

(* The cells of the constants behind the first m *)
Remaining(cs, m) == FlattenSeq(SubSeq(ConstantCells(cs), m + 1, Len(cs)))
LeftAfter(cs, m) ==
  /\ Remaining(cs, m) = ConstantCells(cs)[m + 1] \o Remaining(cs, m + 1)
  /\ Remaining(cs, m + 1) \in Seq(Cells) /\ Remaining(cs, m) \in Seq(Cells)

LEMMA RemainingType ==
  ASSUME NEW cs, WellFormedPool(cs), NEW m \in 0 .. Len(cs)
  PROVE  /\ Remaining(cs, m) \in Seq(Cells)
         /\ SubSeq(ConstantCells(cs), m + 1, Len(cs)) \in Seq(Seq(Cells))
<1> HIDE DEF Cells, Values, Constants
<1> DEFINE x == ConstantCells(cs)  n == Len(cs)
<1>1. x \in Seq(Seq(Cells)) /\ Len(x) = n /\ n \in Nat BY ConstantCellsType, Zenon
<1> HIDE DEF x, n
<1>2. \A i \in 1 .. n : x[i] \in Seq(Cells) BY <1>1, ElementOfSeq, Zenon
<1>3. \A i \in m + 1 .. n : i \in 1 .. n
  <2>1. m \in Nat BY <1>1 DEF n
  <2> QED BY <1>1, <2>1
<1>4. \A i \in m + 1 .. n : x[i] \in Seq(Cells) BY <1>2, <1>3, Zenon
<1>5. m + 1 \in Int /\ n \in Int BY <1>1 DEF n
<1>6. SubSeq(x, m + 1, n) \in Seq(Seq(Cells)) BY <1>4, <1>5, SubSeqProperties, Zenon
<1> QED BY <1>6, FlattenType, Zenon DEF Remaining, x, n

LEMMA RemainingStep ==
  ASSUME NEW cs, WellFormedPool(cs), NEW m \in 0 .. Len(cs) - 1
  PROVE  LeftAfter(cs, m)
<1> HIDE DEF Cells, Values, Constants
<1> DEFINE x == ConstantCells(cs)  n == Len(cs)  y == SubSeq(x, (m + 1) + 1, n)  z == SubSeq(x, m + 1, n)
<1>1. x \in Seq(Seq(Cells)) /\ Len(x) = n /\ n \in Nat BY ConstantCellsType, Zenon
<1>2. m \in 0 .. n /\ m + 1 \in 0 .. n /\ m + 1 \in 1 .. n /\ n \in m + 1 .. n BY <1>1
<1>3. y \in Seq(Seq(Cells)) /\ Remaining(cs, m + 1) \in Seq(Cells) /\ Remaining(cs, m) \in Seq(Cells)
  BY <1>2, RemainingType, Zenon
<1>4. x[m + 1] \in Seq(Cells) BY <1>1, <1>2, ElementOfSeq, Zenon
<1> HIDE DEF n, x
<1>5. z = <<x[m + 1]>> \o y BY <1>1, <1>2, SubSeqRecursiveFirst, Zenon
<1> DEFINE e == x[m + 1]
<1> HIDE DEF e, y, z
<1>6. Consed(Seq(Cells), e, y, z)
  <2>1. Consed(Seq(Cells), e, y, <<e>> \o y) BY <1>3, <1>4, ConsParts, Zenon DEF e
  <2> QED BY <1>5, <2>1, Zenon DEF e
<1>7. z \in Seq(Seq(Cells)) /\ z # << >> /\ z[1] = e /\ Tail(z) = y BY <1>6, Zenon DEF Consed
<1>8. FlattenSeq(z) = e \o FlattenSeq(y) BY <1>7, FlattenCons, Zenon
<1>9. Remaining(cs, m) = FlattenSeq(z) /\ Remaining(cs, m + 1) = FlattenSeq(y)
  BY Zenon DEF Remaining, z, y, x, n
<1> QED BY <1>3, <1>8, <1>9, Zenon DEF LeftAfter, e, x

LEMMA RemainingEnds ==
  ASSUME NEW cs, WellFormedPool(cs)
  PROVE  /\ Remaining(cs, 0) = FlattenSeq(ConstantCells(cs))
         /\ Remaining(cs, Len(cs)) = << >>
<1> HIDE DEF Cells, Values, Constants
<1> DEFINE x == ConstantCells(cs)  n == Len(cs)
<1>1. x \in Seq(Seq(Cells)) /\ Len(x) = n /\ n \in Nat BY ConstantCellsType, Zenon
<1> HIDE DEF x, n
<1>2. SubSeq(x, 1, n) = x BY <1>1, SubSeqFull, Zenon
<1>3. n + 1 \in Int /\ n \in Int /\ n < n + 1 /\ 0 + 1 = 1 BY <1>1
<1>4. SubSeq(x, n + 1, n) = << >> BY <1>3, SubSeqEmpty, Zenon
<1>5. Remaining(cs, 0) = FlattenSeq(x) BY <1>2, <1>3, Zenon DEF Remaining, x, n
<1>6. Remaining(cs, n) = FlattenSeq(<< >>) BY <1>4, Zenon DEF Remaining, x, n
<1> QED BY <1>5, <1>6, FlattenEmpty, Zenon DEF x, n

(* The pool grows by the entries of the next constant. *)
LEMMA GrowParsed ==
  ASSUME NEW cs, NEW T, cs \in Seq(T), NEW m \in 0 .. Len(cs) - 1, NEW q, Parsed(q, cs, m),
         NEW info, InfoOf(info, cs[m + 1])
  PROVE  Parsed(q \o Entries(info), cs, m + 1) /\ Len(q \o Entries(info)) = Number(cs)[(m + 1) + 1]
<1> DEFINE t == Number(cs)  n == Len(cs)  x == Entries(info)  c == cs[m + 1]  z == q \o x
<1>1. /\ t \in [1 .. n + 1 -> Nat \ {0}] /\ n \in Nat
      /\ \A i \in 1 .. n : t[i + 1] = t[i] + NumbersOf(cs[i])
      /\ \A i, j \in 1 .. n + 1 : i < j => t[i] < t[j]
  BY NumberStep, NumberOrder, Zenon
<1>2. Len(q) = t[m + 1] /\ \A i \in 1 .. m : InfoOf(q[t[i] + 1], cs[i]) BY Zenon DEF Parsed
<1>3. PICK S : q \in Seq(S) BY Zenon DEF Parsed
<1>4. info.kind = c.kind BY Zenon DEF InfoOf
<1> DEFINE U == S \cup {info, Null}
<1>5. x \in Seq(U) /\ Len(x) = NumbersOf(c) /\ x[1] = info
  <2> DEFINE nil == Null
  <2> HIDE DEF nil
  <2>1. <<info, nil>> \in Seq({info, nil}) /\ Len(<<info, nil>>) = 2 /\ <<info, nil>>[1] = info
        /\ <<info>> \in Seq({info, nil}) /\ Len(<<info>>) = 1 /\ <<info>>[1] = info
    OBVIOUS
  <2>2. {info, nil} \subseteq U BY Zenon DEF nil
  <2>3. <<info, nil>> \in Seq(U) /\ <<info>> \in Seq(U) BY <2>1, <2>2, SeqSubset, Zenon
  <2>4. CASE info.kind \in Wide
    <3>1. x = <<info, nil>> BY <2>4, Zenon DEF Entries, nil
    <3>2. NumbersOf(c) = 2 BY <1>4, <2>4, Zenon DEF NumbersOf
    <3> QED BY <2>1, <2>3, <3>1, <3>2, Zenon
  <2>5. CASE info.kind \notin Wide
    <3>1. x = <<info>> BY <2>5, Zenon DEF Entries
    <3>2. NumbersOf(c) = 1 BY <1>4, <2>5, Zenon DEF NumbersOf
    <3> QED BY <2>1, <2>3, <3>1, <3>2, Zenon
  <2> QED BY <2>4, <2>5, Zenon
<1>6. q \in Seq(U)
  <2>1. S \subseteq U BY Zenon
  <2> QED BY <1>3, <2>1, SeqSubset, Zenon
<1> HIDE DEF x, U, n, t, c
<1>7. /\ z \in Seq(U) /\ Len(z) = Len(q) + Len(x)
      /\ \A i \in 1 .. Len(q) + Len(x) : z[i] = IF i <= Len(q) THEN q[i] ELSE x[i - Len(q)]
  BY <1>5, <1>6, ConcatProperties, Zenon
<1> HIDE DEF z
<1>8. m \in Nat /\ m + 1 \in 1 .. n /\ m + 1 \in 1 .. n + 1 /\ (m + 1) + 1 \in 1 .. n + 1
  BY <1>1 DEF n
<1>9. t[(m + 1) + 1] = t[m + 1] + NumbersOf(c) BY <1>1, <1>8, Zenon DEF c
<1>10. NumbersOf(c) \in {1, 2} BY DEF NumbersOf
<1>11. Len(z) = t[(m + 1) + 1] BY <1>2, <1>5, <1>7, <1>9, Zenon
<1>12. \A i \in 1 .. m + 1 : InfoOf(z[t[i] + 1], cs[i])
  <2> SUFFICES ASSUME NEW i \in 1 .. m + 1 PROVE InfoOf(z[t[i] + 1], cs[i]) OBVIOUS
  <2>1. CASE i = m + 1
    <3>1. t[m + 1] \in Nat \ {0} BY <1>1, <1>8
    <3>2. t[m + 1] + 1 \in 1 .. Len(q) + Len(x) /\ ~ (t[m + 1] + 1 <= Len(q))
          /\ (t[m + 1] + 1) - Len(q) = 1
      BY <1>2, <1>5, <1>10, <3>1
    <3>3. z[t[m + 1] + 1] = x[(t[m + 1] + 1) - Len(q)] BY <1>7, <3>2, Zenon
    <3>4. z[t[m + 1] + 1] = info BY <1>5, <3>2, <3>3, Zenon
    <3> QED BY <2>1, <3>4, Zenon
  <2>2. CASE i # m + 1
    <3>1. i \in 1 .. m /\ i \in 1 .. n + 1 /\ i < m + 1 BY <1>1, <1>8, <2>2
    <3>2. t[i] < t[m + 1] BY <1>1, <1>8, <3>1, Zenon
    <3>3. t[i] \in Nat \ {0} /\ t[m + 1] \in Nat BY <1>1, <1>8, <3>1
    <3>4. t[i] + 1 \in 1 .. Len(q) + Len(x) /\ t[i] + 1 <= Len(q) BY <1>2, <1>5, <1>10, <3>2, <3>3
    <3>5. z[t[i] + 1] = q[t[i] + 1] BY <1>7, <3>4, Zenon
    <3> QED BY <1>2, <3>1, <3>5, Zenon
  <2> QED BY <2>1, <2>2, Zenon
<1> QED BY <1>7, <1>11, <1>12, Zenon DEF Parsed, z, x, t

(* The count of the pool is read where it was written. *)
LEMMA Beginning ==
  ASSUME Ready, WellFormed(file)
  PROVE  /\ Fits(0, <<4>>) /\ ValueAt(0) = file.magic
         /\ Fits(4, <<2, 2>>) /\ ValueAt(4) = file.minor /\ ValueAt(6) = file.major
         /\ Fits(8, <<2>>) /\ ValueAt(8) = PoolCount(file)
         /\ At(10, Remaining(file.constants, 0) \o Behind(file))
<1> HIDE DEF Cells, Values, Constants
<1> DEFINE a == U4(file.magic)  b == VersionCells(file)  c == U2(PoolCount(file))
           d == FlattenSeq(ConstantCells(file.constants))  e == Behind(file)
<1>1. /\ a \in Seq(Cells) /\ b \in Seq(Cells) /\ c \in Seq(Cells) /\ d \in Seq(Cells) /\ e \in Seq(Cells)
      /\ WrittenFields(file) = a \o (b \o (c \o (d \o e)))
  BY FileIs, Zenon
<1>2. At(0, WrittenFields(file)) BY AtStart, Zenon DEF Ready
<1>3. At(0, a \o (b \o (c \o (d \o e)))) BY <1>1, <1>2, Zenon
<1> HIDE DEF d, e
<1>4. d \o e \in Seq(Cells) BY <1>1, Closed, Zenon
<1>5. c \o (d \o e) \in Seq(Cells) BY <1>1, <1>4, Closed, Zenon
<1>6. b \o (c \o (d \o e)) \in Seq(Cells) BY <1>1, <1>5, Closed, Zenon
<1>7. file.minor \in Nat /\ file.major \in Nat /\ file.magic \in BOOLEAN BY Zenon DEF WellFormed
<1>8. file.minor \in Values /\ file.major \in Values /\ file.magic \in Values /\ PoolCount(file) \in Values
  <2>1. file.magic \in Values BY <1>7, Zenon DEF Values
  <2>2. Number(file.constants) \in [1 .. Len(file.constants) + 1 -> Nat \ {0}] /\ Len(file.constants) \in Nat
    BY PoolIsSeq, NumberStep, Zenon
  <2>3. Len(file.constants) + 1 \in 1 .. Len(file.constants) + 1 BY <2>2
  <2>4. PoolCount(file) \in Nat BY <2>2, <2>3, Zenon DEF PoolCount
  <2> QED BY <1>7, <2>1, <2>4, NatValue, Zenon
<1>9. 2 \in Nat \ {0} /\ 4 \in Nat \ {0} /\ 0 + 4 = 4 /\ 4 + 2 + 2 = 8 /\ 4 + 2 = 6 /\ 8 + 2 = 10
  OBVIOUS
<1>10. Fits(0, <<4>>) /\ ValueAt(0) = file.magic /\ At(4, b \o (c \o (d \o e)))
  <2>1. OneAt(0, 4, file.magic, b \o (c \o (d \o e)))
    BY <1>3, <1>6, <1>8, <1>9, Zenon DEF OneAt, U4
  <2>2. OneRead(0, 4, file.magic, b \o (c \o (d \o e))) BY <2>1, ReadOne, Zenon
  <2> QED BY <1>9, <2>2, Zenon DEF OneRead
<1>11. Fits(4, <<2, 2>>) /\ ValueAt(4) = file.minor /\ ValueAt(6) = file.major /\ At(8, c \o (d \o e))
  <2>1. TwoAt(4, 2, file.minor, 2, file.major, c \o (d \o e))
    BY <1>5, <1>8, <1>9, <1>10, Zenon DEF TwoAt, VersionCells, U2
  <2>2. TwoRead(4, 2, file.minor, 2, file.major, c \o (d \o e)) BY <2>1, ReadTwo, Zenon
  <2> QED BY <1>9, <2>2, Zenon DEF TwoRead
<1>12. Fits(8, <<2>>) /\ ValueAt(8) = PoolCount(file) /\ At(10, d \o e)
  <2>1. OneAt(8, 2, PoolCount(file), d \o e) BY <1>4, <1>8, <1>9, <1>11, Zenon DEF OneAt, U2
  <2>2. OneRead(8, 2, PoolCount(file), d \o e) BY <2>1, ReadOne, Zenon
  <2> QED BY <1>9, <2>2, Zenon DEF OneRead
<1>13. Remaining(file.constants, 0) = d BY PoolIsSeq, RemainingEnds, Zenon DEF d
<1>14. At(10, Remaining(file.constants, 0) \o Behind(file)) BY <1>12, <1>13, Zenon DEF e
<1> QED BY <1>10, <1>11, <1>12, <1>14, Zenon

(* The next constant is read, whatever its parser makes of it. *)
ReadOn(read, m) ==
  /\ read.fits /\ At(read.end, Remaining(file.constants, m + 1) \o Behind(file))
  /\ \A info \in read.infos : InfoOf(info, file.constants[m + 1])

LEMMA ConstantStep ==
  ASSUME Ready, WellFormed(file), NEW m \in 0 .. Len(file.constants) - 1,
         At(pos, Remaining(file.constants, m) \o Behind(file))
  PROVE  Fits(pos, <<1>>) /\ ReadOn(ReadConstant(ValueAt(pos), pos + 1), m)
<1> HIDE DEF Cells, Values, Constants
<1> DEFINE cs == file.constants  c == cs[m + 1]  x == U1(c.kind)  y == Operands(c)
           s == Remaining(cs, m + 1)  e == Behind(file)
<1>1. WellFormedPool(cs) BY PoolIsSeq, Zenon
<1>2. /\ Len(cs) \in Nat
      /\ \A i \in 1 .. Len(cs) : /\ cs[i] \in Constants
                                 /\ Len(cs[i].refs) = RefCount(cs[i].kind)
                                 /\ ConstantCells(cs)[i] = U1(cs[i].kind) \o Operands(cs[i])
  BY <1>1, ConstantCellsType, Zenon
<1>3. m + 1 \in 1 .. Len(cs) BY <1>2
<1>4. c \in Constants /\ Len(c.refs) = RefCount(c.kind) /\ ConstantCells(cs)[m + 1] = x \o y
  BY <1>2, <1>3, Zenon
<1>5. LeftAfter(cs, m) BY <1>1, RemainingStep, Zenon
<1>6. Remaining(cs, m) = (x \o y) \o s /\ s \in Seq(Cells) BY <1>4, <1>5, Zenon DEF LeftAfter
<1>7. e \in Seq(Cells) BY FileIs, Zenon
<1>8. y \in Seq(Cells) BY <1>4, OperandsType, Zenon
<1>9. c.kind \in Values BY <1>4, ConstantFacts, Zenon
<1>10. x \in Seq(Cells) BY <1>9, TypeU, Zenon
<1> HIDE DEF c, s, e, y
<1>11. s \o e \in Seq(Cells) /\ y \o (s \o e) \in Seq(Cells) BY <1>6, <1>7, <1>8, Closed, Zenon
<1>12. At(pos, x \o (y \o (s \o e)))
  <2> HIDE DEF x
  <2>1. Lists(x \o y, s, e)
    <3>1. x \o y \in Seq(Cells) BY <1>8, <1>10, Closed, Zenon
    <3> QED BY <1>6, <1>7, <3>1, Zenon DEF Lists
  <2>2. Joined(x \o y, s, e) BY <2>1, Assoc, Zenon
  <2>3. Lists(x, y, s \o e) BY <1>8, <1>10, <1>11, Zenon DEF Lists
  <2>4. Joined(x, y, s \o e) BY <2>3, Assoc, Zenon
  <2>5. ((x \o y) \o s) \o e = x \o (y \o (s \o e)) BY <2>2, <2>4, Zenon DEF Joined
  <2>6. At(pos, Remaining(cs, m) \o e) BY Zenon DEF e
  <2> QED BY <1>6, <2>5, <2>6, Zenon
<1>13. 1 \in Nat \ {0} OBVIOUS
<1>14. OneAt(pos, 1, c.kind, y \o (s \o e)) BY <1>9, <1>11, <1>12, <1>13, Zenon DEF OneAt, U1
<1>15. OneRead(pos, 1, c.kind, y \o (s \o e)) BY <1>14, ReadOne, Zenon
<1>16. Fits(pos, <<1>>) /\ ValueAt(pos) = c.kind /\ At(pos + 1, y \o (s \o e))
  BY <1>15, Zenon DEF OneRead
<1> DEFINE read == ReadConstant(c.kind, pos + 1)
<1>17. read.fits /\ At(read.end, s \o e) /\ \A info \in read.infos : InfoOf(info, c)
  BY <1>4, <1>11, <1>16, ConstantReads, Zenon DEF y
<1> HIDE DEF read
<1>18. ReadOn(read, m) BY <1>17, Zenon DEF ReadOn, s, e, c
<1> QED BY <1>16, <1>18, Zenon DEF read

-----------------------------------------------------------------------------
(* The run-time pool *)

(* Entry r is that of the constant with number r, of this kind. *)
Leads(cs, r, kind) ==
  /\ InfoOf(Info(r), Numbered(cs, r)) /\ Numbered(cs, r).kind = kind
  /\ \E j \in 1 .. Len(cs) : Numbered(cs, r) = cs[j]

LEMMA FollowsLead ==
  ASSUME NEW cs, WellFormedPool(cs), Parsed(infos, cs, Len(cs)), NEW i \in 1 .. Len(cs),
         NEW x \in DOMAIN Follows(cs[i].kind)
  PROVE  Leads(cs, cs[i].refs[x], Follows(cs[i].kind)[x])
<1> HIDE DEF Constants
<1>1. cs \in Seq(Constants) /\ DOMAIN cs = 1 .. Len(cs) BY ConstantCellsType, Zenon
<1>2. PICK j \in DOMAIN cs : Number(cs)[j] = cs[i].refs[x] /\ cs[j].kind = Follows(cs[i].kind)[x]
  BY <1>1, Zenon DEF WellFormedPool
<1>3. j \in 1 .. Len(cs) BY <1>1, Zenon
<1>4. Numbered(cs, Number(cs)[j]) = cs[j] BY <1>1, <1>3, NumberedIs, Zenon
<1>5. InfoOf(Info(Number(cs)[j]), cs[j]) BY <1>1, <1>3, InfoAt, Zenon
<1> QED BY <1>2, <1>3, <1>4, <1>5, Zenon DEF Leads

LEMMA FollowsIs ==
  ASSUME NEW kind
  PROVE  /\ kind \in Named => 1 \in DOMAIN Follows(kind) /\ Follows(kind)[1] = "Utf8"
         /\ kind = "NameAndType" => /\ 1 \in DOMAIN Follows(kind) /\ Follows(kind)[1] = "Utf8"
                                    /\ 2 \in DOMAIN Follows(kind) /\ Follows(kind)[2] = "Utf8"
         /\ kind \in MemberRefs => /\ 1 \in DOMAIN Follows(kind) /\ Follows(kind)[1] = "Class"
                                   /\ 2 \in DOMAIN Follows(kind) /\ Follows(kind)[2] = "NameAndType"
<1> DEFINE a == <<"Utf8">>  b == <<"Utf8", "Utf8">>  c == <<"Class", "NameAndType">>  d == << >>
<1>1. Follows(kind) = CASE kind \in Named -> a
                        [] kind = "NameAndType" -> b
                        [] kind \in MemberRefs -> c
                        [] OTHER -> d
  BY Zenon DEF Follows
<1>2. /\ 1 \in DOMAIN a /\ a[1] = "Utf8" /\ 1 \in DOMAIN b /\ b[1] = "Utf8" /\ 2 \in DOMAIN b
      /\ b[2] = "Utf8" /\ 1 \in DOMAIN c /\ c[1] = "Class" /\ 2 \in DOMAIN c /\ c[2] = "NameAndType"
  OBVIOUS
<1> HIDE DEF a, b, c, d
<1>3. kind \in Named => Follows(kind) = a BY <1>1 DEF Named, MemberRefs
<1>4. kind = "NameAndType" => Follows(kind) = b BY <1>1 DEF Named, MemberRefs
<1>5. kind \in MemberRefs => Follows(kind) = c BY <1>1 DEF Named, MemberRefs
<1> QED BY <1>2, <1>3, <1>4, <1>5, Zenon

(* A class, a string, and the name and type of a member lead to texts. *)
TextOf(cs, r) == Info(r).kind = "Utf8" /\ Info(r).text = Numbered(cs, r).text

LEMMA LeadsText ==
  ASSUME NEW cs, NEW r, Leads(cs, r, "Utf8")
  PROVE  TextOf(cs, r)
BY Zenon DEF Leads, InfoOf, TextOf

LEMMA RefKinds ==
  /\ Named \subseteq OfRefs /\ MemberRefs \subseteq OfRefs /\ "NameAndType" \in OfRefs
  /\ "Class" \in Named /\ "Class" \in OfRefs
BY DEF Named, MemberRefs, OfRefs, Kinds, Numbers, Wide

LEMMA ClassLeads ==
  ASSUME NEW cs, WellFormedPool(cs), Parsed(infos, cs, Len(cs)), NEW r, Leads(cs, r, "Class")
  PROVE  /\ Info(r).kind = "Class" /\ Info(r).refs = Numbered(cs, r).refs
         /\ TextOf(cs, Info(r).refs[1])
<1>1. PICK j \in 1 .. Len(cs) : Numbered(cs, r) = cs[j] BY Zenon DEF Leads
<1>2. InfoOf(Info(r), cs[j]) /\ cs[j].kind = "Class" BY <1>1, Zenon DEF Leads
<1>3. Info(r).kind = "Class" /\ Info(r).refs = cs[j].refs BY <1>2, RefKinds, Zenon DEF InfoOf
<1>4. 1 \in DOMAIN Follows(cs[j].kind) /\ Follows(cs[j].kind)[1] = "Utf8"
  BY <1>2, RefKinds, FollowsIs, Zenon
<1>5. Leads(cs, cs[j].refs[1], "Utf8")
  <2>1. Leads(cs, cs[j].refs[1], Follows(cs[j].kind)[1]) BY <1>4, FollowsLead, Zenon
  <2> QED BY <1>4, <2>1, Zenon
<1>6. TextOf(cs, cs[j].refs[1]) BY <1>5, LeadsText, Zenon
<1> QED BY <1>1, <1>3, <1>6, Zenon

LEMMA NameAndTypeLeads ==
  ASSUME NEW cs, WellFormedPool(cs), Parsed(infos, cs, Len(cs)), NEW r, Leads(cs, r, "NameAndType")
  PROVE  /\ Info(r).kind = "NameAndType" /\ Info(r).refs = Numbered(cs, r).refs
         /\ TextOf(cs, Info(r).refs[1]) /\ TextOf(cs, Info(r).refs[2])
<1>1. PICK j \in 1 .. Len(cs) : Numbered(cs, r) = cs[j] BY Zenon DEF Leads
<1>2. InfoOf(Info(r), cs[j]) /\ cs[j].kind = "NameAndType" BY <1>1, Zenon DEF Leads
<1>3. Info(r).kind = "NameAndType" /\ Info(r).refs = cs[j].refs BY <1>2, RefKinds, Zenon DEF InfoOf
<1>4. /\ 1 \in DOMAIN Follows(cs[j].kind) /\ Follows(cs[j].kind)[1] = "Utf8"
      /\ 2 \in DOMAIN Follows(cs[j].kind) /\ Follows(cs[j].kind)[2] = "Utf8"
  BY <1>2, FollowsIs, Zenon
<1>5. Leads(cs, cs[j].refs[1], "Utf8")
  <2>1. Leads(cs, cs[j].refs[1], Follows(cs[j].kind)[1]) BY <1>4, FollowsLead, Zenon
  <2> QED BY <1>4, <2>1, Zenon
<1>6. Leads(cs, cs[j].refs[2], "Utf8")
  <2>1. Leads(cs, cs[j].refs[2], Follows(cs[j].kind)[2]) BY <1>4, FollowsLead, Zenon
  <2> QED BY <1>4, <2>1, Zenon
<1>7. TextOf(cs, cs[j].refs[1]) /\ TextOf(cs, cs[j].refs[2]) BY <1>5, <1>6, LeadsText, Zenon
<1> QED BY <1>1, <1>3, <1>7, Zenon

ClassCasts(r) ==
  {<<r, "Class">>} \cup IF Info(r).kind = "Class" THEN {<<Info(r).refs[1], "Utf8">>} ELSE {}
NameAndTypeCasts(r) ==
  {<<r, "NameAndType">>} \cup
    IF Info(r).kind = "NameAndType"
    THEN {<<Info(r).refs[1], "Utf8">>, <<Info(r).refs[2], "Utf8">>} ELSE {}

LEMMA CastsCases ==
  ASSUME NEW k
  PROVE  /\ Info(k).kind \in Named => Casts(k) = {<<Info(k).refs[1], "Utf8">>}
         /\ Info(k).kind \in MemberRefs
              => Casts(k) = ClassCasts(Info(k).refs[1]) \cup NameAndTypeCasts(Info(k).refs[2])
         /\ Info(k).kind \notin Named \cup MemberRefs => Casts(k) = {}
<1> DEFINE kind == Info(k).kind  a == {<<Info(k).refs[1], "Utf8">>}
           b == ClassCasts(Info(k).refs[1]) \cup NameAndTypeCasts(Info(k).refs[2])  c == {}
<1>1. Casts(k) = CASE kind \in Named -> a [] kind \in MemberRefs -> b [] OTHER -> c
  BY Zenon DEF Casts, ClassCasts, NameAndTypeCasts
<1> HIDE DEF a, b, c, kind
<1>2. kind \in Named => Casts(k) = a BY <1>1 DEF Named, MemberRefs
<1>3. kind \in MemberRefs => Casts(k) = b BY <1>1 DEF Named, MemberRefs
<1>4. kind \notin Named \cup MemberRefs => Casts(k) = c BY <1>1 DEF Named, MemberRefs
<1> QED BY <1>2, <1>3, <1>4, Zenon DEF a, b, c, kind

(* Every entry is of the kind it is cast to. *)
CastRight(cast) == Info(cast[1]).kind = cast[2]

LEMMA CastOf ==
  ASSUME NEW r, NEW kind, Info(r).kind = kind
  PROVE  CastRight(<<r, kind>>)
<1>1. <<r, kind>>[1] = r /\ <<r, kind>>[2] = kind OBVIOUS
<1> QED BY <1>1, Zenon DEF CastRight

LEMMA MemberLeads ==
  ASSUME NEW cs, WellFormedPool(cs), Parsed(infos, cs, Len(cs)), NEW i \in 1 .. Len(cs),
         cs[i].kind \in MemberRefs
  PROVE  Leads(cs, cs[i].refs[1], "Class") /\ Leads(cs, cs[i].refs[2], "NameAndType")
<1>1. /\ 1 \in DOMAIN Follows(cs[i].kind) /\ Follows(cs[i].kind)[1] = "Class"
      /\ 2 \in DOMAIN Follows(cs[i].kind) /\ Follows(cs[i].kind)[2] = "NameAndType"
  BY FollowsIs, Zenon
<1>2. Leads(cs, cs[i].refs[1], Follows(cs[i].kind)[1]) BY <1>1, FollowsLead, Zenon
<1>3. Leads(cs, cs[i].refs[2], Follows(cs[i].kind)[2]) BY <1>1, FollowsLead, Zenon
<1> QED BY <1>1, <1>2, <1>3, Zenon

LEMMA NamedLeads ==
  ASSUME NEW cs, WellFormedPool(cs), Parsed(infos, cs, Len(cs)), NEW i \in 1 .. Len(cs),
         cs[i].kind \in Named
  PROVE  TextOf(cs, cs[i].refs[1])
<1>1. 1 \in DOMAIN Follows(cs[i].kind) /\ Follows(cs[i].kind)[1] = "Utf8" BY FollowsIs, Zenon
<1>2. Leads(cs, cs[i].refs[1], Follows(cs[i].kind)[1]) BY <1>1, FollowsLead, Zenon
<1>3. Leads(cs, cs[i].refs[1], "Utf8") BY <1>1, <1>2, Zenon
<1> QED BY <1>3, LeadsText, Zenon

LEMMA CastsRight ==
  ASSUME NEW cs, WellFormedPool(cs), Parsed(infos, cs, Len(cs)), NEW i \in 1 .. Len(cs)
  PROVE  \A cast \in Casts(Number(cs)[i]) : CastRight(cast)
<1> HIDE DEF Constants
<1> DEFINE k == Number(cs)[i]  c == cs[i]
<1>1. cs \in Seq(Constants) BY ConstantCellsType, Zenon
<1>2. InfoOf(Info(k), c) BY <1>1, InfoAt, Zenon
<1>3. Info(k).kind = c.kind /\ (c.kind \in OfRefs => Info(k).refs = c.refs) BY <1>2, Zenon DEF InfoOf
<1>4. CASE c.kind \in Named
  <2>1. Info(k).refs = c.refs BY <1>3, <1>4, RefKinds, Zenon
  <2>2. TextOf(cs, c.refs[1]) BY <1>4, NamedLeads, Zenon
  <2>3. CastRight(<<c.refs[1], "Utf8">>) BY <2>2, CastOf, Zenon DEF TextOf
  <2>4. Casts(k) = {<<Info(k).refs[1], "Utf8">>} BY <1>3, <1>4, CastsCases, Zenon
  <2>5. Casts(k) = {<<c.refs[1], "Utf8">>} BY <2>1, <2>4, Zenon
  <2> QED BY <2>3, <2>5, Zenon
<1>5. CASE c.kind \in MemberRefs
  <2> DEFINE a == c.refs[1]  b == c.refs[2]
  <2>1. Info(k).refs = c.refs BY <1>3, <1>5, RefKinds, Zenon
  <2>2. Leads(cs, a, "Class") /\ Leads(cs, b, "NameAndType") BY <1>5, MemberLeads, Zenon
  <2>3. Info(a).kind = "Class" /\ TextOf(cs, Info(a).refs[1]) BY <2>2, ClassLeads, Zenon
  <2>4. Info(b).kind = "NameAndType" /\ TextOf(cs, Info(b).refs[1]) /\ TextOf(cs, Info(b).refs[2])
    BY <2>2, NameAndTypeLeads, Zenon
  <2>5. CastRight(<<a, "Class">>) /\ CastRight(<<b, "NameAndType">>) BY <2>3, <2>4, CastOf, Zenon
  <2>6. /\ CastRight(<<Info(a).refs[1], "Utf8">>) /\ CastRight(<<Info(b).refs[1], "Utf8">>)
        /\ CastRight(<<Info(b).refs[2], "Utf8">>)
    BY <2>3, <2>4, CastOf, Zenon DEF TextOf
  <2>7. ClassCasts(a) = {<<a, "Class">>} \cup {<<Info(a).refs[1], "Utf8">>} BY <2>3, Zenon DEF ClassCasts
  <2>8. NameAndTypeCasts(b) =
          {<<b, "NameAndType">>} \cup {<<Info(b).refs[1], "Utf8">>, <<Info(b).refs[2], "Utf8">>}
    BY <2>4, Zenon DEF NameAndTypeCasts
  <2>9. \A cast \in ClassCasts(a) : CastRight(cast) BY <2>5, <2>6, <2>7, Zenon
  <2>10. \A cast \in NameAndTypeCasts(b) : CastRight(cast) BY <2>5, <2>6, <2>8, Zenon
  <2>11. Casts(k) = ClassCasts(Info(k).refs[1]) \cup NameAndTypeCasts(Info(k).refs[2])
    BY <1>3, <1>5, CastsCases, Zenon
  <2>12. Casts(k) = ClassCasts(a) \cup NameAndTypeCasts(b) BY <2>1, <2>11, Zenon
  <2> QED BY <2>9, <2>10, <2>12, Zenon
<1>6. CASE c.kind \notin Named \cup MemberRefs
  <2>1. Casts(k) = {} BY <1>3, <1>6, CastsCases, Zenon
  <2> QED BY <2>1, Zenon
<1> QED BY <1>4, <1>5, <1>6, Zenon

LEMMA TagIs ==
  ASSUME NEW kind
  PROVE  /\ kind = "String" => TagOf(kind) = "Utf8"
         /\ kind = "InterfaceMethodRef" => TagOf(kind) = "MethodRef"
         /\ kind \notin {"String", "InterfaceMethodRef"} => TagOf(kind) = kind
BY DEF TagOf

(* The constants that have an object in the run-time pool *)
Kept == Numbers \cup Named \cup MemberRefs

LEMMA KindParts ==
  ASSUME NEW kind
  PROVE  /\ kind \in Named => kind = "String" \/ kind = "Class"
         /\ kind \in Numbers => kind \notin Named /\ kind \notin MemberRefs
                                /\ kind \notin {"String", "InterfaceMethodRef"}
         /\ kind \in MemberRefs => kind \notin Named /\ kind \notin Numbers /\ kind # "String"
         /\ kind \in MemberRefs =>
              TagOf(kind) = IF kind = "FieldRef" THEN "FieldRef" ELSE "MethodRef"
         /\ kind \in Named => kind \notin Numbers /\ kind \notin MemberRefs
         /\ kind \in Wide => kind \in Numbers
         /\ "Utf8" \notin Wide /\ "Class" \notin Wide /\ "FieldRef" \notin Wide
         /\ "MethodRef" \notin Wide /\ "null" \notin Wide /\ "null" \notin Kinds
         /\ "Class" \notin {"String", "InterfaceMethodRef"}
<1>1. kind \in MemberRefs => TagOf(kind) = IF kind = "FieldRef" THEN "FieldRef" ELSE "MethodRef"
  BY DEF MemberRefs, TagOf
<1> QED BY <1>1 DEF Named, Numbers, Wide, MemberRefs, Kinds

LEMMA NamesCases ==
  ASSUME NEW cs, NEW k, NEW c, Numbered(cs, k) = c
  PROVE  /\ c.kind \in Named => NamesOf(cs, k) = <<Numbered(cs, c.refs[1]).text>>
         /\ c.kind \in MemberRefs =>
              NamesOf(cs, k) = <<Numbered(cs, Numbered(cs, c.refs[1]).refs[1]).text,
                                 Numbered(cs, Numbered(cs, c.refs[2]).refs[1]).text,
                                 Numbered(cs, Numbered(cs, c.refs[2]).refs[2]).text>>
         /\ c.kind \notin Named \cup MemberRefs => NamesOf(cs, k) = << >>
<1> DEFINE kind == c.kind  a == <<Numbered(cs, c.refs[1]).text>>
           b == <<Numbered(cs, Numbered(cs, c.refs[1]).refs[1]).text,
                  Numbered(cs, Numbered(cs, c.refs[2]).refs[1]).text,
                  Numbered(cs, Numbered(cs, c.refs[2]).refs[2]).text>>
           d == << >>
<1>1. NamesOf(cs, k) = CASE kind \in Named -> a [] kind \in MemberRefs -> b [] OTHER -> d
  BY Zenon DEF NamesOf
<1> HIDE DEF a, b, d, kind
<1>2. kind \in Named => NamesOf(cs, k) = a BY <1>1 DEF Named, MemberRefs
<1>3. kind \in MemberRefs => NamesOf(cs, k) = b BY <1>1 DEF Named, MemberRefs
<1>4. kind \notin Named \cup MemberRefs => NamesOf(cs, k) = d BY <1>1 DEF Named, MemberRefs
<1> QED BY <1>2, <1>3, <1>4, Zenon DEF a, b, d, kind

RefConstant(info) ==
  Constant(IF info.kind = "FieldRef" THEN "FieldRef" ELSE "MethodRef", {},
           <<Text(Info(info.refs[1]).refs[1]), Text(Info(info.refs[2]).refs[1]),
             Text(Info(info.refs[2]).refs[2])>>)

LEMMA MakeCases ==
  ASSUME NEW k
  PROVE  LET info == Info(k) IN
         /\ info.kind \in Numbers => MakeConstant(k) = Constant(info.kind, info.bits, << >>)
         /\ info.kind = "String" => MakeConstant(k) = Constant("Utf8", {}, <<Text(info.refs[1])>>)
         /\ info.kind = "Class" => MakeConstant(k) = Constant("Class", {}, <<Text(info.refs[1])>>)
         /\ info.kind \in MemberRefs => MakeConstant(k) = RefConstant(info)
         /\ info.kind \notin Kept => MakeConstant(k) = Null
<1> DEFINE info == Info(k)  kind == info.kind  a == Constant(kind, info.bits, << >>)
           b == Constant("Utf8", {}, <<Text(info.refs[1])>>)
           c == Constant("Class", {}, <<Text(info.refs[1])>>)  d == RefConstant(info)  e == Null
<1>1. MakeConstant(k) = CASE kind \in Numbers -> a
                          [] kind = "String" -> b
                          [] kind = "Class" -> c
                          [] kind \in MemberRefs -> d
                          [] OTHER -> e
  BY Zenon DEF MakeConstant, RefConstant
<1> HIDE DEF a, b, c, d, e, kind
<1>2. kind \in Numbers => MakeConstant(k) = a BY <1>1 DEF Numbers, Wide, MemberRefs
<1>3. kind = "String" => MakeConstant(k) = b BY <1>1 DEF Numbers, Wide, MemberRefs
<1>4. kind = "Class" => MakeConstant(k) = c BY <1>1 DEF Numbers, Wide, MemberRefs
<1>5. kind \in MemberRefs => MakeConstant(k) = d BY <1>1 DEF Numbers, Wide, MemberRefs
<1>6. kind \notin Kept => MakeConstant(k) = e BY <1>1 DEF Numbers, Wide, MemberRefs, Kept, Named
<1> QED BY <1>2, <1>3, <1>4, <1>5, <1>6, Zenon DEF a, b, c, d, e, kind

LEMMA ConstantParts ==
  ASSUME NEW type, NEW bits, NEW names
  PROVE  /\ Constant(type, bits, names).kind = type /\ Constant(type, bits, names).bits = bits
         /\ Constant(type, bits, names).names = names /\ Null.kind = "null"
BY DEF Constant, Null

IsConstant(e, type, bits, names) == e.kind = type /\ e.bits = bits /\ e.names = names

LEMMA MadeConstant ==
  ASSUME NEW e, NEW type, NEW bits, NEW names, e = Constant(type, bits, names)
  PROVE  IsConstant(e, type, bits, names)
BY DEF Constant, IsConstant

(* e is what the run-time pool should hold for the i-th constant. *)
Entry(e, cs, i) ==
  /\ cs[i].kind \in Kept => /\ e.kind = TagOf(cs[i].kind) /\ e.names = NamesOf(cs, Number(cs)[i])
                            /\ cs[i].kind \in Numbers => e.bits \in ParsedNumber(cs[i].kind, cs[i].bits)
  /\ cs[i].kind \notin Kept => e = Null
  /\ e.kind \in Wide <=> cs[i].kind \in Wide

LEMMA MadeRight ==
  ASSUME NEW cs, WellFormedPool(cs), Parsed(infos, cs, Len(cs)), NEW i \in 1 .. Len(cs)
  PROVE  Entry(MakeConstant(Number(cs)[i]), cs, i) /\ Info(Number(cs)[i]) # Null
<1> HIDE DEF Constants
<1> DEFINE k == Number(cs)[i]  c == cs[i]  info == Info(k)  made == MakeConstant(k)
<1>1. cs \in Seq(Constants) /\ c \in Constants BY ConstantCellsType, Zenon
<1>2. InfoOf(info, c) BY <1>1, InfoAt, Zenon
<1>3. info.kind = c.kind /\ (c.kind \in OfRefs => info.refs = c.refs) BY <1>2, Zenon DEF InfoOf
<1>4. Numbered(cs, k) = c BY <1>1, NumberedIs, Zenon
<1>5. info # Null
  <2>1. c.kind \in Kinds BY <1>1, ConstantFacts, Zenon
  <2>2. c.kind # "null" BY <2>1, KindParts, Zenon
  <2> QED BY <1>3, <2>2, ConstantParts, Zenon
<1> HIDE DEF k, c, info
<1>6. CASE c.kind \in Numbers
  <2>1. made = Constant(c.kind, info.bits, << >>) BY <1>3, <1>6, MakeCases, Zenon DEF info
  <2>2. made.kind = c.kind /\ made.bits = info.bits /\ made.names = << >>
    <3>1. IsConstant(made, c.kind, info.bits, << >>) BY <2>1, MadeConstant, Zenon
    <3> QED BY <3>1, Zenon DEF IsConstant
  <2>3. TagOf(c.kind) = c.kind BY <1>6, KindParts, TagIs, Zenon
  <2>4. c.kind \notin Named \cup MemberRefs BY <1>6, KindParts, Zenon
  <2>5. NamesOf(cs, k) = << >> BY <1>4, <2>4, NamesCases, Zenon
  <2>6. info.bits \in ParsedNumber(c.kind, c.bits) BY <1>2, <1>6, Zenon DEF InfoOf
  <2>7. c.kind \in Kept BY <1>6, Zenon DEF Kept
  <2> HIDE DEF made
  <2>8. made.names = NamesOf(cs, k) /\ made.kind = TagOf(c.kind) BY <2>2, <2>3, <2>5, Zenon
  <2>9. made.bits \in ParsedNumber(c.kind, c.bits) BY <2>2, <2>6, Zenon
  <2>10. made.kind \in Wide <=> c.kind \in Wide BY <2>2, Zenon
  <2>11. Entry(made, cs, i) BY <2>7, <2>8, <2>9, <2>10, Zenon DEF Entry, c, k
  <2> QED BY <1>5, <2>11, Zenon DEF made, k, info
<1>7. CASE c.kind \in Named
  <2>1. info.refs = c.refs BY <1>3, <1>7, RefKinds, Zenon
  <2>2. TextOf(cs, c.refs[1]) BY <1>7, NamedLeads, Zenon DEF c
  <2> DEFINE names == <<Text(info.refs[1])>>
  <2>3. NamesOf(cs, k) = <<Numbered(cs, c.refs[1]).text>> BY <1>4, <1>7, NamesCases, Zenon
  <2>4. names = NamesOf(cs, k) BY <2>1, <2>2, <2>3, Zenon DEF TextOf, Text
  <2>5. made = Constant(TagOf(c.kind), {}, names)
    <3>1. CASE c.kind = "String"
      <4>1. made = Constant("Utf8", {}, names) BY <1>3, <3>1, MakeCases, Zenon DEF info
      <4>2. TagOf(c.kind) = "Utf8" BY <3>1, TagIs, Zenon
      <4> QED BY <4>1, <4>2, Zenon
    <3>2. CASE c.kind = "Class"
      <4>1. made = Constant("Class", {}, names) BY <1>3, <3>2, MakeCases, Zenon DEF info
      <4>2. TagOf(c.kind) = "Class" BY <3>2, TagIs, KindParts, Zenon
      <4> QED BY <4>1, <4>2, Zenon
    <3> QED BY <1>7, <3>1, <3>2, KindParts, Zenon
  <2> HIDE DEF names, made
  <2>6. made.kind = TagOf(c.kind) /\ made.names = names
    <3>1. IsConstant(made, TagOf(c.kind), {}, names) BY <2>5, MadeConstant, Zenon
    <3> QED BY <3>1, Zenon DEF IsConstant
  <2>7. c.kind \in Kept /\ c.kind \notin Numbers /\ c.kind \notin Wide BY <1>7, KindParts, Zenon DEF Kept
  <2>8. TagOf(c.kind) \notin Wide
    <3>1. CASE c.kind = "String"
      <4>1. TagOf(c.kind) = "Utf8" BY <3>1, TagIs, Zenon
      <4> QED BY <4>1 DEF Wide
    <3>2. CASE c.kind = "Class"
      <4>1. TagOf(c.kind) = "Class" BY <3>2, TagIs, KindParts, Zenon
      <4> QED BY <4>1 DEF Wide
    <3> QED BY <1>7, <3>1, <3>2, KindParts, Zenon
  <2>9. made.kind \in Wide <=> c.kind \in Wide BY <2>6, <2>7, <2>8, Zenon
  <2>10. made.names = NamesOf(cs, k) BY <2>4, <2>6, Zenon
  <2>11. Entry(made, cs, i) BY <2>6, <2>7, <2>9, <2>10, Zenon DEF Entry, c, k
  <2> QED BY <1>5, <2>11, Zenon DEF made, k, info
<1>8. CASE c.kind \in MemberRefs
  <2> DEFINE a == c.refs[1]  b == c.refs[2]
             names == <<Text(Info(a).refs[1]), Text(Info(b).refs[1]), Text(Info(b).refs[2])>>
             type == IF c.kind = "FieldRef" THEN "FieldRef" ELSE "MethodRef"
  <2>1. info.refs = c.refs BY <1>3, <1>8, RefKinds, Zenon
  <2>2. Leads(cs, a, "Class") /\ Leads(cs, b, "NameAndType") BY <1>8, MemberLeads, Zenon DEF c
  <2>3. Info(a).refs = Numbered(cs, a).refs /\ TextOf(cs, Info(a).refs[1]) BY <2>2, ClassLeads, Zenon
  <2>4. /\ Info(b).refs = Numbered(cs, b).refs
        /\ TextOf(cs, Info(b).refs[1]) /\ TextOf(cs, Info(b).refs[2])
    BY <2>2, NameAndTypeLeads, Zenon
  <2>5. NamesOf(cs, k) = <<Numbered(cs, Numbered(cs, a).refs[1]).text,
                           Numbered(cs, Numbered(cs, b).refs[1]).text,
                           Numbered(cs, Numbered(cs, b).refs[2]).text>>
    BY <1>4, <1>8, NamesCases, Zenon
  <2>6. /\ Text(Info(a).refs[1]) = Numbered(cs, Numbered(cs, a).refs[1]).text
        /\ Text(Info(b).refs[1]) = Numbered(cs, Numbered(cs, b).refs[1]).text
        /\ Text(Info(b).refs[2]) = Numbered(cs, Numbered(cs, b).refs[2]).text
    BY <2>3, <2>4, Zenon DEF TextOf, Text
  <2>7. NamesOf(cs, k) = names BY <2>5, <2>6, Zenon
  <2>8. made = RefConstant(info) BY <1>3, <1>8, MakeCases, Zenon DEF info
  <2>9. made = Constant(type, {}, names) BY <1>3, <2>1, <2>8, Zenon DEF RefConstant
  <2>10. TagOf(c.kind) = type BY <1>8, KindParts, Zenon
  <2> HIDE DEF names, made
  <2>11. type \notin Wide BY KindParts, Zenon
  <2> HIDE DEF type
  <2>12. made.kind = type /\ made.names = names
    <3>1. IsConstant(made, type, {}, names) BY <2>9, MadeConstant, Zenon
    <3> QED BY <3>1, Zenon DEF IsConstant
  <2>13. c.kind \in Kept /\ c.kind \notin Numbers /\ c.kind \notin Wide BY <1>8, KindParts, Zenon DEF Kept
  <2>14. made.kind \in Wide <=> c.kind \in Wide BY <2>11, <2>12, <2>13, Zenon
  <2>15. made.names = NamesOf(cs, k) /\ made.kind = TagOf(c.kind) BY <2>7, <2>10, <2>12, Zenon
  <2>16. Entry(made, cs, i) BY <2>13, <2>14, <2>15, Zenon DEF Entry, c, k
  <2> QED BY <1>5, <2>16, Zenon DEF made, k, info
<1>9. CASE c.kind \notin Kept
  <2>1. made = Null BY <1>3, <1>9, MakeCases, Zenon DEF info
  <2> HIDE DEF made
  <2>2. made.kind = "null" BY <2>1, ConstantParts, Zenon
  <2>3. made.kind \notin Wide BY <2>2, KindParts, Zenon
  <2>4. c.kind \notin Wide BY <1>9, KindParts, Zenon DEF Kept
  <2>5. Entry(made, cs, i) BY <1>9, <2>1, <2>3, <2>4, Zenon DEF Entry, c
  <2> QED BY <1>5, <2>5, Zenon DEF made, k, info
<1> QED BY <1>6, <1>7, <1>8, <1>9, Zenon DEF Kept

(* The run-time pool of the first m constants *)
Made(q, cs, m) ==
  /\ \E S : q \in Seq(S)
  /\ Len(q) = Number(cs)[m + 1]
  /\ \A i \in 1 .. m : /\ Entry(q[Number(cs)[i] + 1], cs, i)
                       /\ cs[i].kind \in Wide => q[Number(cs)[i] + 2] = Null

LEMMA GrowMade ==
  ASSUME NEW cs, NEW T, cs \in Seq(T), NEW m \in 0 .. Len(cs) - 1, NEW q, Made(q, cs, m),
         NEW e, Entry(e, cs, m + 1)
  PROVE  Made(q \o MadeEntries(e), cs, m + 1)
<1> DEFINE t == Number(cs)  n == Len(cs)  x == MadeEntries(e)  c == cs[m + 1]  z == q \o x
<1>1. /\ t \in [1 .. n + 1 -> Nat \ {0}] /\ n \in Nat
      /\ \A i \in 1 .. n : t[i + 1] = t[i] + NumbersOf(cs[i])
      /\ \A i, j \in 1 .. n + 1 : i < j => t[i] < t[j]
  BY NumberStep, NumberOrder, Zenon
<1>2. /\ Len(q) = t[m + 1]
      /\ \A i \in 1 .. m : Entry(q[t[i] + 1], cs, i) /\ (cs[i].kind \in Wide => q[t[i] + 2] = Null)
  BY Zenon DEF Made
<1>3. PICK S : q \in Seq(S) BY Zenon DEF Made
<1>4. e.kind \in Wide <=> c.kind \in Wide BY Zenon DEF Entry
<1> DEFINE U == S \cup {e, Null}
<1>5. /\ x \in Seq(U) /\ Len(x) = NumbersOf(c) /\ x[1] = e
      /\ c.kind \in Wide => Len(x) = 2 /\ x[2] = Null
  <2> DEFINE nil == Null
  <2> HIDE DEF nil
  <2>1. <<e, nil>> \in Seq({e, nil}) /\ Len(<<e, nil>>) = 2 /\ <<e, nil>>[1] = e
        /\ <<e, nil>>[2] = nil /\ <<e>> \in Seq({e, nil}) /\ Len(<<e>>) = 1 /\ <<e>>[1] = e
    OBVIOUS
  <2>2. {e, nil} \subseteq U BY Zenon DEF nil
  <2>3. <<e, nil>> \in Seq(U) /\ <<e>> \in Seq(U) BY <2>1, <2>2, SeqSubset, Zenon
  <2>4. CASE e.kind \in Wide
    <3>1. x = <<e, nil>> BY <2>4, Zenon DEF MadeEntries, nil
    <3>2. NumbersOf(c) = 2 BY <1>4, <2>4, Zenon DEF NumbersOf
    <3>3. x[2] = Null BY <2>1, <3>1, Zenon DEF nil
    <3> QED BY <2>1, <2>3, <3>1, <3>2, <3>3, Zenon
  <2>5. CASE e.kind \notin Wide
    <3>1. x = <<e>> BY <2>5, Zenon DEF MadeEntries
    <3>2. NumbersOf(c) = 1 BY <1>4, <2>5, Zenon DEF NumbersOf
    <3> QED BY <1>4, <2>1, <2>3, <2>5, <3>1, <3>2, Zenon
  <2> QED BY <2>4, <2>5, Zenon
<1>6. q \in Seq(U)
  <2>1. S \subseteq U BY Zenon
  <2> QED BY <1>3, <2>1, SeqSubset, Zenon
<1> HIDE DEF x, U, n, t, c
<1>7. /\ z \in Seq(U) /\ Len(z) = Len(q) + Len(x)
      /\ \A i \in 1 .. Len(q) + Len(x) : z[i] = IF i <= Len(q) THEN q[i] ELSE x[i - Len(q)]
  BY <1>5, <1>6, ConcatProperties, Zenon
<1> HIDE DEF z
<1>8. m \in Nat /\ m + 1 \in 1 .. n /\ m + 1 \in 1 .. n + 1 /\ (m + 1) + 1 \in 1 .. n + 1
  BY <1>1 DEF n
<1>9. t[(m + 1) + 1] = t[m + 1] + NumbersOf(c) BY <1>1, <1>8, Zenon DEF c
<1>10. NumbersOf(c) \in {1, 2} BY DEF NumbersOf
<1>11. Len(z) = t[(m + 1) + 1] BY <1>2, <1>5, <1>7, <1>9, Zenon
<1>12. \A i \in 1 .. m + 1 : Entry(z[t[i] + 1], cs, i) /\ (cs[i].kind \in Wide => z[t[i] + 2] = Null)
  <2> SUFFICES ASSUME NEW i \in 1 .. m + 1
               PROVE  Entry(z[t[i] + 1], cs, i) /\ (cs[i].kind \in Wide => z[t[i] + 2] = Null)
    OBVIOUS
  <2>1. CASE i = m + 1
    <3>1. t[m + 1] \in Nat \ {0} BY <1>1, <1>8
    <3>2. t[m + 1] + 1 \in 1 .. Len(q) + Len(x) /\ ~ (t[m + 1] + 1 <= Len(q))
          /\ (t[m + 1] + 1) - Len(q) = 1
      BY <1>2, <1>5, <1>10, <3>1
    <3>3. z[t[m + 1] + 1] = x[(t[m + 1] + 1) - Len(q)] BY <1>7, <3>2, Zenon
    <3>4. z[t[m + 1] + 1] = e BY <1>5, <3>2, <3>3, Zenon
    <3>5. ASSUME c.kind \in Wide PROVE z[t[m + 1] + 2] = Null
      <4>0. Len(x) = 2 BY <1>5, <3>5, Zenon
      <4>1. t[m + 1] + 2 \in 1 .. Len(q) + Len(x) /\ ~ (t[m + 1] + 2 <= Len(q))
            /\ (t[m + 1] + 2) - Len(q) = 2
        BY <1>2, <3>1, <4>0
      <4>2. z[t[m + 1] + 2] = x[(t[m + 1] + 2) - Len(q)] BY <1>7, <4>1, Zenon
      <4> QED BY <1>5, <3>5, <4>1, <4>2, Zenon
    <3> QED BY <2>1, <3>4, <3>5, Zenon DEF c
  <2>2. CASE i # m + 1
    <3>1. i \in 1 .. m /\ i \in 1 .. n + 1 /\ i + 1 \in 1 .. n + 1 /\ i \in 1 .. n /\ i < m + 1
          /\ (i + 1 = m + 1 \/ i + 1 < m + 1)
      BY <1>1, <1>8, <2>2
    <3>2. t[i] < t[m + 1] BY <1>1, <1>8, <3>1, Zenon
    <3>3. t[i] \in Nat \ {0} /\ t[m + 1] \in Nat /\ t[i + 1] \in Nat BY <1>1, <1>8, <3>1
    <3>4. t[i] + 1 \in 1 .. Len(q) + Len(x) /\ t[i] + 1 <= Len(q) BY <1>2, <1>5, <1>10, <3>2, <3>3, SMTT(30)
    <3>5. z[t[i] + 1] = q[t[i] + 1] BY <1>7, <3>4, Zenon
    <3>6. ASSUME cs[i].kind \in Wide PROVE z[t[i] + 2] = Null
      <4>1. t[i + 1] = t[i] + 2 BY <1>1, <3>1, <3>6, Zenon DEF NumbersOf
      <4>2. t[i + 1] = t[m + 1] \/ t[i + 1] < t[m + 1] BY <1>1, <1>8, <3>1, Zenon
      <4>3. t[i] + 2 \in 1 .. Len(q) + Len(x) /\ t[i] + 2 <= Len(q)
        BY <1>2, <1>5, <1>10, <3>3, <4>1, <4>2, SMTT(30)
      <4>4. z[t[i] + 2] = q[t[i] + 2] BY <1>7, <4>3, Zenon
      <4> QED BY <1>2, <3>1, <3>6, <4>4, Zenon
    <3> QED BY <1>2, <3>1, <3>5, <3>6, Zenon
  <2> QED BY <2>1, <2>2, Zenon
<1> QED BY <1>7, <1>11, <1>12, Zenon DEF Made, z, x, t

(* Where the pools begin *)
LEMMA PoolsBegin ==
  ASSUME NEW cs, NEW T, cs \in Seq(T)
  PROVE  Parsed(<<Null>>, cs, 0) /\ Made(<<Null>>, cs, 0)
<1>1. Number(cs)[1] = 1 /\ 0 + 1 = 1 /\ 1 .. 0 = {}
  <2>1. Number(cs)[1] = 1 BY NumberStep, Zenon
  <2> QED BY <2>1
<1> DEFINE nil == Null
<1> HIDE DEF nil
<1>2. <<nil>> \in Seq({nil}) /\ Len(<<nil>>) = 1 OBVIOUS
<1>3. Parsed(<<nil>>, cs, 0) /\ Made(<<nil>>, cs, 0) BY <1>1, <1>2, Zenon DEF Parsed, Made
<1> QED BY <1>3, Zenon DEF nil

-----------------------------------------------------------------------------
(* The invariant *)

(* All constants are parsed. *)
ParsedAll == Parsed(infos, file.constants, Len(file.constants))

(* The parser is among the constants, m of them read. *)
ConstantsRead(m) ==
  /\ work = <<Once("constant")>> \o After
  /\ Parsed(infos, file.constants, m)
  /\ At(pos, Remaining(file.constants, m) \o Behind(file))
InConstants == \E m \in 0 .. Len(file.constants) - 1 : ConstantsRead(m)
BehindConstants == work # << >> /\ Onward(pos, work) /\ ParsedAll
(* How far Parse is, and what is left of the file *)
Stage ==
  \/ work = Initial /\ pos = 0
  \/ work = AtVersion /\ pos = 4
  \/ work = AtPool /\ pos = 8
  \/ InConstants
  \/ BehindConstants

(* The file and its bytes; only the ways to stop that are not an error *)
Given == file \in Files /\ bytes = Written(file)
Stopped == status \in {"parsing", "linking", "done", "fatal"}
WhileParsing == status = "parsing" => pool = <<Null>> /\ Stage
PoolMade == \E m \in 0 .. Len(file.constants) : Made(pool, file.constants, m)
WhileLinking == status = "linking" => pos = bytes.size /\ ParsedAll /\ PoolMade
WhenDone == status = "done" => pos = bytes.size /\ Made(pool, file.constants, Len(file.constants))
WhenFatal == status = "fatal" => ~ (file.magic /\ Supported(file.minor, file.major))
(* The inductive invariant *)
FileInv == Given /\ Stopped /\ WhileParsing /\ WhileLinking /\ WhenDone /\ WhenFatal

LEMMA GivenReady ==
  ASSUME Given
  PROVE  /\ Ready /\ WellFormed(file) /\ file.constants \in Seq(Constants)
         /\ WellFormedPool(file.constants) /\ Len(file.constants) \in Nat
<1> HIDE DEF Constants, Cells
<1>1. WellFormed(file) BY FilesAssumption, Zenon DEF Given
<1>2. Ready BY <1>1, FileType, Zenon DEF Given, Ready
<1>3. file.constants \in Seq(Constants) /\ WellFormedPool(file.constants) BY <1>1, PoolIsSeq, Zenon
<1>4. Len(file.constants) \in Nat BY <1>3, LenProperties, Zenon
<1> QED BY <1>1, <1>2, <1>3, <1>4, Zenon

(* Which function goes on tells how far the parser is. *)
StageByName ==
  /\ Current.name = "magic" => work = Initial /\ pos = 0
  /\ Current.name = "version" => work = AtVersion /\ pos = 4
  /\ Current.name = "pool" => work = AtPool /\ pos = 8
  /\ Current.name = "constant" => InConstants
  /\ Current.name \notin {"magic", "version", "pool", "constant"} => Late /\ ParsedAll

LEMMA StageNamed ==
  ASSUME Given, Stage
  PROVE  StageByName
<1> HIDE DEF Tasks, Constants, Cells
<1>1. Ready /\ WellFormed(file) BY GivenReady, Zenon
<1>0. "magic" \in TaskNames /\ "version" \in TaskNames /\ "pool" \in TaskNames /\ "constant" \in TaskNames
  BY DEF TaskNames
<1>2. CASE work = Initial /\ pos = 0
  <2>1. Current = Once("magic") BY <1>2, InitialTails, Zenon DEF Current
  <2>2. Current.name = "magic" BY <1>0, <2>1, OnceType, Zenon
  <2> DEFINE name == Current.name
  <2> HIDE DEF name
  <2>3. name = "magic" /\ name \notin {"version", "pool", "constant"} BY <2>2 DEF name
  <2> QED BY <1>2, <2>3 DEF StageByName, name
<1>3. CASE work = AtVersion /\ pos = 4
  <2>1. Current = Once("version") BY <1>3, InitialTails, Zenon DEF Current
  <2>2. Current.name = "version" BY <1>0, <2>1, OnceType, Zenon
  <2> QED BY <1>3, <2>2 DEF StageByName
<1>4. CASE work = AtPool /\ pos = 8
  <2>1. Current = Once("pool") BY <1>4, InitialTails, Zenon DEF Current
  <2>2. Current.name = "pool" BY <1>0, <2>1, OnceType, Zenon
  <2> QED BY <1>4, <2>2 DEF StageByName
<1>5. CASE InConstants
  <2>1. work = <<Once("constant")>> \o After BY <1>5, Zenon DEF InConstants, ConstantsRead
  <2>2. Once("constant") \in Tasks BY <1>0, OnceType, Zenon
  <2>3. After \in Seq(Tasks) BY <1>1, AfterMatches, Zenon
  <2>4. Consed(Tasks, Once("constant"), After, work) BY <2>1, <2>2, <2>3, ConsParts, Zenon
  <2>5. Current = Once("constant") BY <2>4, Zenon DEF Consed, Current
  <2>6. Current.name = "constant" BY <1>0, <2>5, OnceType, Zenon
  <2> QED BY <1>5, <2>6 DEF StageByName
<1>6. CASE BehindConstants
  <2>1. Late /\ ParsedAll BY <1>1, <1>6, Zenon DEF BehindConstants, Late
  <2>2. PICK g, r : Ahead(g, r) BY <2>1, LateAhead, Zenon
  <2>3. Good(file, Current, g) BY <2>2, Zenon DEF Ahead
  <2>4. Current.name \notin {"magic", "version", "pool", "constant"} BY <2>3, GoodCases, Zenon
  <2> HIDE DEF Current
  <2> QED BY <2>1, <2>4 DEF StageByName
<1> QED BY <1>2, <1>3, <1>4, <1>5, <1>6, Zenon DEF Stage

LEMMA BehindPool ==
  ASSUME Given, NEW p, At(p, Remaining(file.constants, Len(file.constants)) \o Behind(file))
  PROVE  Onward(p, After)
<1> HIDE DEF Constants, Cells, Tasks
<1>1. WellFormed(file) /\ WellFormedPool(file.constants) BY GivenReady, Zenon
<1>2. Remaining(file.constants, Len(file.constants)) = << >> BY <1>1, RemainingEnds, Zenon
<1> DEFINE s == Behind(file)
<1>3. s \in Seq(Cells) /\ Matches(file, After, s) BY <1>1, AfterMatches, Zenon
<1> HIDE DEF s
<1>4. << >> \o s = s BY <1>3, Concat, Zenon
<1>5. At(p, s) BY <1>2, <1>4, Zenon DEF s
<1> QED BY <1>3, <1>5, Zenon DEF Onward

LEMMA AfterNotEmpty ==
  /\ After # << >> /\ <<Once("constant")>> \o After # << >>
  /\ AtVersion # << >> /\ AtPool # << >>
<1> DEFINE a == Once("magic")  b == Once("version")  c == Once("pool")  d == Once("header")
           e == Once("interfaces")  f == Once("members")  g == Once("attributes")  h == Once("constant")
<1> HIDE DEF a, b, c, d, e, f, g, h
<1>1. <<d, e, f, f, g>> # << >> /\ <<h>> \o <<d, e, f, f, g>> # << >>
      /\ <<b, c, d, e, f, f, g>> # << >> /\ <<c, d, e, f, f, g>> # << >>
  OBVIOUS
<1> QED BY <1>1, Zenon DEF After, AtVersion, AtPool, a, b, c, d, e, f, g, h

(* What ProceedWith does when what was read fits *)
Went(end, then, grown) ==
  /\ pos' = end /\ work' = then /\ infos' = grown
  /\ status' = IF then = << >> THEN "linking" ELSE "parsing"
  /\ UNCHANGED <<file, bytes, pool>>

LEMMA Goes ==
  ASSUME NEW fits, fits, NEW end, NEW then, NEW grown, ProceedWith(fits, end, then, grown)
  PROVE  Went(end, then, grown)
BY Zenon DEF ProceedWith, Went

(* One more step that leaves the parser parsing *)
LEMMA GoesOn ==
  ASSUME Given, pool = <<Null>>, NEW end, NEW then, NEW grown, Went(end, then, grown),
         then # << >>, Stage'
  PROVE  FileInv'
<1>1. status' = "parsing" /\ file' = file /\ bytes' = bytes /\ pool' = pool BY Zenon DEF Went
<1>2. Given' BY <1>1 DEF Given
<1>3. WhileParsing' BY <1>1, Zenon DEF WhileParsing
<1>4. Stopped' /\ WhileLinking' /\ WhenDone' /\ WhenFatal'
  BY <1>1 DEF Stopped, WhileLinking, WhenDone, WhenFatal
<1> QED BY <1>2, <1>3, <1>4, Zenon DEF FileInv

LEMMA Ends ==
  ASSUME Given, pool = <<Null>>, NEW end, NEW grown, Went(end, << >>, grown),
         end = bytes.size, ParsedAll'
  PROVE  FileInv'
<1>1. status' = "linking" /\ file' = file /\ bytes' = bytes /\ pool' = pool /\ pos' = end
  BY Zenon DEF Went
<1>2. Given' BY <1>1 DEF Given
<1>3. file.constants \in Seq(Constants) /\ Len(file.constants) \in Nat BY GivenReady, Zenon
<1>4. Made(<<Null>>, file.constants, 0) BY <1>3, PoolsBegin, Zenon
<1>5. 0 \in 0 .. Len(file.constants) BY <1>3
<1>6. PoolMade' BY <1>1, <1>4, <1>5, Zenon DEF PoolMade
<1>7. pos' = bytes'.size BY <1>1, Zenon
<1>8. WhileLinking' BY <1>6, <1>7, Zenon DEF WhileLinking
<1>9. Stopped' /\ WhileParsing' /\ WhenDone' /\ WhenFatal'
  BY <1>1 DEF Stopped, WhileParsing, WhenDone, WhenFatal
<1> QED BY <1>2, <1>8, <1>9, Zenon DEF FileInv

(* A step behind the constants *)
LEMMA LateGoes ==
  ASSUME Given, pool = <<Null>>, ParsedAll, NEW fits, fits, NEW end, NEW then, Onward(end, then),
         Proceed(fits, end, then)
  PROVE  FileInv'
<1>1. Went(end, then, infos) BY Goes, Zenon DEF Proceed
<1>2. file' = file /\ infos' = infos /\ pos' = end /\ work' = then BY <1>1 DEF Went
<1>3. ParsedAll' BY <1>2, Zenon DEF ParsedAll
<1>4. CASE then = << >>
  <2>1. PICK s \in Seq(Cells) : At(end, s) /\ Matches(file, then, s) BY Zenon DEF Onward
  <2>0. Matches(file, << >>, s) BY <1>4, <2>1, Zenon
  <2>2. s = << >> BY <2>0, MatchesEmpty
  <2>3. Ready BY GivenReady, Zenon
  <2>4. end = bytes.size BY <2>1, <2>2, <2>3, AtEnd, Zenon
  <2>5. Went(end, << >>, infos) BY <1>1, <1>4, Zenon
  <2> QED BY <1>3, <2>4, <2>5, Ends, Zenon
<1>5. CASE then # << >>
  <2> HIDE DEF Cells, Tasks
  <2>1. Onward(pos, work)' BY <1>2, Zenon DEF Onward, At
  <2>2. BehindConstants' BY <1>2, <1>3, <1>5, <2>1, Zenon DEF BehindConstants
  <2>3. Stage' BY <2>2, Zenon DEF Stage
  <2> QED BY <1>1, <1>5, <2>3, GoesOn, Zenon
<1> QED BY <1>4, <1>5, Zenon

(* The inputs of the parser's actions *)
Going == Given /\ pool = <<Null>> /\ Stage

LEMMA HeaderHolds == ASSUME Going, ParseHeader PROVE FileInv'
<1>1. Given /\ pool = <<Null>> /\ Stage BY Zenon DEF Going
<1>2. Current.name = "header" BY Zenon DEF ParseHeader
<1>3. Late /\ ParsedAll
  <2>1. StageByName BY <1>1, StageNamed, Zenon
  <2>2. Current.name \notin {"magic", "version", "pool", "constant"} BY <1>2
  <2> QED BY <2>1, <2>2, Zenon DEF StageByName
<1>4. Fits(pos, <<2, 2, 2>>) /\ Onward(pos + 6, Rest) BY <1>2, <1>3, HeaderStep, Zenon
<1>5. Proceed(Fits(pos, <<2, 2, 2>>), pos + 6, Rest) BY Zenon DEF ParseHeader
<1> QED BY <1>1, <1>3, <1>4, <1>5, LateGoes, Zenon

LEMMA InterfacesHolds == ASSUME Going, ParseInterfaces PROVE FileInv'
<1>1. Given /\ pool = <<Null>> /\ Stage BY Zenon DEF Going
<1>2. Current.name = "interfaces" BY Zenon DEF ParseInterfaces
<1>3. Late /\ ParsedAll
  <2>1. StageByName BY <1>1, StageNamed, Zenon
  <2>2. Current.name \notin {"magic", "version", "pool", "constant"} BY <1>2
  <2> QED BY <2>1, <2>2, Zenon DEF StageByName
<1> DEFINE w == TableWidths(pos, <<2>>)
<1>4. Fits(pos, w) /\ Onward(End(pos, w), Rest) BY <1>2, <1>3, InterfacesStep, Zenon
<1>5. Proceed(Fits(pos, w), End(pos, w), Rest) BY Zenon DEF ParseInterfaces
<1> HIDE DEF w
<1> QED BY <1>1, <1>3, <1>4, <1>5, LateGoes, Zenon

LEMMA MembersHolds == ASSUME Going, ParseMembers PROVE FileInv'
<1>1. Given /\ pool = <<Null>> /\ Stage BY Zenon DEF Going
<1>2. Current.name = "members" BY Zenon DEF ParseMembers
<1>3. Late /\ ParsedAll
  <2>1. StageByName BY <1>1, StageNamed, Zenon
  <2>2. Current.name \notin {"magic", "version", "pool", "constant"} BY <1>2
  <2> QED BY <2>1, <2>2, Zenon DEF StageByName
<1> DEFINE w == Loop("member", ValueAt(pos), Rest)
<1>4. Fits(pos, <<2>>) /\ Onward(pos + 2, w) BY <1>2, <1>3, MembersStep, Zenon
<1>5. Proceed(Fits(pos, <<2>>), pos + 2, w) BY Zenon DEF ParseMembers
<1> HIDE DEF w
<1> QED BY <1>1, <1>3, <1>4, <1>5, LateGoes, Zenon

LEMMA AttributesHolds == ASSUME Going, ParseAttributeInfos PROVE FileInv'
<1>1. Given /\ pool = <<Null>> /\ Stage BY Zenon DEF Going
<1>2. Current.name = "attributes" BY Zenon DEF ParseAttributeInfos
<1>3. Late /\ ParsedAll
  <2>1. StageByName BY <1>1, StageNamed, Zenon
  <2>2. Current.name \notin {"magic", "version", "pool", "constant"} BY <1>2
  <2> QED BY <2>1, <2>2, Zenon DEF StageByName
<1> DEFINE w == Loop("attribute", ValueAt(pos), Rest)
<1>4. Fits(pos, <<2>>) /\ Onward(pos + 2, w) BY <1>2, <1>3, AttributesStep, Zenon
<1>5. Proceed(Fits(pos, <<2>>), pos + 2, w) BY Zenon DEF ParseAttributeInfos
<1> HIDE DEF w
<1> QED BY <1>1, <1>3, <1>4, <1>5, LateGoes, Zenon

LEMMA MemberHolds == ASSUME Going, ParseMember PROVE FileInv'
<1>1. Given /\ pool = <<Null>> /\ Stage BY Zenon DEF Going
<1>2. Current.name = "member" BY Zenon DEF ParseMember
<1>3. Late /\ ParsedAll
  <2>1. StageByName BY <1>1, StageNamed, Zenon
  <2>2. Current.name \notin {"magic", "version", "pool", "constant"} BY <1>2
  <2> QED BY <2>1, <2>2, Zenon DEF StageByName
<1> DEFINE w == Loop("attribute", ValueAt(pos + 6), Turned)
<1>4. Fits(pos, <<2, 2, 2, 2>>) /\ Onward(pos + 8, w) BY <1>2, <1>3, MemberStep, Zenon
<1>5. Proceed(Fits(pos, <<2, 2, 2, 2>>), pos + 8, w) BY Zenon DEF ParseMember
<1> HIDE DEF w
<1> QED BY <1>1, <1>3, <1>4, <1>5, LateGoes, Zenon

LEMMA AttributeHolds == ASSUME Going, ParseAttributeInfo PROVE FileInv'
<1>1. Given /\ pool = <<Null>> /\ Stage BY Zenon DEF Going
<1>2. Current.name = "attribute" BY Zenon DEF ParseAttributeInfo
<1>3. Late /\ ParsedAll
  <2>1. StageByName BY <1>1, StageNamed, Zenon
  <2>2. Current.name \notin {"magic", "version", "pool", "constant"} BY <1>2
  <2> QED BY <2>1, <2>2, Zenon DEF StageByName
<1> DEFINE index == ValueAt(pos)
           read == ReadAttribute(Info(index).text, ValueAt(pos + 2), pos + 6)
           w == Loop("attribute", read.nested, Turned)
<1>4. Stepped(index, read) BY <1>2, <1>3, AttributeStep, Zenon DEF ParsedAll
<1>5. IF Info(index).kind /= "Utf8" THEN Stop(BadEntry(index))
      ELSE Proceed(Fits(pos, <<2, 4>>) /\ read.fits, read.end, w)
  BY Zenon DEF ParseAttributeInfo
<1> HIDE DEF index, read
<1>6. /\ Info(index).kind = "Utf8" /\ Fits(pos, <<2, 4>>) /\ read.fits = TRUE
      /\ Onward(read.end, w)
  BY <1>4, Zenon DEF Stepped
<1> DEFINE fits == Fits(pos, <<2, 4>>) /\ read.fits
<1>7. fits /\ Proceed(fits, read.end, w) BY <1>5, <1>6, Zenon
<1> HIDE DEF w, fits
<1> QED BY <1>1, <1>3, <1>6, <1>7, LateGoes, Zenon

-----------------------------------------------------------------------------
(* The steps up to the end of the pool *)

LEMMA FatalHolds ==
  ASSUME Given, Stop("fatal"), ~ (file.magic /\ Supported(file.minor, file.major))
  PROVE  FileInv'
<1>1. status' = "fatal" /\ file' = file /\ bytes' = bytes BY DEF Stop
<1>2. Given' BY <1>1 DEF Given
<1>3. WhenFatal' BY <1>1, Zenon DEF WhenFatal, Supported
<1>4. Stopped' /\ WhileParsing' /\ WhenDone' /\ WhileLinking'
  BY <1>1 DEF Stopped, WhileParsing, WhenDone, WhileLinking
<1> QED BY <1>2, <1>3, <1>4, Zenon DEF FileInv

LEMMA MagicHolds == ASSUME Going, ParseAndCheckMagic PROVE FileInv'
<1>1. Given /\ pool = <<Null>> /\ Stage BY Zenon DEF Going
<1>2. Current.name = "magic" BY Zenon DEF ParseAndCheckMagic
<1>3. work = Initial /\ pos = 0 BY <1>1, <1>2, StageNamed, Zenon DEF StageByName
<1>4. Ready /\ WellFormed(file) BY <1>1, GivenReady, Zenon
<1>5. Fits(0, <<4>>) /\ ValueAt(0) = file.magic BY <1>4, Beginning, Zenon
<1>6. Rest = AtVersion /\ AtVersion # << >> BY <1>3, InitialTails, AfterNotEmpty, Zenon DEF Rest
<1>7. CASE ValueAt(pos) = TRUE
  <2>1. ProceedWith(Fits(pos, <<4>>), pos + 4, Rest, infos) BY <1>7, Zenon DEF ParseAndCheckMagic, Proceed
  <2>2. Fits(pos, <<4>>) BY <1>3, <1>5, Zenon
  <2>3. Went(pos + 4, Rest, infos) BY <2>1, <2>2, Goes, Zenon
  <2>4. 0 + 4 = 4 OBVIOUS
  <2>5. pos' = 4 /\ work' = AtVersion BY <1>3, <1>6, <2>3, <2>4, Zenon DEF Went
  <2>6. Stage' BY <2>5, Zenon DEF Stage, AtVersion, Once, Task
  <2>7. Rest # << >> BY <1>6, Zenon
  <2> QED BY <1>1, <2>3, <2>6, <2>7, GoesOn, Zenon
<1>8. CASE ~ (ValueAt(pos) = TRUE)
  <2>1. Stop("fatal") BY <1>8, Zenon DEF ParseAndCheckMagic
  <2>2. file.magic # TRUE BY <1>3, <1>5, <1>8, Zenon
  <2>3. ~ file.magic
    <3>1. file.magic \in BOOLEAN BY <1>4, Zenon DEF WellFormed
    <3> QED BY <2>2, <3>1, Zenon
  <2> QED BY <1>1, <2>1, <2>3, FatalHolds, Zenon
<1> QED BY <1>7, <1>8, Zenon

LEMMA VersionHolds == ASSUME Going, ParseAndCheckVersion PROVE FileInv'
<1>1. Given /\ pool = <<Null>> /\ Stage BY Zenon DEF Going
<1>2. Current.name = "version" BY Zenon DEF ParseAndCheckVersion
<1>3. work = AtVersion /\ pos = 4 BY <1>1, <1>2, StageNamed, Zenon DEF StageByName
<1>4. Ready /\ WellFormed(file) BY <1>1, GivenReady, Zenon
<1>5. Fits(4, <<2, 2>>) /\ ValueAt(4) = file.minor /\ ValueAt(6) = file.major
  BY <1>4, Beginning, Zenon
<1>6. Rest = AtPool /\ AtPool # << >> BY <1>3, InitialTails, AfterNotEmpty, Zenon DEF Rest
<1>0. 4 + 4 = 8 /\ 4 + 2 = 6 OBVIOUS
<1> DEFINE good == Supported(ValueAt(pos), ValueAt(pos + 2))
<1>7. good <=> Supported(file.minor, file.major)
  <2>1. ValueAt(pos) = file.minor /\ ValueAt(pos + 2) = file.major BY <1>0, <1>3, <1>5, Zenon
  <2> QED BY <2>1, Zenon DEF Supported
<1>8. IF good THEN Proceed(Fits(pos, <<2, 2>>), pos + 4, Rest) ELSE Stop("fatal")
  BY Zenon DEF ParseAndCheckVersion
<1> HIDE DEF good
<1>9. CASE good
  <2>1. ProceedWith(Fits(pos, <<2, 2>>), pos + 4, Rest, infos) BY <1>8, <1>9, Zenon DEF Proceed
  <2>2. Fits(pos, <<2, 2>>) BY <1>3, <1>5, Zenon
  <2>3. Went(pos + 4, Rest, infos) BY <2>1, <2>2, Goes, Zenon
  <2>4. pos' = 8 /\ work' = AtPool BY <1>0, <1>3, <1>6, <2>3, Zenon DEF Went
  <2>5. Stage' BY <2>4, Zenon DEF Stage, AtPool, Once, Task
  <2>6. Rest # << >> BY <1>6, Zenon
  <2> QED BY <1>1, <2>3, <2>5, <2>6, GoesOn, Zenon
<1>10. CASE ~ good
  <2>1. Stop("fatal") BY <1>8, <1>10, Zenon
  <2> QED BY <1>1, <1>7, <1>10, <2>1, FatalHolds, Zenon
<1> QED BY <1>9, <1>10, Zenon

(* Whether the loop goes on depends on whether constants are left. *)
LEMMA MoreConstants ==
  ASSUME NEW cs, NEW T, cs \in Seq(T), NEW m \in 0 .. Len(cs)
  PROVE  Number(cs)[m + 1] < Number(cs)[Len(cs) + 1] <=> m < Len(cs)
<1> DEFINE t == Number(cs)  n == Len(cs)
<1>1. t \in [1 .. n + 1 -> Nat \ {0}] /\ n \in Nat /\ \A i, j \in 1 .. n + 1 : i < j => t[i] < t[j]
  BY NumberStep, NumberOrder, Zenon
<1>2. m + 1 \in 1 .. n + 1 /\ n + 1 \in 1 .. n + 1 /\ (m < n => m + 1 < n + 1) /\ (~ (m < n) => m = n)
  BY <1>1
<1>3. t[m + 1] \in Nat /\ t[n + 1] \in Nat BY <1>1, <1>2
<1>4. CASE m < n
  <2>1. t[m + 1] < t[n + 1] BY <1>1, <1>2, <1>4, Zenon
  <2> QED BY <1>4, <2>1, Zenon
<1>5. CASE ~ (m < n)
  <2>1. t[m + 1] = t[n + 1] BY <1>2, <1>5, Zenon
  <2> HIDE DEF t, n
  <2>2. ~ (t[m + 1] < t[n + 1]) BY <1>3, <2>1
  <2> QED BY <1>5, <2>2, Zenon DEF t, n
<1> QED BY <1>4, <1>5, Zenon

(* The loop over the constants when m of them are read *)
LoopAt(m, end, grown, turns) ==
  /\ Parsed(grown, file.constants, m)
  /\ At(end, Remaining(file.constants, m) \o Behind(file))
  /\ turns = IF m < Len(file.constants) THEN 1 ELSE 0

LEMMA ConstantsGo ==
  ASSUME Given, pool = <<Null>>, NEW m \in 0 .. Len(file.constants), NEW end, NEW grown, NEW turns,
         LoopAt(m, end, grown, turns), Went(end, Loop("constant", turns, After), grown)
  PROVE  FileInv'
<1> HIDE DEF Constants, Cells, Tasks
<1> DEFINE cs == file.constants  n == Len(cs)
<1>1. WellFormed(file) /\ n \in Nat BY GivenReady, Zenon
<1>2. After \in Seq(Tasks) BY <1>1, AfterMatches, Zenon
<1>0. Parsed(grown, cs, m) /\ At(end, Remaining(cs, m) \o Behind(file)) BY Zenon DEF LoopAt
<1>3. CASE m < n
  <2>1. turns = 1 BY <1>3, Zenon DEF LoopAt
  <2>2. Loop("constant", 1, After) = <<Once("constant")>> \o After
    <3>1. 1 # 0 OBVIOUS
    <3> QED BY <1>2, <3>1, LoopIs, Zenon DEF Once
  <2>3. Went(end, Loop("constant", 1, After), grown) BY <2>1, Zenon
  <2>4. Went(end, <<Once("constant")>> \o After, grown) BY <2>2, <2>3, Zenon
  <2>5. pos' = end /\ work' = <<Once("constant")>> \o After /\ infos' = grown /\ file' = file
    BY <2>4, Zenon DEF Went
  <2>6. m \in 0 .. n - 1 BY <1>1, <1>3
  <2>7. ConstantsRead(m)' BY <1>0, <2>5, Zenon DEF ConstantsRead, At, Once, Task, After
  <2>8. InConstants' BY <2>5, <2>6, <2>7, Zenon DEF InConstants
  <2>9. Stage' BY <2>8, Zenon DEF Stage
  <2>10. <<Once("constant")>> \o After # << >> BY AfterNotEmpty, Zenon
  <2> QED BY <2>4, <2>9, <2>10, GoesOn, Zenon
<1>4. CASE ~ (m < n)
  <2>1. turns = 0 BY <1>4, Zenon DEF LoopAt
  <2>2. Loop("constant", 0, After) = After BY <1>2, LoopIs, Zenon
  <2>3. Went(end, Loop("constant", 0, After), grown) BY <2>1, Zenon
  <2>4. Went(end, After, grown) BY <2>2, <2>3, Zenon
  <2>5. pos' = end /\ work' = After /\ infos' = grown /\ file' = file BY <2>4, Zenon DEF Went
  <2>6. m = n BY <1>1, <1>4
  <2>7. At(end, Remaining(cs, n) \o Behind(file)) /\ Parsed(grown, cs, n) BY <1>0, <2>6, Zenon
  <2>8. Onward(end, After) BY <2>7, BehindPool, Zenon
  <2>9. Onward(pos, work)' BY <2>5, <2>8, Zenon DEF Onward, At
  <2>10. ParsedAll' BY <2>5, <2>7, Zenon DEF ParsedAll
  <2>11. After # << >> BY AfterNotEmpty, Zenon
  <2>12. BehindConstants' BY <2>5, <2>9, <2>10, <2>11, Zenon DEF BehindConstants
  <2>13. Stage' BY <2>12, Zenon DEF Stage
  <2> QED BY <2>4, <2>11, <2>13, GoesOn, Zenon
<1> QED BY <1>3, <1>4, Zenon

LEMMA PoolHolds == ASSUME Going, ParseConstantPool PROVE FileInv'
<1> HIDE DEF Constants, Cells, Tasks
<1> DEFINE cs == file.constants  n == Len(cs)
<1>1. Given /\ pool = <<Null>> /\ Stage BY Zenon DEF Going
<1>2. Current.name = "pool" BY Zenon DEF ParseConstantPool
<1>3. work = AtPool /\ pos = 8 BY <1>1, <1>2, StageNamed, Zenon DEF StageByName
<1>4. Ready /\ WellFormed(file) /\ cs \in Seq(Constants) /\ n \in Nat BY <1>1, GivenReady, Zenon
<1>5. /\ Fits(8, <<2>>) /\ ValueAt(8) = PoolCount(file)
      /\ At(10, Remaining(cs, 0) \o Behind(file))
  BY <1>4, Beginning, Zenon
<1>6. Rest = After BY <1>3, InitialTails, Zenon DEF Rest
<1> DEFINE more == ValueAt(pos) > 1  w == Loop("constant", IF more THEN 1 ELSE 0, After)
<1>7. ProceedWith(Fits(pos, <<2>>), pos + 2, w, <<Null>>) BY <1>6, Zenon DEF ParseConstantPool
<1>8. Fits(pos, <<2>>) /\ pos + 2 = 10
  <2>1. Fits(pos, <<2>>) BY <1>3, <1>5, Zenon
  <2>2. pos + 2 = 10 BY <1>3
  <2> QED BY <2>1, <2>2, Zenon
<1> HIDE DEF w
<1>9. Went(10, w, <<Null>>)
  <2>1. ProceedWith(Fits(pos, <<2>>), 10, w, <<Null>>) BY <1>7, <1>8, Zenon
  <2> QED BY <1>8, <2>1, Goes, Zenon
<1>10. Parsed(<<Null>>, cs, 0) BY <1>4, PoolsBegin, Zenon
<1>11. 0 \in 0 .. n BY <1>4
<1>12. more <=> 0 < n
  <2>1. Number(cs)[0 + 1] < Number(cs)[n + 1] <=> 0 < n BY <1>4, <1>11, MoreConstants, Zenon
  <2>2. Number(cs)[1] = 1 /\ Number(cs) \in [1 .. n + 1 -> Nat \ {0}] BY <1>4, NumberStep, Zenon
  <2> DEFINE k == Number(cs)[n + 1]
  <2>3. n + 1 \in 1 .. n + 1 BY <1>4
  <2>4. k \in Nat BY <2>2, <2>3
  <2>5. 0 + 1 = 1 OBVIOUS
  <2>6. 1 < k <=> 0 < n BY <2>1, <2>2, <2>5, Zenon
  <2>7. ValueAt(pos) = k BY <1>3, <1>5, Zenon DEF PoolCount
  <2> HIDE DEF k, n
  <2>8. k > 1 <=> 0 < n BY <1>4, <2>4, <2>6
  <2> QED BY <2>7, <2>8, Zenon
<1> HIDE DEF more
<1> DEFINE turns == IF more THEN 1 ELSE 0
<1>13. Went(10, Loop("constant", turns, After), <<Null>>) BY <1>9, Zenon DEF w
<1>14. turns = IF 0 < n THEN 1 ELSE 0 BY <1>12
<1> HIDE DEF turns
<1>15. LoopAt(0, 10, <<Null>>, turns) BY <1>5, <1>10, <1>14, Zenon DEF LoopAt
<1> QED BY <1>1, <1>11, <1>13, <1>15, ConstantsGo, Zenon

LEMMA ConstantHolds == ASSUME Going, ParseConstantInfo PROVE FileInv'
<1> HIDE DEF Constants, Cells, Tasks
<1> DEFINE cs == file.constants  n == Len(cs)
<1>1. Given /\ pool = <<Null>> /\ Stage BY Zenon DEF Going
<1>2. Current.name = "constant" BY Zenon DEF ParseConstantInfo
<1>3. InConstants BY <1>1, <1>2, StageNamed, Zenon DEF StageByName
<1>4. Ready /\ WellFormed(file) /\ cs \in Seq(Constants) /\ n \in Nat BY <1>1, GivenReady, Zenon
<1>5. PICK m \in 0 .. n - 1 : ConstantsRead(m) BY <1>3, Zenon DEF InConstants
<1>6. /\ work = <<Once("constant")>> \o After /\ Parsed(infos, cs, m)
      /\ At(pos, Remaining(cs, m) \o Behind(file))
  BY <1>5, Zenon DEF ConstantsRead
<1>7. Rest = After
  <2>0. "constant" \in TaskNames BY DEF TaskNames
  <2>1. Once("constant") \in Tasks BY <2>0, OnceType, Zenon
  <2>2. After \in Seq(Tasks) BY <1>4, AfterMatches, Zenon
  <2>3. Consed(Tasks, Once("constant"), After, work) BY <1>6, <2>1, <2>2, ConsParts, Zenon
  <2> QED BY <2>3, Zenon DEF Consed, Rest
<1> DEFINE read == ReadConstant(ValueAt(pos), pos + 1)
<1>8. Fits(pos, <<1>>) /\ ReadOn(read, m) BY <1>4, <1>6, ConstantStep, Zenon
<1>9. PICK info \in read.infos :
        LET grown == infos \o Entries(info) IN
        ProceedWith(read.fits, read.end,
                    Loop("constant", IF Len(grown) < Count THEN 1 ELSE 0, Rest), grown)
  BY <1>8, Zenon DEF ParseConstantInfo
<1> HIDE DEF read
<1> DEFINE grown == infos \o Entries(info)  more == Len(grown) < Count
           w == Loop("constant", IF more THEN 1 ELSE 0, After)
<1>10. /\ read.fits /\ At(read.end, Remaining(cs, m + 1) \o Behind(file))
       /\ InfoOf(info, cs[m + 1])
  BY <1>8, <1>9, Zenon DEF ReadOn
<1>11. Went(read.end, w, grown)
  <2>1. ProceedWith(read.fits, read.end, w, grown) BY <1>7, <1>9, Zenon
  <2> HIDE DEF w, grown
  <2> QED BY <1>10, <2>1, Goes, Zenon
<1>12. Parsed(grown, cs, m + 1) /\ Len(grown) = Number(cs)[(m + 1) + 1]
  BY <1>4, <1>6, <1>10, GrowParsed, Zenon
<1>13. m + 1 \in 0 .. n BY <1>4
<1>14. Count = Number(cs)[n + 1] BY <1>4, Beginning, Zenon DEF Count, PoolCount
<1>15. more <=> m + 1 < n
  <2> DEFINE l == Number(cs)[(m + 1) + 1]  c == Number(cs)[n + 1]
  <2>1. l < c <=> m + 1 < n BY <1>4, <1>13, MoreConstants, Zenon
  <2> QED BY <1>12, <1>14, <2>1, Zenon DEF l, c
<1> HIDE DEF more, grown
<1> DEFINE turns == IF more THEN 1 ELSE 0
<1>16. Went(read.end, Loop("constant", turns, After), grown) BY <1>11, Zenon DEF w
<1> HIDE DEF w
<1>17. turns = IF m + 1 < n THEN 1 ELSE 0 BY <1>15
<1> HIDE DEF turns
<1>18. LoopAt(m + 1, read.end, grown, turns) BY <1>10, <1>12, <1>17, Zenon DEF LoopAt
<1> QED BY <1>1, <1>13, <1>16, <1>18, ConstantsGo, Zenon

-----------------------------------------------------------------------------
(* The run-time pool, the initial states, and every step *)

LEMMA CountIs ==
  ASSUME Given
  PROVE  Count = Number(file.constants)[Len(file.constants) + 1]
<1>1. Ready /\ WellFormed(file) BY GivenReady, Zenon
<1> QED BY <1>1, Beginning, Zenon DEF Count, PoolCount

LEMMA MakeHolds ==
  ASSUME Given, WhileLinking, MakeRuntimeConstant
  PROVE  FileInv'
<1> HIDE DEF Constants, Cells, Tasks
<1> DEFINE cs == file.constants  n == Len(cs)
<1>1. WellFormedPool(cs) /\ cs \in Seq(Constants) /\ n \in Nat BY GivenReady, Zenon
<1>2. status = "linking" /\ Len(pool) < Count BY Zenon DEF MakeRuntimeConstant
<1>3. pos = bytes.size /\ Parsed(infos, cs, n) /\ PoolMade BY <1>2, Zenon DEF WhileLinking, ParsedAll
<1>4. PICK m \in 0 .. n : Made(pool, cs, m) BY <1>3, Zenon DEF PoolMade
<1>5. Len(pool) = Number(cs)[m + 1] BY <1>4, Zenon DEF Made
<1>6. m < n
  <2>1. Number(cs)[m + 1] < Number(cs)[n + 1] BY <1>2, <1>5, CountIs, Zenon
  <2> QED BY <1>1, <2>1, MoreConstants, Zenon
<1>7. m \in 0 .. n - 1 /\ m + 1 \in 1 .. n /\ m + 1 \in 0 .. n BY <1>1, <1>6
<1> DEFINE i == Len(pool)  made == MakeConstant(i)
           bad == {cast \in Casts(i) : Info(cast[1]).kind /= cast[2]}
<1>8. IF Info(i) = Null THEN Stop("segv")
      ELSE IF bad /= {} THEN \E cast \in bad : Stop(BadEntry(cast[1]))
      ELSE /\ pool' = pool \o MadeEntries(made)
           /\ UNCHANGED <<file, bytes, pos, work, infos, status>>
  BY Zenon DEF MakeRuntimeConstant
<1>9. Info(i) # Null /\ Entry(made, cs, m + 1)
  <2>1. Entry(MakeConstant(Number(cs)[m + 1]), cs, m + 1) /\ Info(Number(cs)[m + 1]) # Null
    BY <1>1, <1>3, <1>7, MadeRight, Zenon
  <2> QED BY <1>5, <2>1, Zenon
<1>10. bad = {}
  <2>1. \A cast \in Casts(Number(cs)[m + 1]) : CastRight(cast) BY <1>1, <1>3, <1>7, CastsRight, Zenon
  <2>2. \A cast \in Casts(i) : CastRight(cast) BY <1>5, <2>1, Zenon
  <2> HIDE DEF i
  <2> QED BY <2>2, Zenon DEF CastRight
<1> HIDE DEF bad, made, i
<1>11. pool' = pool \o MadeEntries(made) /\ UNCHANGED <<file, bytes, pos, work, infos, status>>
  BY <1>8, <1>9, <1>10, Zenon
<1>12. file' = file /\ bytes' = bytes /\ pos' = pos /\ infos' = infos /\ status' = "linking"
  BY <1>2, <1>11, Zenon
<1>13. Made(pool \o MadeEntries(made), cs, m + 1) BY <1>1, <1>4, <1>7, <1>9, GrowMade, Zenon
<1>14. PoolMade'
  <2>1. Made(pool', cs, m + 1) BY <1>11, <1>13, Zenon
  <2> QED BY <1>7, <1>12, <2>1, Zenon DEF PoolMade
<1>15. WhileLinking' BY <1>3, <1>12, <1>14, Zenon DEF WhileLinking, ParsedAll
<1>16. Given' BY <1>12, Zenon DEF Given
<1>17. Stopped' /\ WhileParsing' /\ WhenDone' /\ WhenFatal'
  BY <1>12 DEF Stopped, WhileParsing, WhenDone, WhenFatal
<1> QED BY <1>15, <1>16, <1>17, Zenon DEF FileInv

LEMMA DoneHolds ==
  ASSUME Given, WhileLinking, MakeRuntimeConstantPool
  PROVE  FileInv'
<1> HIDE DEF Constants, Cells, Tasks
<1> DEFINE cs == file.constants  n == Len(cs)
<1>1. cs \in Seq(Constants) /\ n \in Nat BY GivenReady, Zenon
<1>2. status = "linking" /\ Len(pool) >= Count /\ Stop("done") BY Zenon DEF MakeRuntimeConstantPool
<1>3. pos = bytes.size /\ PoolMade BY <1>2, Zenon DEF WhileLinking
<1>4. PICK m \in 0 .. n : Made(pool, cs, m) BY <1>3, Zenon DEF PoolMade
<1>5. Len(pool) = Number(cs)[m + 1] BY <1>4, Zenon DEF Made
<1>6. m = n
  <2> DEFINE a == Number(cs)[m + 1]  b == Number(cs)[n + 1]
  <2>1. a >= b BY <1>2, <1>5, CountIs, Zenon
  <2>2. Number(cs) \in [1 .. n + 1 -> Nat \ {0}] BY <1>1, NumberStep, Zenon
  <2>3. n + 1 \in 1 .. n + 1 /\ m + 1 \in 1 .. n + 1 BY <1>1
  <2>4. a \in Nat /\ b \in Nat BY <2>2, <2>3
  <2>5. a < b <=> m < n BY <1>1, MoreConstants, Zenon
  <2> HIDE DEF a, b, n
  <2> QED BY <1>1, <2>1, <2>4, <2>5
<1>7. Made(pool, cs, n) BY <1>4, <1>6, Zenon
<1>8. file' = file /\ bytes' = bytes /\ pos' = pos /\ pool' = pool /\ status' = "done"
  BY <1>2, Zenon DEF Stop
<1>9. WhenDone' BY <1>3, <1>7, <1>8, Zenon DEF WhenDone
<1>10. Given' BY <1>8, Zenon DEF Given
<1>11. Stopped' /\ WhileParsing' /\ WhileLinking' /\ WhenFatal'
  BY <1>8 DEF Stopped, WhileParsing, WhileLinking, WhenFatal
<1> QED BY <1>9, <1>10, <1>11, Zenon DEF FileInv

LEMMA FileInit == Init => FileInv
<1> SUFFICES ASSUME Init PROVE FileInv OBVIOUS
<1>1. Given BY Zenon DEF Init, Given
<1>2. work = Initial /\ pos = 0 /\ pool = <<Null>> /\ status = "parsing" BY Zenon DEF Init, Initial
<1>3. Stage BY <1>2, Zenon DEF Stage
<1>4. WhileParsing BY <1>2, <1>3, Zenon DEF WhileParsing
<1>5. Stopped /\ WhileLinking /\ WhenDone /\ WhenFatal
  BY <1>2 DEF Stopped, WhileLinking, WhenDone, WhenFatal
<1> QED BY <1>1, <1>4, <1>5, Zenon DEF FileInv

LEMMA StandsStill ==
  ASSUME FileInv, UNCHANGED vars
  PROVE  FileInv'
<1> HIDE DEF Cells, Tasks
<1>1. /\ file' = file /\ bytes' = bytes /\ pos' = pos /\ work' = work /\ infos' = infos
      /\ pool' = pool /\ status' = status
  BY Zenon DEF vars
<1>2. Given /\ Stopped /\ WhileParsing /\ WhileLinking /\ WhenDone /\ WhenFatal BY Zenon DEF FileInv
<1>3. Given' /\ Stopped' /\ WhenDone' BY <1>1, <1>2, Zenon DEF Given, Stopped, WhenDone
<1>4. WhenFatal' BY <1>1, <1>2, Zenon DEF WhenFatal, Supported
<1>5. ParsedAll => ParsedAll' BY <1>1, Zenon DEF ParsedAll
<1>6. PoolMade => PoolMade' BY <1>1, Zenon DEF PoolMade
<1>7. WhileLinking' BY <1>1, <1>2, <1>5, <1>6, Zenon DEF WhileLinking
<1>8. BehindConstants => BehindConstants'
  <2>1. Onward(pos, work) => Onward(pos, work)' BY <1>1, Zenon DEF Onward, At
  <2> QED BY <1>1, <1>5, <2>1, Zenon DEF BehindConstants
<1>9. InConstants => InConstants'
  <2>1. ASSUME NEW m, ConstantsRead(m) PROVE ConstantsRead(m)'
    BY <1>1, <2>1, Zenon DEF ConstantsRead, At, After, Once, Task
  <2> QED BY <1>1, <2>1, Zenon DEF InConstants
<1>10. Stage => Stage'
  BY <1>1, <1>8, <1>9, Zenon DEF Stage, Initial, AtVersion, AtPool, Once, Task
<1>11. WhileParsing' BY <1>1, <1>2, <1>10, Zenon DEF WhileParsing
<1> QED BY <1>3, <1>4, <1>7, <1>11, Zenon DEF FileInv

LEMMA FileStep == FileInv /\ [Next]_vars => FileInv'
<1> SUFFICES ASSUME FileInv, [Next]_vars PROVE FileInv' OBVIOUS
<1>1. Given /\ WhileParsing /\ WhileLinking BY Zenon DEF FileInv
<1>2. CASE Parse
  <2>1. Going BY <1>1, <1>2, Zenon DEF Going, Parse, WhileParsing
  <2> QED BY <1>2, <2>1, MagicHolds, VersionHolds, PoolHolds, ConstantHolds, HeaderHolds,
             InterfacesHolds, MembersHolds, MemberHolds, AttributesHolds, AttributeHolds, Zenon
          DEF Parse
<1>3. CASE MakeRuntimeConstant BY <1>1, <1>3, MakeHolds, Zenon
<1>4. CASE MakeRuntimeConstantPool BY <1>1, <1>4, DoneHolds, Zenon
<1>5. CASE UNCHANGED vars BY <1>5, StandsStill, Zenon
<1> QED BY <1>2, <1>3, <1>4, <1>5, Zenon DEF Next

(* The invariant holds in every reachable state. *)
LEMMA FileAlways == Spec => []FileInv
BY FileInit, FileStep, PTL DEF Spec

(* For every well-formed class file Parse never reads a count, a length or *)
(* an index anywhere but where it was written, whatever known, unknown and *)
(* nested attributes the file has, and ends at its last byte.              *)
THEOREM ParserInStep == Spec => []InStep
<1>1. FileInv => InStep
  <2> SUFFICES ASSUME FileInv PROVE InStep OBVIOUS
  <2>1. Stopped /\ WhileLinking /\ WhenDone BY Zenon DEF FileInv
  <2>2. status # "misread" BY <2>1 DEF Stopped
  <2>3. status \in {"linking", "done"} => pos = bytes.size BY <2>1, Zenon DEF WhileLinking, WhenDone
  <2> QED BY <2>2, <2>3, Zenon DEF InStep
<1> QED BY <1>1, FileAlways, PTL

-----------------------------------------------------------------------------
(* What ParseUnsignedInt makes of the bits of a number *)

ByteOf(bits, a) == {b \in 0 .. 7 : a + b \in bits}
IntOf(bits, a, folded) ==
  IF a < 32 THEN {b + a : b \in ByteOf(bits, a)}
  ELSE IF folded THEN {} ELSE {b + (a % 32) : b \in ByteOf(bits, a)}
ShiftedOf(bits, a, folded) ==
  IntOf(bits, a, folded) \cup (IF 31 \in IntOf(bits, a, folded) THEN 32 .. 63 ELSE {})

LEMMA BitsIn ==
  ASSUME NEW bits, NEW size, NEW folded, NEW x
  PROVE  x \in ParsedBits(bits, size, folded) <=>
           /\ x \in 0 .. 8 * size - 1
           /\ \E i \in 0 .. size - 1 : x \in ShiftedOf(bits, 8 * (size - 1 - i), folded)
BY ZenonT(40) DEF ParsedBits, ShiftedOf, IntOf, ByteOf

LEMMA LowByte ==
  ASSUME NEW bits, bits \subseteq 0 .. 31, NEW a \in {0, 8, 16, 24}, NEW folded, NEW x
  PROVE  /\ x \in IntOf(bits, a, folded) <=> x \in bits /\ x \in a .. a + 7
         /\ x \in ShiftedOf(bits, a, folded) =>
              x \in bits \/ (31 \in bits /\ x \in 32 .. 63)
         /\ x \in bits /\ x \in a .. a + 7 => x \in ShiftedOf(bits, a, folded)
<1>1. IntOf(bits, a, folded) = {b + a : b \in ByteOf(bits, a)} BY DEF IntOf
<1>2. ASSUME NEW y PROVE y \in IntOf(bits, a, folded) <=> y \in bits /\ y \in a .. a + 7
  <2>1. ASSUME y \in IntOf(bits, a, folded) PROVE y \in bits /\ y \in a .. a + 7
    <3>1. PICK b \in ByteOf(bits, a) : y = b + a BY <1>1, <2>1
    <3>2. b \in 0 .. 7 /\ a + b \in bits BY DEF ByteOf
    <3>3. a + b = b + a /\ b + a \in a .. a + 7 BY <3>2
    <3> QED BY <3>1, <3>2, <3>3, Zenon
  <2>2. ASSUME y \in bits, y \in a .. a + 7 PROVE y \in IntOf(bits, a, folded)
    <3>1. y - a \in 0 .. 7 /\ a + (y - a) = y /\ (y - a) + a = y BY <2>2
    <3>2. y - a \in ByteOf(bits, a) BY <2>2, <3>1, Zenon DEF ByteOf
    <3> QED BY <1>1, <3>1, <3>2, Zenon
  <2> QED BY <2>1, <2>2, Zenon
<1>3. x \in ShiftedOf(bits, a, folded) => x \in bits \/ (31 \in bits /\ x \in 32 .. 63)
  <2> DEFINE int == IntOf(bits, a, folded)  y == 31
  <2>1. \A z \in int : z \in bits BY <1>2, Zenon
  <2> HIDE DEF int
  <2> QED BY <2>1, Zenon DEF ShiftedOf, int
<1>4. x \in bits /\ x \in a .. a + 7 => x \in ShiftedOf(bits, a, folded)
  BY <1>2, Zenon DEF ShiftedOf
<1> QED BY <1>2, <1>3, <1>4, Zenon

LEMMA HighByte ==
  ASSUME NEW bits, bits \subseteq 0 .. 31, NEW a \in {32, 40, 48, 56}, NEW folded
  PROVE  ShiftedOf(bits, a, folded) = {}
<1>1. ByteOf(bits, a) = {}
  <2>1. ASSUME NEW b \in 0 .. 7 PROVE a + b \notin bits
    <3>1. a + b \notin 0 .. 31 OBVIOUS
    <3> QED BY <3>1
  <2> QED BY <2>1 DEF ByteOf
<1>2. IntOf(bits, a, folded) = {} BY <1>1 DEF IntOf
<1> QED BY <1>2, Zenon DEF ShiftedOf

(* An int or float *)
LEMMA NarrowExact ==
  ASSUME NEW bits, bits \subseteq 0 .. 31, NEW folded
  PROVE  ParsedBits(bits, 4, folded) = bits
<1>1. ASSUME NEW x, x \in ParsedBits(bits, 4, folded) PROVE x \in bits
  <2>1. /\ x \in 0 .. 8 * 4 - 1
        /\ \E i \in 0 .. 4 - 1 : x \in ShiftedOf(bits, 8 * (4 - 1 - i), folded)
    BY <1>1, BitsIn, Zenon
  <2>2. PICK i \in 0 .. 4 - 1 : x \in ShiftedOf(bits, 8 * (4 - 1 - i), folded) BY <2>1, Zenon
  <2>3. 8 * (4 - 1 - i) \in {0, 8, 16, 24} BY <2>2
  <2>4. x \in bits \/ x \in 32 .. 63 BY <2>2, <2>3, LowByte, ZenonT(40)
  <2>5. x \notin 32 .. 63 BY <2>1
  <2> QED BY <2>4, <2>5, Zenon
<1>2. ASSUME NEW x \in bits PROVE x \in ParsedBits(bits, 4, folded)
  <2>1. x \in 0 .. 8 * 4 - 1 OBVIOUS
  <2>2. \E i \in 0 .. 4 - 1 : 8 * (4 - 1 - i) \in {0, 8, 16, 24}
                              /\ x \in 8 * (4 - 1 - i) .. 8 * (4 - 1 - i) + 7
    <3>1. CASE x \in 0 .. 7 BY <3>1
    <3>2. CASE x \in 8 .. 15 BY <3>2
    <3>3. CASE x \in 16 .. 23 BY <3>3
    <3>4. CASE x \in 24 .. 31 BY <3>4
    <3> QED BY <2>1, <3>1, <3>2, <3>3, <3>4
  <2>3. \E i \in 0 .. 4 - 1 : x \in ShiftedOf(bits, 8 * (4 - 1 - i), folded) BY <2>2, LowByte, Zenon
  <2> QED BY <2>1, <2>3, BitsIn, Zenon
<1> QED BY <1>1, <1>2

(* A long or double without bits above 30 *)
LEMMA WideExact ==
  ASSUME NEW bits, bits \subseteq 0 .. 30, NEW folded
  PROVE  ParsedBits(bits, 8, folded) = bits
<1>0. bits \subseteq 0 .. 31 /\ 31 \notin bits OBVIOUS
<1>1. ASSUME NEW x, x \in ParsedBits(bits, 8, folded) PROVE x \in bits
  <2>1. \E i \in 0 .. 8 - 1 : x \in ShiftedOf(bits, 8 * (8 - 1 - i), folded)
    BY <1>1, BitsIn, Zenon
  <2>2. PICK i \in 0 .. 8 - 1 : x \in ShiftedOf(bits, 8 * (8 - 1 - i), folded) BY <2>1, Zenon
  <2>3. 8 * (8 - 1 - i) \in {0, 8, 16, 24} \/ 8 * (8 - 1 - i) \in {32, 40, 48, 56} BY <2>2
  <2>4. CASE 8 * (8 - 1 - i) \in {0, 8, 16, 24} BY <1>0, <2>2, <2>4, LowByte, Zenon
  <2>5. CASE 8 * (8 - 1 - i) \in {32, 40, 48, 56}
    <3>1. ShiftedOf(bits, 8 * (8 - 1 - i), folded) = {} BY <1>0, <2>5, HighByte, Zenon
    <3> QED BY <2>2, <3>1, Zenon
  <2> QED BY <2>3, <2>4, <2>5, Zenon
<1>2. ASSUME NEW x \in bits PROVE x \in ParsedBits(bits, 8, folded)
  <2>1. x \in 0 .. 8 * 8 - 1 /\ x \in 0 .. 31 OBVIOUS
  <2>2. \E i \in 0 .. 8 - 1 : 8 * (8 - 1 - i) \in {0, 8, 16, 24}
                              /\ x \in 8 * (8 - 1 - i) .. 8 * (8 - 1 - i) + 7
    <3>1. CASE x \in 0 .. 7 BY <3>1
    <3>2. CASE x \in 8 .. 15 BY <3>2
    <3>3. CASE x \in 16 .. 23 BY <3>3
    <3>4. CASE x \in 24 .. 31 BY <3>4
    <3> QED BY <2>1, <3>1, <3>2, <3>3, <3>4
  <2>3. \E i \in 0 .. 8 - 1 : x \in ShiftedOf(bits, 8 * (8 - 1 - i), folded)
    BY <1>0, <2>2, LowByte, Zenon
  <2> QED BY <2>1, <2>3, BitsIn, Zenon
<1> QED BY <1>1, <1>2

LEMMA NumberExact ==
  ASSUME NEW kind, NEW bits, NEW parsed \in ParsedNumber(kind, bits),
         kind \in Wide => bits \subseteq 0 .. 30, kind \notin Wide => bits \subseteq 0 .. 31
  PROVE  parsed = bits
<1>1. PICK folded \in BOOLEAN : parsed = ParsedBits(bits, IF kind \in Wide THEN 8 ELSE 4, folded)
  BY Zenon DEF ParsedNumber
<1>2. CASE kind \in Wide
  <2>1. parsed = ParsedBits(bits, 8, folded) BY <1>1, <1>2, Zenon
  <2> QED BY <1>2, <2>1, WideExact, Zenon
<1>3. CASE kind \notin Wide
  <2>1. parsed = ParsedBits(bits, 4, folded) BY <1>1, <1>3, Zenon
  <2> QED BY <1>3, <2>1, NarrowExact, Zenon
<1> QED BY <1>2, <1>3, Zenon

-----------------------------------------------------------------------------
(* The pool when it is made *)

(* What stands at number k of the pool q of the constants cs *)
Agrees(q, cs, k) ==
  IF k \in {Number(cs)[i] : i \in {j \in DOMAIN cs : cs[j].kind \in Kept}}
  THEN q[k + 1].kind = TagOf(Numbered(cs, k).kind) /\ q[k + 1].names = NamesOf(cs, k)
  ELSE q[k + 1] = Null

LEMMA MadeAgrees ==
  ASSUME NEW cs, NEW T, cs \in Seq(T), NEW q, Made(q, cs, Len(cs)),
         NEW k \in 1 .. Last(Number(cs)) - 1
  PROVE  Agrees(q, cs, k)
<1> DEFINE t == Number(cs)  n == Len(cs)  kept == {j \in DOMAIN cs : cs[j].kind \in Kept}
<1>1. /\ t \in [1 .. n + 1 -> Nat \ {0}] /\ n \in Nat /\ DOMAIN cs = 1 .. n
      /\ \A i \in 1 .. n : t[i + 1] = t[i] + NumbersOf(cs[i])
      /\ \A i, j \in 1 .. n + 1 : i < j => t[i] < t[j]
      /\ \A i, j \in 1 .. n + 1 : t[i] = t[j] => i = j
  BY NumberStep, NumberOrder, Zenon
<1>2. PICK i \in 1 .. n : k = t[i] \/ (cs[i].kind \in Wide /\ k = t[i] + 1) BY NumberCovers, Zenon
<1>3. Entry(q[t[i] + 1], cs, i) /\ (cs[i].kind \in Wide => q[t[i] + 2] = Null) BY Zenon DEF Made
<1>4. Numbered(cs, t[i]) = cs[i] BY NumberedIs, Zenon
<1>5. i \in 1 .. n + 1 /\ i + 1 \in 1 .. n + 1 /\ \A j \in 1 .. n : j \in 1 .. n + 1 BY <1>1
<1>6. \A j \in kept : j \in 1 .. n /\ cs[j].kind \in Kept BY <1>1, Zenon
<1> HIDE DEF t, n, kept
<1>7. CASE k = t[i] /\ cs[i].kind \in Kept
  <2>1. i \in kept BY <1>1, <1>7, Zenon DEF kept
  <2>2. k \in {t[j] : j \in kept} BY <1>7, <2>1, Zenon
  <2>3. q[k + 1].kind = TagOf(cs[i].kind) /\ q[k + 1].names = NamesOf(cs, k)
    BY <1>3, <1>7, Zenon DEF Entry, t
  <2>4. Numbered(cs, k) = cs[i] BY <1>4, <1>7, Zenon
  <2> QED BY <2>2, <2>3, <2>4, Zenon DEF Agrees, t, kept
<1>8. CASE k = t[i] /\ cs[i].kind \notin Kept
  <2>1. q[k + 1] = Null BY <1>3, <1>8, Zenon DEF Entry
  <2>2. k \notin {t[j] : j \in kept}
    <3>1. ASSUME NEW j \in kept, k = t[j] PROVE FALSE
      <4>1. j = i BY <1>1, <1>5, <1>6, <1>8, <3>1, Zenon
      <4> QED BY <1>6, <1>8, <3>1, <4>1, Zenon
    <3> QED BY <3>1, Zenon
  <2> QED BY <2>1, <2>2, Zenon DEF Agrees, t, kept
<1>9. CASE cs[i].kind \in Wide /\ k = t[i] + 1
  <2>1. t[i + 1] = t[i] + 2 BY <1>1, <1>9, Zenon DEF NumbersOf
  <2>2. t[i] \in Nat /\ t[i + 1] \in Nat BY <1>1, <1>5
  <2>3. q[k + 1] = Null
    <3>1. k + 1 = t[i] + 2 BY <1>9, <2>2
    <3> QED BY <1>3, <1>9, <3>1, Zenon
  <2>4. k \notin {t[j] : j \in kept}
    <3>1. ASSUME NEW j \in kept, k = t[j] PROVE FALSE
      <4>1. j \in 1 .. n + 1 BY <1>5, <1>6, Zenon
      <4>2. t[j] \in Nat BY <1>1, <4>1
      <4>3. i < j \/ j = i \/ j < i BY <1>1, <1>5, <4>1
      <4>4. i < j => i + 1 = j \/ i + 1 < j BY <1>1, <1>5, <4>1
      <4>5. CASE i < j
        <5>1. t[i + 1] = t[j] \/ t[i + 1] < t[j] BY <1>1, <1>5, <4>1, <4>4, <4>5, Zenon
        <5> QED BY <1>9, <2>1, <2>2, <3>1, <4>2, <5>1
      <4>6. CASE j = i BY <1>9, <2>2, <3>1, <4>6
      <4>7. CASE j < i
        <5>1. t[j] < t[i] BY <1>1, <1>5, <4>1, <4>7, Zenon
        <5> QED BY <1>9, <2>2, <3>1, <4>2, <5>1
      <4> QED BY <4>3, <4>5, <4>6, <4>7, Zenon
    <3> QED BY <3>1, Zenon
  <2> QED BY <2>3, <2>4, Zenon DEF Agrees, t, kept
<1> QED BY <1>2, <1>7, <1>8, <1>9, Zenon

(* For every well-formed class file each number means the same constant to *)
(* the file and to the run-time pool, longs and doubles counting as two,   *)
(* the constructor dereferences no null and casts no entry to a class it   *)
(* has not, and only a wrong magic or version is fatal.                    *)
THEOREM ConstantPoolsAgree == Spec => []PoolsAgree
<1>1. FileInv => PoolsAgree
  <2> SUFFICES ASSUME FileInv PROVE PoolsAgree OBVIOUS
  <2> HIDE DEF Constants
  <2>1. Given /\ Stopped /\ WhenFatal /\ WhenDone BY Zenon DEF FileInv
  <2>2. status # "segv" BY <2>1 DEF Stopped
  <2> DEFINE cs == file.constants
  <2>3. cs \in Seq(Constants) BY <2>1, GivenReady, Zenon
  <2>4. status = "done" => \A k \in 1 .. Last(Number(cs)) - 1 : Agrees(pool, cs, k)
    BY <2>1, <2>3, MadeAgrees, Zenon DEF WhenDone
  <2> QED BY <2>1, <2>2, <2>4, Zenon DEF PoolsAgree, WhenFatal, Agrees, Kept
<1> QED BY <1>1, FileAlways, PTL

(* For every well-formed class file every int and float, and every long    *)
(* and double without bits above 30, gets into the run-time pool bit by    *)
(* bit as ParseUnsignedInt should read it, whatever the compiler makes of  *)
(* its shifts.                                                             *)
THEOREM NumbersExact == Spec => []ConstantsExact
<1>1. FileInv => ConstantsExact
  <2> SUFFICES ASSUME FileInv PROVE ConstantsExact OBVIOUS
  <2> HIDE DEF Constants
  <2> DEFINE cs == file.constants  t == Number(cs)
  <2>1. Given /\ WhenDone BY Zenon DEF FileInv
  <2>2. cs \in Seq(Constants) /\ WellFormedPool(cs) BY <2>1, GivenReady, Zenon
  <2>3. DOMAIN cs = 1 .. Len(cs) BY <2>2, NumberStep, Zenon
  <2>4. ASSUME status = "done", NEW i \in DOMAIN cs, cs[i].kind \in Numbers,
               cs[i].kind \in Wide => cs[i].bits \subseteq 0 .. 30
        PROVE  pool[t[i] + 1].bits = cs[i].bits
    <3>1. Entry(pool[t[i] + 1], cs, i) BY <2>1, <2>3, <2>4, Zenon DEF WhenDone, Made
    <3>2. pool[t[i] + 1].bits \in ParsedNumber(cs[i].kind, cs[i].bits)
      BY <2>4, <3>1, Zenon DEF Entry, Kept
    <3>3. cs[i].kind \in {"Integer", "Float"} => cs[i].bits \subseteq 0 .. 31
      BY <2>2, Zenon DEF WellFormedPool
    <3>4. cs[i].kind \notin Wide => cs[i].kind \in {"Integer", "Float"} BY <2>4, Zenon DEF Numbers
    <3>5. cs[i].kind \notin Wide => cs[i].bits \subseteq 0 .. 31 BY <3>3, <3>4, Zenon
    <3> QED BY <2>4, <3>2, <3>5, NumberExact, Zenon
  <2> QED BY <2>4, Zenon DEF ConstantsExact
<1> QED BY <1>1, FileAlways, PTL
============================================================================
