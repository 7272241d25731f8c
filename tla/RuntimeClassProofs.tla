------------------------- MODULE RuntimeClassProofs -------------------------
(***************************************************************************)
(* What runtime::Class answers and where its objects and variables lie.    *)
(*                                                                         *)
(* ClassRelations: the walks of class.cpp agree with reachability in every *)
(* hierarchy, of any number of classes and interfaces.  Ordered, that a    *)
(* class has a greater number than its superclass and its interfaces, is   *)
(* the inductive invariant.  It makes the walks well founded: each is a    *)
(* function computed from its values below (Recursion), and what is true   *)
(* of it is shown by StrongInduction over the classes.                     *)
(*                                                                         *)
(* Fields: FreshAccounted, EarlierClassesWhole and StaticsReadBack for     *)
(* every heap size, every set of classes and any number of allocations and *)
(* writes.                                                                 *)
(***************************************************************************)
EXTENDS ClassRelations, Fields, WellFoundedInduction, FiniteSetTheorems, SequenceTheorems, TLAPS

-----------------------------------------------------------------------------
(* Induction for a set, where the library's theorems take an operator,     *)
(* which no prover here instantiates                                       *)

(* A set of numbers that is not empty has a least element. *)
LEMMA LeastNat ==
  ASSUME NEW T, T \subseteq Nat, T # {}
  PROVE  \E x \in T : \A y \in T : x <= y
<1> DEFINE R == OpToRel(<, Nat)
<1>1. IsWellFoundedOn(R, Nat) BY NatLessThanWellFounded, Zenon
<1>2. \A x, y \in Nat : x < y => <<x, y>> \in R BY DEF OpToRel
<1> HIDE DEF R
<1>3. PICK x \in T : \A y \in T : ~ (<<y, x>> \in R) BY <1>1, WFMin, Zenon
<1>4. \A y \in T : ~ (y < x) BY <1>2, <1>3, Zenon
<1>5. \A y \in T : x <= y BY <1>4
<1> QED BY <1>5

(* Induction up to n, for a set. *)
LEMMA Induction ==
  ASSUME NEW n \in Nat, NEW S, 0 \in S, \A i \in 0 .. n - 1 : i \in S => i + 1 \in S
  PROVE  0 .. n \subseteq S
<1> SUFFICES ASSUME NEW k \in 0 .. n, k \notin S PROVE FALSE OBVIOUS
<1> DEFINE T == {i \in 0 .. n : i \notin S}
<1>1. PICK x \in T : \A y \in T : x <= y
  <2> HIDE DEF T
  <2>1. T \subseteq Nat /\ T # {} BY DEF T
  <2> QED BY <2>1, LeastNat
<1>2. x - 1 \in 0 .. n - 1 BY <1>1
<1>3. x - 1 \in S BY <1>1, <1>2
<1> QED BY <1>1, <1>2, <1>3

(* Functions are equal when their values are. *)
LEMMA SameFunction ==
  ASSUME NEW D, NEW f, NEW h, f = [i \in D |-> f[i]], h = [i \in D |-> h[i]],
         \A i \in D : f[i] = h[i]
  PROVE  f = h
OBVIOUS

-----------------------------------------------------------------------------
(* Recursion over classes numbered in the order of definition *)

(* What holds of a number when it holds of all below holds up to n - 1. *)
LEMMA StrongInduction ==
  ASSUME NEW n \in Nat, NEW S, \A k \in 0 .. n - 1 : (\A j \in 0 .. k - 1 : j \in S) => k \in S
  PROVE  0 .. n - 1 \subseteq S
<1> SUFFICES ASSUME NEW k \in 0 .. n - 1, k \notin S PROVE FALSE OBVIOUS
<1> DEFINE T == {i \in 0 .. n - 1 : i \notin S}
<1>1. PICK x \in T : \A y \in T : x <= y
  <2> HIDE DEF T
  <2>1. T \subseteq Nat /\ T # {} BY DEF T
  <2> QED BY <2>1, LeastNat
<1>2. \A j \in 0 .. x - 1 : j \in S
  <2> SUFFICES ASSUME NEW j \in 0 .. x - 1, j \notin S PROVE FALSE OBVIOUS
  <2>1. j \in T BY <1>1
  <2> QED BY <1>1, <2>1
<1> QED BY <1>1, <1>2

(* G[k] computes a value in V and looks at the values below k only *)
LooksBelow(G, n, V) ==
  /\ G \in [0 .. n - 1 -> [[0 .. n - 1 -> V] -> V]]
  /\ \A k \in 0 .. n - 1 : \A f, g \in [0 .. n - 1 -> V] :
       (\A j \in 0 .. k - 1 : f[j] = g[j]) => G[k][f] = G[k][g]

ComputedBy(f, G, n, V) == f \in [0 .. n - 1 -> V] /\ \A k \in 0 .. n - 1 : f[k] = G[k][f]

(* A function whose values are computed from those below exists. *)
LEMMA Recursion ==
  ASSUME NEW n \in Nat, NEW V, NEW a \in V, NEW G, LooksBelow(G, n, V)
  PROVE  \E f : ComputedBy(f, G, n, V)
<1> DEFINE D == 0 .. n - 1
           Upto(i, f) == \A k \in 0 .. i - 1 : f[k] = G[k][f]
           S == {i \in 0 .. n : \E f \in [D -> V] : Upto(i, f)}
<1>0. G \in [D -> [[D -> V] -> V]] BY DEF LooksBelow
<1>1. 0 \in S
  <2> DEFINE g == [i \in D |-> a]
  <2>1. g \in [D -> V] /\ Upto(0, g) OBVIOUS
  <2>2. \E f \in [D -> V] : Upto(0, f) BY <2>1, Zenon
  <2>3. 0 \in 0 .. n OBVIOUS
  <2> QED BY <2>2, <2>3, Zenon
<1>2. \A i \in 0 .. n - 1 : i \in S => i + 1 \in S
  <2> SUFFICES ASSUME NEW i \in 0 .. n - 1, i \in S PROVE i + 1 \in S OBVIOUS
  <2>1. PICK f \in [D -> V] : Upto(i, f) OBVIOUS
  <2> DEFINE g == [f EXCEPT ![i] = G[i][f]]
  <2>2. g \in [D -> V] BY <1>0
  <2>3. \A j \in D : j # i => g[j] = f[j] OBVIOUS
  <2>4. g[i] = G[i][f] OBVIOUS
  <2>5. \A k \in D : k <= i => G[k][f] = G[k][g]
    <3> SUFFICES ASSUME NEW k \in D, k <= i PROVE G[k][f] = G[k][g] OBVIOUS
    <3> HIDE DEF g
    <3>1. \A j \in 0 .. k - 1 : f[j] = g[j] BY <2>3
    <3> QED BY <2>2, <3>1, Zenon DEF LooksBelow
  <2>6. Upto(i + 1, g)
    <3> SUFFICES ASSUME NEW k \in 0 .. (i + 1) - 1 PROVE g[k] = G[k][g] OBVIOUS
    <3> HIDE DEF g
    <3>1. CASE k = i BY <3>1, <2>4, <2>5
    <3>2. CASE k # i
      <4>1. k \in 0 .. i - 1 /\ k \in D /\ k <= i BY <3>2
      <4>2. f[k] = G[k][f] BY <2>1, <4>1
      <4> QED BY <2>3, <2>5, <3>2, <4>1, <4>2, Zenon
    <3> QED BY <3>1, <3>2
  <2>7. \E h \in [D -> V] : Upto(i + 1, h)
    <3> HIDE DEF g
    <3> QED BY <2>2, <2>6, Zenon
  <2>8. i + 1 \in 0 .. n OBVIOUS
  <2> QED BY <2>7, <2>8, Zenon
<1>3. n \in S
  <2> HIDE DEF S
  <2>1. 0 .. n \subseteq S BY <1>1, <1>2, Induction
  <2> QED BY <2>1
<1> QED BY <1>3 DEF ComputedBy

-----------------------------------------------------------------------------
(* The hierarchies that the loader builds *)

(* Classes are numbered from 0; superclass and interfaces come before a    *)
(* class; an interface has Object as its superclass.                       *)
Ordered ==
  /\ \E n \in Nat : Defined = 0 .. n
  /\ DOMAIN interfaces = Defined
  /\ super[Object] = None
  /\ \A k \in Defined \ {Object} : super[k] \in 0 .. k - 1
  /\ \A k \in Defined : /\ interfaces[k] \in Seq(isInterface)
                        /\ \A i \in DOMAIN interfaces[k] : interfaces[k][i] \in 0 .. k - 1
  /\ isInterface \subseteq Defined \ {Object}
  /\ \A k \in isInterface : super[k] = Object
  /\ declares \subseteq Defined

LEMMA OrderedInit == HierarchyInit => Ordered
<1> SUFFICES ASSUME HierarchyInit PROVE Ordered OBVIOUS
<1> DEFINE m == Cardinality(Cloneables)
<1>1. m \in Nat /\ Cloneables = 1 .. m
  BY BoundAssumption, FS_CardinalityType
<1> HIDE DEF m
<1>2. Defined = 0 .. m
  BY <1>1 DEF HierarchyInit, Defined, Object
<1>3. super[Object] = None /\ \A k \in Defined \ {Object} : super[k] = Object
  BY <1>1, <1>2 DEF HierarchyInit, Object
<1>4. DOMAIN interfaces = Defined /\ \A k \in Defined : interfaces[k] = << >>
  BY DEF HierarchyInit, Defined, Object
<1>5. isInterface = Defined \ {Object} BY <1>1, <1>2 DEF HierarchyInit, Object
<1>6. declares \subseteq Defined BY <1>1, <1>2 DEF HierarchyInit, Object
<1>7. \A k \in Defined \ {Object} : super[k] \in 0 .. k - 1
  BY <1>1, <1>2, <1>3 DEF Object
<1>8. \A k \in Defined : /\ interfaces[k] \in Seq(isInterface)
                          /\ \A i \in DOMAIN interfaces[k] : interfaces[k][i] \in 0 .. k - 1
  <2>1. << >> \in Seq(isInterface) /\ DOMAIN << >> = {} OBVIOUS
  <2> QED BY <1>4, <2>1, Zenon
<1>9. \E n \in Nat : Defined = 0 .. n BY <1>1, <1>2
<1> HIDE DEF HierarchyInit
<1> QED BY <1>3, <1>4, <1>5, <1>6, <1>7, <1>8, <1>9, Zenon DEF Ordered

(* A list of interfaces is a sequence. *)
LEMMA ListsAreSequences == InterfaceLists \subseteq Seq(isInterface)
BY BoundAssumption DEF InterfaceLists

(* Define extends the hierarchy at the end and leaves the rest. *)
Extended(k, ifs) ==
  /\ Defined = 0 .. k - 1 /\ Defined' = 0 .. k
  /\ \A c \in Defined : super'[c] = super[c] /\ interfaces'[c] = interfaces[c]
  /\ \A c \in Defined : c \in declares' <=> c \in declares

LEMMA DefineExtends ==
  ASSUME Ordered, NEW sup \in Defined, NEW ifs \in InterfaceLists, NEW iface \in BOOLEAN,
         NEW decl \in BOOLEAN, Define(sup, ifs, iface, decl)
  PROVE  Ordered' /\ \E k \in Nat : Extended(k, ifs)
<1>1. PICK n \in Nat : Defined = 0 .. n BY DEF Ordered
<1>2. Cardinality(Defined) = n + 1
  BY <1>1, FS_Interval
<1> DEFINE k == n + 1
<1>3. /\ super' = [c \in Defined \cup {k} |-> IF c = k THEN sup ELSE super[c]]
      /\ interfaces' = [c \in Defined \cup {k} |-> IF c = k THEN ifs ELSE interfaces[c]]
      /\ isInterface' = isInterface \cup (IF iface THEN {k} ELSE {})
      /\ declares' = declares \cup (IF decl THEN {k} ELSE {})
      /\ iface => sup = Object
  BY <1>2 DEF Define
<1>4. Defined' = 0 .. k BY <1>1, <1>3 DEF Defined
<1>5. ifs \in Seq(isInterface) BY ListsAreSequences
<1>6. \A c \in Defined : c # k /\ c \in Defined \cup {k} BY <1>1
<1>7. \A c \in Defined : super'[c] = super[c] /\ interfaces'[c] = interfaces[c]
  BY <1>3, <1>6, Zenon
<1>8. super'[k] = sup /\ interfaces'[k] = ifs BY <1>3
<1>9. \A c \in Defined' : c \in Defined \/ c = k BY <1>1, <1>4
<1>10. isInterface \subseteq isInterface' /\ isInterface' \subseteq isInterface \cup {k} BY <1>3
<1>11. Ordered'
  <2>1. \E j \in Nat : Defined' = 0 .. j BY <1>4
  <2>2. (DOMAIN interfaces)' = Defined' BY <1>3 DEF Defined
  <2>3. (super[Object] = None)'
    <3>1. Object \in Defined BY <1>1 DEF Object
    <3>2. super[Object] = None BY Zenon DEF Ordered
    <3>3. super'[Object] = super[Object] BY <1>7, <3>1, Zenon
    <3> QED BY <3>2, <3>3, Zenon DEF Object, None
  <2>4. \A c \in Defined' \ {Object} : super'[c] \in 0 .. c - 1
    <3> SUFFICES ASSUME NEW c \in Defined' \ {Object} PROVE super'[c] \in 0 .. c - 1 OBVIOUS
    <3>1. CASE c \in Defined BY <3>1, <1>7 DEF Ordered
    <3>2. CASE c = k BY <3>2, <1>1, <1>8
    <3> QED BY <3>1, <3>2, <1>9
  <2>5. \A c \in Defined' : interfaces'[c] \in Seq(isInterface')
    <3> SUFFICES ASSUME NEW c \in Defined' PROVE interfaces'[c] \in Seq(isInterface') OBVIOUS
    <3>1. interfaces'[c] \in Seq(isInterface) BY <1>5, <1>7, <1>8, <1>9, Zenon DEF Ordered
    <3> QED BY <3>1, <1>10
  <2>6. \A c \in Defined' : \A i \in DOMAIN interfaces'[c] : interfaces'[c][i] \in 0 .. c - 1
    <3> SUFFICES ASSUME NEW c \in Defined', NEW i \in DOMAIN interfaces'[c]
                 PROVE  interfaces'[c][i] \in 0 .. c - 1
      OBVIOUS
    <3>1. CASE c \in Defined BY <3>1, <1>7, Zenon DEF Ordered
    <3>2. CASE c = k
      <4>1. i \in DOMAIN ifs BY <3>2, <1>8
      <4>2. ifs[i] \in isInterface BY <4>1, <1>5
      <4>3. ifs[i] \in 0 .. n BY <4>2, <1>1 DEF Ordered
      <4> QED BY <3>2, <4>3, <1>8
    <3> QED BY <3>1, <3>2, <1>9
  <2>7. isInterface' \subseteq Defined' \ {Object}
    BY <1>1, <1>4, <1>10 DEF Ordered, Object
  <2>8. \A c \in isInterface' : super'[c] = Object
    BY <1>1, <1>3, <1>7, <1>8 DEF Ordered
  <2>9. declares' \subseteq Defined'
    <3>1. declares \subseteq Defined BY DEF Ordered
    <3>2. Defined \subseteq Defined' /\ k \in Defined' BY <1>1, <1>4
    <3> QED BY <3>1, <3>2, <1>3
  <2> QED BY <2>1, <2>2, <2>3, <2>4, <2>5, <2>6, <2>7, <2>8, <2>9 DEF Ordered
<1>12. Extended(k, ifs)
  <2>1. \A c \in Defined : c \in declares' <=> c \in declares BY <1>1, <1>3
  <2> QED BY <2>1, <1>1, <1>4, <1>7 DEF Extended
<1>13. k \in Nat OBVIOUS
<1> QED BY <1>11, <1>12, <1>13, Zenon

LEMMA OrderedAlways == HierarchySpec => []Ordered
<1>1. Ordered /\ [HierarchyNext]_hierarchy => Ordered'
  <2> SUFFICES ASSUME Ordered, [HierarchyNext]_hierarchy PROVE Ordered' OBVIOUS
  <2>1. CASE HierarchyNext BY <2>1, DefineExtends, Zenon DEF HierarchyNext
  <2>2. CASE UNCHANGED hierarchy BY <2>2 DEF hierarchy, Ordered, Defined
  <2> QED BY <2>1, <2>2
<1> QED BY <1>1, OrderedInit, PTL DEF HierarchySpec

-----------------------------------------------------------------------------
(* Reachability *)

(* E as a set of pairs; t can be reached from s *)
Follows(E, s, S) == \A c \in Defined : <<s, c>> \in E => c \in S
Reaches(E, s, t) ==
  \A S \in SUBSET Defined : Follows(E, s, S) /\ (\A b \in S : Follows(E, b, S)) => t \in S

(* An edge leads to what it leads to. *)
LEMMA ReachesFirst ==
  ASSUME NEW E, NEW s \in Defined, NEW t \in Defined, <<s, t>> \in E
  PROVE  Reaches(E, s, t)
BY Zenon DEF Reaches, Follows

(* From s on over b *)
LEMMA ReachesOn ==
  ASSUME NEW E, NEW s \in Defined, NEW b \in Defined, NEW t \in Defined,
         <<s, b>> \in E, Reaches(E, b, t)
  PROVE  Reaches(E, s, t)
BY Zenon DEF Reaches, Follows

(* From b on to t *)
LEMMA ReachesFurther ==
  ASSUME NEW E, NEW s \in Defined, NEW b \in Defined, NEW t \in Defined,
         Reaches(E, s, b), <<b, t>> \in E
  PROVE  Reaches(E, s, t)
BY Zenon DEF Reaches, Follows

(* What can be reached is a successor or can be reached from one. *)
LEMMA ReachesUnfolds ==
  ASSUME NEW E, NEW s \in Defined, NEW t \in Defined
  PROVE  Reaches(E, s, t)
           <=> \E b \in Defined : <<s, b>> \in E /\ (b = t \/ Reaches(E, b, t))
<1> DEFINE By(c) == \E b \in Defined : <<s, b>> \in E /\ (b = c \/ Reaches(E, b, c))
           S == {c \in Defined : By(c)}
<1>1. ASSUME By(t) PROVE Reaches(E, s, t)
  BY <1>1, ReachesFirst, ReachesOn, Zenon
<1>2. ASSUME Reaches(E, s, t) PROVE By(t)
  <2>1. Follows(E, s, S) BY Zenon DEF Follows
  <2>2. \A c \in S : Follows(E, c, S)
    <3> SUFFICES ASSUME NEW c \in S, NEW d \in Defined, <<c, d>> \in E PROVE By(d)
      BY Zenon DEF Follows
    <3>1. PICK b \in Defined : <<s, b>> \in E /\ (b = c \/ Reaches(E, b, c)) BY Zenon
    <3>2. Reaches(E, b, d) BY <3>1, ReachesFirst, ReachesFurther, Zenon
    <3> QED BY <3>1, <3>2, Zenon
  <2>3. S \in SUBSET Defined BY Zenon
  <2>4. t \in S
    <3> HIDE DEF S
    <3> QED BY <1>2, <2>1, <2>2, <2>3, Zenon DEF Reaches
  <2> QED BY <2>4, Zenon
<1> QED BY <1>1, <1>2, Zenon

(* The edges of a hierarchy *)
SuperEdges == {p \in Defined \X Defined : super[p[1]] = p[2]}
AllEdges == {p \in Defined \X Defined : super[p[1]] = p[2] \/ p[2] \in Range(interfaces[p[1]])}

(* Reach as it is used in the properties *)
LEMMA ReachOfEdge ==
  ASSUME NEW s \in Defined, NEW t \in Defined
  PROVE  <<s, t>> \in Reach(Edge) <=> Reaches(SuperEdges, s, t)
<1>1. \A b, c \in Defined : <<b, c>> \in SuperEdges <=> super[b] = c BY DEF SuperEdges
<1>2. <<s, t>> \in Reach(Edge)
        <=> \A S \in SUBSET Defined :
              (\A c \in Defined : super[s] = c => c \in S)
                /\ (\A b \in S, c \in Defined : super[b] = c => c \in S) => t \in S
  BY DEF Reach, Edge
<1> QED BY <1>1, <1>2, Zenon DEF Reaches, Follows

LEMMA ReachOfAnyEdge ==
  ASSUME NEW s \in Defined, NEW t \in Defined
  PROVE  <<s, t>> \in Reach(AnyEdge) <=> Reaches(AllEdges, s, t)
<1> DEFINE Leads(b, c) == super[b] = c \/ c \in Range(interfaces[b])
<1>1. \A b, c \in Defined : <<b, c>> \in AllEdges <=> Leads(b, c) BY DEF AllEdges
<1>2. <<s, t>> \in Reach(AnyEdge)
        <=> \A S \in SUBSET Defined :
              (\A c \in Defined : Leads(s, c) => c \in S)
                /\ (\A b \in S, c \in Defined : Leads(b, c) => c \in S) => t \in S
  BY DEF Reach, AnyEdge, Edge, ImplEdge
<1> HIDE DEF Leads
<1> QED BY <1>1, <1>2, Zenon DEF Reaches, Follows

-----------------------------------------------------------------------------
(* The walks compute what their recursive definitions say. *)

LEMMA Numbered == Ordered => \E n \in Nat : Defined = 0 .. n - 1
<1> SUFFICES ASSUME Ordered PROVE \E n \in Nat : Defined = 0 .. n - 1 OBVIOUS
<1>1. PICK n \in Nat : Defined = 0 .. n BY DEF Ordered
<1>2. n + 1 \in Nat /\ (n + 1) - 1 = n OBVIOUS
<1> QED BY <1>1, <1>2, Zenon

(* What a class refers to is below it. *)
LEMMA Below ==
  ASSUME Ordered, NEW c \in Defined
  PROVE  /\ super[c] # None => super[c] \in 0 .. c - 1 /\ super[c] \in Defined
         /\ \A i \in DOMAIN interfaces[c] : interfaces[c][i] \in 0 .. c - 1 /\ interfaces[c][i] \in Defined
<1>1. PICK n \in Nat : Defined = 0 .. n - 1 BY Numbered
<1>2. \A j \in 0 .. c - 1 : j \in Defined BY <1>1
<1>3. super[c] # None => super[c] \in 0 .. c - 1 BY DEF Ordered
<1>4. \A i \in DOMAIN interfaces[c] : interfaces[c][i] \in 0 .. c - 1 BY Zenon DEF Ordered
<1> QED BY <1>2, <1>3, <1>4, Zenon

LEMMA WalkSteps ==
  ASSUME Ordered, NEW goal, NEW c \in Defined
  PROVE  Walk(goal)[c] <=> c = goal \/ (super[c] # None /\ Walk(goal)[super[c]])
<1>1. PICK n \in Nat : Defined = 0 .. n - 1 BY Numbered
<1> DEFINE D == 0 .. n - 1
           meets[d \in Defined] == d = goal \/ (super[d] # None /\ meets[super[d]])
           Step(f) == [d \in Defined |-> d = goal \/ (super[d] # None /\ f[super[d]])]
           G == [d \in D |-> [f \in [D -> BOOLEAN] |-> d = goal \/ (super[d] # None /\ f[super[d]])]]
<1>2. LooksBelow(G, n, BOOLEAN)
  <2>1. G \in [D -> [[D -> BOOLEAN] -> BOOLEAN]] BY Zenon
  <2>2. \A k \in D : \A f, g \in [D -> BOOLEAN] :
          (\A j \in 0 .. k - 1 : f[j] = g[j]) => G[k][f] = G[k][g]
    <3> SUFFICES ASSUME NEW k \in D, NEW f \in [D -> BOOLEAN], NEW g \in [D -> BOOLEAN],
                        \A j \in 0 .. k - 1 : f[j] = g[j]
                 PROVE  G[k][f] = G[k][g]
      BY Zenon
    <3>1. super[k] # None => super[k] \in 0 .. k - 1 BY <1>1, Below, Zenon
    <3>2. super[k] # None => f[super[k]] = g[super[k]] BY <3>1, Zenon
    <3> QED BY <3>2, Zenon
  <2> HIDE DEF G
  <2> QED BY <2>1, <2>2, Zenon DEF LooksBelow
<1>3. PICK f : ComputedBy(f, G, n, BOOLEAN)
  <2> HIDE DEF G, meets, Step
  <2>1. FALSE \in BOOLEAN BY Zenon
  <2> QED BY <1>2, <2>1, Recursion, Zenon
<1>4. f \in [D -> BOOLEAN] /\ \A k \in D : f[k] = G[k][f] BY <1>3, Zenon DEF ComputedBy
<1>5. f = Step(f)
  <2>1. f = [d \in Defined |-> f[d]] BY <1>1, <1>4, Zenon
  <2>2. Step(f) = [d \in Defined |-> Step(f)[d]] BY Zenon
  <2>3. \A d \in Defined : f[d] = Step(f)[d] BY <1>1, <1>4, Zenon
  <2> HIDE DEF Step
  <2> QED BY <2>1, <2>2, <2>3, SameFunction, Zenon
<1>6. meets = Step(meets) BY <1>5, Zenon
<1>7. Walk(goal) = meets BY Zenon DEF Walk
<1> HIDE DEF meets
<1>8. meets[c] = (c = goal \/ (super[c] # None /\ meets[super[c]])) BY <1>6, Zenon
<1> QED BY <1>7, <1>8, Zenon

LEMMA SubInterfaceSteps ==
  ASSUME Ordered, NEW t, NEW s \in Defined
  PROVE  IsSubInterfaceOf(s, t)
           <=> \E i \in DOMAIN interfaces[s] :
                 interfaces[s][i] = t \/ IsSubInterfaceOf(interfaces[s][i], t)
<1>1. PICK n \in Nat : Defined = 0 .. n - 1 BY Numbered
<1> DEFINE D == 0 .. n - 1
           sub[c \in Defined] ==
             \E i \in DOMAIN interfaces[c] : interfaces[c][i] = t \/ sub[interfaces[c][i]]
           Found(c, f) == \E i \in DOMAIN interfaces[c] : interfaces[c][i] = t \/ f[interfaces[c][i]]
           Step(f) == [c \in Defined |-> Found(c, f)]
           G == [c \in D |-> [f \in [D -> BOOLEAN] |-> Found(c, f)]]
<1>2. LooksBelow(G, n, BOOLEAN)
  <2>1. G \in [D -> [[D -> BOOLEAN] -> BOOLEAN]] BY Zenon
  <2>2. \A k \in D : \A f, g \in [D -> BOOLEAN] :
          (\A j \in 0 .. k - 1 : f[j] = g[j]) => G[k][f] = G[k][g]
    <3> SUFFICES ASSUME NEW k \in D, NEW f \in [D -> BOOLEAN], NEW g \in [D -> BOOLEAN],
                        \A j \in 0 .. k - 1 : f[j] = g[j]
                 PROVE  G[k][f] = G[k][g]
      BY Zenon
    <3>1. \A i \in DOMAIN interfaces[k] : interfaces[k][i] \in 0 .. k - 1 BY <1>1, Below, Zenon
    <3>2. \A i \in DOMAIN interfaces[k] : f[interfaces[k][i]] = g[interfaces[k][i]] BY <3>1, Zenon
    <3>3. Found(k, f) <=> Found(k, g) BY <3>2, Zenon
    <3>4. Found(k, f) = Found(k, g) BY <3>3, Zenon
    <3> HIDE DEF Found
    <3> QED BY <3>4, Zenon
  <2> HIDE DEF G
  <2> QED BY <2>1, <2>2, Zenon DEF LooksBelow
<1>3. PICK f : ComputedBy(f, G, n, BOOLEAN)
  <2> HIDE DEF G, sub, Step
  <2>1. FALSE \in BOOLEAN BY Zenon
  <2> QED BY <1>2, <2>1, Recursion, Zenon
<1>4. f \in [D -> BOOLEAN] /\ \A k \in D : f[k] = G[k][f] BY <1>3, Zenon DEF ComputedBy
<1>5. f = Step(f)
  <2>1. f = [c \in Defined |-> f[c]] BY <1>1, <1>4, Zenon
  <2>2. Step(f) = [c \in Defined |-> Step(f)[c]] BY Zenon
  <2>3. \A c \in Defined : f[c] = Step(f)[c]
    <3> HIDE DEF Found
    <3> QED BY <1>1, <1>4, Zenon
  <2> HIDE DEF Step
  <2> QED BY <2>1, <2>2, <2>3, SameFunction, Zenon
<1>6. sub = Step(sub) BY <1>5, Zenon
<1>7. \A c : IsSubInterfaceOf(c, t) = sub[c] BY Zenon DEF IsSubInterfaceOf
<1> HIDE DEF sub
<1>8. sub[s] = Found(s, sub)
  <2> HIDE DEF Found
  <2> QED BY <1>6, Zenon
<1>9. IsSubInterfaceOf(s, t) <=> Found(s, sub) BY <1>7, <1>8, Zenon
<1> QED BY <1>7, <1>9, Zenon

LEMMA MethodSteps ==
  ASSUME Ordered, NEW k \in Defined
  PROVE  LookupMethodInClass(k)
           = IF k \in declares THEN k
             ELSE IF super[k] = None THEN None ELSE LookupMethodInClass(super[k])
<1>1. PICK n \in Nat : Defined = 0 .. n - 1 BY Numbered
<1> DEFINE D == 0 .. n - 1
           V == D \cup {None}
           method[c \in Defined] ==
             IF c \in declares THEN c ELSE IF super[c] = None THEN None ELSE method[super[c]]
           Found(c, f) == IF c \in declares THEN c ELSE IF super[c] = None THEN None ELSE f[super[c]]
           Step(f) == [c \in Defined |-> Found(c, f)]
           G == [c \in D |-> [f \in [D -> V] |-> Found(c, f)]]
<1>0. \A c \in D : super[c] # None => super[c] \in 0 .. c - 1 /\ super[c] \in D BY <1>1, Below, Zenon
<1>2. LooksBelow(G, n, V)
  <2>1. G \in [D -> [[D -> V] -> V]]
    <3> SUFFICES ASSUME NEW c \in D, NEW f \in [D -> V] PROVE Found(c, f) \in V BY Zenon
    <3> QED BY <1>0, Zenon
  <2>2. \A c \in D : \A f, g \in [D -> V] :
          (\A j \in 0 .. c - 1 : f[j] = g[j]) => G[c][f] = G[c][g]
    <3> SUFFICES ASSUME NEW c \in D, NEW f \in [D -> V], NEW g \in [D -> V],
                        \A j \in 0 .. c - 1 : f[j] = g[j]
                 PROVE  G[c][f] = G[c][g]
      BY Zenon
    <3>1. super[c] # None => f[super[c]] = g[super[c]] BY <1>0, Zenon
    <3>2. Found(c, f) = Found(c, g) BY <3>1, Zenon
    <3> HIDE DEF Found
    <3> QED BY <3>2, Zenon
  <2> HIDE DEF G
  <2> QED BY <2>1, <2>2, Zenon DEF LooksBelow
<1>3. PICK f : ComputedBy(f, G, n, V)
  <2>1. None \in V BY Zenon
  <2> HIDE DEF G, method, Step, V
  <2> QED BY <1>2, <2>1, Recursion, Zenon
<1>4. f \in [D -> V] /\ \A c \in D : f[c] = G[c][f] BY <1>3, Zenon DEF ComputedBy
<1>5. f = Step(f)
  <2>1. f = [c \in Defined |-> f[c]] BY <1>1, <1>4, Zenon
  <2>2. Step(f) = [c \in Defined |-> Step(f)[c]] BY Zenon
  <2>3. \A c \in Defined : f[c] = Step(f)[c]
    <3> HIDE DEF Found, V
    <3> QED BY <1>1, <1>4, Zenon
  <2> HIDE DEF Step
  <2> QED BY <2>1, <2>2, <2>3, SameFunction, Zenon
<1>6. method = Step(method) BY <1>5, Zenon
<1>7. \A c : LookupMethodInClass(c) = method[c] BY Zenon DEF LookupMethodInClass
<1> HIDE DEF method
<1>8. method[k] = Found(k, method)
  <2> HIDE DEF Found
  <2> QED BY <1>6, Zenon
<1> QED BY <1>7, <1>8, Zenon

(* LookupField: what is found in the interfaces, and the first of these *)
FoundIn(c, f) == {i \in DOMAIN interfaces[c] : f[interfaces[c][i]] # None}
FirstIn(S) == CHOOSE i \in S : \A m \in S : i <= m
FieldFound(c, f) ==
  IF c \in declares THEN c
  ELSE IF FoundIn(c, f) # {} THEN f[interfaces[c][FirstIn(FoundIn(c, f))]]
  ELSE IF super[c] # None THEN f[super[c]]
  ELSE None

LEMMA FirstExists ==
  ASSUME Ordered, NEW c \in Defined, NEW f, FoundIn(c, f) # {}
  PROVE  FirstIn(FoundIn(c, f)) \in FoundIn(c, f)
<1>1. interfaces[c] \in Seq(isInterface) BY DEF Ordered
<1>2. FoundIn(c, f) \subseteq Nat BY <1>1 DEF FoundIn
<1>3. \E i \in FoundIn(c, f) : \A m \in FoundIn(c, f) : i <= m BY <1>2, LeastNat, Zenon
<1> QED BY <1>3, Zenon DEF FirstIn

LEMMA FieldSteps ==
  ASSUME Ordered
  PROVE  \E field : /\ \A k : LookupField(k) = field[k]
                    /\ \A k \in Defined : field[k] = FieldFound(k, field)
<1>1. PICK n \in Nat : Defined = 0 .. n - 1 BY Numbered
<1> DEFINE D == 0 .. n - 1
           V == D \cup {None}
           field[c \in Defined] ==
             LET ifs == interfaces[c]
                 found == {i \in DOMAIN ifs : field[ifs[i]] /= None}
             IN IF c \in declares THEN c
                ELSE IF found /= {} THEN field[ifs[CHOOSE i \in found : \A m \in found : i <= m]]
                ELSE IF super[c] /= None THEN field[super[c]]
                ELSE None
           Step(f) == [c \in Defined |-> FieldFound(c, f)]
           G == [c \in D |-> [f \in [D -> V] |-> FieldFound(c, f)]]
<1>0. \A c \in D : /\ super[c] # None => super[c] \in 0 .. c - 1 /\ super[c] \in D
                   /\ \A i \in DOMAIN interfaces[c] : interfaces[c][i] \in 0 .. c - 1 /\ interfaces[c][i] \in D
  BY <1>1, Below, Zenon
<1>2. LooksBelow(G, n, V)
  <2>1. G \in [D -> [[D -> V] -> V]]
    <3> SUFFICES ASSUME NEW c \in D, NEW f \in [D -> V] PROVE FieldFound(c, f) \in V BY Zenon
    <3>1. CASE c \in declares BY <3>1, Zenon DEF FieldFound
    <3>2. CASE c \notin declares /\ FoundIn(c, f) # {}
      <4>1. FirstIn(FoundIn(c, f)) \in DOMAIN interfaces[c]
        BY <1>1, <3>2, FirstExists, Zenon DEF FoundIn
      <4>2. interfaces[c][FirstIn(FoundIn(c, f))] \in D BY <1>0, <4>1, Zenon
      <4> QED BY <3>2, <4>2, Zenon DEF FieldFound
    <3>3. CASE c \notin declares /\ FoundIn(c, f) = {} BY <3>3, <1>0, Zenon DEF FieldFound
    <3> QED BY <3>1, <3>2, <3>3, Zenon
  <2>2. \A c \in D : \A f, g \in [D -> V] :
          (\A j \in 0 .. c - 1 : f[j] = g[j]) => G[c][f] = G[c][g]
    <3> SUFFICES ASSUME NEW c \in D, NEW f \in [D -> V], NEW g \in [D -> V],
                        \A j \in 0 .. c - 1 : f[j] = g[j]
                 PROVE  G[c][f] = G[c][g]
      BY Zenon
    <3>1. super[c] # None => f[super[c]] = g[super[c]] BY <1>0, Zenon
    <3>2. \A i \in DOMAIN interfaces[c] : f[interfaces[c][i]] = g[interfaces[c][i]] BY <1>0, Zenon
    <3>3. FoundIn(c, f) = FoundIn(c, g) BY <3>2, Zenon DEF FoundIn
    <3>4. FoundIn(c, f) # {} => FirstIn(FoundIn(c, f)) \in DOMAIN interfaces[c]
      BY <1>1, FirstExists, Zenon DEF FoundIn
    <3>5. FieldFound(c, f) = FieldFound(c, g) BY <3>1, <3>2, <3>3, <3>4, Zenon DEF FieldFound
    <3> QED BY <3>5, Zenon
  <2> HIDE DEF G
  <2> QED BY <2>1, <2>2, Zenon DEF LooksBelow
<1>3. PICK f : ComputedBy(f, G, n, V)
  <2>1. None \in V BY Zenon
  <2> HIDE DEF G, field, Step, V
  <2> QED BY <1>2, <2>1, Recursion, Zenon
<1>4. f \in [D -> V] /\ \A c \in D : f[c] = G[c][f] BY <1>3, Zenon DEF ComputedBy
<1>5. f = Step(f)
  <2>1. f = [c \in Defined |-> f[c]] BY <1>1, <1>4, Zenon
  <2>2. Step(f) = [c \in Defined |-> Step(f)[c]] BY Zenon
  <2>3. \A c \in Defined : f[c] = Step(f)[c]
    <3> HIDE DEF V
    <3> QED BY <1>1, <1>4, Zenon
  <2> HIDE DEF Step
  <2> QED BY <2>1, <2>2, <2>3, SameFunction, Zenon
<1>6. field = Step(field) BY <1>5, Zenon DEF FieldFound, FoundIn, FirstIn
<1>7. \A c : LookupField(c) = field[c] BY Zenon DEF LookupField
<1> HIDE DEF field
<1>8. \A c \in Defined : field[c] = FieldFound(c, field) BY <1>6, Zenon
<1> QED BY <1>7, <1>8, Zenon

-----------------------------------------------------------------------------
(* Reachability, one step at a time *)

LEMMA NoneUndefined == Ordered => None \notin Defined
BY Numbered DEF None

LEMMA SuperReaches ==
  ASSUME Ordered, NEW s \in Defined, NEW t \in Defined
  PROVE  Reaches(SuperEdges, s, t)
           <=> super[s] # None /\ (super[s] = t \/ Reaches(SuperEdges, super[s], t))
<1>1. \A b, c \in Defined : <<b, c>> \in SuperEdges <=> super[b] = c BY DEF SuperEdges
<1>2. super[s] # None <=> super[s] \in Defined BY Below, NoneUndefined, Zenon
<1>3. Reaches(SuperEdges, s, t)
        <=> \E b \in Defined : super[s] = b /\ (b = t \/ Reaches(SuperEdges, b, t))
  BY <1>1, ReachesUnfolds, Zenon
<1> QED BY <1>2, <1>3, Zenon

(* Over superclasses and interfaces *)
LEMMA AnyReaches ==
  ASSUME Ordered, NEW s \in Defined, NEW t \in Defined
  PROVE  Reaches(AllEdges, s, t)
           <=> \/ super[s] # None /\ (super[s] = t \/ Reaches(AllEdges, super[s], t))
               \/ \E i \in DOMAIN interfaces[s] :
                    interfaces[s][i] = t \/ Reaches(AllEdges, interfaces[s][i], t)
<1>1. \A b, c \in Defined : <<b, c>> \in AllEdges <=> super[b] = c \/ c \in Range(interfaces[b])
  BY DEF AllEdges
<1>2. super[s] # None <=> super[s] \in Defined BY Below, NoneUndefined, Zenon
<1>3. \A i \in DOMAIN interfaces[s] : interfaces[s][i] \in Defined BY Below, Zenon
<1>4. \A c : c \in Range(interfaces[s]) <=> \E i \in DOMAIN interfaces[s] : interfaces[s][i] = c
  BY Zenon DEF Range
<1>5. Reaches(AllEdges, s, t)
        <=> \E b \in Defined : (super[s] = b \/ b \in Range(interfaces[s]))
                               /\ (b = t \/ Reaches(AllEdges, b, t))
  BY <1>1, ReachesUnfolds, Zenon
<1> QED BY <1>2, <1>3, <1>4, <1>5, Zenon

-----------------------------------------------------------------------------
(* The subclass test *)

LEMMA SubClassSteps ==
  ASSUME Ordered, NEW s \in Defined, NEW t \in Defined
  PROVE  IsSubClassOf(s, t) <=> super[s] # None /\ (super[s] = t \/ IsSubClassOf(super[s], t))
<1>1. super[s] # None => super[s] \in Defined BY Below, Zenon
<1> QED BY <1>1, WalkSteps, Zenon DEF IsSubClassOf

LEMMA SubClassReached ==
  ASSUME Ordered, NEW t \in Defined
  PROVE  \A s \in Defined : IsSubClassOf(s, t) <=> Reaches(SuperEdges, s, t)
<1>1. PICK n \in Nat : Defined = 0 .. n - 1 BY Numbered
<1> DEFINE S == {s \in Defined : IsSubClassOf(s, t) <=> Reaches(SuperEdges, s, t)}
<1>2. \A k \in 0 .. n - 1 : (\A j \in 0 .. k - 1 : j \in S) => k \in S
  <2> SUFFICES ASSUME NEW k \in Defined, \A j \in 0 .. k - 1 : j \in S PROVE k \in S
    BY <1>1, Zenon
  <2>1. super[k] # None
          => (IsSubClassOf(super[k], t) <=> Reaches(SuperEdges, super[k], t))
    BY Below, Zenon
  <2> QED BY <2>1, SubClassSteps, SuperReaches, Zenon
<1> HIDE DEF S
<1>3. 0 .. n - 1 \subseteq S BY <1>2, StrongInduction, Zenon
<1> QED BY <1>1, <1>3, Zenon DEF S

(* IsSubClassOf and IsSuperClassOf are reachability over super_class_ in   *)
(* every hierarchy the loader builds, however deep.                        *)
THEOREM SubclassAlways == HierarchySpec => []SubclassIsReachability
<1>1. Ordered => SubclassIsReachability
  <2> SUFFICES ASSUME Ordered, NEW s \in Defined, NEW t \in Defined
               PROVE  /\ IsSubClassOf(s, t) <=> <<s, t>> \in Reach(Edge)
                      /\ IsSuperClassOf(t, s) <=> <<s, t>> \in Reach(Edge)
    BY Zenon DEF SubclassIsReachability
  <2>1. IsSubClassOf(s, t) <=> Reaches(SuperEdges, s, t) BY SubClassReached, Zenon
  <2>2. IsSuperClassOf(t, s) <=> IsSubClassOf(s, t) BY Zenon DEF IsSuperClassOf, IsSubClassOf
  <2> QED BY <2>1, <2>2, ReachOfEdge, Zenon
<1> QED BY <1>1, OrderedAlways, PTL

-----------------------------------------------------------------------------
(* The lookup of methods *)

Overrides(k, m) ==
  IF m = None THEN \A c \in declares : ~ (c = k \/ Reaches(SuperEdges, k, c))
  ELSE /\ m \in declares /\ (m = k \/ Reaches(SuperEdges, k, m))
       /\ \A c \in declares : c = k \/ Reaches(SuperEdges, k, c)
                                => c = m \/ Reaches(SuperEdges, m, c)

LEMMA MethodOverrides ==
  ASSUME Ordered PROVE \A k \in Defined : Overrides(k, LookupMethodInClass(k))
<1>1. PICK n \in Nat : Defined = 0 .. n - 1 BY Numbered
<1> DEFINE S == {k \in Defined : Overrides(k, LookupMethodInClass(k))}
<1>2. \A k \in 0 .. n - 1 : (\A j \in 0 .. k - 1 : j \in S) => k \in S
  <2> SUFFICES ASSUME NEW k \in Defined, \A j \in 0 .. k - 1 : j \in S
               PROVE  Overrides(k, LookupMethodInClass(k))
    BY <1>1, Zenon
  <2>0. declares \subseteq Defined /\ k # None BY NoneUndefined DEF Ordered
  <2>1. CASE k \in declares
    <3>1. LookupMethodInClass(k) = k BY <2>1, MethodSteps, Zenon
    <3> QED BY <2>0, <2>1, <3>1, Zenon DEF Overrides
  <2>2. CASE k \notin declares /\ super[k] = None
    <3>1. LookupMethodInClass(k) = None BY <2>2, MethodSteps, Zenon
    <3>2. \A c \in declares : ~ Reaches(SuperEdges, k, c) BY <2>0, <2>2, SuperReaches, Zenon
    <3> QED BY <2>2, <3>1, <3>2, Zenon DEF Overrides
  <2>3. CASE k \notin declares /\ super[k] # None
    <3>1. LookupMethodInClass(k) = LookupMethodInClass(super[k]) BY <2>3, MethodSteps, Zenon
    <3>2. super[k] \in Defined /\ Overrides(super[k], LookupMethodInClass(super[k]))
      BY <2>3, Below, Zenon
    <3>3. \A c \in declares : Reaches(SuperEdges, k, c)
                                <=> c = super[k] \/ Reaches(SuperEdges, super[k], c)
      BY <2>0, <2>3, SuperReaches, Zenon
    <3>4. \A c \in declares : c # k BY <2>3, Zenon
    <3> QED BY <3>1, <3>2, <3>3, <3>4, Zenon DEF Overrides
  <2> QED BY <2>1, <2>2, <2>3, Zenon
<1> HIDE DEF S
<1>3. 0 .. n - 1 \subseteq S BY <1>2, StrongInduction, Zenon
<1> QED BY <1>1, <1>3, Zenon DEF S

(* LookupMethodInClass finds the most derived declaration, in every        *)
(* hierarchy, and finds one if there is one.                               *)
THEOREM OverrideAlwaysWins == HierarchySpec => []OverrideWins
<1>1. Ordered => OverrideWins
  <2> SUFFICES ASSUME Ordered PROVE OverrideWins OBVIOUS
  <2> DEFINE up(k) == {c \in Defined : c = k \/ <<k, c>> \in Reach(Edge)}
  <2>1. declares \subseteq Defined BY DEF Ordered
  <2>2. \A k \in Defined : \A c \in declares :
          c \in up(k) <=> c = k \/ Reaches(SuperEdges, k, c)
    BY <2>1, ReachOfEdge, Zenon
  <2>3. SUFFICES ASSUME NEW k \in Defined, NEW m, m = LookupMethodInClass(k)
                 PROVE  IF m = None THEN up(k) \cap declares = {}
                        ELSE /\ m \in up(k) \cap declares
                             /\ \A c \in up(k) \cap declares : c = m \/ <<m, c>> \in Reach(Edge)
    BY Zenon DEF OverrideWins
  <2>4. Overrides(k, m) BY <2>3, MethodOverrides, Zenon
  <2> HIDE DEF up
  <2>5. CASE m = None BY <2>2, <2>4, <2>5, Zenon DEF Overrides
  <2>6. CASE m # None
    <3>1. m \in declares /\ m \in Defined BY <2>1, <2>4, <2>6, Zenon DEF Overrides
    <3>2. m \in up(k) BY <2>2, <2>4, <2>6, <3>1, Zenon DEF Overrides
    <3>3. \A c \in up(k) \cap declares : c = m \/ <<m, c>> \in Reach(Edge)
      <4> SUFFICES ASSUME NEW c \in declares, c \in up(k) PROVE c = m \/ <<m, c>> \in Reach(Edge)
        BY Zenon
      <4>1. c = m \/ Reaches(SuperEdges, m, c) BY <2>2, <2>4, <2>6, Zenon DEF Overrides
      <4>2. c \in Defined BY <2>1, Zenon
      <4> QED BY <3>1, <4>1, <4>2, ReachOfEdge, Zenon
    <3> QED BY <2>6, <3>1, <3>2, <3>3, Zenon
  <2> QED BY <2>5, <2>6, Zenon
<1> QED BY <1>1, OrderedAlways, PTL

-----------------------------------------------------------------------------
(* The lookup of fields *)

Around(k, c) == c = k \/ Reaches(AllEdges, k, c)
FieldRight(k, m) ==
  IF m = None THEN \A c \in declares : ~ Around(k, c) ELSE m \in declares /\ Around(k, m)

LEMMA FieldFoundRight ==
  ASSUME Ordered PROVE \A k \in Defined : FieldRight(k, LookupField(k))
<1>1. PICK n \in Nat : Defined = 0 .. n - 1 BY Numbered
<1>2. PICK field : /\ \A k : LookupField(k) = field[k]
                   /\ \A k \in Defined : field[k] = FieldFound(k, field)
  BY FieldSteps, Zenon
<1> DEFINE S == {k \in Defined : FieldRight(k, field[k])}
<1>3. \A k \in 0 .. n - 1 : (\A j \in 0 .. k - 1 : j \in S) => k \in S
  <2> SUFFICES ASSUME NEW k \in Defined, \A j \in 0 .. k - 1 : j \in S
               PROVE  FieldRight(k, field[k])
    BY <1>1, Zenon
  <2>0. declares \subseteq Defined /\ k # None BY NoneUndefined DEF Ordered
  <2>1. super[k] # None => super[k] \in Defined /\ FieldRight(super[k], field[super[k]])
    BY Below, Zenon
  <2>2. \A i \in DOMAIN interfaces[k] :
          interfaces[k][i] \in Defined /\ FieldRight(interfaces[k][i], field[interfaces[k][i]])
    BY Below, Zenon
  <2>3. \A c \in declares :
          Around(k, c) <=> \/ c = k
                           \/ super[k] # None /\ Around(super[k], c)
                           \/ \E i \in DOMAIN interfaces[k] : Around(interfaces[k][i], c)
    BY <2>0, AnyReaches, Zenon DEF Around
  <2>4. CASE k \in declares
    <3>1. field[k] = k BY <1>2, <2>4, Zenon DEF FieldFound
    <3> QED BY <2>0, <2>4, <3>1, Zenon DEF FieldRight, Around
  <2>5. CASE k \notin declares /\ FoundIn(k, field) # {}
    <3> DEFINE i == FirstIn(FoundIn(k, field))
    <3>1. field[k] = field[interfaces[k][i]] BY <1>2, <2>5, Zenon DEF FieldFound
    <3>2. i \in FoundIn(k, field) BY <2>5, FirstExists, Zenon
    <3> HIDE DEF i
    <3>3. i \in DOMAIN interfaces[k] /\ field[interfaces[k][i]] # None BY <3>2, Zenon DEF FoundIn
    <3> QED BY <2>2, <2>3, <3>1, <3>3, Zenon DEF FieldRight
  <2>6. CASE k \notin declares /\ FoundIn(k, field) = {}
    <3>1. \A i \in DOMAIN interfaces[k] : field[interfaces[k][i]] = None BY <2>6, Zenon DEF FoundIn
    <3>2. \A c \in declares : ~ \E i \in DOMAIN interfaces[k] : Around(interfaces[k][i], c)
      BY <2>2, <3>1, Zenon DEF FieldRight
    <3>3. field[k] = IF super[k] # None THEN field[super[k]] ELSE None
      BY <1>2, <2>6, Zenon DEF FieldFound
    <3>4. \A c \in declares : Around(k, c) <=> super[k] # None /\ Around(super[k], c)
      BY <2>3, <2>6, <3>2, Zenon
    <3> QED BY <2>1, <3>3, <3>4, Zenon DEF FieldRight
  <2> QED BY <2>4, <2>5, <2>6, Zenon
<1> HIDE DEF S
<1>4. 0 .. n - 1 \subseteq S BY <1>3, StrongInduction, Zenon
<1> QED BY <1>1, <1>2, <1>4, Zenon DEF S

(* LookupField finds a field exactly when the class, a superclass or an    *)
(* interface of any of them declares it, in every hierarchy.               *)
THEOREM FieldAlwaysFound == HierarchySpec => []FieldFoundIffReachable
<1>1. Ordered => FieldFoundIffReachable
  <2> SUFFICES ASSUME Ordered PROVE FieldFoundIffReachable OBVIOUS
  <2> DEFINE around(k) == {c \in declares : c = k \/ <<k, c>> \in Reach(AnyEdge)}
  <2>1. declares \subseteq Defined /\ None \notin Defined BY NoneUndefined DEF Ordered
  <2>2. \A k \in Defined : \A c : c \in around(k) <=> c \in declares /\ Around(k, c)
    BY <2>1, ReachOfAnyEdge, Zenon DEF Around
  <2>3. SUFFICES ASSUME NEW k \in Defined
                 PROVE  IF around(k) = {} THEN LookupField(k) = None ELSE LookupField(k) \in around(k)
    BY Zenon DEF FieldFoundIffReachable
  <2>4. FieldRight(k, LookupField(k)) BY FieldFoundRight, Zenon
  <2> HIDE DEF around
  <2>5. around(k) = {} => LookupField(k) = None BY <2>2, <2>4, Zenon DEF FieldRight
  <2>6. around(k) # {} => LookupField(k) \in around(k) BY <2>2, <2>4, Zenon DEF FieldRight
  <2> QED BY <2>5, <2>6, Zenon
<1> QED BY <1>1, OrderedAlways, PTL

-----------------------------------------------------------------------------
(* The assignment test *)

(* Only interfaces are found by the walk over interfaces. *)
LEMMA SubInterfaceOfInterface ==
  ASSUME Ordered, NEW t
  PROVE  \A s \in Defined : IsSubInterfaceOf(s, t) => t \in isInterface
<1>1. PICK n \in Nat : Defined = 0 .. n - 1 BY Numbered
<1> DEFINE S == {s \in Defined : IsSubInterfaceOf(s, t) => t \in isInterface}
<1>2. \A k \in 0 .. n - 1 : (\A j \in 0 .. k - 1 : j \in S) => k \in S
  <2> SUFFICES ASSUME NEW k \in Defined, \A j \in 0 .. k - 1 : j \in S, IsSubInterfaceOf(k, t)
               PROVE  t \in isInterface
    BY <1>1, Zenon
  <2>1. PICK i \in DOMAIN interfaces[k] :
          interfaces[k][i] = t \/ IsSubInterfaceOf(interfaces[k][i], t)
    BY SubInterfaceSteps, Zenon
  <2>2. interfaces[k] \in Seq(isInterface) BY DEF Ordered
  <2>3. interfaces[k][i] \in isInterface BY <2>2
  <2>4. interfaces[k][i] \in S BY Below, Zenon
  <2> QED BY <2>1, <2>3, <2>4, Zenon
<1> HIDE DEF S
<1>3. 0 .. n - 1 \subseteq S BY <1>2, StrongInduction, Zenon
<1> QED BY <1>1, <1>3, Zenon DEF S

(* From an interface Object and its superinterfaces can be reached. *)
LEMMA InterfaceReaches ==
  ASSUME Ordered, NEW s \in Defined
  PROVE  \A t \in isInterface : Reaches(AllEdges, t, s) <=> s = Object \/ IsSubInterfaceOf(t, s)
<1>1. PICK n \in Nat : Defined = 0 .. n - 1 BY Numbered
<1> DEFINE Right(t) == Reaches(AllEdges, t, s) <=> s = Object \/ IsSubInterfaceOf(t, s)
           S == {t \in Defined : t \in isInterface => Right(t)}
<1>2. Object \in Defined /\ Object # None
  BY Numbered DEF Ordered, Object, None
<1>3. ~ Reaches(AllEdges, Object, s)
  <2>1. super[Object] = None BY DEF Ordered
  <2>2. \A j : j \notin 0 .. Object - 1 BY DEF Object
  <2>3. \A i \in DOMAIN interfaces[Object] : interfaces[Object][i] \in 0 .. Object - 1
    BY <1>2, Below, Zenon
  <2> QED BY <1>2, <2>1, <2>2, <2>3, AnyReaches, Zenon
<1>4. \A k \in 0 .. n - 1 : (\A j \in 0 .. k - 1 : j \in S) => k \in S
  <2> SUFFICES ASSUME NEW k \in Defined, \A j \in 0 .. k - 1 : j \in S, k \in isInterface
               PROVE  Right(k)
    BY <1>1, Zenon
  <2>1. super[k] = Object BY DEF Ordered
  <2>2. interfaces[k] \in Seq(isInterface) BY DEF Ordered
  <2>3. \A i \in DOMAIN interfaces[k] : interfaces[k][i] \in isInterface BY <2>2
  <2>4. \A i \in DOMAIN interfaces[k] : Right(interfaces[k][i]) BY <2>3, Below, Zenon
  <2>5. Reaches(AllEdges, k, s)
          <=> s = Object \/ \E i \in DOMAIN interfaces[k] :
                              interfaces[k][i] = s \/ Reaches(AllEdges, interfaces[k][i], s)
    BY <1>2, <1>3, <2>1, AnyReaches, Zenon
  <2>6. IsSubInterfaceOf(k, s)
          <=> \E i \in DOMAIN interfaces[k] :
                interfaces[k][i] = s \/ IsSubInterfaceOf(interfaces[k][i], s)
    BY SubInterfaceSteps, Zenon
  <2> QED BY <2>4, <2>5, <2>6, Zenon
<1> HIDE DEF S
<1>5. 0 .. n - 1 \subseteq S BY <1>4, StrongInduction, Zenon
<1>6. isInterface \subseteq Defined BY DEF Ordered
<1> QED BY <1>1, <1>5, <1>6, Zenon DEF S

(* Taking component classes of both types *)
LEMMA Stripped ==
  ASSUME NEW s \in Types, NEW t \in Types
  PROVE  /\ t.dims > s.dims => /\ Component(t, s.dims).dims > 0
                               /\ Component(s, s.dims).dims = 0
                               /\ Component(s, s.dims) # Component(t, s.dims)
         /\ t.dims <= s.dims => /\ Component(t, t.dims).dims = 0
                                /\ Component(s, t.dims).dims = s.dims - t.dims
                                /\ Component(s, t.dims) = Component(t, t.dims)
                                     <=> s.class = t.class /\ s.dims = t.dims
         /\ \A n : Component(s, n).class = s.class /\ Component(t, n).class = t.class
BY BoundAssumption DEF Types, Component

(* IsAssignableFrom is subtyping for values of more dimensions than the    *)
(* target, for interfaces and their arrays and for values of fewer         *)
(* dimensions that are not of Objects, in every hierarchy and for any      *)
(* number of dimensions.                                                   *)
THEOREM AssignableAlways == HierarchySpec => []AssignableByShape
<1>1. Ordered => AssignableByShape
  <2> SUFFICES ASSUME Ordered, NEW s \in Types, NEW t \in Types,
                      \/ t.dims > s.dims \/ t.class \in isInterface
                      \/ t.dims < s.dims /\ t.class # Object
               PROVE  IsAssignableFrom(s, t) <=> Subtype(Reach(AnyEdge), t, s)
    BY Zenon DEF AssignableByShape
  <2>1. /\ s.class \in Defined /\ t.class \in Defined
        /\ s.dims \in Nat /\ t.dims \in Nat
    BY BoundAssumption DEF Types
  <2>2. CASE t.dims > s.dims
    <3>1. Subtype(Reach(AnyEdge), t, s) <=> s.class = Object \/ s.class \in Cloneables
      BY <2>1, <2>2 DEF Subtype
    <3>2. s.dims < t.dims BY <2>1, <2>2
    <3>3. IsAssignableFrom(s, t) <=> s.class \in {Object} \cup Cloneables
      BY <2>1, <2>2, <3>2, Stripped DEF IsAssignableFrom, IsArray
    <3> QED BY <3>1, <3>3
  <2>4. CASE t.dims < s.dims /\ t.class # Object /\ t.class \notin isInterface
    <3>1. ~ (s.dims < t.dims) /\ t.dims <= s.dims BY <2>1, <2>4
    <3> DEFINE s1 == Component(s, t.dims)  t1 == Component(t, t.dims)
    <3>2. /\ s1.class = s.class /\ t1.class = t.class /\ t1.dims = 0 /\ s1.dims = s.dims - t.dims
          /\ s1 # t1
      BY <2>1, <2>4, <3>1, Stripped
    <3>3. ~ IsArray(t1) /\ ~ IsPlainInterface(t1) /\ ~ IsPlainInterface(s1) /\ IsArray(s1)
      BY <2>1, <2>4, <3>2 DEF IsArray, IsPlainInterface
    <3>4. IsAssignableFrom(s, t) <=> TypeIsSubClassOf(s1, t1)
      BY <3>1, <3>2, <3>3, Zenon DEF IsAssignableFrom
    <3> HIDE DEF s1, t1
    <3>5. ~ TypeIsSubClassOf(s1, t1) BY <2>4, <3>2, <3>3, Zenon DEF TypeIsSubClassOf
    <3>6. ~ Subtype(Reach(AnyEdge), t, s) BY <2>1, <2>4 DEF Subtype
    <3> QED BY <3>4, <3>5, <3>6
  <2>3. CASE ~ (t.dims > s.dims) /\ t.class \in isInterface
    <3>1. t.class \in isInterface /\ ~ (s.dims < t.dims) /\ t.dims <= s.dims BY <2>1, <2>3
    <3> DEFINE s1 == Component(s, t.dims)  t1 == Component(t, t.dims)
    <3>2. /\ s1.class = s.class /\ t1.class = t.class /\ t1.dims = 0 /\ s1.dims = s.dims - t.dims
          /\ s1 = t1 <=> s.class = t.class /\ s.dims = t.dims
      BY <3>1, Stripped
    <3>3. ~ IsArray(t1) /\ IsPlainInterface(t1)
      BY <3>1, <3>2 DEF IsArray, IsPlainInterface
    <3>4. IsAssignableFrom(s, t)
            <=> \/ s1 = t1
                \/ IF IsPlainInterface(s1) THEN IsSuperInterfaceOf(s1.class, t1.class)
                                           ELSE s1.dims = 0 /\ s1.class = Object
      BY <3>1, <3>3, Zenon DEF IsAssignableFrom
    <3> HIDE DEF s1, t1
    <3>5. IsSuperInterfaceOf(s1.class, t1.class) <=> IsSubInterfaceOf(t.class, s.class)
      BY <3>2, Zenon DEF IsSuperInterfaceOf
    <3>6. IsPlainInterface(s1) <=> s.dims = t.dims /\ s.class \in isInterface
      BY <2>1, <3>2 DEF IsPlainInterface
    <3>7. Subtype(Reach(AnyEdge), t, s)
            <=> s.dims = t.dims /\ (\/ s.class = t.class \/ s.class = Object
                                    \/ <<t.class, s.class>> \in Reach(AnyEdge))
      BY <2>1, <3>1 DEF Subtype
    <3>8. <<t.class, s.class>> \in Reach(AnyEdge)
            <=> s.class = Object \/ IsSubInterfaceOf(t.class, s.class)
      BY <2>1, <3>1, ReachOfAnyEdge, InterfaceReaches, Zenon
    <3>9. IsSubInterfaceOf(t.class, s.class) => s.class \in isInterface
      BY <2>1, SubInterfaceOfInterface, Zenon
    <3>10. s.class \in isInterface => s.class # Object BY DEF Ordered
    <3>11. s1.dims = 0 <=> s.dims = t.dims BY <2>1, <3>2
    <3>12. IsAssignableFrom(s, t)
             <=> \/ s.class = t.class /\ s.dims = t.dims
                 \/ IF s.dims = t.dims /\ s.class \in isInterface
                    THEN IsSubInterfaceOf(t.class, s.class)
                    ELSE s.dims = t.dims /\ s.class = Object
      BY <3>2, <3>4, <3>5, <3>6, <3>11, Zenon
    <3> QED BY <3>7, <3>8, <3>9, <3>10, <3>12, Zenon
  <2> QED BY <2>1, <2>2, <2>3, <2>4
<1> QED BY <1>1, OrderedAlways, PTL

-----------------------------------------------------------------------------
(* Resolution *)

(* What resolution answers when the class is accessible, as every class is *)
LEMMA ResolvedAnswers ==
  ASSUME NEW k, NEW decl, NEW from, NEW access, NEW public \in BOOLEAN
  PROVE  Resolved(k, decl, from, access, public) = "resolved"
           <=> decl # None /\ MemberIsAccessibleTo(decl, from, access)
<1>1. ClassIsAccessibleTo(k, from, public) BY DEF ClassIsAccessibleTo, PackageName
<1>2. "NoSuchMemberError" # "resolved" /\ "IllegalAccessError" # "resolved" OBVIOUS
<1> QED BY <1>1, <1>2, Zenon DEF Resolved

(* A superclass can be reached over all edges too. *)
LEMMA SuperIsAround ==
  ASSUME NEW s \in Defined, NEW t \in Defined, Reaches(SuperEdges, s, t)
  PROVE  Reaches(AllEdges, s, t)
<1>1. \A b, c \in Defined : <<b, c>> \in SuperEdges => <<b, c>> \in AllEdges
  BY DEF SuperEdges, AllEdges
<1>2. \A S \in SUBSET Defined : \A b \in Defined : Follows(AllEdges, b, S) => Follows(SuperEdges, b, S)
  BY <1>1, Zenon DEF Follows
<1>3. \A S \in SUBSET Defined : \A b \in S : b \in Defined BY Zenon
<1> QED BY <1>2, <1>3, Zenon DEF Reaches

(* The method found is one that a class around declares. *)
LEMMA MethodIsAround ==
  ASSUME Ordered, NEW k \in Defined, LookupMethod(k) # None
  PROVE  LookupMethod(k) \in declares /\ Around(k, LookupMethod(k))
<1> DEFINE m == LookupMethodInClass(k)  last == Last(interfaces[k])
<1>0. declares \subseteq Defined /\ None \notin Defined BY NoneUndefined DEF Ordered
<1>1. CASE m # None
  <2>1. LookupMethod(k) = m BY <1>1, Zenon DEF LookupMethod
  <2>2. m \in declares /\ (m = k \/ Reaches(SuperEdges, k, m))
    BY <1>1, MethodOverrides, Zenon DEF Overrides
  <2> QED BY <1>0, <2>1, <2>2, SuperIsAround, Zenon DEF Around
<1>2. CASE m = None
  <2>1. LookupMethod(k) = LookupMethodInInterfaces(k) BY <1>2, Zenon DEF LookupMethod
  <2>2. interfaces[k] # << >> /\ LookupMethod(k) = LookupMethodInClass(last)
    BY <2>1, Zenon DEF LookupMethodInInterfaces
  <2>3. interfaces[k] \in Seq(isInterface) BY DEF Ordered
  <2>4. Len(interfaces[k]) \in DOMAIN interfaces[k] /\ last = interfaces[k][Len(interfaces[k])]
    BY <2>2, <2>3 DEF Last
  <2> DEFINE n == Len(interfaces[k])
  <2> HIDE DEF m, last, n
  <2>5. last \in Defined BY <2>4, Below, Zenon DEF n
  <2>6. LookupMethodInClass(last) \in declares
        /\ (LookupMethodInClass(last) = last \/ Reaches(SuperEdges, last, LookupMethodInClass(last)))
    BY <2>2, <2>5, MethodOverrides, Zenon DEF Overrides
  <2>7. PICK d \in declares : d = LookupMethodInClass(last) /\ (d = last \/ Reaches(SuperEdges, last, d))
    BY <2>6, Zenon
  <2>8. d \in Defined BY <1>0, Zenon
  <2>9. last = d \/ Reaches(AllEdges, last, d) BY <2>5, <2>7, <2>8, SuperIsAround, Zenon
  <2>10. Reaches(AllEdges, k, d)
    BY <2>4, <2>8, <2>9, AnyReaches, Zenon
  <2> QED BY <2>2, <2>7, <2>10, Zenon DEF Around
<1> QED BY <1>1, <1>2

(* Resolution refuses no legal use of a field, or of a method of a class   *)
(* or its superclasses, in any hierarchy, and lets no private member be    *)
(* used from elsewhere.                                                    *)
THEOREM LegalUseAlwaysResolves == HierarchySpec => []LegalUseResolves
<1>1. Ordered => LegalUseResolves
  <2> SUFFICES ASSUME Ordered PROVE LegalUseResolves OBVIOUS
  <2> DEFINE up == Reach(Edge)
             all == Reach(AnyEdge)
             around(k) == {c \in declares : c = k \/ <<k, c>> \in all}
             right(k, meant, answer, from, access, same) ==
               /\ meant /= {} /\ (\A d \in meant : Legal(up, d, from, access, same))
                    => answer = "resolved"
               /\ (\A d \in around(k) : access = "private" /\ d /= from) => answer /= "resolved"
             Both(k, from, access, same, public) ==
               /\ right(k, MeantFields(all, k), ResolveField(k, from, access, public),
                        from, access, same)
               /\ right(k, MeantMethods(up, k),
                        ResolveMethod(k, from, access, public, k \in isInterface),
                        from, access, same)
  <2>1. ASSUME \A k \in Defined : \A from \in Defined, access \in Accesses, same, public \in BOOLEAN :
                 public \/ k = from \/ same => Both(k, from, access, same, public)
        PROVE  LegalUseResolves
    BY ONLY <2>1, ZenonT(60) DEF LegalUseResolves
  <2>2. SUFFICES ASSUME NEW k \in Defined, NEW from \in Defined, NEW access \in Accesses,
                        NEW same \in BOOLEAN, NEW public \in BOOLEAN
                 PROVE  Both(k, from, access, same, public)
    <3> HIDE DEF Both
    <3> QED BY <2>1, Zenon
  <2>3. ResolveField(k, from, access, public) = Resolved(k, LookupField(k), from, access, public)
    BY Zenon DEF ResolveField
  <2>4. ResolveMethod(k, from, access, public, k \in isInterface)
          = Resolved(k, LookupMethod(k), from, access, public)
    BY DEF ResolveMethod
  <2>5. ASSUME NEW decl
        PROVE  /\ Legal(up, decl, from, access, same) => MemberIsAccessibleTo(decl, from, access)
               /\ access = "private" /\ decl # from => ~ MemberIsAccessibleTo(decl, from, access)
    <3> HIDE DEF up
    <3> QED BY DEF MemberIsAccessibleTo, Accesses, Legal
  <2>6. declares \subseteq Defined /\ None \notin Defined BY NoneUndefined DEF Ordered
  <2>7. \A c : c \in around(k) <=> c \in declares /\ Around(k, c)
    BY <2>6, ReachOfAnyEdge, Zenon DEF Around
  <2>8. /\ LookupField(k) # None => LookupField(k) \in around(k)
        /\ MeantFields(all, k) # {} => LookupField(k) \in MeantFields(all, k) /\ LookupField(k) # None
    <3>1. FieldRight(k, LookupField(k)) BY FieldFoundRight, Zenon
    <3>2. k \in declares => LookupField(k) = k BY FieldSteps, Zenon DEF FieldFound
    <3>4. CASE k \in declares BY <2>6, <2>7, <3>1, <3>2, <3>4, Zenon DEF MeantFields, FieldRight
    <3>5. CASE k \notin declares
      <4>1. \A c : c \in MeantFields(all, k) <=> c \in around(k)
        BY <3>5, Zenon DEF MeantFields
      <4> HIDE DEF around
      <4> QED BY <2>6, <2>7, <3>1, <4>1, Zenon DEF FieldRight
    <3> QED BY <3>4, <3>5
  <2>9. /\ LookupMethod(k) # None => LookupMethod(k) \in around(k)
        /\ MeantMethods(up, k) # {} => LookupMethod(k) \in MeantMethods(up, k) /\ LookupMethod(k) # None
    <3>1. LookupMethod(k) # None => LookupMethod(k) \in around(k)
      <4> HIDE DEF around
      <4> QED BY <2>7, MethodIsAround, Zenon
    <3>2. ASSUME MeantMethods(up, k) # {}
          PROVE  LookupMethod(k) \in MeantMethods(up, k) /\ LookupMethod(k) # None
      <4> DEFINE m == LookupMethodInClass(k)
      <4>1. \A c \in declares : <<k, c>> \in up <=> Reaches(SuperEdges, k, c)
        BY <2>6, ReachOfEdge, Zenon
      <4>2. \A c, d \in declares : <<c, d>> \in up <=> Reaches(SuperEdges, c, d)
        BY <2>6, ReachOfEdge, Zenon
      <4>3. Overrides(k, m) BY MethodOverrides, Zenon
      <4> HIDE DEF m, up
      <4>4. PICK c \in declares : c = k \/ <<k, c>> \in up BY <3>2, Zenon DEF MeantMethods
      <4>5. m # None BY <4>1, <4>3, <4>4, Zenon DEF Overrides
      <4>6. /\ m \in declares /\ (m = k \/ <<k, m>> \in up)
            /\ \A d \in declares : d = k \/ <<k, d>> \in up => d = m \/ <<m, d>> \in up
        BY <4>1, <4>2, <4>3, <4>5, Zenon DEF Overrides
      <4>7. m \in MeantMethods(up, k) BY <4>6, Zenon DEF MeantMethods
      <4>8. LookupMethod(k) = m BY <4>5, Zenon DEF LookupMethod, m
      <4> QED BY <4>5, <4>7, <4>8, Zenon
    <3> QED BY <3>1, <3>2
  <2>10. ASSUME NEW decl, NEW meant, decl # None => decl \in around(k),
                meant # {} => decl \in meant /\ decl # None
         PROVE  right(k, meant, Resolved(k, decl, from, access, public), from, access, same)
    <3> DEFINE answer == Resolved(k, decl, from, access, public)
               open == MemberIsAccessibleTo(decl, from, access)
    <3>1. answer = "resolved" <=> decl # None /\ open BY ResolvedAnswers, Zenon
    <3>2. /\ Legal(up, decl, from, access, same) => open
          /\ access = "private" /\ decl # from => ~ open
      BY <2>5, Zenon
    <3> HIDE DEF up, around, answer, open
    <3>3. ASSUME meant # {}, \A d \in meant : Legal(up, d, from, access, same)
          PROVE  answer = "resolved"
      BY <2>10, <3>1, <3>2, <3>3, Zenon
    <3>4. ASSUME \A d \in around(k) : access = "private" /\ d # from PROVE answer # "resolved"
      BY <2>10, <3>1, <3>2, <3>4, Zenon
    <3> QED BY <3>3, <3>4, Zenon DEF answer
  <2> HIDE DEF right, up, all, around
  <2> QED BY <2>3, <2>4, <2>8, <2>9, <2>10, Zenon
<1> QED BY <1>1, OrderedAlways, PTL

-----------------------------------------------------------------------------
(* Answers stay *)

(* The walks as equations, to be used before and after a step *)
StepsRight ==
  /\ \A goal, c \in Defined :
       Walk(goal)[c] <=> c = goal \/ (super[c] # None /\ Walk(goal)[super[c]])
  /\ \A t, s \in Defined :
       IsSubInterfaceOf(s, t)
         <=> \E i \in DOMAIN interfaces[s] :
               interfaces[s][i] = t \/ IsSubInterfaceOf(interfaces[s][i], t)
  /\ \A k \in Defined :
       LookupMethodInClass(k)
         = IF k \in declares THEN k
           ELSE IF super[k] = None THEN None ELSE LookupMethodInClass(super[k])
FieldsRight ==
  \E field : /\ \A k : LookupField(k) = field[k]
             /\ \A k \in Defined : field[k] = FieldFound(k, field)

LEMMA StepsHold == Ordered => StepsRight /\ FieldsRight
BY WalkSteps, SubInterfaceSteps, MethodSteps, FieldSteps, Zenon DEF StepsRight, FieldsRight

(* The hierarchy as it was is still there. *)
Kept ==
  /\ Ordered /\ StepsRight /\ FieldsRight /\ StepsRight' /\ FieldsRight'
  /\ \E n \in Nat : Defined = 0 .. n - 1
  /\ Defined \subseteq Defined'
  /\ \A c \in Defined : /\ super'[c] = super[c] /\ interfaces'[c] = interfaces[c]
                        /\ c \in declares' <=> c \in declares

LEMMA WalkStays ==
  ASSUME Kept, NEW goal \in Defined
  PROVE  \A c \in Defined : Walk(goal)[c]' <=> Walk(goal)[c]
<1>1. PICK n \in Nat : Defined = 0 .. n - 1 BY Zenon DEF Kept
<1> DEFINE S == {c \in Defined : Walk(goal)[c]' <=> Walk(goal)[c]}
<1>2. \A k \in 0 .. n - 1 : (\A j \in 0 .. k - 1 : j \in S) => k \in S
  <2> SUFFICES ASSUME NEW k \in Defined, \A j \in 0 .. k - 1 : j \in S PROVE k \in S
    BY <1>1, Zenon
  <2>1. Walk(goal)[k] <=> k = goal \/ (super[k] # None /\ Walk(goal)[super[k]])
    BY Zenon DEF Kept, StepsRight
  <2>2. k \in Defined' /\ goal \in Defined' /\ super'[k] = super[k] BY Zenon DEF Kept
  <2>3. Walk(goal)[k]' <=> k = goal \/ (super'[k] # None /\ Walk(goal)'[super'[k]])
    BY <2>2, Zenon DEF Kept, StepsRight
  <2>4. super[k] # None => super[k] \in S BY Below, Zenon DEF Kept
  <2>5. super[k] # None => (Walk(goal)'[super[k]] <=> Walk(goal)[super[k]]) BY <2>4, Zenon
  <2> QED BY <2>1, <2>2, <2>3, <2>5, Zenon
<1> HIDE DEF S
<1>3. 0 .. n - 1 \subseteq S BY <1>2, StrongInduction, Zenon
<1> QED BY <1>1, <1>3, Zenon DEF S

LEMMA SubInterfaceStays ==
  ASSUME Kept, NEW t \in Defined
  PROVE  \A s \in Defined : IsSubInterfaceOf(s, t)' <=> IsSubInterfaceOf(s, t)
<1>1. PICK n \in Nat : Defined = 0 .. n - 1 BY Zenon DEF Kept
<1> DEFINE S == {s \in Defined : IsSubInterfaceOf(s, t)' <=> IsSubInterfaceOf(s, t)}
<1>2. \A k \in 0 .. n - 1 : (\A j \in 0 .. k - 1 : j \in S) => k \in S
  <2> SUFFICES ASSUME NEW k \in Defined, \A j \in 0 .. k - 1 : j \in S PROVE k \in S
    BY <1>1, Zenon
  <2>1. IsSubInterfaceOf(k, t)
          <=> \E i \in DOMAIN interfaces[k] :
                interfaces[k][i] = t \/ IsSubInterfaceOf(interfaces[k][i], t)
    BY Zenon DEF Kept, StepsRight
  <2>2. k \in Defined' /\ t \in Defined' /\ interfaces'[k] = interfaces[k] BY Zenon DEF Kept
  <2>3. (IsSubInterfaceOf(k, t)
           <=> \E i \in DOMAIN interfaces[k] :
                 interfaces[k][i] = t \/ IsSubInterfaceOf(interfaces[k][i], t))'
    BY <2>2, Zenon DEF Kept, StepsRight
  <2>4. \A i \in DOMAIN interfaces[k] : interfaces[k][i] \in S BY Below, Zenon DEF Kept
  <2>5. \A i \in DOMAIN interfaces[k] :
          IsSubInterfaceOf(interfaces[k][i], t)' <=> IsSubInterfaceOf(interfaces[k][i], t)
    <3> SUFFICES ASSUME NEW i \in DOMAIN interfaces[k]
                 PROVE  IsSubInterfaceOf(interfaces[k][i], t)' <=> IsSubInterfaceOf(interfaces[k][i], t)
      BY Zenon
    <3>1. PICK b \in S : b = interfaces[k][i] BY <2>4, Zenon
    <3>2. b = interfaces'[k][i] BY <2>2, <3>1, Zenon
    <3> QED BY <3>1, <3>2, Zenon
  <2> QED BY <2>1, <2>2, <2>3, <2>5, Zenon
<1> HIDE DEF S
<1>3. 0 .. n - 1 \subseteq S BY <1>2, StrongInduction, Zenon
<1> QED BY <1>1, <1>3, Zenon DEF S

LEMMA MethodStays ==
  ASSUME Kept
  PROVE  \A k \in Defined : LookupMethodInClass(k)' = LookupMethodInClass(k)
<1>1. PICK n \in Nat : Defined = 0 .. n - 1 BY Zenon DEF Kept
<1> DEFINE S == {k \in Defined : LookupMethodInClass(k)' = LookupMethodInClass(k)}
<1>2. \A k \in 0 .. n - 1 : (\A j \in 0 .. k - 1 : j \in S) => k \in S
  <2> SUFFICES ASSUME NEW k \in Defined, \A j \in 0 .. k - 1 : j \in S PROVE k \in S
    BY <1>1, Zenon
  <2>1. LookupMethodInClass(k)
          = IF k \in declares THEN k
            ELSE IF super[k] = None THEN None ELSE LookupMethodInClass(super[k])
    BY Zenon DEF Kept, StepsRight
  <2>2. k \in Defined' /\ super'[k] = super[k] /\ (k \in declares' <=> k \in declares)
    BY Zenon DEF Kept
  <2>3. (LookupMethodInClass(k)
           = IF k \in declares THEN k
             ELSE IF super[k] = None THEN None ELSE LookupMethodInClass(super[k]))'
    BY <2>2, Zenon DEF Kept, StepsRight
  <2>4. super[k] # None => LookupMethodInClass(super[k])' = LookupMethodInClass(super[k])
    <3> SUFFICES ASSUME super[k] # None
                 PROVE  LookupMethodInClass(super[k])' = LookupMethodInClass(super[k])
      BY Zenon
    <3>1. PICK b \in S : b = super[k] BY Below, Zenon DEF Kept
    <3>2. b = super'[k] BY <2>2, <3>1, Zenon
    <3> QED BY <3>1, <3>2, Zenon
  <2>5. LookupMethodInClass(k)' = LookupMethodInClass(k)
    <3>1. CASE k \in declares BY <2>1, <2>2, <2>3, <3>1, Zenon
    <3>2. CASE k \notin declares /\ super[k] = None
      <4>1. LookupMethodInClass(k) = None BY <2>1, <3>2, Zenon
      <4>2. LookupMethodInClass(k)' = None BY <2>2, <2>3, <3>2, Zenon DEF None
      <4> QED BY <4>1, <4>2, Zenon
    <3>3. CASE k \notin declares /\ super[k] # None
      <4>1. LookupMethodInClass(k) = LookupMethodInClass(super[k]) BY <2>1, <3>3, Zenon
      <4>2. LookupMethodInClass(k)' = LookupMethodInClass(super[k])'
        BY <2>2, <2>3, <3>3, Zenon DEF None
      <4> QED BY <2>4, <3>3, <4>1, <4>2, Zenon
    <3> QED BY <3>1, <3>2, <3>3, Zenon
  <2> QED BY <2>5, Zenon
<1> HIDE DEF S
<1>3. 0 .. n - 1 \subseteq S BY <1>2, StrongInduction, Zenon
<1> QED BY <1>1, <1>3, Zenon DEF S

LEMMA FieldStays ==
  ASSUME Kept
  PROVE  \A k \in Defined : LookupField(k)' = LookupField(k)
<1>1. PICK n \in Nat : Defined = 0 .. n - 1 BY Zenon DEF Kept
<1>2. PICK f : /\ \A k : LookupField(k) = f[k]
               /\ \A k \in Defined : f[k] = FieldFound(k, f)
  BY Zenon DEF Kept, FieldsRight
<1>3. PICK g : /\ \A k : LookupField(k)' = g[k]
               /\ \A k \in Defined' : g[k] = FieldFound(k, g)'
  BY Zenon DEF Kept, FieldsRight
<1> DEFINE S == {k \in Defined : g[k] = f[k]}
<1>4. \A k \in 0 .. n - 1 : (\A j \in 0 .. k - 1 : j \in S) => k \in S
  <2> SUFFICES ASSUME NEW k \in Defined, \A j \in 0 .. k - 1 : j \in S PROVE g[k] = f[k]
    BY <1>1, Zenon
  <2>1. /\ k \in Defined' /\ super'[k] = super[k] /\ interfaces'[k] = interfaces[k]
        /\ k \in declares' <=> k \in declares
    BY Zenon DEF Kept
  <2>2. super[k] # None => g[super[k]] = f[super[k]] BY Below, Zenon DEF Kept
  <2>3. \A i \in DOMAIN interfaces[k] : g[interfaces[k][i]] = f[interfaces[k][i]]
    BY Below, Zenon DEF Kept
  <2>4. FoundIn(k, g)' = FoundIn(k, f) BY <2>1, <2>3, Zenon DEF FoundIn
  <2>5. FoundIn(k, f) # {} => FirstIn(FoundIn(k, f)) \in DOMAIN interfaces[k]
    <3>1. FoundIn(k, f) # {} => FirstIn(FoundIn(k, f)) \in FoundIn(k, f)
      BY FirstExists, Zenon DEF Kept
    <3>2. FoundIn(k, f) \subseteq DOMAIN interfaces[k] BY Zenon DEF FoundIn
    <3> QED BY <3>1, <3>2, Zenon
  <2>6. FoundIn(k, f) # {}
          => g[interfaces[k][FirstIn(FoundIn(k, f))]] = f[interfaces[k][FirstIn(FoundIn(k, f))]]
    BY <2>3, <2>5, Zenon
  <2>7. f[k] = FieldFound(k, f) BY <1>2, Zenon
  <2>8. g[k] = IF k \in declares' THEN k
               ELSE IF FoundIn(k, g)' # {} THEN g[interfaces'[k][FirstIn(FoundIn(k, g)')]]
               ELSE IF super'[k] # None THEN g[super'[k]]
               ELSE None
    <3>1. g[k] = FieldFound(k, g)' BY <1>3, <2>1, Zenon
    <3> QED BY <3>1, Zenon DEF FieldFound
  <2>9. g[k] = IF k \in declares THEN k
               ELSE IF FoundIn(k, f) # {} THEN g[interfaces[k][FirstIn(FoundIn(k, f))]]
               ELSE IF super[k] # None THEN g[super[k]]
               ELSE None
    BY <2>1, <2>4, <2>8, Zenon
  <2>10. f[k] = IF k \in declares THEN k
                ELSE IF FoundIn(k, f) # {} THEN f[interfaces[k][FirstIn(FoundIn(k, f))]]
                ELSE IF super[k] # None THEN f[super[k]]
                ELSE None
    BY <2>7, Zenon DEF FieldFound
  <2>11. CASE k \in declares BY <2>9, <2>10, <2>11, Zenon
  <2>12. CASE k \notin declares /\ FoundIn(k, f) # {}
    <3>1. f[k] = f[interfaces[k][FirstIn(FoundIn(k, f))]] BY <2>10, <2>12, Zenon
    <3>2. g[k] = g[interfaces[k][FirstIn(FoundIn(k, f))]] BY <2>9, <2>12, Zenon
    <3> QED BY <2>6, <2>12, <3>1, <3>2, Zenon
  <2>13. CASE k \notin declares /\ FoundIn(k, f) = {} /\ super[k] # None
    <3>1. f[k] = f[super[k]] BY <2>10, <2>13, Zenon
    <3>2. g[k] = g[super[k]] BY <2>9, <2>13, Zenon
    <3> QED BY <2>2, <2>13, <3>1, <3>2, Zenon
  <2>14. CASE k \notin declares /\ FoundIn(k, f) = {} /\ super[k] = None
    BY <2>9, <2>10, <2>14, Zenon
  <2> QED BY <2>11, <2>12, <2>13, <2>14, Zenon
<1> HIDE DEF S
<1>5. 0 .. n - 1 \subseteq S BY <1>4, StrongInduction, Zenon
<1> QED BY <1>1, <1>2, <1>3, <1>5, Zenon DEF S

(* Defining a class changes no answer about another. *)
Stays ==
  \A k \in Defined :
    /\ LookupMethod(k)' = LookupMethod(k)
    /\ LookupField(k)' = LookupField(k)
    /\ \A c \in Defined : /\ IsSubClassOf(k, c)' <=> IsSubClassOf(k, c)
                          /\ IsImplements(k, c)' <=> IsImplements(k, c)

LEMMA KeptStays == Kept => Stays
<1> SUFFICES ASSUME Kept, NEW k \in Defined
             PROVE  /\ LookupMethod(k)' = LookupMethod(k)
                    /\ LookupField(k)' = LookupField(k)
                    /\ \A c \in Defined : /\ IsSubClassOf(k, c)' <=> IsSubClassOf(k, c)
                                          /\ IsImplements(k, c)' <=> IsImplements(k, c)
  BY Zenon DEF Stays
<1>1. /\ super'[k] = super[k] /\ interfaces'[k] = interfaces[k]
      /\ super[k] # None => super[k] \in Defined
      /\ \A i \in DOMAIN interfaces[k] : interfaces[k][i] \in Defined
  BY Below, Zenon DEF Kept
<1>2. LookupMethod(k)' = LookupMethod(k)
  <2>1. LookupMethodInClass(k)' = LookupMethodInClass(k) BY MethodStays, Zenon
  <2>2. LookupMethodInInterfaces(k)' = LookupMethodInInterfaces(k)
    <3>1. CASE interfaces[k] = << >> BY <1>1, <3>1, Zenon DEF LookupMethodInInterfaces
    <3>2. CASE interfaces[k] # << >>
      <4>1. interfaces[k] \in Seq(isInterface) BY DEF Kept, Ordered
      <4>2. Len(interfaces[k]) \in DOMAIN interfaces[k] BY <3>2, <4>1
      <4>3. PICK b \in Defined : b = Last(interfaces[k]) BY <1>1, <4>2, Zenon DEF Last
      <4>4. b = Last(interfaces'[k]) BY <1>1, <4>3, Zenon
      <4>5. LookupMethodInInterfaces(k) = LookupMethodInClass(b)
        BY <3>2, <4>3, Zenon DEF LookupMethodInInterfaces
      <4>6. LookupMethodInInterfaces(k)' = LookupMethodInClass(b)'
        BY <1>1, <3>2, <4>4, Zenon DEF LookupMethodInInterfaces
      <4> QED BY <4>5, <4>6, MethodStays, Zenon
    <3> QED BY <3>1, <3>2, Zenon
  <2> QED BY <2>1, <2>2, Zenon DEF LookupMethod
<1>3. LookupField(k)' = LookupField(k) BY FieldStays, Zenon
<1>4. ASSUME NEW c \in Defined PROVE IsSubClassOf(k, c)' <=> IsSubClassOf(k, c)
  <2>1. super[k] # None => (Walk(c)[super[k]]' <=> Walk(c)[super[k]])
    <3> SUFFICES ASSUME super[k] # None PROVE Walk(c)[super[k]]' <=> Walk(c)[super[k]] BY Zenon
    <3>1. PICK b \in Defined : b = super[k] BY <1>1, Zenon
    <3>2. b = super'[k] BY <1>1, <3>1, Zenon
    <3>3. Walk(c)[b]' <=> Walk(c)[b] BY WalkStays, Zenon
    <3> QED BY <3>1, <3>2, <3>3, Zenon
  <2> QED BY <1>1, <2>1, Zenon DEF IsSubClassOf
<1>5. ASSUME NEW c \in Defined PROVE IsImplements(k, c)' <=> IsImplements(k, c)
  <2>1. ASSUME NEW i \in DOMAIN interfaces[k]
        PROVE  IsSubInterfaceOf(interfaces[k][i], c)' <=> IsSubInterfaceOf(interfaces[k][i], c)
    <3>1. PICK b \in Defined : b = interfaces[k][i] BY <1>1, Zenon
    <3>2. b = interfaces'[k][i] BY <1>1, <3>1, Zenon
    <3>3. IsSubInterfaceOf(b, c)' <=> IsSubInterfaceOf(b, c) BY SubInterfaceStays, Zenon
    <3> QED BY <3>1, <3>2, <3>3, Zenon
  <2> QED BY <1>1, <2>1, Zenon DEF IsImplements
<1> QED BY <1>2, <1>3, <1>4, <1>5, Zenon

(* Whatever classes are loaded later, the methods, fields and relations    *)
(* found before stay, so what the constant pool keeps of them stays right. *)
THEOREM AnswersStayAlways == HierarchySpec => AnswersStay
<1>1. Ordered' => StepsRight' /\ FieldsRight' BY StepsHold, PTL
<1>2. Ordered /\ Ordered' /\ [HierarchyNext]_hierarchy => [Stays]_hierarchy
  <2> SUFFICES ASSUME Ordered, Ordered', HierarchyNext PROVE Stays BY Zenon
  <2>1. PICK sup \in Defined, ifs \in InterfaceLists, iface \in BOOLEAN, decl \in BOOLEAN :
          Define(sup, ifs, iface, decl)
    BY Zenon DEF HierarchyNext
  <2>2. PICK k \in Nat : Extended(k, ifs) BY <2>1, DefineExtends, Zenon
  <2>3. Defined \subseteq Defined' BY <2>2 DEF Extended
  <2>4. \E n \in Nat : Defined = 0 .. n - 1 BY <2>2, Zenon DEF Extended
  <2>5. \A c \in Defined : /\ super'[c] = super[c] /\ interfaces'[c] = interfaces[c]
                           /\ c \in declares' <=> c \in declares
    BY <2>2, Zenon DEF Extended
  <2>6. Kept BY <1>1, <2>3, <2>4, <2>5, StepsHold, Zenon DEF Kept
  <2> QED BY <2>6, KeptStays, Zenon
<1>3. [][Stays]_hierarchy => AnswersStay
  <2>1. [Stays]_hierarchy <=> [\A k \in Defined :
                             /\ LookupMethod(k)' = LookupMethod(k)
                             /\ LookupField(k)' = LookupField(k)
                             /\ \A c \in Defined : /\ IsSubClassOf(k, c)' <=> IsSubClassOf(k, c)
                                                   /\ IsImplements(k, c)' <=> IsImplements(k, c)]_hierarchy
    BY Zenon DEF Stays
  <2> QED BY <2>1, PTL DEF AnswersStay
<1> QED BY <1>2, <1>3, OrderedAlways, PTL DEF HierarchySpec

-----------------------------------------------------------------------------
(* Fields: the heap and the static variables *)

Refs == {Null} \cup [of : {"class", "object"}, class : DOMAIN Classes, at : Nat]

EndOf(e) == e.at + SizeOf(e)

(* The invariant: FreshAccounted and EarlierClassesWhole with what they    *)
(* need to be kept, the kinds of the values.                               *)
HeapInv ==
  /\ pos \in Nat /\ allocated = pos /\ pos % 8 = 0 /\ pos <= FreshSize
  /\ heap \in Seq(Refs)
  /\ \A r \in Real : EndOf(heap[r]) <= pos
  /\ \A q, r \in Real : q < r => EndOf(heap[q]) <= heap[r].at
  /\ EarlierClassesWhole

-----------------------------------------------------------------------------
(* Rounding up gives a multiple of eight that is at least as large. *)
LEMMA Rounding ==
  ASSUME NEW x \in Nat
  PROVE  RoundUp(x) \in Nat /\ RoundUp(x) % 8 = 0 /\ x <= RoundUp(x)
BY DEF RoundUp, RoundDown

LEMMA SumOfMultiples ==
  ASSUME NEW a \in Nat, NEW b \in Nat, a % 8 = 0, b % 8 = 0
  PROVE  (a + b) % 8 = 0
OBVIOUS
(* The size asked for, of a class object and of an object *)
LEMMA SizeIsNat ==
  /\ RoundUp(ClassSize) \in Nat /\ RoundUp(ClassSize) % 8 = 0
  /\ \A c \in DOMAIN Classes :
       RoundUp(ObjectSize(c)) \in Nat /\ RoundUp(ObjectSize(c)) % 8 = 0
<1>1. ClassSize \in Nat
  BY SizesAssumption
<1>2. \A c \in DOMAIN Classes : ObjectSize(c) \in Nat
  BY ClassesAssumption DEF ObjectSize, SlotSize
<1>. QED  BY <1>1, <1>2, Rounding

LEMMA RealFacts ==
  ASSUME HeapInv, NEW r \in Real
  PROVE  /\ r \in 1 .. Len(heap) /\ Len(heap) \in Nat
         /\ heap[r].of \in {"class", "object"}
         /\ heap[r].class \in DOMAIN Classes /\ heap[r].at \in Nat
         /\ SizeOf(heap[r]) \in Nat
         /\ heap[r].of = "class" => SizeOf(heap[r]) = RoundUp(ClassSize)
<1>1. /\ r \in 1 .. Len(heap) /\ Len(heap) \in Nat
      /\ heap[r] \in [of : {"class", "object"}, class : DOMAIN Classes, at : Nat]
  BY DEF HeapInv, Real, Refs
<1>2. heap[r].of \in {"class", "object"} /\ heap[r].class \in DOMAIN Classes /\ heap[r].at \in Nat
  BY <1>1
<1>3. /\ SizeOf(heap[r]) \in Nat
      /\ heap[r].of = "class" => SizeOf(heap[r]) = RoundUp(ClassSize)
  BY <1>2, SizeIsNat, Zenon DEF SizeOf
<1>. QED  BY <1>1, <1>2, <1>3

(* The spaces lie in order inside the block, for every size asked for. *)
LEMMA Layout ==
  /\ HeapSize \in Nat /\ FreshSize \in Nat /\ SurvivorSize \in Nat
  /\ FreshSize <= ToStart /\ ToStart <= OldStart /\ OldStart <= HeapSize
<1>1. RoundUp(MaxSize) \in Nat
  BY SizesAssumption, Rounding
<1>2. HeapSize \in Nat
  BY <1>1 DEF HeapSize, Larger, MinHeapSize
<1>3. SurvivorSize \in Nat /\ 40 * SurvivorSize <= HeapSize
  BY <1>2 DEF SurvivorSize, RoundDown
<1>4. FreshSize = 8 * SurvivorSize
  BY <1>3 DEF FreshSize, RoundDown
<1>. QED  BY <1>2, <1>3, <1>4 DEF ToStart, OldStart, FromStart
LEMMA HeapInvInit == Init => HeapInv
<1>. SUFFICES ASSUME Init PROVE HeapInv
  OBVIOUS
<1>1. heap = << >> /\ Real = {} /\ damage = {}
  BY DEF Init, Real
<1>. QED  BY <1>1, Layout DEF Init, HeapInv, EarlierClassesWhole

(* A step that leaves the heap alone *)
LEMMA Untouched ==
  ASSUME HeapInv, UNCHANGED <<pos, allocated, heap, damage>>
  PROVE  HeapInv'
BY DEF HeapInv, Real, EarlierClassesWhole, EndOf

(* A word at or behind the bump pointer lies in no class object.  One at   *)
(* or behind the start of an object lies in none that is there before the  *)
(* object.                                                                 *)
LEMMA NothingBehind ==
  ASSUME HeapInv, NEW p \in Int, pos <= p
  PROVE  Hit(p) = {}
<1>. SUFFICES ASSUME NEW k \in Hit(p) PROVE FALSE
  OBVIOUS
<1>1. k \in DOMAIN heap /\ heap[k].of = "class" /\ p < heap[k].at + RoundUp(ClassSize)
  BY DEF Hit
<1>2. k \in Real
  <2>1. Null.of = "null"
    BY DEF Null
  <2>2. heap[k] # Null
    BY <1>1, <2>1
  <2>. QED  BY <1>1, <2>2, Zenon DEF Real
<1>3. heap[k].at \in Nat /\ SizeOf(heap[k]) = RoundUp(ClassSize)
  BY <1>1, <1>2, RealFacts
<1>4. heap[k].at + RoundUp(ClassSize) <= pos /\ pos \in Nat
  BY <1>2, <1>3 DEF HeapInv, EndOf
<1>. QED  BY <1>1, <1>3, <1>4, SizeIsNat

LEMMA OnlyAhead ==
  ASSUME HeapInv, NEW r \in Real, heap[r].of # "class", NEW p \in Int, heap[r].at <= p,
         NEW k \in Hit(p)
  PROVE  r < k
<1>1. k \in DOMAIN heap /\ heap[k].of = "class" /\ p < heap[k].at + RoundUp(ClassSize)
  BY DEF Hit
<1>2. k \in Real
  <2>1. Null.of = "null"
    BY DEF Null
  <2>2. heap[k] # Null
    BY <1>1, <2>1
  <2>. QED  BY <1>1, <2>2, Zenon DEF Real
<1>3. heap[k].at \in Nat /\ SizeOf(heap[k]) = RoundUp(ClassSize) /\ k \in Int
  BY <1>1, <1>2, RealFacts
<1>4. heap[r].at \in Nat /\ r \in Int
  BY RealFacts
<1>5. k < r => heap[k].at + RoundUp(ClassSize) <= heap[r].at
  BY <1>2, <1>3, Zenon DEF HeapInv, EndOf
<1>6. k # r
  BY <1>1
<1>. QED  BY <1>1, <1>3, <1>4, <1>5, <1>6, SizeIsNat

(* AllocObject, for a class object or an object *)
LEMMA AllocKeeps ==
  ASSUME HeapInv, NEW of \in {"class", "object"}, NEW c \in DOMAIN Classes, NEW size,
         size = RoundUp(IF of = "class" THEN ClassSize ELSE ObjectSize(c)),
         ~Full(size), AllocObject(of, c, size)
  PROVE  HeapInv'
<1>. DEFINE new == [of |-> of, class |-> c, at |-> pos]
<1>1. size \in Nat /\ size % 8 = 0
  BY SizeIsNat, Zenon
<1>2. pos \in Nat /\ pos + size <= FreshSize
  <2>1. pos \in Nat /\ FreshSize \in Nat
    BY Layout DEF HeapInv
  <2>. QED  BY <1>1, <2>1 DEF Full
<1>3. pos' = pos + size /\ allocated' = allocated + size /\ heap' = Append(heap, new)
  BY DEF AllocObject
<1>4. heap' \in Seq(Refs)
  BY <1>2, <1>3 DEF HeapInv, Refs
<1>5. pos' \in Nat /\ allocated' = pos' /\ pos' % 8 = 0 /\ pos' <= FreshSize
  <2>1. pos % 8 = 0 /\ allocated = pos
    BY DEF HeapInv
  <2>2. (pos + size) % 8 = 0
    BY <1>1, <1>2, <2>1, SumOfMultiples
  <2>3. pos + size \in Nat
    <3>1. \A a, b \in Nat : a + b \in Nat
      OBVIOUS
    <3>. QED  BY <1>1, <1>2, <3>1, Zenon
  <2>4. allocated + size = pos + size
    BY <2>1, Zenon
  <2>. QED  BY <1>2, <1>3, <2>2, <2>3, <2>4, Zenon
<1>6. ASSUME NEW r \in Real'
      PROVE  \/ r \in Real /\ heap'[r] = heap[r]
             \/ r = Len(heap) + 1 /\ heap'[r] = new
  BY <1>3 DEF HeapInv, Real
<1>7. EndOf(new) = pos + size
  <2>1. SizeOf(new) = size
    BY Zenon DEF SizeOf
  <2>. QED  BY <2>1 DEF EndOf
<1>8. \A r \in Real : /\ r \in 1 .. Len(heap) /\ Len(heap) \in Nat /\ heap[r].at \in Nat
                      /\ EndOf(heap[r]) \in Nat /\ EndOf(heap[r]) <= pos
  <2>1. \A r \in Real : /\ r \in 1 .. Len(heap) /\ Len(heap) \in Nat /\ heap[r].at \in Nat
                        /\ SizeOf(heap[r]) \in Nat
    BY RealFacts
  <2>. QED  BY <2>1 DEF HeapInv, EndOf
<1>. HIDE DEF new
<1>9. \A r \in Real' : EndOf(heap'[r]) <= pos'
  <2>. SUFFICES ASSUME NEW r \in Real' PROVE EndOf(heap'[r]) <= pos + size
    BY <1>3
  <2>1. CASE r \in Real /\ heap'[r] = heap[r]
    <3>1. EndOf(heap'[r]) = EndOf(heap[r])
      BY <2>1
    <3>2. EndOf(heap[r]) \in Nat /\ EndOf(heap[r]) <= pos
      BY <1>8, <2>1, Zenon
    <3>. QED  BY <1>1, <1>2, <3>1, <3>2
  <2>2. CASE heap'[r] = new
    <3>1. EndOf(heap'[r]) = pos + size
      BY <1>7, <2>2
    <3>. QED  BY <1>1, <1>2, <3>1
  <2>. QED  BY <1>6, <2>1, <2>2, Zenon
<1>10. new.at = pos
  BY DEF new
<1>11. \A q, r \in Real' : q < r => EndOf(heap'[q]) <= heap'[r].at
  <2>. SUFFICES ASSUME NEW q \in Real', NEW r \in Real', q < r
                PROVE  EndOf(heap'[q]) <= heap'[r].at
    OBVIOUS
  <2>1. CASE r \in Real /\ heap'[r] = heap[r]
    <3>1. q \in Real /\ heap'[q] = heap[q]
      <4>1. r \in 1 .. Len(heap) /\ Len(heap) \in Nat
        BY <1>8, <2>1
      <4>2. q # Len(heap) + 1
        BY <4>1
      <4>. QED  BY <1>6, <4>2
    <3>. QED  BY <2>1, <3>1, Zenon DEF HeapInv
  <2>2. CASE r = Len(heap) + 1 /\ heap'[r] = new
    <3>1. q \in Real /\ heap'[q] = heap[q]
      <4>1. Len(heap) \in Nat
        BY DEF HeapInv
      <4>2. q # Len(heap) + 1
        BY <2>2, <4>1
      <4>. QED  BY <1>6, <4>2
    <3>. QED  BY <1>8, <1>10, <2>2, <3>1, Zenon
  <2>. QED  BY <1>6, <2>1, <2>2
<1>12. EarlierClassesWhole'
  <2>1. \A p \in {pos + o : o \in HeaderOffsets} : Hit(p) = {}
    <3>1. \A o \in HeaderOffsets : pos + o \in Int /\ pos <= pos + o
      BY <1>2 DEF HeaderOffsets
    <3>. QED  BY <3>1, NothingBehind
  <2>2. damage' = damage \cup ({Len(heap) + 1} \X UNION {Hit(p) : p \in {pos + o : o \in HeaderOffsets}})
    BY Zenon DEF AllocObject, StoreAll
  <2>3. damage' = damage
    BY <2>1, <2>2
  <2>. QED  BY <2>3 DEF HeapInv, EarlierClassesWhole
<1>. QED  BY <1>4, <1>5, <1>9, <1>11, <1>12 DEF HeapInv

LEMMA NewKeeps ==
  ASSUME HeapInv, NEW c \in DOMAIN Classes, NEW_OBJECT(c)
  PROVE  HeapInv'
<1>. DEFINE size == RoundUp(ObjectSize(c))
<1>1. CASE heap' = Append(heap, Null) /\ UNCHANGED <<pos, allocated, damage>>
  <2>1. heap' \in Seq(Refs)
    BY <1>1 DEF HeapInv, Refs
  <2>2. Real' = Real /\ \A r \in Real : heap'[r] = heap[r]
    BY <1>1 DEF HeapInv, Real
  <2>. QED  BY <1>1, <2>1, <2>2 DEF HeapInv, EarlierClassesWhole
<1>2. CASE ~Full(size) /\ AllocObject("object", c, size)
  BY <1>2, AllocKeeps
<1>. QED  BY <1>1, <1>2 DEF NEW_OBJECT

LEMMA LoadKeeps ==
  ASSUME HeapInv, NEW c \in DOMAIN Classes, LoadClass(c)
  PROVE  HeapInv'
<1>. DEFINE size == RoundUp(ClassSize)
<1>1. CASE Stop("dead")
  BY <1>1, Untouched DEF Stop
<1>2. CASE ~Full(size) /\ AllocObject("class", c, size)
  BY <1>2, AllocKeeps
<1>. QED  BY <1>1, <1>2 DEF LoadClass

(* The words of a field lie behind the start of its object. *)
LEMMA FieldBehind ==
  ASSUME HeapInv, NEW r \in Real, NEW f \in Classes[heap[r].class].fields,
         NEW p \in FieldWords(r, f)
  PROVE  p \in Int /\ heap[r].at <= p
<1>1. heap[r].class \in DOMAIN Classes /\ heap[r].at \in Nat
  BY RealFacts
<1>2. f.slot \in Nat /\ f.width \in {1, 2}
  BY <1>1, ClassesAssumption
<1>3. PICK i \in 1 .. f.width : p = heap[r].at + FieldOffset(f) + SlotSize * (i - 1)
  BY Zenon DEF FieldWords
<1>4. p = heap[r].at + (28 + f.slot * 4 * 4) + 4 * (i - 1)
  BY <1>3, Zenon DEF FieldOffset, DataOffset, SlotSize
<1>. QED  BY <1>1, <1>2, <1>4

LEMMA PutFieldKeeps ==
  ASSUME HeapInv, PutField
  PROVE  HeapInv'
<1>1. PICK r \in DOMAIN heap, own \in BOOLEAN :
        /\ heap[r].of /= "class"
        /\ \E f \in IF heap[r] = Null THEN UNION {Classes[c].fields : c \in DOMAIN Classes}
                     ELSE Classes[heap[r].class].fields : PUT_FIELD(r, f, own)
  BY Zenon DEF PutField
<1>2. PICK f \in IF heap[r] = Null THEN UNION {Classes[c].fields : c \in DOMAIN Classes}
                 ELSE Classes[heap[r].class].fields : PUT_FIELD(r, f, own)
  BY <1>1
<1>3. CASE Stop("thrown") \/ Stop("undefined")
  BY <1>3, Untouched DEF Stop
<1>4. CASE /\ heap[r] /= Null /\ StoreAll(r, FieldWords(r, f))
           /\ UNCHANGED <<pos, allocated, heap>>
  <2>1. r \in Real /\ f \in Classes[heap[r].class].fields
    BY <1>2, <1>4 DEF Real
  <2>2. \A p \in FieldWords(r, f) : \A k \in Hit(p) : r < k
    <3>1. \A p \in FieldWords(r, f) : p \in Int /\ heap[r].at <= p
      BY <2>1, FieldBehind, Zenon
    <3>. QED  BY <1>1, <2>1, <3>1, OnlyAhead, Zenon
  <2>3. damage' = damage \cup ({r} \X UNION {Hit(p) : p \in FieldWords(r, f)})
    BY <1>4, Zenon DEF StoreAll
  <2>4. EarlierClassesWhole'
    <3>1. \A d \in {r} \X UNION {Hit(p) : p \in FieldWords(r, f)} : d[1] < d[2]
      <4>. SUFFICES ASSUME NEW k \in UNION {Hit(p) : p \in FieldWords(r, f)} PROVE r < k
        OBVIOUS
      <4>. QED  BY <2>2, Zenon
    <3>2. \A d \in damage : d[1] < d[2]
      BY DEF HeapInv, EarlierClassesWhole
    <3>. QED  BY <2>3, <3>1, <3>2, Zenon DEF EarlierClassesWhole
  <2>. QED  BY <1>4, <2>4 DEF HeapInv, Real, EndOf
<1>. QED  BY <1>2, <1>3, <1>4, Zenon DEF PUT_FIELD

LEMMA HeapInvNext == HeapInv /\ [Next]_vars => HeapInv'
<1>. SUFFICES ASSUME HeapInv, [Next]_vars PROVE HeapInv'
  OBVIOUS
<1>1. CASE Load
  BY <1>1, LoadKeeps, Zenon DEF Load
<1>2. CASE New
  BY <1>2, NewKeeps, Zenon DEF New
<1>3. CASE NotInPlace
  BY <1>3, Untouched DEF NotInPlace, Realloced, Stop
<1>4. CASE PutField
  BY <1>4, PutFieldKeeps
<1>5. CASE PutStatic
  <2>1. PICK c, i, ws, own : PUT_STATIC(c, i, ws, own)
    BY <1>5, Zenon DEF PutStatic
  <2>2. UNCHANGED <<pos, allocated, heap, damage>>
    BY <2>1 DEF PUT_STATIC, Stop
  <2>. QED  BY <2>2, Untouched
<1>6. CASE UNCHANGED vars
  BY <1>6, Untouched DEF vars
<1>. QED  BY <1>1, <1>2, <1>3, <1>4, <1>5, <1>6 DEF Next

LEMMA HeapInvHolds == Spec => []HeapInv
BY HeapInvInit, HeapInvNext, PTL DEF Spec

(* What Heap::AllocObject gives out for classes and objects lies aligned,  *)
(* in order and apart in the fresh space, for every heap size, every set   *)
(* of classes and any number of allocations.                               *)
THEOREM FreshAccountedAlways == Spec => []FreshAccounted
<1>1. HeapInv => FreshAccounted
  BY Layout DEF HeapInv, FreshAccounted, EndOf
<1>. QED  BY <1>1, HeapInvHolds, PTL

(* No header and no field of an object, of any class, reaches a class      *)
(* object that was allocated before the object: SetClass, SetAge and the   *)
(* setters of DataObject store outside the object, but only behind its     *)
(* start.                                                                  *)
THEOREM EarlierClassesAlwaysWhole == Spec => []EarlierClassesWhole
<1>1. HeapInv => EarlierClassesWhole
  BY DEF HeapInv
<1>. QED  BY <1>1, HeapInvHolds, PTL

-----------------------------------------------------------------------------
(* Static variables *)

(* The slots of a static field end before those of the next ones begin. *)
LEMMA SlotsApart ==
  ASSUME NEW fs, NEW n \in Nat, \A j \in 1 .. n : fs[j].width \in {1, 2}
  PROVE  /\ \A i \in 1 .. n : StaticSlot(fs, i) \in Nat
         /\ \A i, k \in 1 .. n : i < k => StaticSlot(fs, i) + fs[i].width <= StaticSlot(fs, k)
<1>. DEFINE Wide(i) == {j \in 1 .. i - 1 : fs[j].width = 2}
<1>1. \A i \in 1 .. n : IsFiniteSet(Wide(i)) /\ Cardinality(Wide(i)) \in Nat
  <2>. SUFFICES ASSUME NEW i \in 1 .. n PROVE IsFiniteSet(Wide(i)) /\ Cardinality(Wide(i)) \in Nat
    OBVIOUS
  <2>1. IsFiniteSet(1 .. i - 1)
    BY FS_Interval
  <2>2. IsFiniteSet(Wide(i))
    BY <2>1, FS_Subset
  <2>. QED  BY <2>2, FS_CardinalityType
<1>2. ASSUME NEW i \in 1 .. n, NEW k \in 1 .. n, i < k
      PROVE  StaticSlot(fs, i) + fs[i].width <= StaticSlot(fs, k)
  <2>1. CASE fs[i].width = 1
    <3>1. Wide(i) \subseteq Wide(k)
      BY <1>2
    <3>2. Cardinality(Wide(i)) <= Cardinality(Wide(k))
      BY <1>1, <3>1, FS_Subset
    <3>. HIDE DEF Wide
    <3>3. i - 1 + Cardinality(Wide(i)) + 1 <= k - 1 + Cardinality(Wide(k))
      BY <1>1, <1>2, <3>2
    <3>. QED  BY <2>1, <3>3 DEF StaticSlot, Wide
  <2>2. CASE fs[i].width = 2
    <3>1. Wide(i) \cup {i} \subseteq Wide(k) /\ i \notin Wide(i)
      BY <1>2, <2>2
    <3>. HIDE DEF Wide
    <3>2. /\ IsFiniteSet(Wide(i) \cup {i})
          /\ Cardinality(Wide(i) \cup {i}) = Cardinality(Wide(i)) + 1
      BY <1>1, <3>1, FS_AddElement
    <3>3. Cardinality(Wide(i) \cup {i}) <= Cardinality(Wide(k))
      BY <1>1, <3>1, FS_Subset
    <3>4. i - 1 + Cardinality(Wide(i)) + 2 <= k - 1 + Cardinality(Wide(k))
      BY <1>1, <1>2, <3>2, <3>3
    <3>. QED  BY <2>2, <3>4 DEF StaticSlot, Wide
  <2>. QED  BY <2>1, <2>2
<1>3. \A i \in 1 .. n : StaticSlot(fs, i) \in Nat
  <2>. HIDE DEF Wide
  <2>1. \A i \in 1 .. n : i - 1 + Cardinality(Wide(i)) \in Nat
    BY <1>1
  <2>. QED  BY <2>1 DEF StaticSlot, Wide
<1>. QED  BY <1>2, <1>3

(* The slots of a class with what they begin with *)
FirstSlots(c) ==
  UNION {{<<StaticSlot(Classes[c].statics, i) + j, FirstValue(Classes[c].statics[i])[j]>> :
            j \in 1 .. Classes[c].statics[i].width} : i \in DOMAIN Classes[c].statics}

(* The words a static field can hold *)
Stored == Words \cup {Zero}

Statics(c) == 1 .. Len(Classes[c].statics)
Static(c, i) == Classes[c].statics[i]
SlotOf(c, i) == StaticSlot(Classes[c].statics, i)

LEMMA StaticsFacts ==
  ASSUME NEW c \in DOMAIN Classes
  PROVE  /\ DOMAIN Classes[c].statics = Statics(c)
         /\ \A i \in Statics(c) : /\ Static(c, i).width \in {1, 2} /\ SlotOf(c, i) \in Nat
                                  /\ FirstValue(Static(c, i)) \in [1 .. Static(c, i).width -> Stored]
         /\ \A i, k \in Statics(c) : i < k => SlotOf(c, i) + Static(c, i).width <= SlotOf(c, k)
<1>. DEFINE fs == Classes[c].statics
<1>1. Len(fs) \in Nat /\ DOMAIN fs = 1 .. Len(fs)
  BY StaticsAssumption
<1>2. \A i \in 1 .. Len(fs) : /\ fs[i].width \in {1, 2}
                              /\ fs[i].constant \in [1 .. fs[i].width -> Words] \cup {<< >>}
  BY <1>1, StaticsAssumption
<1>3. ASSUME NEW i \in 1 .. Len(fs)
      PROVE  FirstValue(fs[i]) \in [1 .. fs[i].width -> Stored]
  <2>1. ZeroWords(fs[i]) \in [1 .. fs[i].width -> Stored]
    BY DEF ZeroWords, Stored
  <2>2. fs[i].constant # << >> => fs[i].constant \in [1 .. fs[i].width -> Words]
    BY <1>2, Zenon
  <2>3. [1 .. fs[i].width -> Words] \subseteq [1 .. fs[i].width -> Stored]
    BY DEF Stored
  <2>. QED  BY <2>1, <2>2, <2>3, Zenon DEF FirstValue
<1>. HIDE DEF fs
<1>4. /\ \A i \in 1 .. Len(fs) : StaticSlot(fs, i) \in Nat
      /\ \A i, k \in 1 .. Len(fs) : i < k => StaticSlot(fs, i) + fs[i].width <= StaticSlot(fs, k)
  BY <1>1, <1>2, SlotsApart
<1>. QED  BY <1>1, <1>2, <1>3, <1>4 DEF fs, Statics, Static, SlotOf

(* A slot belongs to one field, as one of its words. *)
LEMMA SlotOnce ==
  ASSUME NEW c \in DOMAIN Classes, NEW i \in Statics(c), NEW k \in Statics(c),
         NEW j \in 1 .. Static(c, i).width, NEW l \in 1 .. Static(c, k).width,
         SlotOf(c, i) + j = SlotOf(c, k) + l
  PROVE  i = k /\ j = l
<1>1. i \in Int /\ k \in Int
  BY DEF Statics
<1>. DEFINE a == SlotOf(c, i)  b == SlotOf(c, k)  v == Static(c, i).width  w == Static(c, k).width
<1>2. a \in Nat /\ b \in Nat /\ v \in {1, 2} /\ w \in {1, 2}
  BY StaticsFacts
<1>3. (i < k => a + v <= b) /\ (k < i => b + w <= a)
  BY StaticsFacts
<1>4. a + j = b + l /\ j \in 1 .. v /\ l \in 1 .. w
  OBVIOUS
<1>5. i = k => a = b
  OBVIOUS
<1>. HIDE DEF a, b, v, w
<1>6. ~(i < k) /\ ~(k < i)
  BY <1>2, <1>3, <1>4
<1>. QED  BY <1>1, <1>2, <1>4, <1>5, <1>6

(* A class that was prepared has its constants, or zeros, in its slots. *)
LEMMA Prepared ==
  ASSUME NEW c \in DOMAIN Classes, NEW i \in Statics(c), NEW j \in 1 .. Static(c, i).width
  PROVE  /\ SlotOf(c, i) + j \in DOMAIN FirstStatics(c)
         /\ FirstStatics(c)[SlotOf(c, i) + j] = FirstValue(Static(c, i))[j]
<1>. DEFINE x == <<SlotOf(c, i) + j, FirstValue(Static(c, i))[j]>>
<1>1. FirstSlots(c) = UNION {{<<SlotOf(c, k) + l, FirstValue(Static(c, k))[l]>> :
                                l \in 1 .. Static(c, k).width} : k \in Statics(c)}
  BY StaticsFacts, Zenon DEF FirstSlots, SlotOf, Static
<1>2. x \in FirstSlots(c)
  BY <1>1
<1>3. ASSUME NEW y \in FirstSlots(c), y[1] = SlotOf(c, i) + j
      PROVE  y = x
  <2>0. PICK k \in Statics(c) : \E l \in 1 .. Static(c, k).width :
          y = <<SlotOf(c, k) + l, FirstValue(Static(c, k))[l]>>
    BY <1>1, Zenon
  <2>1. PICK l \in 1 .. Static(c, k).width :
          y = <<SlotOf(c, k) + l, FirstValue(Static(c, k))[l]>>
    BY <2>0
  <2>2. SlotOf(c, k) + l = SlotOf(c, i) + j
    BY <1>3, <2>1
  <2>3. k = i /\ l = j
    BY <2>2, SlotOnce
  <2>. QED  BY <2>1, <2>3, Zenon
<1>4. x[1] = SlotOf(c, i) + j /\ x[2] = FirstValue(Static(c, i))[j]
  OBVIOUS
<1>5. (CHOOSE y \in FirstSlots(c) : y[1] = SlotOf(c, i) + j) = x
  <2>. HIDE DEF x
  <2>. QED  BY <1>2, <1>3, <1>4, Zenon
<1>6. SlotOf(c, i) + j \in {y[1] : y \in FirstSlots(c)}
  <2>. HIDE DEF x
  <2>. QED  BY <1>2, <1>4, Zenon
<1>7. FirstStatics(c)[SlotOf(c, i) + j]
        = (CHOOSE y \in FirstSlots(c) : y[1] = SlotOf(c, i) + j)[2]
  BY <1>6, Zenon DEF FirstStatics, FirstSlots
<1>. QED
  <2>1. DOMAIN FirstStatics(c) = {y[1] : y \in FirstSlots(c)}
    BY Zenon DEF FirstStatics, FirstSlots
  <2>. HIDE DEF x
  <2>. QED  BY <1>4, <1>5, <1>6, <1>7, <2>1, Zenon

(* What field i of class c has been given: what was last put into it, or   *)
(* what it begins with                                                     *)
Given(w, c, i) ==
  IF <<c, i>> \in DOMAIN w THEN w[<<c, i>>] ELSE FirstValue(Static(c, i))

(* The invariant about static variables: the slots of each field hold what *)
(* it was given.                                                           *)
HoldsStatic(st, w, c, i) ==
  /\ Given(w, c, i) \in [1 .. Static(c, i).width -> Stored]
  /\ \A j \in 1 .. Static(c, i).width :
       SlotOf(c, i) + j \in DOMAIN st[c] /\ st[c][SlotOf(c, i) + j] = Given(w, c, i)[j]

StaticsInv ==
  /\ DOMAIN statics \subseteq DOMAIN Classes
  /\ \A c \in DOMAIN statics : \A i \in Statics(c) : HoldsStatic(statics, wrote, c, i)
  /\ \A c, i : <<c, i>> \in DOMAIN wrote => c \in DOMAIN statics

LEMMA StaticsInvInit == Init => StaticsInv
BY DEF Init, StaticsInv

(* A step that writes no static variable *)
LEMMA StaticsUntouched ==
  ASSUME StaticsInv, UNCHANGED <<statics, wrote>>
  PROVE  StaticsInv'
<1>1. \A c, i : Given(wrote', c, i) = Given(wrote, c, i)
  BY Zenon DEF Given
<1>2. \A c, i : HoldsStatic(statics, wrote, c, i) => HoldsStatic(statics', wrote', c, i)
  BY <1>1, Zenon DEF HoldsStatic
<1>3. statics' = statics /\ wrote' = wrote
  OBVIOUS
<1>. QED  BY <1>2, <1>3, Zenon DEF StaticsInv

LEMMA PrepareStatics ==
  ASSUME StaticsInv, NEW c \in DOMAIN Classes, c \notin DOMAIN statics,
         statics' = Put(statics, c, FirstStatics(c)), UNCHANGED wrote
  PROVE  StaticsInv'
<1>1. /\ c \notin DOMAIN statics /\ wrote' = wrote
      /\ statics' = Put(statics, c, FirstStatics(c))
  OBVIOUS
<1>2. DOMAIN statics' = DOMAIN statics \cup {c} /\ statics'[c] = FirstStatics(c)
  BY <1>1 DEF Put
<1>3. \A d \in DOMAIN statics : statics'[d] = statics[d]
  BY <1>1 DEF Put
<1>4. ASSUME NEW d \in DOMAIN statics, NEW i \in Statics(d)
      PROVE  HoldsStatic(statics', wrote', d, i)
  <2>1. HoldsStatic(statics, wrote, d, i)
    BY Zenon DEF StaticsInv
  <2>2. wrote' = wrote /\ statics'[d] = statics[d]
    BY <1>1, <1>3
  <2>. QED  BY <2>1, <2>2, Zenon DEF HoldsStatic
<1>5. ASSUME NEW i \in Statics(c)
      PROVE  HoldsStatic(statics', wrote', c, i)
  <2>1. <<c, i>> \notin DOMAIN wrote'
    BY <1>1, Zenon DEF StaticsInv
  <2>2. Given(wrote', c, i) = FirstValue(Static(c, i))
    BY <2>1, Zenon DEF Given
  <2>3. FirstValue(Static(c, i)) \in [1 .. Static(c, i).width -> Stored]
    BY StaticsFacts, Zenon
  <2>4. \A j \in 1 .. Static(c, i).width :
          /\ SlotOf(c, i) + j \in DOMAIN FirstStatics(c)
          /\ FirstStatics(c)[SlotOf(c, i) + j] = FirstValue(Static(c, i))[j]
    BY Prepared, Zenon
  <2>. QED  BY <1>2, <2>2, <2>3, <2>4, Zenon DEF HoldsStatic
<1>. QED  BY <1>1, <1>2, <1>4, <1>5, Zenon DEF StaticsInv

(* The keys of two fields differ. *)
LEMMA KeysDiffer == \A c, d, i, k : <<c, i>> = <<d, k>> => c = d /\ i = k
OBVIOUS

LEMMA PutStaticStatics ==
  ASSUME StaticsInv, NEW c \in DOMAIN statics, NEW i \in Statics(c), NEW own,
         NEW ws \in [1 .. Static(c, i).width -> Words], PUT_STATIC(c, i, ws, own)
  PROVE  StaticsInv'
<1>1. c \in DOMAIN Classes
  BY DEF StaticsInv
<1>2. CASE Stop("thrown")
  BY <1>2, StaticsUntouched DEF Stop
<1>3. CASE /\ statics' = [statics EXCEPT ![c] = [s \in DOMAIN @ |->
                            IF s - SlotOf(c, i) \in DOMAIN ws THEN ws[s - SlotOf(c, i)] ELSE @[s]]]
           /\ wrote' = Put(wrote, <<c, i>>, ws)
  <2>1. /\ DOMAIN statics' = DOMAIN statics
        /\ \A d \in DOMAIN statics : d # c => statics'[d] = statics[d]
    BY <1>3
  <2>2. /\ DOMAIN statics'[c] = DOMAIN statics[c]
        /\ \A s \in DOMAIN statics[c] :
             statics'[c][s] = IF s - SlotOf(c, i) \in DOMAIN ws THEN ws[s - SlotOf(c, i)]
                              ELSE statics[c][s]
    BY <1>3
  <2>3. /\ DOMAIN wrote' = DOMAIN wrote \cup {<<c, i>>}
        /\ wrote'[<<c, i>>] = ws
        /\ \A x \in DOMAIN wrote : x # <<c, i>> => wrote'[x] = wrote[x]
    BY <1>3 DEF Put
  <2>4. ASSUME NEW d \in DOMAIN statics, NEW k \in Statics(d), d # c \/ k # i
        PROVE  Given(wrote', d, k) = Given(wrote, d, k)
    <3>1. <<d, k>> # <<c, i>>
      BY <2>4, KeysDiffer, Zenon
    <3>. QED  BY <2>3, <3>1, Zenon DEF Given
  <2>5. Given(wrote', c, i) = ws
    BY <2>3, Zenon DEF Given
  <2>6. ASSUME NEW d \in DOMAIN statics, NEW k \in Statics(d), d # c
        PROVE  HoldsStatic(statics', wrote', d, k)
    BY <2>1, <2>4, <2>6, Zenon DEF HoldsStatic, StaticsInv
  <2>7. HoldsStatic(statics', wrote', c, i)
    <3>1. ws \in [1 .. Static(c, i).width -> Stored] /\ DOMAIN ws = 1 .. Static(c, i).width
      BY DEF Stored
    <3>2. ASSUME NEW j \in 1 .. Static(c, i).width
          PROVE  /\ SlotOf(c, i) + j \in DOMAIN statics'[c]
                 /\ statics'[c][SlotOf(c, i) + j] = ws[j]
      <4>1. SlotOf(c, i) + j \in DOMAIN statics'[c]
        BY <2>2, Zenon DEF StaticsInv, HoldsStatic
      <4>2. SlotOf(c, i) \in Nat
        BY <1>1, StaticsFacts
      <4>3. (SlotOf(c, i) + j) - SlotOf(c, i) = j
        BY <4>2
      <4>. QED  BY <2>2, <3>1, <4>1, <4>3, Zenon
    <3>. QED  BY <2>5, <3>1, <3>2, Zenon DEF HoldsStatic
  <2>8. ASSUME NEW k \in Statics(c), k # i
        PROVE  HoldsStatic(statics', wrote', c, k)
    <3>1. ASSUME NEW j \in 1 .. Static(c, k).width
          PROVE  /\ SlotOf(c, k) + j \in DOMAIN statics'[c]
                 /\ statics'[c][SlotOf(c, k) + j] = statics[c][SlotOf(c, k) + j]
      <4>1. SlotOf(c, k) + j \in DOMAIN statics[c]
        BY Zenon DEF StaticsInv, HoldsStatic
      <4>2. ASSUME (SlotOf(c, k) + j) - SlotOf(c, i) \in DOMAIN ws PROVE FALSE
        <5>. DEFINE l == (SlotOf(c, k) + j) - SlotOf(c, i)
        <5>1. SlotOf(c, i) \in Nat /\ SlotOf(c, k) \in Nat
          BY <1>1, StaticsFacts
        <5>2. SlotOf(c, k) + j = SlotOf(c, i) + l
          BY <5>1
        <5>3. l \in 1 .. Static(c, i).width
          BY <4>2
        <5>. HIDE DEF l
        <5>. QED  BY <1>1, <2>8, <5>2, <5>3, SlotOnce, Zenon
      <4>. QED  BY <2>2, <4>1, <4>2, Zenon
    <3>2. Given(wrote', c, k) = Given(wrote, c, k)
      BY <2>4, <2>8
    <3>. QED  BY <3>1, <3>2, Zenon DEF HoldsStatic, StaticsInv
  <2>9. \A d, k : <<d, k>> \in DOMAIN wrote' => d \in DOMAIN statics'
    <3>. SUFFICES ASSUME NEW d, NEW k, <<d, k>> \in DOMAIN wrote' PROVE d \in DOMAIN statics'
      OBVIOUS
    <3>1. CASE <<d, k>> \in DOMAIN wrote
      BY <2>1, <3>1, Zenon DEF StaticsInv
    <3>2. CASE <<d, k>> = <<c, i>>
      BY <2>1, <3>2, KeysDiffer, Zenon
    <3>. QED  BY <2>3, <3>1, <3>2, Zenon
  <2>10. \A d \in DOMAIN statics' : \A k \in Statics(d) : HoldsStatic(statics', wrote', d, k)
    BY <2>1, <2>6, <2>7, <2>8, Zenon
  <2>. QED  BY <2>1, <2>9, <2>10, Zenon DEF StaticsInv
<1>. QED  BY <1>2, <1>3 DEF PUT_STATIC, SlotOf

LEMMA StaticsInvNext ==
  ASSUME StaticsInv, [Next]_vars
  PROVE  StaticsInv'
<1>1. CASE Load
  <2>1. PICK c \in DOMAIN Classes : LoadClass(c)
    BY <1>1, Zenon DEF Load
  <2>2. CASE Stop("dead")
    BY <2>2, StaticsUntouched DEF Stop
  <2>3. CASE statics' = Put(statics, c, FirstStatics(c)) /\ UNCHANGED wrote
    <3>1. c \notin DOMAIN statics
      BY <2>1, Zenon DEF LoadClass
    <3>. QED  BY <2>3, <3>1, PrepareStatics, Zenon
  <2>. QED  BY <2>1, <2>2, <2>3, Zenon DEF LoadClass
<1>2. CASE New
  <2>1. UNCHANGED <<statics, wrote>>
    BY <1>2, Zenon DEF New, NEW_OBJECT
  <2>. QED  BY <2>1, StaticsUntouched, Zenon
<1>3. CASE NotInPlace
  BY <1>3, StaticsUntouched DEF NotInPlace, Realloced, Stop
<1>4. CASE PutField
  <2>1. PICK r, f, own : PUT_FIELD(r, f, own)
    BY <1>4, Zenon DEF PutField
  <2>2. UNCHANGED <<statics, wrote>>
    BY <2>1 DEF PUT_FIELD, Stop
  <2>. QED  BY <2>2, StaticsUntouched, Zenon
<1>5. CASE PutStatic
  <2>1. PICK c \in DOMAIN statics, own \in BOOLEAN :
          \E i \in DOMAIN Classes[c].statics :
            \E ws \in [1 .. Classes[c].statics[i].width -> Words] : PUT_STATIC(c, i, ws, own)
    BY <1>5, Zenon DEF PutStatic
  <2>2. PICK i \in DOMAIN Classes[c].statics :
          \E ws \in [1 .. Classes[c].statics[i].width -> Words] : PUT_STATIC(c, i, ws, own)
    BY <2>1
  <2>3. i \in Statics(c)
    BY StaticsFacts, Zenon DEF StaticsInv
  <2>. QED  BY <2>2, <2>3, PutStaticStatics, Zenon DEF Static
<1>6. CASE UNCHANGED vars
  BY <1>6, StaticsUntouched, Zenon DEF vars
<1>. QED  BY <1>1, <1>2, <1>3, <1>4, <1>5, <1>6 DEF Next

(* GET_STATIC reads what the slots hold. *)
LEMMA StaticRead ==
  ASSUME StaticsInv, NEW c \in DOMAIN statics, NEW i \in Statics(c)
  PROVE  StaticValue(c, i) = Given(wrote, c, i)
<1>1. HoldsStatic(statics, wrote, c, i)
  BY Zenon DEF StaticsInv
<1>. DEFINE w == Static(c, i).width  given == Given(wrote, c, i)
<1>2. StaticValue(c, i) = [j \in 1 .. w |-> statics[c][SlotOf(c, i) + j]]
  BY Zenon DEF StaticValue, SlotOf, Static
<1>3. given \in [1 .. w -> Stored] /\ \A j \in 1 .. w : statics[c][SlotOf(c, i) + j] = given[j]
  BY <1>1, Zenon DEF HoldsStatic
<1>. HIDE DEF w, given
<1>4. StaticValue(c, i) = [j \in 1 .. w |-> given[j]]
  BY <1>2, <1>3, Zenon
<1>5. StaticValue(c, i) = given
  BY <1>3, <1>4
<1>. QED  BY <1>5 DEF given
(* Static fields hold what was last put into them, and their constants     *)
(* before, for all classes: CalcStaticFieldSlotIds keeps the slots of      *)
(* longs apart.                                                            *)
THEOREM StaticsReadBackAlways == Spec => []StaticsReadBack
<1>1. StaticsInv => StaticsReadBack
  <2>. SUFFICES ASSUME StaticsInv, NEW c \in DOMAIN statics, NEW i \in DOMAIN Classes[c].statics
                PROVE  LET f == Classes[c].statics[i]  k == <<c, i>> IN
                       IF k \in DOMAIN wrote THEN StaticValue(c, i) = wrote[k]
                       ELSE f.final /\ f.kind = "number" /\ f.constant /= << >>
                              => StaticValue(c, i) = f.constant
    BY Zenon DEF StaticsReadBack
  <2>1. i \in Statics(c)
    BY StaticsFacts, Zenon DEF StaticsInv
  <2>2. StaticValue(c, i) = Given(wrote, c, i)
    BY <2>1, StaticRead, Zenon
  <2>. QED  BY <2>2, Zenon DEF Given, FirstValue, Static
<1>2. Spec => []StaticsInv
  BY StaticsInvInit, StaticsInvNext, PTL DEF Spec
<1>. QED  BY <1>1, <1>2, PTL
=============================================================================
