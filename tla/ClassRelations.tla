--------------------------- MODULE ClassRelations ---------------------------
(***************************************************************************)
(* The questions runtime::Class answers about a hierarchy of loaded        *)
(* classes (class.cpp): subclass, superclass, interface and assignment     *)
(* tests and the lookup of members.                                        *)
(*                                                                         *)
(* The state is the hierarchy.  It grows by Define, one class at a time:   *)
(* ClassLoader resolves the superclass and the interfaces of a class       *)
(* before it registers the class, so both are defined already.  Classes    *)
(* are numbered in the order of definition; 0 is java.lang.Object.         *)
(* instanceof, checkcast, the invoke instructions and handler selection    *)
(* ask their questions in states of this module.                           *)
(***************************************************************************)
EXTENDS Integers, Sequences, FiniteSets, SequencesExt

CONSTANTS
  MaxClasses,   \* bound on the number of classes
  MaxInterfaces, \* bound on the direct interfaces of a class
  MaxDims,      \* bound on array dimensions
  Cloneables    \* the classes java.lang.Cloneable and java.io.Serializable

ASSUME BoundAssumption ==
  /\ MaxClasses \in Nat \ {0} /\ MaxInterfaces \in Nat /\ MaxDims \in Nat
  /\ IsFiniteSet(Cloneables) /\ Cloneables = 1 .. Cardinality(Cloneables)

None == -1

VARIABLES
  super,       \* super[k] = super_class_, None for Object
  interfaces,  \* interfaces[k] = interfaces_, in order
  isInterface, \* the classes with ACC_INTERFACE
  declares     \* the classes that declare the member looked up

hierarchy == <<super, interfaces, isInterface, declares>>

Object == 0
Defined == DOMAIN super

(* LoadBasicClass has loaded Object and what depends on it *)
HierarchyInit ==
  /\ super = [k \in {Object} \cup Cloneables |-> IF k = Object THEN None ELSE Object]
  /\ interfaces = [k \in {Object} \cup Cloneables |-> << >>]
  /\ isInterface = Cloneables
  /\ declares \in SUBSET {Object}

(* Mutant: the interfaces also stored into the superclass. *)
DefineIntoSuper(sup, ifs, iface, decl) ==
  LET k == Cardinality(Defined) IN
  /\ k < MaxClasses
  /\ IF iface THEN sup = Object ELSE sup \notin isInterface
  /\ super' = [c \in Defined \cup {k} |-> IF c = k THEN sup ELSE super[c]]
  /\ interfaces' = [c \in Defined \cup {k} |-> IF c \in {k, sup} THEN ifs ELSE interfaces[c]]
  /\ isInterface' = isInterface \cup (IF iface THEN {k} ELSE {})
  /\ declares' = declares \cup (IF decl THEN {k} ELSE {})

(* ClassLoader::DefineClass with Class::StartLoad, ResolveSuperClass and   *)
(* ResolveInterfaces: the next class, its superclass, its interfaces.      *)
Define(sup, ifs, iface, decl) ==
  LET k == Cardinality(Defined) IN
  /\ k < MaxClasses
  /\ IF iface THEN sup = Object ELSE sup \notin isInterface
  /\ super' = [c \in Defined \cup {k} |-> IF c = k THEN sup ELSE super[c]]
  /\ interfaces' = [c \in Defined \cup {k} |-> IF c = k THEN ifs ELSE interfaces[c]]
  /\ isInterface' = isInterface \cup (IF iface THEN {k} ELSE {})
  /\ declares' = declares \cup (IF decl THEN {k} ELSE {})

InterfaceLists == UNION {[1 .. n -> isInterface] : n \in 0 .. MaxInterfaces}

HierarchyNext ==
  \E sup \in Defined, ifs \in InterfaceLists, iface \in BOOLEAN, decl \in BOOLEAN :
    IsInjective(ifs) /\ Define(sup, ifs, iface, decl)

HierarchySpec == HierarchyInit /\ [][HierarchyNext]_hierarchy

-----------------------------------------------------------------------------
(* The tests, as the code computes them.  IsSubClassOf and IsSuperClassOf  *)
(* walk super_class_ from the first, or the second, class: do they meet    *)
(* goal from c on?                                                         *)
Walk(goal) ==
  LET meets[c \in Defined] == c = goal \/ (super[c] /= None /\ meets[super[c]]) IN meets

(* Mutant: the walk starts at the class itself. *)
IsSubClassOfReflexive(s, t) == Walk(t)[s]

IsSubClassOf(s, t) == super[s] /= None /\ Walk(t)[super[s]]
IsSuperClassOf(s, t) == super[t] /= None /\ Walk(s)[super[t]]

IsSubInterfaceOf(s, t) ==
  LET sub[c \in Defined] ==
        \E n \in DOMAIN interfaces[c] : interfaces[c][n] = t \/ sub[interfaces[c][n]]
  IN sub[s]

IsImplements(s, t) ==
  \E n \in DOMAIN interfaces[s] :
    interfaces[s][n] = t \/ IsSubInterfaceOf(interfaces[s][n], t)

(* Mutant: the arguments not exchanged. *)
IsSuperInterfaceOfSame(s, t) == IsSubInterfaceOf(s, t)

IsSuperInterfaceOf(s, t) == IsSubInterfaceOf(t, s)

(* A type: a class or an array of dims dimensions of it.  An array class   *)
(* has Object as superclass, the Cloneables as interfaces, and no flags.   *)
Types == [class : Defined, dims : 0 .. MaxDims]
IsArray(s) == s.dims > 0
IsPlainInterface(s) == s.dims = 0 /\ s.class \in isInterface
Component(s, n) == [s EXCEPT !.dims = @ - n]

(* IsSubClassOf(s, t) where s may be an array class and t is not one *)
TypeIsSubClassOf(s, t) == IF IsArray(s) THEN t.class = Object ELSE IsSubClassOf(s.class, t.class)

(* IsAssignableFrom takes the component classes of both as long as both    *)
(* are arrays, which does not change whether they are the same.            *)
IsAssignableFrom(type1, type2) ==
  LET n == IF type1.dims < type2.dims THEN type1.dims ELSE type2.dims
      s == Component(type1, n)
      t == Component(type2, n)
  IN \/ s = t
     \/ IF IsArray(t) THEN s.class \in {Object} \cup Cloneables
        ELSE IF IsPlainInterface(t) THEN
          IF IsPlainInterface(s) THEN IsSuperInterfaceOf(s.class, t.class)
                                 ELSE s.dims = 0 /\ s.class = Object
        ELSE
          IF IsPlainInterface(s) THEN IsImplements(s.class, t.class)
                                 ELSE TypeIsSubClassOf(s, t)

(* Mutant: the superclass asked first. *)
LookupMethodSuperFirst(k) ==
  IF super[k] \in declares THEN super[k] ELSE IF k \in declares THEN k ELSE None

(* LookupMethodInClass: the class that declares the method found, or None *)
LookupMethodInClass(k) ==
  LET method[c \in Defined] ==
        IF c \in declares THEN c ELSE IF super[c] = None THEN None ELSE method[super[c]]
  IN method[k]

(* LookupMethodInInterfaces keeps the answer of the last direct interface *)
LookupMethodInInterfaces(k) ==
  IF interfaces[k] = << >> THEN None ELSE LookupMethodInClass(Last(interfaces[k]))

LookupMethod(k) ==
  IF LookupMethodInClass(k) /= None THEN LookupMethodInClass(k) ELSE LookupMethodInInterfaces(k)

(* Mutant: the interfaces left out. *)
LookupFieldNoInterfaces(k) == LookupMethodInClass(k)

(* LookupField: the class itself, its interfaces in order, its superclass *)
LookupField(k) ==
  LET field[c \in Defined] ==
        LET ifs == interfaces[c]
            found == {n \in DOMAIN ifs : field[ifs[n]] /= None}
        IN IF c \in declares THEN c
           ELSE IF found /= {} THEN field[ifs[CHOOSE n \in found : \A m \in found : n <= m]]
           ELSE IF super[c] /= None THEN field[super[c]]
           ELSE None
  IN field[k]

-----------------------------------------------------------------------------
(* Resolution: from is the class whose constant pool is used, access that  *)
(* of the member found.  No line sets package_name_.                       *)
Accesses == {"public", "protected", "package", "private"}
PackageName(k) == ""

(* Mutant: the package is not asked for. *)
MemberIsAccessibleToNoPackage(decl, from, access) ==
  \/ access = "public"
  \/ access = "protected" /\ IsSubClassOf(decl, from)
  \/ access = "private" /\ decl = from

(* ClassMember::IsAccessibleTo: is the class that declares a superclass of *)
(* from?, it means to ask, and whether the packages are the same.          *)
MemberIsAccessibleTo(decl, from, access) ==
  \/ access = "public"
  \/ access = "protected" /\ (IsSubClassOf(decl, from) \/ PackageName(decl) = PackageName(decl))
  \/ access = "package" /\ PackageName(decl) = PackageName(decl)
  \/ access = "private" /\ decl = from

(* ResolveClass of class k, which is public or not *)
ClassIsAccessibleTo(k, from, public) == public \/ PackageName(k) = PackageName(from)

Resolved(k, decl, from, access, public) ==
  IF ~ClassIsAccessibleTo(k, from, public) THEN "IllegalAccessError"
  ELSE IF decl = None THEN "NoSuchMemberError"
  ELSE IF ~MemberIsAccessibleTo(decl, from, access) THEN "IllegalAccessError"
  ELSE "resolved"

ResolveField(k, from, access, public) == Resolved(k, LookupField(k), from, access, public)

(* ResolveMethod and ResolveInterfaceMethod, by what the constant says *)
ResolveMethod(k, from, access, public, asInterface) ==
  IF ClassIsAccessibleTo(k, from, public) /\ asInterface /= (k \in isInterface)
  THEN "IncompatibleClassChangeError"
  ELSE Resolved(k, LookupMethod(k), from, access, public)

-----------------------------------------------------------------------------
(* Reference definitions *)

Edge(s, t) == super[s] = t
ImplEdge(s, t) == t \in Range(interfaces[s])

(* Pairs <<s, t>> with t in every set that holds the R-successors of s and *)
(* with a class its own R-successors: t can be reached from s.             *)
Reach(R(_, _)) ==
  {p \in Defined \X Defined :
     \A S \in SUBSET Defined :
       (\A c \in Defined : R(p[1], c) => c \in S) /\ (\A b \in S, c \in Defined : R(b, c) => c \in S)
         => p[2] \in S}

AnyEdge(s, t) == Edge(s, t) \/ ImplEdge(s, t)

(* t may stand where s is expected: the subtyping of Java reference types *)
Subtype(reach, t, s) ==
  /\ t.dims >= s.dims
  /\ LET d == t.dims - s.dims IN
     \/ s.class = t.class /\ d = 0
     \/ s.class = Object
     \/ d > 0 /\ s.class \in Cloneables
     \/ d = 0 /\ <<t.class, s.class>> \in reach

(* class.h: "s is a subclass of t" is reachability over super_class_, and  *)
(* the superclass test, which walks from the other class, is its converse. *)
SubclassIsReachability ==
  LET reach == Reach(Edge) IN
  \A s, t \in Defined : /\ IsSubClassOf(s, t) <=> <<s, t>> \in reach
                        /\ IsSuperClassOf(t, s) <=> <<s, t>> \in reach

(* The assignment test (instanceof, checkcast) agrees with Java's          *)
(* subtyping for a value of more dimensions than the target, for a value   *)
(* whose elements, or which itself, are of an interface type, and for one  *)
(* of fewer dimensions whose elements are no Objects.  That leaves out     *)
(* class elements in equal dimensions, String[] to Object[] as well as     *)
(* String to Object, where IsSubClassOf is asked the wrong way round (see  *)
(* CanAssign), and an Object as value for an array.                        *)
AssignableByShape ==
  LET reach == Reach(AnyEdge) IN
  \A s, t \in Types :
    t.dims > s.dims \/ t.class \in isInterface \/ (t.dims < s.dims /\ t.class /= Object)
      => (IsAssignableFrom(s, t) <=> Subtype(reach, t, s))

(* Virtual dispatch picks the most derived declaration: the method found   *)
(* for a class is its own or an inherited one that no class in between     *)
(* overrides, and nothing is found only when no superclass declares it.    *)
OverrideWins ==
  LET reach == Reach(Edge)
      up(k) == {c \in Defined : c = k \/ <<k, c>> \in reach}
  IN \A k \in Defined : LET m == LookupMethodInClass(k) IN
       IF m = None THEN up(k) \cap declares = {}
       ELSE /\ m \in up(k) \cap declares
            /\ \A c \in up(k) \cap declares : c = m \/ <<m, c>> \in reach

(* Field resolution finds a field exactly when some class reachable over   *)
(* superclasses and interfaces declares it, and returns such a class.      *)
FieldFoundIffReachable ==
  LET reach == Reach(AnyEdge)
      around(k) == {c \in declares : c = k \/ <<k, c>> \in reach}
  IN \A k \in Defined :
       IF around(k) = {} THEN LookupField(k) = None ELSE LookupField(k) \in around(k)

(* The declarations Java's lookup of a member from class k can come to: of *)
(* a field its own, or else one that a superclass or an interface of any   *)
(* of them declares; of a method the most derived one in k and its         *)
(* superclasses.                                                           *)
MeantFields(all, k) ==
  IF k \in declares THEN {k} ELSE {c \in declares : <<k, c>> \in all}
MeantMethods(up, k) ==
  LET chain == {c \in declares : c = k \/ <<k, c>> \in up}
  IN {m \in chain : \A c \in chain : c = m \/ <<m, c>> \in up}

(* Java allows the use from class from, in the same package or not *)
Legal(up, decl, from, access, same) ==
  \/ access = "public" \/ decl = from
  \/ access \in {"protected", "package"} /\ same
  \/ access = "protected" /\ <<from, decl>> \in up

(* Resolution refuses no use that Java allows of a field, or of a method   *)
(* that the class named or a superclass of it declares, whatever the       *)
(* packages are: of a public one, of a private one in its class, of one in *)
(* the same package and of an inherited protected one.  A private member   *)
(* of another class, or one that no class around has, is never used        *)
(* (constant_pool.cpp).  Nothing is claimed of a method that only          *)
(* interfaces of a class declare, which the lookup may miss.               *)
LegalUseResolves ==
  LET up == Reach(Edge)
      all == Reach(AnyEdge)
  IN \A k \in Defined :
       LET around == {c \in declares : c = k \/ <<k, c>> \in all}
           right(meant, answer, from, access, same) ==
             /\ meant /= {} /\ (\A d \in meant : Legal(up, d, from, access, same))
                  => answer = "resolved"
             /\ (\A d \in around : access = "private" /\ d /= from) => answer /= "resolved"
           fields == MeantFields(all, k)
           methods == MeantMethods(up, k)
       IN \A from \in Defined, access \in Accesses, same, public \in BOOLEAN :
            public \/ k = from \/ same =>
              /\ right(fields, ResolveField(k, from, access, public), from, access, same)
              /\ right(methods, ResolveMethod(k, from, access, public, k \in isInterface),
                       from, access, same)

(* Loading more classes changes no earlier answer, so the methods, fields  *)
(* and classes that constant-pool entries cache on first use stay right.   *)
AnswersStay ==
  [][\A k \in Defined :
       /\ LookupMethod(k)' = LookupMethod(k)
       /\ LookupField(k)' = LookupField(k)
       /\ \A c \in Defined : /\ IsSubClassOf(k, c)' <=> IsSubClassOf(k, c)
                             /\ IsImplements(k, c)' <=> IsImplements(k, c)]_hierarchy

(* class.h:188: "Check whether s can assign from t, s = t", and class.cpp   *)
(* line 218 for s an interface and t a class: "t implements s".  For every *)
(* two classes or interfaces that is when t is a subtype of s.             *)
CanAssign ==
  LET reach == Reach(AnyEdge) IN
  \A s, t \in {type \in Types : ~IsArray(type)} :
    IsAssignableFrom(s, t) <=> Subtype(reach, t, s)
=============================================================================
