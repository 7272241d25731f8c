---------------------------- MODULE ClassFormat ----------------------------
(***************************************************************************)
(* Class files as a compiler writes them: a run of big-endian fields, each *)
(* at its byte offset.  This is the input of classfile/, not code of this  *)
(* repository; ClassFile models the code that reads it.                    *)
(*                                                                         *)
(* A constant has a kind, the text of a Utf8, the bits of a number (bit 0  *)
(* the lowest) and refs, the numbers of the constants it names.  An        *)
(* attribute has a name, n entries (or raw bytes), and, for Code, handlers *)
(* and nested attributes.                                                  *)
(***************************************************************************)
EXTENDS Integers, Sequences, SequencesExt

Wide == {"Long", "Double"}
Numbers == {"Integer", "Float"} \cup Wide
MemberRefs == {"FieldRef", "MethodRef", "InterfaceMethodRef"}
Named == {"Class", "String"}
Kinds == {"Utf8", "NameAndType", "MethodHandle", "MethodType", "InvokeDynamic",
          "Dynamic", "Module", "Package"}
           \cup Numbers \cup MemberRefs \cup Named

(* The constant-pool numbers of the constants in cs, and the count after   *)
(* the last: a long or double takes two numbers.                           *)
Number(cs) ==
  [i \in 1 .. Len(cs) + 1 |-> i + Cardinality({j \in 1 .. i - 1 : cs[j].kind \in Wide})]

(* The constant with number k *)
Numbered(cs, k) == LET at == Number(cs) IN cs[CHOOSE i \in DOMAIN cs : at[i] = k]

-----------------------------------------------------------------------------
Field(width, value) == [width |-> width, value |-> value]
U1(value) == <<Field(1, value)>>
U2(value) == <<Field(2, value)>>
U4(value) == <<Field(4, value)>>
Raw(n) == IF n = 0 THEN << >> ELSE <<Field(n, 0)>>
Repeat(n, s) == [i \in 1 .. n * Len(s) |-> s[((i - 1) % Len(s)) + 1]]
Widths(fields) == [i \in DOMAIN fields |-> fields[i].width]

(* Where fields of these widths begin when the first begins at p, and the  *)
(* end of the last: as many bytes on as the fields before have.            *)
BytesBefore(widths, i) == UNION {{j} \X (1 .. widths[j]) : j \in 1 .. i - 1}
Starts(p, widths) ==
  [i \in 1 .. Len(widths) + 1 |-> p + Cardinality(BytesBefore(widths, i))]
End(p, widths) == Last(Starts(p, widths))

TextSize == 3     \* the bytes of any text that is not empty

WrittenConstant(c) ==
  U1(c.kind) \o
  CASE c.kind = "Utf8" /\ c.text = "" -> U2(0)
    [] c.kind = "Utf8" /\ c.text /= "" -> U2(TextSize) \o <<Field(TextSize, c.text)>>
    [] c.kind \in {"Integer", "Float"} -> U4(c.bits)
    [] c.kind \in Wide -> <<Field(8, c.bits)>>
    [] c.kind = "MethodHandle" -> U1(0) \o U2(c.refs[1])
    [] OTHER -> [i \in DOMAIN c.refs |-> Field(2, c.refs[i])]

(* Attributes without attributes of their own.  The name the parser spells *)
(* wrongly, DepreCated, is taken to be used, if at all, for what it means  *)
(* by it, an attribute without contents.                                   *)
WrittenBody(a) ==
  CASE a.name \in {"ConstantValue", "SourceFile"} -> U2(0)
    [] a.name \in {"Synthetic", "Deprecated", "DepreCated"} -> << >>
    [] a.name = "Exceptions" -> U2(a.n) \o Repeat(a.n, U2(0))
    [] a.name = "LineNumberTable" -> U2(a.n) \o Repeat(a.n, U2(0) \o U2(0))
    [] a.name = "LocalVariableTable" -> U2(a.n) \o Repeat(a.n, Repeat(5, U2(0)))
    [] OTHER -> Raw(a.n)

NameNumber(cs, name) ==
  Number(cs)[CHOOSE i \in DOMAIN cs : cs[i].kind = "Utf8" /\ cs[i].text = name]

Attribute(cs, a, body) == U2(NameNumber(cs, a.name)) \o U4(End(0, Widths(body))) \o body

WrittenCode(cs, a) ==
  U2(0) \o U2(0) \o U4(a.n) \o Raw(a.n)
    \o U2(a.handlers) \o Repeat(a.handlers, Repeat(4, U2(0)))
    \o U2(Len(a.nested))
    \o FlattenSeq([i \in DOMAIN a.nested |->
                     Attribute(cs, a.nested[i], WrittenBody(a.nested[i]))])

WrittenAttributes(cs, as) ==
  U2(Len(as)) \o FlattenSeq([i \in DOMAIN as |->
     Attribute(cs, as[i], IF as[i].name = "Code" THEN WrittenCode(cs, as[i])
                          ELSE WrittenBody(as[i]))])

WrittenMembers(cs, ms) ==
  U2(Len(ms)) \o FlattenSeq([i \in DOMAIN ms |->
     U2(0) \o U2(0) \o U2(0) \o WrittenAttributes(cs, ms[i])])

WrittenFields(f) ==
  LET cs == f.constants IN
  U4(f.magic) \o U2(f.minor) \o U2(f.major)
    \o U2(Number(cs)[Len(cs) + 1]) \o FlattenSeq([i \in DOMAIN cs |-> WrittenConstant(cs[i])])
    \o U2(0) \o U2(0) \o U2(0)
    \o U2(f.interfaces) \o Repeat(f.interfaces, U2(0))
    \o WrittenMembers(cs, f.fields) \o WrittenMembers(cs, f.methods)
    \o WrittenAttributes(cs, f.attributes)

(* The fields of a file by the byte offset at which they begin *)
Written(f) ==
  LET fields == WrittenFields(f)
      starts == Starts(0, Widths(fields))
  IN [at |-> [p \in {starts[i] : i \in DOMAIN fields} |->
                fields[CHOOSE i \in DOMAIN fields : starts[i] = p]],
      size |-> Last(starts)]

-----------------------------------------------------------------------------
(* What a compiler makes sure of: a constant names constants of the kinds  *)
(* it should, an attribute has its name in the pool, code is not empty.    *)

Texts(cs) == {cs[i].text : i \in {j \in DOMAIN cs : cs[j].kind = "Utf8"}}
PlainAttributes(cs) == [name : Texts(cs) \ {"Code"}, n : Nat]
CodeAttributes(cs) ==
  [name : Texts(cs) \cap {"Code"}, n : Nat \ {0}, handlers : Nat,
   nested : Seq(PlainAttributes(cs))]
AllAttributes(cs) == PlainAttributes(cs) \cup CodeAttributes(cs)

(* The kinds of the constants that a constant names, where the code at     *)
(* hand follows them                                                       *)
Follows(kind) ==
  CASE kind \in Named -> <<"Utf8">>
    [] kind = "NameAndType" -> <<"Utf8", "Utf8">>
    [] kind \in MemberRefs -> <<"Class", "NameAndType">>
    [] OTHER -> << >>
RefCount(kind) ==
  CASE kind \in Named \cup {"MethodType", "Module", "Package", "MethodHandle"} -> 1
    [] kind \in MemberRefs \cup {"NameAndType", "InvokeDynamic", "Dynamic"} -> 2
    [] OTHER -> 0

WellFormedPool(cs) ==
  /\ cs \in Seq([kind : Kinds, text : STRING, bits : SUBSET (0 .. 63), refs : Seq(Nat)])
  /\ \A i \in DOMAIN cs :
       /\ cs[i].kind \in {"Integer", "Float"} => cs[i].bits \subseteq 0 .. 31
       /\ Len(cs[i].refs) = RefCount(cs[i].kind)
       /\ \A r \in DOMAIN Follows(cs[i].kind) :
            \E j \in DOMAIN cs : /\ Number(cs)[j] = cs[i].refs[r]
                                 /\ cs[j].kind = Follows(cs[i].kind)[r]

WellFormed(f) ==
  /\ f.magic \in BOOLEAN /\ f.minor \in Nat /\ f.major \in Nat /\ f.interfaces \in Nat
  /\ WellFormedPool(f.constants)
  /\ f.fields \in Seq(Seq(AllAttributes(f.constants)))
  /\ f.methods \in Seq(Seq(AllAttributes(f.constants)))
  /\ f.attributes \in Seq(AllAttributes(f.constants))
=============================================================================
