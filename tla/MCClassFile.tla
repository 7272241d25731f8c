---------------------------- MODULE MCClassFile ----------------------------
(***************************************************************************)
(* Class files for ClassFile: every kind of constant before and behind     *)
(* what it refers to, a long or double at the start, amid and at the end   *)
(* of the pool, and every kind of attribute in every place javac puts it.  *)
(***************************************************************************)
EXTENDS ClassFile

Utf8(text) == [kind |-> "Utf8", text |-> text, bits |-> {}, refs |-> << >>]
Num(kind, bits) == [kind |-> kind, text |-> "", bits |-> bits, refs |-> << >>]
Ref(kind, refs) == [kind |-> kind, text |-> "", bits |-> {}, refs |-> refs]

(* A pool with references by position in this list *)
Listed ==
  <<Utf8("m"), Utf8("()V"), Utf8(""), Ref("Class", <<1>>), Ref("String", <<3>>),
    Ref("NameAndType", <<1, 2>>), Ref("FieldRef", <<4, 6>>), Ref("MethodRef", <<4, 6>>),
    Ref("InterfaceMethodRef", <<4, 6>>), Num("Integer", {0, 31}), Num("Float", {23, 30}),
    Ref("MethodHandle", <<8>>), Ref("MethodType", <<2>>), Ref("InvokeDynamic", <<1, 6>>),
    Utf8("Code"), Utf8("LineNumberTable"), Utf8("LocalVariableTable"), Utf8("Exceptions"),
    Utf8("ConstantValue"), Utf8("SourceFile"), Utf8("Synthetic"), Utf8("Deprecated"),
    Utf8("StackMapTable"), Utf8("DepreCated")>>

(* Listed in the order of the positions order gives, wides put before the  *)
(* places of wide; references become numbers                               *)
Pool(order, wide) ==
  LET placed == FlattenSeq([i \in DOMAIN order |->
                  (IF i \in DOMAIN wide THEN wide[i] ELSE << >>) \o <<Listed[order[i]]>>])
      cs == placed \o (IF 0 \in DOMAIN wide THEN wide[0] ELSE << >>)
      at == Number(cs)
      number(p) == at[CHOOSE i \in DOMAIN cs : cs[i] = Listed[p]]
  IN [i \in DOMAIN cs |->
        IF cs[i].kind = "InvokeDynamic"     \* its first is no constant
        THEN [cs[i] EXCEPT !.refs = <<0, number(cs[i].refs[2])>>]
        ELSE [cs[i] EXCEPT !.refs = [r \in DOMAIN cs[i].refs |-> number(cs[i].refs[r])]]]

Straight == [i \in 1 .. Len(Listed) |-> i]
Backward == Reverse(Straight)

Attr(name, n) == [name |-> name, n |-> n]
Code(n, handlers, nested) ==
  [name |-> "Code", n |-> n, handlers |-> handlers, nested |-> nested]

Plain == Pool(Straight, << >>)
File(constants, interfaces, fields, methods, attributes) ==
  [magic |-> TRUE, minor |-> 0, major |-> 52, constants |-> constants,
   interfaces |-> interfaces, fields |-> fields, methods |-> methods,
   attributes |-> attributes]
Body(constants) ==
  File(constants, 1, << >>, <<<<Code(1, 0, << >>)>>>>, <<Attr("SourceFile", 0)>>)

Bits == {{}, {0, 30}, {31}, {40}, 52 .. 61, 0 .. 63}
PoolFiles ==
  {Body(Pool(order, (at :> <<Num("Long", bits)>>))) :
     order \in {Straight, Backward}, at \in {0, 1, 5}, bits \in Bits}
  \cup {Body(Pool(Straight, (1 :> <<Num("Double", bits), Num("Long", {1})>>
                               @@ 8 :> <<Num("Double", {})>>))) : bits \in Bits}

Tables == {<< >>, <<Attr("LineNumberTable", 0)>>, <<Attr("LineNumberTable", 2)>>,
           <<Attr("LineNumberTable", 1), Attr("LocalVariableTable", 2)>>,
           <<Attr("StackMapTable", 5), Attr("LocalVariableTable", 1)>>}
MethodFiles ==
  {File(Plain, 0, << >>, <<<<Code(n, handlers, nested)>> \o more, << >>>>, << >>) :
     n \in {1, 4}, handlers \in 0 .. 2, nested \in Tables,
     more \in {<< >>, <<Attr("Exceptions", 2), Attr("Deprecated", 0)>>}}
FieldFiles ==
  {File(Plain, interfaces, <<attributes, << >>>>, << >>, last) :
     interfaces \in {0, 2},
     attributes \in {<<Attr("ConstantValue", 0)>>, <<Attr("Synthetic", 0), Attr("StackMapTable", 1)>>},
     last \in {<< >>, <<Attr("SourceFile", 0), Attr("Deprecated", 0), Attr("DepreCated", 0)>>}}
RejectedFiles ==
  {[Body(Plain) EXCEPT !.magic = FALSE], [Body(Plain) EXCEPT !.major = 53],
   [Body(Plain) EXCEPT !.major = 45, !.minor = 3],
   [Body(Plain) EXCEPT !.major = 46, !.minor = 1]}

MCFiles == PoolFiles \cup MethodFiles \cup FieldFiles \cup RejectedFiles
=============================================================================
