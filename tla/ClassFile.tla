----------------------------- MODULE ClassFile -----------------------------
(***************************************************************************)
(* classfile::Parse (class_parser.cpp, attr_info.cpp, constant_pool.h of   *)
(* classfile/) and the run-time constant pool made from its result         *)
(* (runtime/constant_pool.cpp).                                            *)
(*                                                                         *)
(* The parser keeps a read position in the bytes of the file and trusts    *)
(* them: it looks at no size, and at the length of an attribute only when  *)
(* it does not know the attribute.  One action is one parse function, or   *)
(* one turn of its loop; work is what the functions in progress have still *)
(* to do.                                                                  *)
(***************************************************************************)
EXTENDS ClassFormat

CONSTANT Files        \* the class files

ASSUME FilesAssumption ==
  \A f \in Files : WellFormed(f)

VARIABLES
  file,     \* the file that is parsed; never changes (not in the code)
  bytes,    \* the bytes of the file, as ClassFormat has them; never changes
  pos,      \* pos_
  work,     \* tasks: [name, left], the one in progress first
  infos,    \* constant_infos_ of the class file's pool; index i is infos[i + 1]
  pool,     \* constants_ of the run-time pool as far as it is made; index i is pool[i + 1]
  status    \* "parsing", "linking" (the run-time pool), "done", "fatal", "segv", "misread"

vars == <<file, bytes, pos, work, infos, pool, status>>

Null == [kind |-> "null"]

Task(name, left) == [name |-> name, left |-> left]
Once(name) == Task(name, 1)

Init ==
  /\ file \in Files
  /\ bytes = Written(file)
  /\ pos = 0
  /\ work = <<Once("magic"), Once("version"), Once("pool"), Once("header"), Once("interfaces"),
              Once("members"), Once("members"), Once("attributes")>>
  /\ infos = << >>
  /\ pool = <<Null>>
  /\ status = "parsing"

-----------------------------------------------------------------------------
(* Reading *)

(* ParseUnsignedInt called for fields of these widths from p on reads what *)
(* was written as such fields.                                             *)
Fits(p, widths) ==
  \A i \in DOMAIN widths :
    LET q == Starts(p, widths)[i] IN
    q \in DOMAIN bytes.at /\ bytes.at[q].width = widths[i]

(* The value of the field at p; a count of none where no field begins *)
ValueAt(p) == IF p \in DOMAIN bytes.at THEN bytes.at[p].value ELSE 0

(* Mutant: the bytes taken with the lowest first. *)
ParsedBitsSwapped(bits, size, folded) ==
  {8 * (size - 1 - (b \div 8)) + (b % 8) : b \in bits}

(* ParseUnsignedInt on a number of size bytes: each byte is shifted as an  *)
(* int.  A shift by 32 and more is undefined: the processor takes it       *)
(* modulo 32, a compiler that knows the amount may fold it to nothing.  A  *)
(* byte that reaches the sign of the int is sign-extended to eight bytes.  *)
ParsedBits(bits, size, folded) ==
  LET shifted(i) ==
        LET amount == 8 * (size - 1 - i)
            byte == {b \in 0 .. 7 : amount + b \in bits}
            int == IF amount < 32 THEN {b + amount : b \in byte}
                   ELSE IF folded THEN {} ELSE {b + (amount % 32) : b \in byte}
        IN int \cup (IF 31 \in int THEN 32 .. 63 ELSE {})
  IN (UNION {shifted(i) : i \in 0 .. size - 1}) \cap (0 .. 8 * size - 1)

(* The value a number constant gets *)
ParsedNumber(kind, bits) ==
  {ParsedBits(bits, IF kind \in Wide THEN 8 ELSE 4, folded) : folded \in BOOLEAN}

Current == work[1]
Rest == Tail(work)
(* work with one turn of the current task done *)
Turned == IF Current.left = 1 THEN Rest ELSE <<Task(Current.name, Current.left - 1)>> \o Rest
(* work preceded by a loop of n turns *)
Loop(name, n, then) == (IF n = 0 THEN << >> ELSE <<Task(name, n)>>) \o then

Stop(how) == status' = how /\ UNCHANGED <<file, bytes, pos, work, infos, pool>>

(* The parse function goes on at end with the work given; if what it read  *)
(* was not written for it, it goes on with garbage, which is not followed. *)
ProceedWith(fits, end, then, grown) ==
  IF ~fits THEN Stop("misread")
  ELSE /\ pos' = end
       /\ work' = then
       /\ infos' = grown
       /\ status' = IF then = << >> THEN "linking" ELSE "parsing"
       /\ UNCHANGED <<file, bytes, pool>>
Proceed(fits, end, then) == ProceedWith(fits, end, then, infos)

-----------------------------------------------------------------------------
(* class_parser.cpp *)

ParseAndCheckMagic ==
  /\ Current.name = "magic"
  /\ IF ValueAt(pos) = TRUE
     THEN Proceed(Fits(pos, <<4>>), pos + 4, Rest)
     ELSE Stop("fatal")

Supported(minor, major) == major = 45 \/ (major \in 46 .. 52 /\ minor = 0)

ParseAndCheckVersion ==
  /\ Current.name = "version"
  /\ IF Supported(ValueAt(pos), ValueAt(pos + 2))
     THEN Proceed(Fits(pos, <<2, 2>>), pos + 4, Rest)
     ELSE Stop("fatal")

(* ParseConstantPool up to its loop, whose turns are told by the number of *)
(* the next constant rather than counted.                                  *)
ParseConstantPool ==
  /\ Current.name = "pool"
  /\ ProceedWith(Fits(pos, <<2>>), pos + 2,
                 Loop("constant", IF ValueAt(pos) > 1 THEN 1 ELSE 0, Rest), <<Null>>)

Count == ValueAt(8)       \* constant_pool_count_, behind magic and version

(* The widths that the ParseConstantInfo of each kind reads *)
ConstantWidths(kind) ==
  CASE kind \in {"Integer", "Float"} -> <<4>>
    [] kind \in Wide -> <<8>>
    [] kind \in {"Class", "String", "MethodType", "Module", "Package"} -> <<2>>
    [] kind = "MethodHandle" -> <<1, 2>>
    [] OTHER -> <<2, 2>>

(* The constant read at p, behind its tag, and where it ends *)
ReadConstant(kind, p) ==
  IF kind = "Utf8"
  THEN LET n == ValueAt(p)
           text == IF n = 0 THEN "" ELSE ValueAt(p + 2)
       IN [fits |-> Fits(p, <<2>>) /\ (n = 0 \/ Fits(p + 2, <<n>>)), end |-> p + 2 + n,
           infos |-> {[kind |-> kind, text |-> text, bits |-> {}, refs |-> << >>]}]
  ELSE LET widths == ConstantWidths(kind)
           refs == [i \in DOMAIN widths |-> ValueAt(Starts(p, widths)[i])]
           info(bits) == [kind |-> kind, text |-> "", bits |-> bits,
                          refs |-> IF kind \in Numbers THEN << >> ELSE refs]
       IN [fits |-> Fits(p, widths), end |-> End(p, widths),
           infos |-> IF kind \in Numbers
                     THEN {info(bits) : bits \in ParsedNumber(kind, refs[1])}
                     ELSE {info({})}]

(* Mutant: the second entry of a long or double forgotten. *)
EntriesSingle(info) == <<info>>

(* What one turn of the loop puts into the pool; a long or double has two  *)
(* entries, of which the second stays null.                                *)
Entries(info) == IF info.kind \in Wide THEN <<info, Null>> ELSE <<info>>

(* A tag of no kind is fatal; files have none. *)
ParseConstantInfo ==
  /\ Current.name = "constant"
  /\ IF ~Fits(pos, <<1>>) THEN Stop("misread")
     ELSE LET read == ReadConstant(ValueAt(pos), pos + 1) IN
          \E info \in read.infos :
            LET grown == infos \o Entries(info) IN
            ProceedWith(read.fits, read.end,
                        Loop("constant", IF Len(grown) < Count THEN 1 ELSE 0, Rest), grown)

(* ParseAccessFlags, ParseThisClass, ParseSuperClass *)
ParseHeader ==
  /\ Current.name = "header"
  /\ Proceed(Fits(pos, <<2, 2, 2>>), pos + 6, Rest)

(* A two-byte count and as many entries of the given widths *)
TableWidths(p, entry) == <<2>> \o Repeat(ValueAt(p), entry)

ParseInterfaces ==
  /\ Current.name = "interfaces"
  /\ LET widths == TableWidths(pos, <<2>>) IN
     Proceed(Fits(pos, widths), End(pos, widths), Rest)

(* ParseFieldInfos, ParseMethodInfos *)
ParseMembers ==
  /\ Current.name = "members"
  /\ Proceed(Fits(pos, <<2>>), pos + 2, Loop("member", ValueAt(pos), Rest))

ParseMember ==
  /\ Current.name = "member"
  /\ Proceed(Fits(pos, <<2, 2, 2, 2>>), pos + 8,
             Loop("attribute", ValueAt(pos + 6), Turned))

ParseAttributeInfos ==
  /\ Current.name = "attributes"
  /\ Proceed(Fits(pos, <<2>>), pos + 2, Loop("attribute", ValueAt(pos), Rest))

(* GetConstantInfo of the class file's pool, for an index in its range *)
Info(i) == IF i \in 1 .. Len(infos) - 1 THEN infos[i + 1] ELSE Null

(* What ParseAttrInfo of the attribute's class reads from p on: known      *)
(* attributes by their contents, the others, Deprecated among them, by     *)
(* their length.  For the name that CreateAttributeInfo compares with      *)
(* instead nothing is read, whatever its length.                           *)
ReadAttribute(name, len, p) ==
  LET fixed(widths) == [fits |-> Fits(p, widths), end |-> End(p, widths), nested |-> 0]
      handlers == p + 8 + ValueAt(p + 4)        \* behind the code
      table == TableWidths(handlers, <<2, 2, 2, 2>>)
      attributes == End(handlers, table)
  IN CASE name = "Code" ->
            [fits |-> /\ Fits(p, <<2, 2, 4, ValueAt(p + 4)>>)
                      /\ Fits(handlers, table) /\ Fits(attributes, <<2>>),
             end |-> attributes + 2, nested |-> ValueAt(attributes)]
       [] name \in {"ConstantValue", "SourceFile"} -> fixed(<<2>>)
       [] name \in {"Synthetic", "DepreCated"} -> fixed(<< >>)
       [] name = "Exceptions" -> fixed(TableWidths(p, <<2>>))
       [] name = "LineNumberTable" -> fixed(TableWidths(p, <<2, 2>>))
       [] name = "LocalVariableTable" -> fixed(TableWidths(p, <<2, 2, 2, 2, 2>>))
       [] OTHER -> [fits |-> len = 0 \/ Fits(p, <<len>>), end |-> p + len, nested |-> 0]

(* What GetUtf8, GetClassName or GetNameAndType end in when entry i is not *)
(* of the kind they cast it to                                             *)
BadEntry(i) == IF i \in 1 .. Count - 1 THEN "segv" ELSE "fatal"

ParseAttributeInfo ==
  /\ Current.name = "attribute"
  /\ LET index == ValueAt(pos)
         read == ReadAttribute(Info(index).text, ValueAt(pos + 2), pos + 6)
     IN IF Info(index).kind /= "Utf8" THEN Stop(BadEntry(index))
        ELSE Proceed(Fits(pos, <<2, 4>>) /\ read.fits, read.end,
                     Loop("attribute", read.nested, Turned))

-----------------------------------------------------------------------------
(* runtime/constant_pool.cpp, the constructor: one turn of its loop for    *)
(* index Len(pool), pool[1] being the unused constants_[0].                *)

(* The entries that entry i leads to, each with the kind it is cast to *)
Casts(i) ==
  LET class(r) == {<<r, "Class">>} \cup
        IF Info(r).kind = "Class" THEN {<<Info(r).refs[1], "Utf8">>} ELSE {}
      nameAndType(r) == {<<r, "NameAndType">>} \cup
        IF Info(r).kind = "NameAndType"
        THEN {<<Info(r).refs[1], "Utf8">>, <<Info(r).refs[2], "Utf8">>} ELSE {}
  IN CASE Info(i).kind \in Named -> {<<Info(i).refs[1], "Utf8">>}
       [] Info(i).kind \in MemberRefs -> class(Info(i).refs[1]) \cup nameAndType(Info(i).refs[2])
       [] OTHER -> {}

Constant(type, bits, names) == [kind |-> type, bits |-> bits, names |-> names]
Text(i) == Info(i).text

(* What the constructor makes of entry i; the kinds it has no class for,   *)
(* and Utf8, stay null.                                                    *)
MakeConstant(i) ==
  LET info == Info(i)
      class == Info(info.refs[1])
      member == Info(info.refs[2])
  IN CASE info.kind \in Numbers -> Constant(info.kind, info.bits, << >>)
       [] info.kind = "String" -> Constant("Utf8", {}, <<Text(info.refs[1])>>)
       [] info.kind = "Class" -> Constant("Class", {}, <<Text(info.refs[1])>>)
       [] info.kind \in MemberRefs ->
            Constant(IF info.kind = "FieldRef" THEN "FieldRef" ELSE "MethodRef", {},
                     <<Text(class.refs[1]), Text(member.refs[1]), Text(member.refs[2])>>)
       [] OTHER -> Null

(* Mutant: the loop does not step over the second entry. *)
MadeEntriesSingle(c) == <<c>>

MadeEntries(c) == IF c.kind \in Wide THEN <<c, Null>> ELSE <<c>>

MakeRuntimeConstant ==
  /\ status = "linking"
  /\ Len(pool) < Count
  /\ LET i == Len(pool)
         bad == {cast \in Casts(i) : Info(cast[1]).kind /= cast[2]}
     IN IF Info(i) = Null THEN Stop("segv")
        ELSE IF bad /= {} THEN \E cast \in bad : Stop(BadEntry(cast[1]))
        ELSE /\ pool' = pool \o MadeEntries(MakeConstant(i))
             /\ UNCHANGED <<file, bytes, pos, work, infos, status>>

MakeRuntimeConstantPool ==
  /\ status = "linking"
  /\ Len(pool) >= Count
  /\ Stop("done")

-----------------------------------------------------------------------------
Parse ==
  /\ status = "parsing"
  /\ \/ ParseAndCheckMagic \/ ParseAndCheckVersion \/ ParseConstantPool
     \/ ParseConstantInfo \/ ParseHeader \/ ParseInterfaces \/ ParseMembers
     \/ ParseMember \/ ParseAttributeInfos \/ ParseAttributeInfo

Next == Parse \/ MakeRuntimeConstant \/ MakeRuntimeConstantPool

Spec == Init /\ [][Next]_vars

-----------------------------------------------------------------------------
(* Properties *)

(* The parser stays in step with the file: every count, length and index   *)
(* is read at the bytes where it was written, whatever known, unknown and  *)
(* nested attributes came before and wherever a long or double stands in   *)
(* the pool, and Parse ends at the last byte.                              *)
InStep ==
  /\ status /= "misread"
  /\ status \in {"linking", "done"} => pos = bytes.size

(* The kind under which LDC and the method calls look for a constant *)
TagOf(kind) ==
  CASE kind = "String" -> "Utf8" [] kind = "InterfaceMethodRef" -> "MethodRef" [] OTHER -> kind

(* The names behind constant k of a file: of what it is, or of its class,  *)
(* name and descriptor                                                     *)
NamesOf(cs, k) ==
  LET c == Numbered(cs, k)
      text(n) == Numbered(cs, n).text
      ref(m, n) == Numbered(cs, c.refs[m]).refs[n]
  IN CASE c.kind \in Named -> <<text(c.refs[1])>>
       [] c.kind \in MemberRefs -> <<text(ref(1, 1)), text(ref(2, 1)), text(ref(2, 2))>>
       [] OTHER -> << >>

(* The number an instruction carries means the same constant to the        *)
(* compiler and to the run-time pool, both pools counting a long or double *)
(* as two; what the run-time pool has no constant for, and only that, is   *)
(* null; and a well-formed file is never rejected.                         *)
PoolsAgree ==
  LET cs == file.constants
      made == {i \in DOMAIN cs : cs[i].kind \in Numbers \cup Named \cup MemberRefs}
      at == Number(cs)
      numbers == {at[i] : i \in made}
  IN /\ status /= "segv"
     /\ status = "fatal" =>
          ~ (file.magic /\ Supported(file.minor, file.major))
     /\ status = "done" =>
          \A k \in 1 .. Last(at) - 1 :
            IF k \in numbers
            THEN /\ pool[k + 1].kind = TagOf(Numbered(cs, k).kind)
                 /\ pool[k + 1].names = NamesOf(cs, k)
            ELSE pool[k + 1] = Null

(* An int or float constant arrives bit by bit as it was written, and so   *)
(* does a long or double without bits above 30: beyond that                *)
(* ParseUnsignedInt shifts bytes out of an int and extends its sign.       *)
ConstantsExact ==
  LET cs == file.constants
      at == Number(cs)
  IN status = "done" =>
    \A i \in DOMAIN cs :
      (cs[i].kind \in Numbers /\ (cs[i].kind \in Wide => cs[i].bits \subseteq 0 .. 30))
        => pool[at[i] + 1].bits = cs[i].bits
=============================================================================
