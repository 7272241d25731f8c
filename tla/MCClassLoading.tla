--------------------------- MODULE MCClassLoading ---------------------------
(* Class files of a small run-time library and of an application. *)
EXTENDS ClassLoading

CONSTANTS obj, jclass, clo, ser, str, a, m, jlcFile, strs, ints, int, void

MCNames == {obj, jclass, clo, ser, str, a, m}
MCArrayInterfaces == <<clo, ser>>
MCPrimitiveTypes == <<void, int>>

(* The superclasses of the application classes vary, circles included *)
Hierarchy(superA, superM, ifsA, superJlc) ==
  [super |-> [n \in MCNames |-> CASE n = a -> superA [] n = m -> superM
                                  [] n = jclass -> superJlc [] OTHER -> obj],
   interfaces |-> [n \in MCNames |-> CASE n = a -> ifsA [] n \in {jclass, str} -> <<ser>>
                                       [] OTHER -> << >>]]
MCHierarchies ==
  {Hierarchy(sa, sm, ia, obj) : sa \in {obj, m, str}, sm \in {obj, a}, ia \in {<< >>, <<clo, ser>>}}
    \cup {Hierarchy(jclass, obj, << >>, a), Hierarchy(obj, obj, <<a>>, a)}
MCPlain == {Hierarchy(obj, a, << >>, obj)}

Library == MCNames \ {a, m}
MCPaths == {[boot |-> Library, base |-> {a, m}], [boot |-> Library \cup {a}, base |-> {m}],
            [boot |-> MCNames, base |-> MCNames],
            [boot |-> {obj, jclass, str}, base |-> {m}]}

MCWidths == [n \in MCNames |-> CASE n = a -> <<1, 2>> [] n = m -> <<2, 1, 1>>
                                  [] n = str -> <<2>> [] OTHER -> << >>]
=============================================================================
