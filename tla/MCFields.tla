------------------------------ MODULE MCFields ------------------------------
(***************************************************************************)
(* Classes for Fields: one int; an int and a long; a class so large that   *)
(* its objects and the class objects soon fill the heap; static constants  *)
(* of one and two words between fields without.                            *)
(***************************************************************************)
EXTENDS Fields

InstanceField(slot, width, final) == [slot |-> slot, width |-> width, final |-> final]
StaticField(width, final, kind, constant) ==
  [width |-> width, final |-> final, kind |-> kind, constant |-> constant]

MCClasses ==
  [small |-> [count |-> 1, fields |-> {InstanceField(0, 1, TRUE)}, statics |-> << >>],
   mixed |-> [count |-> 3, fields |-> {InstanceField(0, 1, FALSE), InstanceField(1, 2, FALSE)},
              statics |-> <<StaticField(2, TRUE, "number", <<-1, 1>>),
                            StaticField(1, TRUE, "assertionsDisabled", << >>),
                            StaticField(1, TRUE, "number", <<1>>),
                            StaticField(2, FALSE, "reference", << >>)>>],
   large |-> [count |-> 90, fields |-> {InstanceField(10, 1, FALSE), InstanceField(88, 2, FALSE)},
              statics |-> << >>]]

MCWords == {-1, 1}
=============================================================================
