--------------------------- MODULE MCInterpreter ---------------------------
(* Classes o <- a <- b in a chain of superclasses, an interface itf and    *)
(* the main class (which has no <clinit>).  o, a and b also serve as       *)
(* exception classes.  Every body has the layout                           *)
(*    0: first    3: second    6: return    7: data    8: return           *)
(* and its exception table protects nothing, the first or the second       *)
(* instruction, with a handler at 7.                                       *)
EXTENDS Interpreter, TLC

CONSTANTS o, a, b, itf, x, main, f, g, p, q, co, ca, cb, ci

MCClasses == {o, a, b, itf, x}
MCSuper == (o :> NoClass) @@ (a :> o) @@ (b :> a) @@ (itf :> o) @@ (x :> o)
MCSuperClasses == (o :> {}) @@ (a :> {o}) @@ (b :> {o, a}) @@ (itf :> {o}) @@ (x :> {o})
MCMethods == {main, f, g, p, q, co, ca, cb, ci}
MCClassOf == (main :> x) @@ (f :> b) @@ (g :> b) @@ (p :> itf) @@ (q :> a)
             @@ (co :> o) @@ (ca :> a) @@ (cb :> b) @@ (ci :> itf)
MCSlotNeed == [m \in MCMethods |-> IF m = ci THEN 150 ELSE IF m = g THEN 30 ELSE 1]

I(op, len, m, cls, offs) == [op |-> op, len |-> len, m |-> m, cls |-> cls, offs |-> offs]
Data == I("data", 1, main, NoClass, {})
Wide == I("refop", 3, main, NoClass, {})
Ret == I("return", 1, main, NoClass, {})
Goto(off) == I("branch", 3, main, NoClass, {off})
If(off) == I("branch", 3, main, NoClass, {3, off})
Switch == I("switch", 1, main, NoClass, {})
CallStatic(m) == I("invokestatic", 3, m, NoClass, {})
Call(m) == I("invoke", 3, m, NoClass, {})
Use(k) == I("classop", 3, main, k, {})
Throw(k) == I("athrow", 1, main, k, {})

Body(first, second) ==
  LET code == (0 :> first) @@ (3 :> second) @@ (6 :> Ret) @@ (7 :> Data) @@ (8 :> Ret)
      pad(at, s) == IF s.len = 1 THEN (at + 1 :> Data) @@ (at + 2 :> Data) ELSE << >>
  IN pad(0, first) @@ pad(3, second) @@ code

(* A body whose athrow is the last instruction *)
Last == (0 :> Wide) @@ (3 :> Throw(a))

(* A recursive body that may use class itf at any depth *)
Deep == (0 :> If(7)) @@ (3 :> CallStatic(f)) @@ (6 :> Ret) @@ (7 :> Use(itf)) @@ (10 :> Ret)

Nowhere == << >>
Around(s, k) == << [start |-> s, end |-> s + 3, handler |-> 7, catch |-> k] >>
AtZero == << [start |-> 3, end |-> 6, handler |-> 0, catch |-> NoClass] >>

Mains == << Body(CallStatic(f), Use(b)), Body(Use(a), CallStatic(f)), Body(Call(g), Use(itf)),
            Body(CallStatic(p), Throw(NoClass)), Body(If(7), Switch), Body(Call(q), CallStatic(g)),
            Body(CallStatic(f), Call(g)), Body(Use(x), Use(b)) >>
Fs == << Body(Use(b), Throw(b)), Body(Goto(3), Call(g)), Deep >>
Os == << Body(Wide, Wide), Body(Wide, Use(b)), Body(Use(b), Throw(o)) >>
As == << Body(CallStatic(f), Wide), Body(Wide, Throw(a)), Body(Use(o), Use(b)) >>
Bs == << Body(Wide, Wide), Body(Use(a), Throw(b)), Body(Wide, CallStatic(f)) >>
Is == << Body(Wide, Throw(o)), Body(Use(a), Wide) >>
Tables == << <<Nowhere, Around(0, a), Around(3, o) \o Around(3, b)>>,
             <<Around(0, NoClass), Nowhere, Around(0, NoClass)>>,
             <<Around(3, a), AtZero, Nowhere>>,
             <<Nowhere, Nowhere, Nowhere>> >>

(* A program is a choice of one body for each method and of one table; the *)
(* ones with the last table are run with assertions.                       *)
MCPrograms == (1 .. 8) \X (1 .. 3) \X (1 .. 3) \X (1 .. 3) \X (1 .. 3) \X (1 .. 2) \X (1 .. 4)
MCDebug == {c \in MCPrograms : c[7] = 4}

MCCode ==
  [c \in MCPrograms |->
     (main :> Mains[c[1]]) @@ (f :> Fs[c[2]]) @@ (co :> Os[c[3]]) @@ (ca :> As[c[4]])
       @@ (cb :> Bs[c[5]]) @@ (ci :> Is[c[6]]) @@ (g :> Last)
       @@ (p :> Body(Wide, Wide)) @@ (q :> Body(Wide, Wide))]

MCTable ==
  [c \in MCPrograms |->
     [m \in MCMethods |->
        IF m = g THEN Nowhere ELSE Tables[c[7]][IF m = main THEN 1 ELSE IF m = co THEN 2 ELSE 3]]]
=============================================================================
