------------------------------ MODULE MCCalls ------------------------------
(* Static methods with one- and two-slot arguments and arrays, an instance *)
(* method without and one with reference parameters, an instance method    *)
(* and a static one that are native, and println methods: of a long, a     *)
(* string and nothing, and of two parameters with a result (pr).           *)
EXTENDS Calls, TLC

CONSTANTS main, add, arr, get, join, nat, put, pj, pl, pn, pr

T(dims, base) == [dims |-> dims, base |-> base]

MCMethods == {main, add, arr, get, join, nat, put, pj, pl, pn, pr}
MCParams ==
  (main :> <<T(1, "L")>>) @@ (add :> <<T(0, "I"), T(0, "J"), T(0, "I")>>) @@ (arr :> <<T(2, "J"), T(0, "J")>>)
    @@ (get :> <<T(0, "I")>>) @@ (join :> <<T(1, "I")>>)
    @@ (nat :> <<T(0, "J")>>) @@ (put :> <<T(0, "L")>>)
    @@ (pj :> <<T(0, "J")>>) @@ (pl :> <<T(0, "L")>>) @@ (pn :> << >>) @@ (pr :> <<T(0, "J"), T(0, "I")>>)
MCResult ==
  (main :> "V") @@ (add :> "I") @@ (arr :> "V") @@ (get :> "R") @@ (join :> "V") @@ (nat :> "J") @@ (put :> "V")
    @@ (pj :> "V") @@ (pl :> "V") @@ (pn :> "V") @@ (pr :> "J")
MCMaxStack == [m \in MCMethods |-> CASE m = main -> 5 [] m = add -> 4 [] m = get -> 2 [] OTHER -> 0]
MCMaxLocals == [m \in MCMethods |-> CASE m = add -> 4 [] m = arr -> 4 [] m = get -> 2
                                      [] m = join -> 2 [] m \in {main, pj, pl} -> 2 [] m = pr -> 4 [] OTHER -> 1]
=============================================================================
