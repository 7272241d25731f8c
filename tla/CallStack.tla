----------------------------- MODULE CallStack -----------------------------
(***************************************************************************)
(* What a thread's frame stack promises to the interpreter: activations    *)
(* are entered and left in LIFO order, and every activation other than the *)
(* newest still names the method it was created for.  The newest one may   *)
(* be damaged (see FrameStack), which replaces its method by Garbage.      *)
(***************************************************************************)
EXTENDS Naturals, Sequences

CONSTANTS
  Methods,
  Garbage    \* not a method: the content of a damaged frame

VARIABLES
  calls,     \* methods being executed, oldest first
  alive      \* FALSE once the process has died

callvars == <<calls, alive>>

Newest == Len(calls)

Init == calls = << >> /\ alive = TRUE

Enter(m) == calls' = Append(calls, m) /\ UNCHANGED alive

Leave ==
  /\ calls /= << >>
  /\ calls' = SubSeq(calls, 1, Newest - 1)
  /\ UNCHANGED alive

Unwind == calls' = << >> /\ UNCHANGED alive

Damage ==
  /\ calls /= << >>
  /\ calls' = [calls EXCEPT ![Newest] = Garbage]
  /\ UNCHANGED alive

Overflow == alive' = FALSE /\ UNCHANGED calls

Next ==
  /\ alive = TRUE
  /\ (\E m \in Methods : Enter(m)) \/ Leave \/ Unwind \/ Damage \/ Overflow

Spec == Init /\ [][Next]_callvars
=============================================================================
