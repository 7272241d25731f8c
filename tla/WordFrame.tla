----------------------------- MODULE WordFrame -----------------------------
(***************************************************************************)
(* What the working memory of one method activation promises to the        *)
(* instructions that use it: an operand stack that is a plain sequence of  *)
(* 32-bit words and an array of local-variable words.  A long, a double    *)
(* and a reference are two words, low word first.  An operation either     *)
(* has exactly the effect written here or stops the process; it never      *)
(* yields a wrong word.                                                    *)
(***************************************************************************)
EXTENDS Naturals, Sequences

CONSTANTS
  Base,          \* number of distinct word values (2^32 in the program)
  NarrowValues,  \* int and float bit patterns handed to a push
  WideValues,    \* long, double and reference bit patterns handed to a push
  Indexes,       \* local-variable indexes an instruction may name
  NoValue        \* nothing has been popped yet

VARIABLES
  words,    \* operand stack, bottom first
  vars,     \* local variables: index -> word
  result,   \* value delivered by the latest pop or peek
  alive     \* FALSE once the process has been stopped

absvars == <<words, vars, result, alive>>

Depth == Len(words)
FromTop(k) == words[Depth - k]          \* FromTop(0) is the top word
Below(n) == SubSeq(words, 1, Depth - n) \* what n pops leave

LowWord(v) == v % Base
HighWord(v) == v \div Base
TwoWords(v) == <<LowWord(v), HighWord(v)>>
Value(lo, hi) == hi * Base + lo

Init ==
  /\ words = << >>
  /\ \A i \in DOMAIN vars : vars[i] = 0
  /\ result = NoValue
  /\ alive = TRUE

Push(ws) == words' = words \o ws /\ UNCHANGED <<vars, result, alive>>

(* Replace the n topmost words by ws. *)
Replace(n, ws) ==
  /\ Depth >= n
  /\ words' = Below(n) \o ws
  /\ UNCHANGED <<vars, result, alive>>

PopOne ==
  /\ Depth >= 1
  /\ words' = Below(1)
  /\ result' = FromTop(0)
  /\ UNCHANGED <<vars, alive>>

PopTwo ==
  /\ Depth >= 2
  /\ words' = Below(2)
  /\ result' = Value(FromTop(1), FromTop(0))
  /\ UNCHANGED <<vars, alive>>

(* Read the two-word value that lies below the k topmost words. *)
Peek(k) ==
  /\ Depth >= k + 2
  /\ result' = Value(FromTop(k + 1), FromTop(k))
  /\ UNCHANGED <<words, vars, alive>>

(* The stack-manipulation bytecodes, in the notation of their definition:  *)
(* the words they consume and the words they leave, bottom first.          *)
Shuffle ==
  LET a == FromTop(0)  b == FromTop(1)  c == FromTop(2)  d == FromTop(3) IN
  \/ Replace(1, << >>)                       \* pop
  \/ Replace(2, << >>)                       \* pop2
  \/ Replace(1, <<a, a>>)                    \* dup
  \/ Replace(2, <<a, b, a>>)                 \* dup_x1
  \/ Replace(3, <<a, c, b, a>>)              \* dup_x2
  \/ Replace(2, <<b, a, b, a>>)              \* dup2
  \/ Replace(3, <<b, a, c, b, a>>)           \* dup2_x1
  \/ Replace(4, <<b, a, d, c, b, a>>)        \* dup2_x2
  \/ Replace(2, <<a, b>>)                    \* swap

LoadOne(i) == i \in DOMAIN vars /\ Push(<<vars[i]>>)
LoadTwo(i) == {i, i + 1} \subseteq DOMAIN vars /\ Push(<<vars[i], vars[i + 1]>>)

StoreOne(i) ==
  /\ Depth >= 1 /\ i \in DOMAIN vars
  /\ words' = Below(1)
  /\ vars' = [vars EXCEPT ![i] = FromTop(0)]
  /\ UNCHANGED <<result, alive>>

StoreTwo(i) ==
  /\ Depth >= 2 /\ {i, i + 1} \subseteq DOMAIN vars
  /\ words' = Below(2)
  /\ vars' = [vars EXCEPT ![i] = FromTop(1), ![i + 1] = FromTop(0)]
  /\ UNCHANGED <<result, alive>>

(* Entering an exception handler leaves the exception alone on the stack. *)
Handle(ref) == words' = TwoWords(ref) /\ UNCHANGED <<vars, result, alive>>

Stop == alive' = FALSE /\ UNCHANGED <<words, vars, result>>

Next ==
  /\ alive = TRUE
  /\ \/ \E v \in NarrowValues : Push(<<v>>)
     \/ \E v \in WideValues : Push(TwoWords(v)) \/ Handle(v)
     \/ PopOne \/ PopTwo \/ Shuffle \/ Stop
     \/ \E k \in Indexes : Peek(k)
     \/ \E i \in Indexes : LoadOne(i) \/ LoadTwo(i) \/ StoreOne(i) \/ StoreTwo(i)

Spec == Init /\ [][Next]_absvars
=============================================================================
