--------------------------- MODULE QueryConstants ---------------------------
(***************************************************************************)
(* The sizes of the background query, src/cli/style/cli_term_osc11.c, and  *)
(* what may arrive from the terminal while it runs.                        *)
(***************************************************************************)
EXTENDS Integers, Sequences

CONSTANTS
  Timeout,      \* 100 ms in the code
  Slice,        \* 20 ms in the code
  BufferSize,   \* 256 in the code
  Answers,      \* what a terminal may answer, << >> for nothing
  Keys,         \* what may be typed
  MaxTyped      \* bound: keys typed during one query

ASSUME TimesAssumption == Timeout \in Nat \ {0} /\ Slice \in Nat \ {0}
ASSUME BufferAssumption == BufferSize \in Nat \ {0}
ASSUME AnswersAssumption == << >> \in Answers /\ \A a \in Answers : a \in Seq(STRING)
ASSUME KeysAssumption == Keys \subseteq STRING /\ MaxTyped \in Nat
=============================================================================
