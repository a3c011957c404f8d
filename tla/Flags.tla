------------------------------- MODULE Flags -------------------------------
(***************************************************************************)
(* The flags of the program, src/core/config.c: their table, which exclude *)
(* each other, and how one is set.                                         *)
(***************************************************************************)
EXTENDS Integers

(* g_app_flag_table *)
FlagOrder == <<"debug", "quiet", "verbose", "json", "plain", "no_color">>
Flag == {"debug", "quiet", "verbose", "json", "plain", "no_color"}
EnvFlag == {"debug", "no_color"}
Verbosity == {"debug", "quiet", "verbose"}
Output == {"json", "plain"}
Excludes(f) ==
  IF f \in Verbosity THEN Verbosity \ {f}
  ELSE IF f \in Output THEN Output \ {f} ELSE {}

AllOff == [f \in Flag |-> FALSE]

(* A flag is set and nothing else: a mutant of Apply. *)
ApplyAlone(v, f, b) == [v EXCEPT ![f] = b]

(* app_flag_apply *)
Apply(v, f, b) ==
  [g \in Flag |-> IF g = f THEN b ELSE v[g] /\ ~(b /\ g \in Excludes(f))]
==============================================================================
