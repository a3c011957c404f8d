------------------------- MODULE MCBackgroundQuery -------------------------
(***************************************************************************)
(* BackgroundQuery for TLC: what a terminal may answer the question for    *)
(* its background, nothing, a colour ended either way, or no colour.       *)
(***************************************************************************)
EXTENDS BackgroundQuery

MCAnswers ==
  {<< >>, <<"ESC ]11;rgb:", "light", "BEL">>,
   <<"ESC ]11;rgb:", "dark", "ESC", "backslash">>, <<"ESC ]11;rgb:", "BEL">>}
=============================================================================
