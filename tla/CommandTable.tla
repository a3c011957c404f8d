---------------------------- MODULE CommandTable ----------------------------
(***************************************************************************)
(* The tables of src/cli/commands.c and what is looked up in them: commands *)
(* and their positional arguments, options and how one is spelled on the   *)
(* command line (option_meta.c), the suggestion for a misspelled command,  *)
(* and the check of an invocation before it is dispatched.                 *)
(*                                                                         *)
(* A word of the command line is [dashes, word]: "--deep" is two dashes    *)
(* and "deep", "--" two and "", a positional none.  A command's name is    *)
(* the sequence of its letters, for the edit distance.                     *)
(***************************************************************************)
EXTENDS Integers, Sequences, SequencesExt

CONSTANT APP_SUGGEST_MAX_LEN   \* 64 in the code

ASSUME SuggestMaxAssumption == APP_SUGGEST_MAX_LEN \in Nat

None == "none"
Unbounded == -1   \* APP_ARG_ARITY_UNBOUNDED

Positional(name, required, minimum, maximum) ==
  [name |-> name, required |-> required, minimum |-> minimum, maximum |-> maximum]

hello   == <<"h", "e", "l", "l", "o">>
echo    == <<"e", "c", "h", "o">>
info    == <<"i", "n", "f", "o">>
doctor  == <<"d", "o", "c", "t", "o", "r">>
menu    == <<"m", "e", "n", "u">>
opencli == <<"o", "p", "e", "n", "c", "l", "i">>

Plain(name, examples) ==
  [name |-> name, arguments |-> << >>, options |-> << >>, examples |-> examples,
   requires_terminal |-> FALSE, hidden |-> FALSE]

Commands == <<
  [Plain(hello, <<"hello", "hello Alice">>) EXCEPT
     !.arguments = <<Positional("name", FALSE, 0, 1)>>],
  [Plain(echo, <<"echo Hello World", "echo">>) EXCEPT
     !.arguments = <<Positional("text", FALSE, 0, Unbounded)>>],
  Plain(info, <<"info", "--json info">>),
  [Plain(doctor, <<"doctor", "--json doctor">>) EXCEPT !.options = <<"deep">>],
  [Plain(menu, <<"menu">>) EXCEPT !.requires_terminal = TRUE, !.hidden = TRUE],
  Plain(opencli, <<"opencli">>) >>

Option(name, alias, arguments, env) ==
  [name |-> name, alias |-> alias, arguments |-> arguments, env |-> env]

BuiltinOptions == <<Option("help", "h", << >>, None),
                    Option("version", None, << >>, None)>>
FlagOptions == <<Option("debug", "d", << >>, "APP_LOG_LEVEL"),
                 Option("quiet", "q", << >>, None),
                 Option("verbose", "v", << >>, None),
                 Option("json", None, << >>, None),
                 Option("plain", None, << >>, None),
                 Option("no-color", None, << >>, "NO_COLOR")>>
GlobalValueOptions ==
  <<Option("config", "c", <<Positional("path", TRUE, 1, 1)>>, None)>>

------------------------------------------------------------------------------
(* app_option_token_matches *)
Long(word)  == [dashes |-> 2, word |-> word]
Short(word) == [dashes |-> 1, word |-> word]
Bare(word)  == [dashes |-> 0, word |-> word]
EndOfOptions == Long("")

TokenMatches(token, option) ==
  \/ token = Long(option.name)
  \/ option.alias # None /\ token = Short(option.alias)

(* app_builtin_option_find, app_global_value_option_find: the entry of the
   table an argument spells, if any. *)
Spelled(table, token) == {k \in DOMAIN table : TokenMatches(token, table[k])}

(* app_option_format_label in the style of the help texts *)
FormatLabel(option) ==
  [long |-> option.name, short |-> option.alias,
   values |-> [k \in DOMAIN option.arguments |->
                 [name |-> option.arguments[k].name,
                  many |-> option.arguments[k].maximum = Unbounded]]]

(* app_command_find *)
FindCommand(name) == {k \in DOMAIN Commands : Commands[k].name = name}

(* app_command_is_visible *)
IsVisible(command) == ~command.hidden

------------------------------------------------------------------------------
(* app_command_edit_distance, row by row; SIZE_MAX past the longest name. *)
SIZE_MAX == 10^6

Least(a, b) == IF a < b THEN a ELSE b

NextRow(prev, i, a, b) ==
  LET cell[j \in 0..Len(b)] ==
        IF j = 0 THEN <<i>>
        ELSE LET row == cell[j - 1]
                 cost == IF a[i] = b[j] THEN 0 ELSE 1
             IN Append(row, Least(Least(prev[j + 1] + 1, row[j] + 1), prev[j] + cost))
  IN cell[Len(b)]

(* The row above is not carried over: a mutant of EditDistance. *)
OneRowDistance(a, b) ==
  IF Len(a) > APP_SUGGEST_MAX_LEN \/ Len(b) > APP_SUGGEST_MAX_LEN THEN SIZE_MAX
  ELSE LET first == [j \in 1..Len(b)+1 |-> j - 1]
       IN IF a = << >> THEN first[Len(b) + 1]
          ELSE NextRow(first, Len(a), a, b)[Len(b) + 1]

EditDistance(a, b) ==
  IF Len(a) > APP_SUGGEST_MAX_LEN \/ Len(b) > APP_SUGGEST_MAX_LEN THEN SIZE_MAX
  ELSE LET row[i \in 0..Len(a)] ==
             IF i = 0 THEN [j \in 1..Len(b)+1 |-> j - 1]
             ELSE NextRow(row[i - 1], i, a, b)
       IN row[Len(a)][Len(b) + 1]

(* app_command_suggest: the first of the nearest commands that may be shown,
   if it is near enough. *)
Suggest(unknown) ==
  LET shown == {k \in DOMAIN Commands : ~Commands[k].hidden}
      distance == [k \in shown |-> EditDistance(unknown, Commands[k].name)]
      best == CHOOSE k \in shown :
                \A m \in shown : \/ distance[k] < distance[m]
                                 \/ distance[k] = distance[m] /\ k <= m
  IN IF unknown # << >> /\ distance[best] <= 2 /\ distance[best] * 2 < Len(unknown)
       THEN Commands[best].name ELSE << >>

------------------------------------------------------------------------------
(* app_command_option_find: never the delimiter itself. *)
FindOption(command, token) ==
  {k \in DOMAIN command.options : token # EndOfOptions /\ token = Long(command.options[k])}

(* app_command_min_positionals, app_command_max_positionals *)
MinPositionals(command) ==
  FoldLeft(LAMBDA sum, a : sum + a.minimum, 0, command.arguments)
MaxPositionals(command) ==
  IF \E k \in DOMAIN command.arguments : command.arguments[k].maximum = Unbounded
    THEN Unbounded
    ELSE FoldLeft(LAMBDA sum, a : sum + a.maximum, 0, command.arguments)

Delimiters(args) == {k \in DOMAIN args : args[k] = EndOfOptions}
Delimiter(args) ==
  IF Delimiters(args) = {} THEN Len(args) + 1
  ELSE CHOOSE k \in Delimiters(args) : \A m \in Delimiters(args) : k <= m

(* Everything after the delimiter is looked at as well: a mutant of
   ValidateInvocation. *)
ValidateEveryWord(command, args) ==
  LET options == {k \in DOMAIN args : args[k].dashes = 2 /\ args[k] # EndOfOptions}
      positionals == Cardinality(DOMAIN args \ (options \cup {Delimiter(args)}))
  IN CASE \E k \in options : FindOption(command, args[k]) = {} -> "UNKNOWN_OPTION"
       [] OTHER -> IF positionals < MinPositionals(command) THEN "MISSING_ARG"
                   ELSE IF /\ MaxPositionals(command) # Unbounded
                           /\ positionals > MaxPositionals(command)
                        THEN "INVALID_ARG" ELSE "SUCCESS"

(* app_command_validate_invocation.  One dash makes no option. *)
ValidateInvocation(command, args) ==
  LET options == {k \in 1..Delimiter(args)-1 : args[k].dashes = 2}
      positionals == Cardinality(DOMAIN args \ (options \cup {Delimiter(args)}))
      maximum == MaxPositionals(command)
  IN IF \E k \in options : FindOption(command, args[k]) = {} THEN "UNKNOWN_OPTION"
     ELSE IF positionals < MinPositionals(command) THEN "MISSING_ARG"
     ELSE IF maximum # Unbounded /\ positionals > maximum THEN "INVALID_ARG"
     ELSE "SUCCESS"
==============================================================================
