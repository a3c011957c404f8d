-------------------------------- MODULE Help --------------------------------
(***************************************************************************)
(* The help texts, plain (src/cli/help.c) and styled                       *)
(* (cli/style/cli_help_render.c).  Both go through the tables of commands   *)
(* and options; a text is kept as what it lists, section by section.  How  *)
(* the rows are laid out is in TextLayout.                                 *)
(***************************************************************************)
EXTENDS Documents

CONSTANT APP_HELP_MAX_ROWS   \* rows a styled section has room for

ASSUME MaxRowsAssumption == APP_HELP_MAX_ROWS \in Nat

Capped(rows) == SubSeq(rows, 1, IF Len(rows) < APP_HELP_MAX_ROWS THEN Len(rows)
                                ELSE APP_HELP_MAX_ROWS)
Row(option, env) == [label |-> FormatLabel(option), env |-> env]

(* print_commands_block; help_render_commands, whose rows are capped. *)
CommandRows(styled) ==
  LET shown == SelectSeq(Commands, IsVisible)
      names == [k \in DOMAIN shown |-> shown[k].name]
  IN IF styled THEN Capped(names) ELSE names

(* print_builtin_options, print_flag_options, print_global_value_options;
   help_gather_global_rows.  A flag names its variable where it has one. *)
OptionRows(styled, include_env) ==
  LET rows == [k \in DOMAIN BuiltinOptions |-> Row(BuiltinOptions[k], None)]
                \o [k \in DOMAIN FlagOptions |->
                      Row(FlagOptions[k], IF include_env THEN FlagOptions[k].env ELSE None)]
                \o [k \in DOMAIN GlobalValueOptions |-> Row(GlobalValueOptions[k], None)]
  IN IF styled THEN Capped(rows) ELSE rows

(* app_print_concise_help_ex, help_render_concise *)
ConciseHelp(styled) ==
  [commands |-> CommandRows(styled), options |-> OptionRows(styled, FALSE),
   environment |-> << >>, codes |-> << >>]

(* app_print_verbose_usage_ex, help_render_verbose: the environment is the
   table the contract prints. *)
VerboseHelp(styled) ==
  [commands |-> CommandRows(styled), options |-> OptionRows(styled, TRUE),
   environment |-> EnvironmentDocs, codes |-> ErrorTable]

(* app_print_command_help_ex, app_cli_render_command_help *)
CommandHelp(command) ==
  [name |-> command.name,
   usage |-> [k \in DOMAIN command.arguments |->
                [name |-> command.arguments[k].name,
                 optional |-> ~command.arguments[k].required,
                 many |-> command.arguments[k].maximum = Unbounded]],
   options |-> command.options, examples |-> command.examples]

RootText(help) == <<<<"help", help>>>>
CommandText(help) == <<<<"command help", help>>>>
==============================================================================
