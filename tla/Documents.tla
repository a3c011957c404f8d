------------------------------ MODULE Documents ------------------------------
(***************************************************************************)
(* The documents the program prints about itself: the OpenCLI contract,    *)
(* src/cli/commands_opencli.c over the tables of opencli_contract.c and    *)
(* commands.c, and the report of the info command.                         *)
(***************************************************************************)
EXTENDS CommandTable, JsonOutput

(* The tables of opencli_contract.c and app_error_table; what the entries
   describe is left out. *)
RootArguments == <<Positional("command", TRUE, 1, 1)>>
ExtraExamples == <<"--help", "--version">>
EnvironmentDocs ==
  <<"APP_LOG_LEVEL", "APP_CONFIG_PATH", "NO_COLOR", "FORCE_COLOR", "CLICOLOR_FORCE",
    "CLICOLOR", "APP_CLI_THEME", "APP_CLI_COLOR", "APP_CLI_OSC11", "APP_CLI_ACCENT">>
MetadataGroups ==
  <<[name |-> "environment", fields |-> EnvironmentDocs],
    [name |-> "configuration", fields |-> <<"location", "format", "precedence">>],
    [name |-> "build", fields |-> <<"system", "compiler", "standard">>]>>
ErrorTable ==
  <<"SUCCESS", "INVALID_ARG", "INVALID_COMMAND", "CONFIG", "CONFIG_PARSE",
    "CONFIG_INVALID", "MISSING_ARG", "UNKNOWN_OPTION", "MEMORY", "IO", "PERMISSION",
    "INTERNAL", "THREADING", "RESOURCE", "SIGNAL", "NOT_FOUND", "INVALID_DATA",
    "PARSE_ERROR", "VALIDATION", "OVERFLOW", "UNDERFLOW", "OUT_OF_RANGE",
    "INTERRUPTED", "TERMINATED">>

Description == Text("description")
Described(comma) == PrettyField("description", Description, comma)

(* opencli_print_aliases *)
Aliases(alias) ==
  Text("aliases") \o Mark(":")
    \o PrettyArray(IF alias = None THEN << >> ELSE Text(alias), TRUE)

(* opencli_print_arguments *)
Argument(argument, more) ==
  Mark("{") \o PrettyField("name", Text(argument.name), TRUE)
    \o PrettyField("required", Bool(argument.required), TRUE)
    \o Text("arity") \o Mark(":") \o Mark("{")
    \o PrettyField("minimum", Number(argument.minimum), TRUE)
    \o PrettyField("maximum", IF argument.maximum = Unbounded THEN Word("null")
                              ELSE Number(argument.maximum), FALSE)
    \o Mark("}") \o Mark(",")
    \o Described(FALSE) \o Mark("}") \o CommaIf(more)

Arguments(arguments, comma) ==
  Text("arguments") \o Mark(":") \o PrettyArray(Items(arguments, Argument), comma)

(* opencli_print_option *)
PrintOption(name, alias, arguments, comma) ==
  Mark("{") \o PrettyField("name", Text(name), TRUE)
    \o PrettyField("required", Bool(FALSE), TRUE)
    \o Aliases(alias) \o Arguments(arguments, TRUE)
    \o Described(FALSE) \o Mark("}") \o CommaIf(comma)

OptionTotal == Len(BuiltinOptions) + Len(FlagOptions) + Len(GlobalValueOptions)

(* opencli_print_options: three tables in a row, a comma after each entry but
   the last that is counted. *)
GlobalOptions(comma) ==
  LET all == BuiltinOptions \o FlagOptions \o GlobalValueOptions
  IN Text("options") \o Mark(":")
       \o PrettyArray(FlattenSeq([k \in DOMAIN all |->
                        PrintOption(all[k].name, all[k].alias, all[k].arguments,
                                    k < OptionTotal)]), comma)

(* opencli_print_examples_array *)
Examples(examples, comma) ==
  Text("examples") \o Mark(":")
    \o PrettyArray(Items(examples, LAMBDA e, more : Text(e) \o CommaIf(more)), comma)

(* opencli_print_command: what follows the examples is there for a command
   that needs a terminal only. *)
PrintCommand(command, more) ==
  Mark("{") \o PrettyField("name", Text(command.name), TRUE) \o Described(TRUE)
    \o Text("options") \o Mark(":")
    \o PrettyArray(Items(command.options,
                         LAMBDA o, another : PrintOption(o, None, << >>, another)), TRUE)
    \o Arguments(command.arguments, TRUE)
    \o Examples(command.examples, command.requires_terminal)
    \o (IF command.requires_terminal
          THEN Text("metadata") \o Mark(":") \o Mark("{")
                 \o PrettyField("requires", Text("ncurses"), TRUE)
                 \o PrettyField("interactive", Bool(TRUE), FALSE) \o Mark("}")
          ELSE << >>)
    \o Mark("}") \o CommaIf(more)

(* opencli_print_commands *)
PrintCommands(comma) ==
  Text("commands") \o Mark(":") \o PrettyArray(Items(Commands, PrintCommand), comma)

(* opencli_print_exit_codes *)
ExitCode(code, more) ==
  Mark("{") \o PrettyField("code", Text(code), TRUE) \o Described(FALSE)
    \o Mark("}") \o CommaIf(more)
ExitCodes(comma) ==
  Text("exitCodes") \o Mark(":") \o PrettyArray(Items(ErrorTable, ExitCode), comma)

(* opencli_top_example_count, opencli_print_top_examples *)
CommandExamples == FlattenSeq([k \in DOMAIN Commands |-> Commands[k].examples])
TopExampleCount == Len(CommandExamples) + Len(ExtraExamples)
TopExamples(comma) ==
  LET all == CommandExamples \o ExtraExamples
  IN Text("examples") \o Mark(":")
       \o PrettyArray(FlattenSeq([k \in DOMAIN all |->
                        Text(all[k]) \o CommaIf(k < TopExampleCount)]), comma)

(* opencli_print_metadata *)
MetadataGroup(group, more) ==
  Mark("{") \o PrettyField("name", Text(group.name), TRUE)
    \o Text("value") \o Mark(":") \o Mark("{")
    \o Items(group.fields, LAMBDA f, another : PrettyField(f, Description, another))
    \o Mark("}") \o Mark("}") \o CommaIf(more)
Metadata(comma) ==
  Text("metadata") \o Mark(":") \o PrettyArray(Items(MetadataGroups, MetadataGroup), comma)

(* opencli_print_info, opencli_print_conventions *)
Info ==
  Text("info") \o Mark(":") \o Mark("{")
    \o PrettyField("title", Text("title"), TRUE) \o Described(TRUE)
    \o PrettyField("version", Text("version"), TRUE)
    \o Text("contact") \o Mark(":") \o Mark("{")
    \o PrettyField("name", Text("name"), TRUE) \o PrettyField("url", Text("url"), FALSE)
    \o Mark("}") \o Mark(",")
    \o Text("license") \o Mark(":") \o Mark("{")
    \o PrettyField("name", Text("name"), TRUE)
    \o PrettyField("identifier", Text("identifier"), FALSE) \o Mark("}")
    \o Mark("}") \o Mark(",")

Conventions ==
  Text("conventions") \o Mark(":") \o Mark("{")
    \o PrettyField("groupOptions", Bool(FALSE), TRUE)
    \o PrettyField("optionArgumentSeparator", Text(" "), FALSE)
    \o Mark("}") \o Mark(",")

(* app_cmd_opencli *)
OpenCliDocument ==
  Mark("{") \o PrettyField("opencli", Text("0.1"), TRUE) \o Info \o Conventions
    \o Text("command") \o Mark(":") \o Mark("{")
    \o PrettyField("name", Text("name"), TRUE) \o Described(TRUE)
    \o Arguments(RootArguments, TRUE) \o GlobalOptions(TRUE) \o PrintCommands(TRUE)
    \o ExitCodes(TRUE) \o TopExamples(TRUE)
    \o PrettyField("interactive", Bool(FALSE), TRUE) \o Metadata(FALSE)
    \o Mark("}") \o Mark("}")

------------------------------------------------------------------------------
(* app_cmd_info; the features are those of the build. *)
Features == <<"tui", "cli_style", "terminfo">>
BuildFields == <<"app", "version", "git_commit", "build_date">>

(* The object with a row of fields more. *)
WithFields(o, names, values) ==
  LET with[k \in 0..Len(names)] ==
        IF k = 0 THEN o ELSE Field(with[k - 1], names[k], values[k])
  IN with[Len(names)]

InfoDocument(build) ==
  LET texts    == [k \in DOMAIN BuildFields |-> Text(BuildFields[k])]
      named    == WithFields(Field(BeginObject, "format_version", Text("1.0")),
                             BuildFields, texts)
      switches == [k \in DOMAIN Features |-> Bool(Features[k] \in build)]
      features == WithFields(BeginObject, Features, switches)
  IN EndObject(Field(named, "features", EndObject(features)))

InfoLines(build) ==
  FlattenSeq([k \in DOMAIN BuildFields |-> Line(BuildFields[k])])
    \o FlattenSeq([k \in DOMAIN Features |-> Line(Features[k])])
==============================================================================
