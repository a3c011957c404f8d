---------------------------- MODULE CommandLine ----------------------------
(***************************************************************************)
(* One run of the program from its arguments to its exit code, src/main.c: *)
(* the immediate exits and the scan of cli/args.c, the configuration, the  *)
(* headless request, dispatch, the commands, and everything they write to  *)
(* the two streams.  A page of help or an error that is styled, and the    *)
(* colours of the TUI, ask the terminal for its background first           *)
(* (BackgroundQuery); the TUI itself is TuiSession's and only opens and     *)
(* closes here.  How the flags come about entry by entry is ConfigLayers'; *)
(* failing allocations are left out.                                       *)
(***************************************************************************)
EXTENDS Flags, Help, Doctor, TerminalPolicy, QueryConstants

CONSTANTS Calls,                  \* the invocations
          APP_MAX_COMMAND_ARGS    \* words a command line or a request may have behind one

(* The words before the command are a sequence. *)
ASSUME CallsAssumption == \A c \in Calls : Len(c.globals) \in Nat
ASSUME ArgumentsAssumption == APP_MAX_COMMAND_ARGS \in Nat

VARIABLES
  call,     \* the invocation: what is fixed when main starts
  pc,       \* where main is
  flags,    \* config->flags
  level,    \* g_log_level
  decided,  \* history: the flags were settled
  page,     \* the text a renderer was called for
  user,     \* who uses the TUI: the doctor, the menu
  outcome,  \* what tui_init or the TUI came to
  stdout, stderr,   \* what was written
  code,     \* exit code, None before the end
  mode, saved, at, remaining, elapsed, buf, tty, owed, typed, probed, cached, failed

front == <<call, pc, flags, level, decided, page, user, outcome, stdout, stderr, code>>
terminal == <<mode, saved, at, remaining, elapsed, buf, tty, owed, typed, probed,
              cached, failed>>
vars == <<front, terminal>>

Query == INSTANCE BackgroundQuery

(***************************************************************************)
(* A call says which features are compiled in (build); the environment;    *)
(* the config file, none, bad or good, and the flags it stores; which      *)
(* streams are terminals and whether there is a controlling one; the words *)
(* before the command, the command and those after it; and what is on      *)
(* stdin.                                                                  *)
(***************************************************************************)
BareCall == call.globals = << >> /\ call.command = << >> /\ call.args = << >>
IsTty(stream) == stream \in call.ttys
Interactive == IsTty("stdin") /\ IsTty("stdout")
Headless == BareCall /\ ~Interactive

TooMany(args) == Len(args) > APP_MAX_COMMAND_ARGS

(* A request stands for the command of the arguments. *)
Asked == IF Headless THEN call.stdin ELSE call

Log(what) == <<<<"log", what>>>>

(* Tokens of some kind in a text. *)
Holds(text, kinds) == \E k \in DOMAIN text : text[k][1] \in kinds

NoPage == [text |-> << >>, stream |-> "stdout", code |-> None]

Init ==
  /\ call \in Calls /\ pc = "scan" /\ flags = AllOff /\ level = call.log
  /\ decided = FALSE /\ page = NoPage /\ user = None /\ outcome = None
  /\ stdout = << >> /\ stderr = << >> /\ code = None
  /\ Query!Init /\ mode = "canonical"

(* The program ends; out and err are what it writes last. *)
End(out, err, c) ==
  /\ pc' = "done" /\ code' = c
  /\ stdout' = stdout \o out /\ stderr' = stderr \o err
  /\ UNCHANGED <<call, flags, level, decided, page, user, outcome, terminal>>

Goto(step) ==
  /\ pc' = step
  /\ UNCHANGED <<call, flags, level, decided, page, user, outcome, stdout, stderr, code,
                 terminal>>

(* app_output with is_error; app_output without, to stdout. *)
Say(text) == IF Shown(flags, TRUE) THEN Message(flags, text) ELSE << >>
Answer(text) == IF Shown(flags, FALSE) THEN Message(flags, text) ELSE << >>

Render(text, stream, c) ==
  /\ pc' = "render" /\ page' = [text |-> text, stream |-> stream, code |-> c]
  /\ UNCHANGED <<call, flags, level, decided, user, outcome, stdout, stderr, code, terminal>>

------------------------------------------------------------------------------
(* initialize_app *)

(* app_args_handle_immediate_exit: the first --help or --version before the
   command, whatever else is there. *)
ImmediateExit(words) ==
  LET from[k \in 1..Len(words)+2] ==
        IF k > Len(words) THEN None
        ELSE IF words[k].dashes = 0 \/ words[k] = EndOfOptions THEN None
        ELSE LET builtin == Spelled(BuiltinOptions, words[k])
             IN IF builtin # {} THEN BuiltinOptions[CHOOSE b \in builtin : TRUE].name
                ELSE IF Spelled(GlobalValueOptions, words[k]) # {} THEN from[k + 2]
                ELSE from[k + 1]
  IN from[1]

StyledBuild == "cli_style" \in call.build
VersionText == <<<<"version", BuildFields>>>>

ExitImmediately ==
  /\ pc = "scan" /\ ImmediateExit(call.globals) # None
  /\ Render(IF ImmediateExit(call.globals) = "help" THEN RootText(VerboseHelp(StyledBuild))
            ELSE VersionText, "stdout", "SUCCESS")

(* app_scan_global_args: the flags asked for, or the first word that is no
   option or lacks its value. *)
Scan(words) ==
  LET error(c) == [error |-> c, asked |-> << >>]
      from[k \in 1..Len(words)+2] ==
        IF k > Len(words) THEN error(None)
        ELSE LET flag == Spelled(FlagOptions, words[k])
             IN IF flag # {}
                  THEN [from[k + 1] EXCEPT
                          !.asked = <<FlagOrder[CHOOSE f \in flag : TRUE]>> \o @]
                ELSE IF Spelled(GlobalValueOptions, words[k]) = {}
                  THEN error("UNKNOWN_OPTION")
                ELSE IF k = Len(words) THEN error("MISSING_ARG") ELSE from[k + 2]
  IN from[1]

Scanned == Scan(call.globals)

ScanFails ==
  /\ pc = "scan" /\ ImmediateExit(call.globals) = None /\ Scanned.error # None
  /\ End(<< >>, Line("option") \o (IF Scanned.error = "UNKNOWN_OPTION" THEN Line("try --help")
                                   ELSE << >>), Scanned.error)

FileFails ==
  /\ pc = "scan" /\ ImmediateExit(call.globals) = None /\ Scanned.error = None
  /\ call.file = "bad"
  /\ \E c \in {"NOT_FOUND", "PERMISSION", "IO", "OUT_OF_RANGE", "CONFIG_PARSE"} :
       End(<< >>, Line("config"), c)

(* app_parse_args cannot keep another argument: main returns with no word. *)
TooManyArguments ==
  /\ pc = "scan" /\ ImmediateExit(call.globals) = None /\ Scanned.error = None
  /\ call.file # "bad" /\ TooMany(call.args)
  /\ End(<< >>, << >>, "OUT_OF_RANGE")

(* app_config_load_file, _load_env, app_parse_args and _apply_output_defaults,
   one after the other over what is there. *)
EnvSets(f) == (f = "debug" /\ call.log = "debug") \/ (f = "no_color" /\ call.env.NO_COLOR)
Turn(v, f) == Apply(v, f, TRUE)
Layered ==
  LET withEnv  == FoldLeft(LAMBDA v, f : IF EnvSets(f) THEN Turn(v, f) ELSE v,
                           call.stored, FlagOrder)
      withArgs == FoldLeft(Turn, withEnv, Scanned.asked)
  IN IF ~IsTty("stdout") /\ ~withArgs["plain"] /\ ~withArgs["json"]
       THEN Turn(withArgs, "json") ELSE withArgs

Level(v) ==
  IF v["quiet"] THEN "error" ELSE IF v["debug"] THEN "debug"
  ELSE IF v["verbose"] THEN "info" ELSE level

Load ==
  /\ pc = "scan" /\ ImmediateExit(call.globals) = None /\ Scanned.error = None
  /\ call.file # "bad" /\ ~TooMany(call.args)
  /\ flags' = Layered /\ level' = Level(Layered) /\ decided' = TRUE
  /\ stderr' = stderr \o (IF level' = "debug" /\ Layered["debug"] THEN Log("debug mode")
                          ELSE << >>)
  /\ pc' = IF ~BareCall THEN "dispatch" ELSE IF Interactive THEN "tui" ELSE "request"
  /\ UNCHANGED <<call, page, user, outcome, stdout, code, terminal>>

------------------------------------------------------------------------------
(* app_run_headless_json *)
ForceJson(v) == Apply(Apply(v, "plain", FALSE), "json", TRUE)

StartHeadless ==
  /\ pc = "request" /\ pc' = "read" /\ flags' = ForceJson(flags)
  /\ UNCHANGED <<call, level, decided, page, user, outcome, stdout, stderr, code, terminal>>

Piped(kind) == ~IsTty("stdin") /\ call.stdin.kind = kind
ReadRequest ==
  /\ pc = "read"
  /\ \/ (IsTty("stdin") \/ Piped("blank")) /\ End(<< >>, Say("no request"), "MISSING_ARG")
     \/ Piped("unreadable") /\ End(<< >>, Say("not read"), "IO")
     \/ Piped("malformed") /\ End(<< >>, Say("malformed"), "CONFIG_PARSE")
     \/ /\ Piped("request") /\ TooMany(call.stdin.args)
        /\ End(<< >>, Say("malformed"), "OUT_OF_RANGE")
     \/ Piped("request") /\ ~TooMany(call.stdin.args) /\ Goto("apply")

(* The request's flags, then the format again.  The log level stays. *)
ApplyRequest ==
  /\ pc = "apply" /\ pc' = "dispatch"
  /\ flags' = ForceJson(FoldLeft(LAMBDA v, s : Apply(v, s[1], s[2]), flags, call.stdin.flags))
  /\ UNCHANGED <<call, level, decided, page, user, outcome, stdout, stderr, code, terminal>>

------------------------------------------------------------------------------
(* app_dispatch_configured_command *)
Command == Commands[CHOOSE k \in FindCommand(Asked.command) : TRUE]
Known == Asked.command # << >> /\ FindCommand(Asked.command) # {}

NoCommand ==
  /\ pc = "dispatch" /\ Asked.command = << >>
  /\ Render(RootText(ConciseHelp(StyledBuild)), "stdout", "INVALID_ARG")

(* The suggestion is part of the one message. *)
UnknownText == <<"unknown command", Suggest(Asked.command)>>
UnknownCommand ==
  /\ pc = "dispatch" /\ Asked.command # << >> /\ ~Known
  /\ IF StyledBuild /\ ~flags["json"]
       THEN Render(Line(UnknownText) \o Line("try --help"), "stderr", "INVALID_COMMAND")
       ELSE End(<< >>, Say(UnknownText), "INVALID_COMMAND")

AsksForHelp ==
  \E k \in 1..Delimiter(Asked.args)-1 : Asked.args[k] \in {Long("help"), Short("h")}
ShowCommandHelp ==
  /\ pc = "dispatch" /\ Known /\ AsksForHelp
  /\ Render(CommandText(CommandHelp(Command)), "stdout", "SUCCESS")

NeedsTerminal == Command.requires_terminal /\ ~Interactive
RefuseWithoutTerminal ==
  /\ pc = "dispatch" /\ Known /\ ~AsksForHelp /\ NeedsTerminal
  /\ End(<< >>, Say("requires a terminal"), "IO")

(* The message and the hint one after the other: a mutant of
   ReportValidationError. *)
ReportTwice(message, hint) ==
  Say(message) \o (IF hint = None THEN << >> ELSE Say(hint))

(* app_command_report_validation_error: the hint is folded into the one JSON
   message; people get a line for each. *)
ReportValidationError(message, hint) ==
  IF flags["json"] THEN Say(message)
  ELSE Line(message) \o (IF hint = None THEN << >> ELSE Line(hint))

Verdict == ValidateInvocation(Command, Asked.args)
Invalid ==
  /\ pc = "dispatch" /\ Known /\ ~AsksForHelp /\ ~NeedsTerminal /\ Verdict # "SUCCESS"
  /\ End(<< >>, ReportValidationError("arguments",
                  IF Verdict = "UNKNOWN_OPTION" THEN "try --help" ELSE None), Verdict)

Runs(name) ==
  /\ pc = "dispatch" /\ Known /\ Command.name = name
  /\ ~AsksForHelp /\ ~NeedsTerminal /\ Verdict = "SUCCESS"

(* LOG_INFO behind every handler; the TUI's own messages are left out. *)
Completed == IF level \in {"info", "debug"} THEN Log("completed") ELSE << >>

(* app_cmd_hello, app_cmd_echo: what is said of the arguments is left out. *)
Greet == \E name \in {hello, echo} : Runs(name) /\ End(Answer("text"), Completed, "SUCCESS")

(* app_cmd_info *)
ShowInfo ==
  /\ Runs(info)
  /\ End(IF flags["quiet"] THEN << >> ELSE IF flags["json"] THEN InfoDocument(call.build)
         ELSE InfoLines(call.build), Completed, "SUCCESS")

(* app_cmd_opencli: not even --quiet keeps it back. *)
PrintContract == Runs(opencli) /\ End(OpenCliDocument, Completed, "SUCCESS")

------------------------------------------------------------------------------
(* app_cmd_doctor *)
Deep == \E k \in DOMAIN Asked.args : FindOption(Command, Asked.args[k]) # {}

Enter(who, step) ==
  /\ user' = who /\ pc' = step
  /\ UNCHANGED <<call, flags, level, decided, page, outcome, stdout, stderr, code, terminal>>

Examine ==
  /\ Runs(doctor)
  /\ IF flags["quiet"] THEN End(<< >>, Completed, "SUCCESS")
     ELSE Enter("doctor", IF Deep /\ "tui" \in call.build /\ Interactive THEN "initscr"
                          ELSE "closed")

Seen == [git |-> "git" \in call.build, tui |-> "tui" \in call.build,
         interactive |-> Interactive,
         color |-> UseColors(call.env, flags, IsTty("stderr")), file |-> call.file = "good"]

Report ==
  LET checks == Checks(Seen, flags, outcome)
  IN /\ pc = "closed" /\ user = "doctor"
     /\ IF ChecksFit(checks) THEN End(DoctorReport(flags, checks), Completed, "SUCCESS")
        ELSE End(<< >>, Completed, "OUT_OF_RANGE")

------------------------------------------------------------------------------
(* app_run_tui, for the menu command and for a bare invocation *)
OpenMenu == Runs(menu) /\ Enter("menu", "tui")

MenuCompleted == IF user = "menu" THEN Completed ELSE << >>

RefuseJson ==
  /\ pc = "tui" /\ flags["json"]
  /\ End(<< >>, Say("no TUI under JSON") \o MenuCompleted, "INVALID_ARG")

NotCompiled ==
  /\ pc = "tui" /\ ~flags["json"] /\ "tui" \notin call.build
  /\ End(<< >>, Say("not compiled") \o MenuCompleted, "CONFIG")

StartTui ==
  /\ pc = "tui" /\ ~flags["json"] /\ "tui" \in call.build
  /\ Goto("initscr")

(* tui_init: initscr() changes the terminal's mode. *)
Initscr ==
  /\ pc = "initscr" /\ pc' = "colours" /\ mode' = "curses"
  /\ UNCHANGED <<call, flags, level, decided, page, user, outcome, stdout, stderr, code,
                 saved, at, remaining, elapsed, buf, tty, owed, typed, probed, cached, failed>>

(* It fails, or a step behind it does: an error is logged, and the terminal
   left as it was. *)
TuiInitFails ==
  /\ pc \in {"initscr", "colours"} /\ pc' = "closed"
  /\ outcome' = "INTERNAL" /\ mode' = "canonical"
  /\ tty' = IF pc = "colours" THEN << >> ELSE tty
  /\ stderr' = stderr \o Log("failed to initialize")
  /\ UNCHANGED <<call, flags, level, decided, page, user, stdout, code, saved, at, remaining,
                 elapsed, buf, owed, typed, probed, cached, failed>>

(* app_cli_term_detect_background for whoever resolves the theme: nobody asks
   a terminal whose background the theme names, nor one that is not there. *)
Asks ==
  /\ StyledBuild /\ call.env.APP_CLI_THEME = "unset"
  /\ ~SkipsProbe(call.env) /\ call.controlling
Resolve(step) ==
  /\ pc' = step
  /\ IF Asks THEN Query!Detect(FALSE) ELSE UNCHANGED terminal
  /\ UNCHANGED <<call, flags, level, decided, page, user, outcome, stdout, stderr, code>>

(* The doctor never sets the TUI's colour policy; the menu's is app_use_colors. *)
TuiColors ==
  /\ user = "doctor" \/ UseColors(call.env, flags, IsTty("stderr"))
  /\ call.env.APP_CLI_COLOR # "never" /\ TerminfoColors(call.env) > 0

InitColors ==
  /\ pc = "colours" /\ IF TuiColors THEN Resolve("screen") ELSE Goto("screen")

(* tui_cleanup once the TUI is left, or at once by the doctor: the mode is set
   back and what was typed or answered and not read is dropped. *)
Outcomes ==
  IF user = "doctor" THEN {"SUCCESS", "OUT_OF_RANGE"}
  ELSE {"SUCCESS", "INTERRUPTED", "TERMINATED", "OUT_OF_RANGE", "MEMORY"}
CloseTui ==
  /\ pc = "screen" /\ at = "away" /\ pc' = "closed"
  /\ outcome' \in Outcomes
  /\ mode' = "canonical" /\ tty' = << >>
  /\ UNCHANGED <<call, flags, level, decided, page, user, stdout, stderr, code, saved, at,
                 remaining, elapsed, buf, owed, typed, probed, cached, failed>>

TuiReturns ==
  /\ pc = "closed" /\ user # "doctor"
  /\ End(<< >>, (IF outcome \in {"SUCCESS", "INTERRUPTED", "TERMINATED"} THEN << >>
                 ELSE Say("TUI failed")) \o MenuCompleted, outcome)

------------------------------------------------------------------------------
(* app_cli_render_root_help, _command_help, _version and _error: a page is
   styled if its stream is, and waits for the theme.  Without a configuration,
   for an immediate exit, all flags are off.  Without those renderers the
   verbose help, which only an immediate exit prints, is bold where
   app_use_colors lets it, and nothing else has a style. *)
PageStyled ==
  IF StyledBuild
    THEN Styled(call.env, flags, IsTty(page.stream), "terminfo" \in call.build)
  ELSE /\ ~decided /\ Holds(page.text, {"help"})
       /\ UseColors(call.env, NoConfig, IsTty("stderr"))

StartPage ==
  /\ pc = "render" /\ IF PageStyled THEN Resolve("paint") ELSE Goto("paint")

Paint ==
  LET text == (IF PageStyled THEN <<<<"style", "on">>>> ELSE << >>) \o page.text
  IN /\ pc = "paint" /\ at = "away"
     /\ End(IF page.stream = "stdout" THEN text ELSE << >>,
            IF page.stream = "stderr" THEN text ELSE << >>, page.code)

------------------------------------------------------------------------------
Program ==
  \/ ExitImmediately \/ ScanFails \/ FileFails \/ TooManyArguments \/ Load
  \/ StartHeadless \/ ReadRequest \/ ApplyRequest
  \/ NoCommand \/ UnknownCommand \/ ShowCommandHelp \/ RefuseWithoutTerminal \/ Invalid
  \/ Greet \/ ShowInfo \/ PrintContract \/ Examine \/ Report
  \/ OpenMenu \/ RefuseJson \/ NotCompiled \/ StartTui \/ Initscr \/ TuiInitFails
  \/ InitColors \/ TuiReturns \/ StartPage \/ Paint

Ask == Query!Step /\ UNCHANGED front

(* What the terminal and its user do while the program runs. *)
Happen == pc # "done" /\ (Query!Arrive \/ Query!Type) /\ UNCHANGED front

Next == Program \/ CloseTui \/ Ask \/ Happen

(* The program goes on by itself; nobody has to close the TUI. *)
Spec == Init /\ [][Next]_vars /\ WF_vars(Program) /\ WF_vars(Ask)

------------------------------------------------------------------------------
(* Reasons of the environment to have no colours: those that nothing overrules,
   and a dumb terminal. *)
OffForAll(env) ==
  \/ env.NO_COLOR \/ env.APP_CLI_COLOR = "never" \/ env.FORCE_COLOR = "0"
  \/ env.FORCE_COLOR = "unset" /\ env.CLICOLOR_FORCE # "1" /\ env.CLICOLOR = "0"
Off(env) == OffForAll(env) \/ env.TERM = "dumb"

(* Something other than the log is written. *)
Speaks(stream) == \E k \in DOMAIN stream : stream[k][1] # "log"

HelpOnStdout == Holds(stdout, {"help", "command help"})
Painted == Holds(stdout, {"style"}) \/ Holds(stderr, {"style"})

(* A command line with more words behind the command than fit. *)
Overlong == call.file # "bad" /\ TooMany(call.args)

(* Every failure says so, also under --quiet: on stderr, or with the help for a
   command that was left out.  Two are silent: a TUI ended by a signal, and a
   command line that is Overlong, for whose error main has no message
   (src/main.c:80); the same limit in a request is reported.  And nothing but
   the log is written to stderr when all went well. *)
FailuresAreSaid ==
  pc = "done" =>
    /\ code # "SUCCESS" => \/ Speaks(stderr)
                           \/ HelpOnStdout /\ page.code = code
                           \/ user # "doctor" /\ code \in {"INTERRUPTED", "TERMINATED"}
                           \/ Overlong /\ code = "OUT_OF_RANGE"
    /\ code = "SUCCESS" => ~Speaks(stderr)

(* Colours that are switched off are off: by the environment for the probe of
   the terminal and for every text, by the settled flags for every text and for
   the TUI's probe; and where every stream is a terminal, what is styled is
   allowed by both policies of the program.  The exceptions are in the code.  A
   page that exits at once (src/cli/args.c:125) heeds the environment alone, not
   --no-color or --plain before it and not the config file.  Without cli_style
   such a page follows app_use_colors, where a forced colour beats a dumb
   terminal (src/utils/colors.c:80).  And the doctor tries the TUI with its
   colours whatever the flags say. *)
OffMeansOff ==
  /\ Off(call.env) => at = "away"
  /\ Painted => ~OffForAll(call.env)
  /\ Painted /\ call.env.TERM = "dumb" => ~StyledBuild /\ EnvForce(call.env) = "on"
  /\ Painted /\ ~decided => ImmediateExit(call.globals) # None
  /\ Painted /\ decided => /\ StyledBuild
                           /\ ~flags["plain"] /\ ~flags["no_color"] /\ ~flags["json"]
  /\ at # "away" /\ user # "doctor" => ~flags["plain"] /\ ~flags["no_color"]
  /\ Painted /\ (\A s \in {"stdin", "stdout", "stderr"} : IsTty(s))
       => UseColors(call.env, flags, TRUE)

(* A program that has ended has left the terminal in the mode it was in. *)
LeftAsFound == pc = "done" => mode = "canonical"

(* Nothing is written, and main does not go on, while the terminal is asked. *)
QuietWhileAsking == [][at # "away" => UNCHANGED <<pc, stdout, stderr>>]_vars
==============================================================================
