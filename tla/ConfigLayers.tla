---------------------------- MODULE ConfigLayers ----------------------------
(***************************************************************************)
(* How an invocation becomes a configuration and a front-end: main.c over   *)
(* core/config.c, cli/args.c and the flags of a headless request           *)
(* (core/request_json.c).  The flags are layered, file, environment,       *)
(* arguments, output default, request, and every write of a flag clears    *)
(* the flags it excludes.  Files and requests are read entry by entry and   *)
(* may turn out malformed at any of them.                                  *)
(***************************************************************************)
EXTENDS Flags, Sequences

CONSTANTS MaxEntries,            \* bound on the flags one layer mentions
          APP_MAX_COMMAND_ARGS   \* 100 in the code

ASSUME MaxEntriesAssumption == MaxEntries \in Nat
ASSUME MaxArgsAssumption == APP_MAX_COMMAND_ARGS \in Nat

VARIABLES stage,     \* where main is
          i,         \* the loop's position or count in this stage
          flags,     \* config->flags
          staged,    \* the copy a config file is parsed into
          seen,      \* request.flag_seen
          values,    \* request.flag_values
          command,   \* the command is set
          nargs,     \* config's or the request's arg_count
          code,      \* exit code, "none" before the end
          call,      \* the invocation: what is fixed when main starts
          cli,       \* history: flags the arguments ask for
          replay,    \* history: flags, had the request's been set in order
          mentioned, \* history: flags the request has mentioned
          repeated,  \* history: it mentioned a flag twice
          headless   \* history: the headless path was taken

requestvars == <<seen, values, replay, mentioned, repeated, headless>>
vars == <<stage, i, flags, staged, requestvars, command, nargs, code, call, cli>>

(* bare is argc == 1; the rest is read from the environment. *)
Call == [bare : BOOLEAN, stdin_tty : BOOLEAN, stdout_tty : BOOLEAN,
         env : SUBSET EnvFlag]
Interactive == call.stdin_tty /\ call.stdout_tty
Headless == call.bare /\ ~Interactive

Init ==
  /\ stage = "scan" /\ i = 1
  /\ flags = AllOff /\ staged = AllOff
  /\ seen = {} /\ values = AllOff
  /\ command = FALSE /\ nargs = 0 /\ code = "none"
  /\ call \in Call
  /\ cli = {} /\ replay = AllOff /\ mentioned = {} /\ repeated = FALSE /\ headless = FALSE

Enter(s) == stage' = s /\ i' = 1
Exit(c) == stage' = "done" /\ code' = c /\ UNCHANGED i

------------------------------------------------------------------------------
(* initialize_app *)

(* The first scan of the arguments: --help or --version, then the path of
   the config file; an unknown option or a missing value is found here. *)
ScanExits ==
  /\ stage = "scan" /\ ~call.bare
  /\ \E c \in {"SUCCESS", "MISSING_ARG", "UNKNOWN_OPTION"} : Exit(c)
  /\ UNCHANGED <<flags, staged, requestvars, command, nargs, call, cli>>

ScanArgs ==
  /\ stage = "scan"
  /\ Enter("file")
  /\ UNCHANGED <<flags, staged, requestvars, command, nargs, code, call, cli>>

(* The configuration, the program's name, a path, a command and an argument
   are copies on the heap. *)
CopyFails ==
  /\ stage \in {"scan", "cli", "arguments"}
  /\ Exit("MEMORY")
  /\ UNCHANGED <<flags, staged, requestvars, command, nargs, call, cli>>

NoFile ==
  /\ stage = "file"
  /\ Enter("env")
  /\ UNCHANGED <<flags, staged, requestvars, command, nargs, code, call, cli>>

FileUnreadable ==
  /\ stage = "file"
  /\ \E c \in {"NOT_FOUND", "PERMISSION", "IO", "OUT_OF_RANGE", "MEMORY"} : Exit(c)
  /\ UNCHANGED <<flags, staged, requestvars, command, nargs, call, cli>>

FileOpens ==
  /\ stage = "file"
  /\ Enter("entries") /\ staged' = flags
  /\ UNCHANGED <<flags, requestvars, command, nargs, code, call, cli>>

FileEntry ==
  /\ stage = "entries" /\ i <= MaxEntries
  /\ \E f \in Flag, b \in BOOLEAN : staged' = Apply(staged, f, b)
  /\ i' = i + 1
  /\ UNCHANGED <<stage, flags, requestvars, command, nargs, code, call, cli>>

(* The copy is dropped whole: nothing of a bad file reaches the flags. *)
FileMalformed ==
  /\ stage = "entries"
  /\ \E c \in {"CONFIG_PARSE", "OUT_OF_RANGE", "MEMORY"} : Exit(c)
  /\ UNCHANGED <<flags, staged, requestvars, command, nargs, call, cli>>

FileEnds ==
  /\ stage = "entries"
  /\ Enter("env") /\ flags' = staged
  /\ UNCHANGED <<staged, requestvars, command, nargs, code, call, cli>>

(* The environment overrides nothing that is set: a mutant of LoadEnv. *)
LoadEnvWeakly ==
  /\ stage = "env"
  /\ IF i > Len(FlagOrder)
       THEN Enter(IF call.bare THEN "default" ELSE "cli") /\ UNCHANGED flags
       ELSE LET f == FlagOrder[i]
            IN /\ flags' = IF f \in call.env /\ \A g \in Excludes(f) : ~flags[g]
                             THEN Apply(flags, f, TRUE) ELSE flags
               /\ i' = i + 1 /\ UNCHANGED stage
  /\ UNCHANGED <<staged, requestvars, command, nargs, code, call, cli>>

(* app_config_load_env, flag by flag. *)
LoadEnv ==
  /\ stage = "env"
  /\ IF i > Len(FlagOrder)
       THEN Enter(IF call.bare THEN "default" ELSE "cli") /\ UNCHANGED flags
       ELSE LET f == FlagOrder[i]
            IN /\ flags' = IF f \in call.env THEN Apply(flags, f, TRUE) ELSE flags
               /\ i' = i + 1 /\ UNCHANGED stage
  /\ UNCHANGED <<staged, requestvars, command, nargs, code, call, cli>>

(* app_parse_args: the flags before the command, then the command. *)
ArgFlag ==
  /\ stage = "cli" /\ i <= MaxEntries
  /\ \E f \in Flag :
       /\ flags' = Apply(flags, f, TRUE)
       /\ cli' = (cli \ Excludes(f)) \cup {f}
  /\ i' = i + 1
  /\ UNCHANGED <<stage, staged, requestvars, command, nargs, code, call>>

ArgsWithoutCommand ==
  /\ stage = "cli"
  /\ Enter("default")
  /\ UNCHANGED <<flags, staged, requestvars, command, nargs, code, call, cli>>

ArgsCommand ==
  /\ stage = "cli"
  /\ command' = TRUE /\ Enter("arguments")
  /\ UNCHANGED <<flags, staged, requestvars, nargs, code, call, cli>>

(* app_config_add_command_arg *)
CommandArgument ==
  /\ stage = "arguments"
  /\ IF nargs >= APP_MAX_COMMAND_ARGS
       THEN Exit("OUT_OF_RANGE") /\ UNCHANGED nargs
       ELSE nargs' = nargs + 1 /\ UNCHANGED <<stage, i, code>>
  /\ UNCHANGED <<flags, staged, requestvars, command, call, cli>>

ArgumentsEnd ==
  /\ stage = "arguments"
  /\ Enter("default")
  /\ UNCHANGED <<flags, staged, requestvars, command, nargs, code, call, cli>>

(* It looks at json only: a mutant of OutputDefault. *)
OutputDefaultIgnoresPlain ==
  /\ stage = "default"
  /\ flags' = IF ~call.stdout_tty /\ ~flags["json"]
                THEN Apply(flags, "json", TRUE) ELSE flags
  /\ Enter("route")
  /\ UNCHANGED <<staged, requestvars, command, nargs, code, call, cli>>

(* app_config_apply_output_defaults *)
OutputDefault ==
  /\ stage = "default"
  /\ flags' = IF ~call.stdout_tty /\ ~flags["plain"] /\ ~flags["json"]
                THEN Apply(flags, "json", TRUE) ELSE flags
  /\ Enter("route")
  /\ UNCHANGED <<staged, requestvars, command, nargs, code, call, cli>>

------------------------------------------------------------------------------
(* main: the TUI, a request on stdin, or the command of the arguments. *)

RunTui ==
  /\ stage = "route" /\ call.bare /\ Interactive
  /\ IF flags["json"] /\ ~flags["plain"]
       THEN Exit("INVALID_ARG")
       ELSE Enter("tui") /\ UNCHANGED code
  /\ UNCHANGED <<flags, staged, requestvars, command, nargs, call, cli>>

RunCommand ==
  /\ stage = "route" /\ ~call.bare
  /\ Enter("dispatch")
  /\ UNCHANGED <<flags, staged, requestvars, command, nargs, code, call, cli>>

ForceJson(v) == Apply(Apply(v, "plain", FALSE), "json", TRUE)

RunHeadless ==
  /\ stage = "route" /\ Headless
  /\ flags' = ForceJson(flags) /\ replay' = ForceJson(flags)
  /\ headless' = TRUE /\ Enter("read")
  /\ UNCHANGED <<staged, seen, values, mentioned, repeated, command, nargs,
                 code, call, cli>>

(* A keyboard is never read for a request; nor is a blank one parsed. *)
ReadRequest ==
  /\ stage = "read"
  /\ \/ call.stdin_tty /\ Exit("MISSING_ARG")
     \/ ~call.stdin_tty /\ \E c \in {"IO", "MISSING_ARG"} : Exit(c)
     \/ ~call.stdin_tty /\ Enter("request") /\ UNCHANGED code
  /\ UNCHANGED <<flags, staged, requestvars, command, nargs, call, cli>>

(* Exclusions are left to app_config_set_flag: a mutant of RecordFlag. *)
RecordFlagAlone(f, b) ==
  /\ values' = [values EXCEPT ![f] = b]
  /\ seen' = seen \cup {f}

(* app_request_record_flag *)
RecordFlag(f, b) ==
  /\ values' = Apply(values, f, b)
  /\ seen' = IF b THEN (seen \cup {f}) \ Excludes(f) ELSE seen \cup {f}

RequestFlag ==
  /\ stage = "request" /\ i <= MaxEntries
  /\ \E f \in Flag, b \in BOOLEAN :
       /\ RecordFlag(f, b)
       /\ replay' = Apply(replay, f, b)
       /\ mentioned' = mentioned \cup {f}
       /\ repeated' = (repeated \/ f \in mentioned)
  /\ i' = i + 1
  /\ UNCHANGED <<stage, flags, staged, command, nargs, code, call, cli,
                 headless>>

RequestArgument ==
  /\ stage = "request"
  /\ IF nargs >= APP_MAX_COMMAND_ARGS
       THEN Exit("OUT_OF_RANGE") /\ UNCHANGED nargs
       ELSE nargs' = nargs + 1 /\ UNCHANGED <<stage, i, code>>
  /\ UNCHANGED <<flags, staged, requestvars, command, call, cli>>

RequestCommand ==
  /\ stage = "request"
  /\ \E named \in BOOLEAN : command' = named   \* "" names no command
  /\ UNCHANGED <<stage, i, flags, staged, requestvars, nargs, code, call, cli>>

RequestMalformed ==
  /\ stage = "request"
  /\ \E c \in {"CONFIG_PARSE", "UNKNOWN_OPTION", "OUT_OF_RANGE", "MEMORY"} : Exit(c)
  /\ UNCHANGED <<flags, staged, requestvars, command, nargs, call, cli>>

RequestEnds ==
  /\ stage = "request"
  /\ IF command THEN Enter("apply") /\ UNCHANGED code ELSE Exit("MISSING_ARG")
  /\ UNCHANGED <<flags, staged, requestvars, command, nargs, call, cli>>

(* app_request_apply_to_config: the command and its arguments are copied
   first, then the flags set one by one in the table's order. *)
ApplyRequestFails ==
  /\ stage = "apply" /\ i = 1
  /\ Exit("MEMORY")
  /\ UNCHANGED <<flags, staged, requestvars, command, nargs, call, cli>>

ApplyRequest ==
  /\ stage = "apply"
  /\ IF i > Len(FlagOrder)
       THEN Enter("applied") /\ UNCHANGED flags
       ELSE LET f == FlagOrder[i]
            IN /\ flags' = IF f \in seen THEN Apply(flags, f, values[f]) ELSE flags
               /\ i' = i + 1 /\ UNCHANGED stage
  /\ UNCHANGED <<staged, requestvars, command, nargs, code, call, cli>>

(* The request has the last word: a mutant of RestoreJson. *)
KeepRequestOutput ==
  /\ stage = "applied"
  /\ Enter("dispatch")
  /\ UNCHANGED <<flags, staged, requestvars, command, nargs, code, call, cli>>

RestoreJson ==
  /\ stage = "applied"
  /\ flags' = ForceJson(flags) /\ Enter("dispatch")
  /\ UNCHANGED <<staged, requestvars, command, nargs, code, call, cli>>

(* app_dispatch_configured_command up to the handler. *)
Dispatch ==
  /\ stage = "dispatch"
  /\ IF command
       THEN \E c \in {"SUCCESS", "INVALID_COMMAND", "IO", "MISSING_ARG",
                      "UNKNOWN_OPTION", "INVALID_ARG"} : Exit(c)
       ELSE Exit("INVALID_ARG")
  /\ UNCHANGED <<flags, staged, requestvars, command, nargs, call, cli>>

Ended == stage \in {"done", "tui"} /\ UNCHANGED vars

Next ==
  \/ ScanExits \/ ScanArgs \/ CopyFails \/ NoFile \/ FileUnreadable \/ FileOpens
  \/ FileEntry
  \/ FileMalformed \/ FileEnds \/ LoadEnv \/ ArgFlag \/ ArgsWithoutCommand
  \/ ArgsCommand \/ CommandArgument \/ ArgumentsEnd \/ OutputDefault
  \/ RunTui \/ RunCommand \/ RunHeadless \/ ReadRequest
  \/ RequestFlag \/ RequestArgument \/ RequestCommand \/ RequestMalformed
  \/ RequestEnds \/ ApplyRequestFails \/ ApplyRequest \/ RestoreJson \/ Dispatch \/ Ended

Spec == Init /\ [][Next]_vars

------------------------------------------------------------------------------
Stages == {"scan", "file", "entries", "env", "cli", "arguments", "default",
           "route", "tui", "read", "request", "apply", "applied", "dispatch",
           "done"}

Codes == {"none", "SUCCESS", "MISSING_ARG", "UNKNOWN_OPTION", "NOT_FOUND",
          "PERMISSION", "IO", "OUT_OF_RANGE", "MEMORY", "CONFIG_PARSE",
          "INVALID_ARG", "INVALID_COMMAND"}

TypeOK ==
  /\ stage \in Stages /\ i \in Nat \ {0} /\ code \in Codes /\ call \in Call
  /\ flags \in [Flag -> BOOLEAN] /\ staged \in [Flag -> BOOLEAN]
  /\ values \in [Flag -> BOOLEAN] /\ replay \in [Flag -> BOOLEAN]
  /\ seen \subseteq Flag /\ mentioned \subseteq Flag /\ cli \subseteq Flag
  /\ command \in BOOLEAN /\ repeated \in BOOLEAN /\ headless \in BOOLEAN
  /\ nargs \in 0..APP_MAX_COMMAND_ARGS

(* No two flags that exclude each other are ever on, in the configuration or
   in the copies a file or a request is read into, and the request's table
   of what was said never holds two such flags as on. *)
Exclusive(v) == \A f \in Flag : v[f] => \A g \in Excludes(f) : ~v[g]
ExclusionsHold == Exclusive(flags) /\ Exclusive(staged) /\ Exclusive(values)

(* CLI args > environment > config file > defaults (docs/CONTRACTS.md:93):
   when the front-end is chosen, every flag the arguments ask for last is on,
   and every flag of the environment they do not exclude. *)
LayersKeepPrecedence ==
  stage \in {"route", "tui"} =>
    /\ \A f \in cli : flags[f]
    /\ \A f \in call.env : flags[f] \/ Excludes(f) \cap cli # {}

(* A redirected stdout gets JSON, or plain text where plain was asked for,
   never neither; and no TUI is started under JSON output. *)
OutputIsDecided ==
  /\ stage = "route" /\ ~call.stdout_tty => flags["json"] # flags["plain"]
  /\ stage = "route" => ("plain" \in cli => ~flags["json"])
  /\ stage = "tui" => ~flags["json"] /\ Interactive

(* From the moment the headless path is chosen, whoever reads the flags finds
   JSON on and plain text off, whatever the request sets: the messages of every
   exit and the command that is dispatched.  Only the application of the
   request's own flags, when nobody reads them, is excepted.  A reader of the
   flags need not heed them: a request with the argument "--help" is answered
   with a page for people (src/main.c:180), although docs/CONTRACTS.md:136 has
   the command answer in JSON. *)
HeadlessFlagsAreJson ==
  headless /\ stage \notin {"apply", "applied"} => flags["json"] /\ ~flags["plain"]

(* The request's flags are recorded, then applied in the table's order; the
   outcome is as if each had been set where the request mentions it, when it
   mentions none twice. *)
RequestAppliesInOrder == stage = "applied" /\ ~repeated => flags = replay
==============================================================================
