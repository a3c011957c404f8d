-------------------------- MODULE ConfigLayersProofs --------------------------
(***************************************************************************)
(* Proofs about ConfigLayers, for every bound on the entries and arguments. *)
(***************************************************************************)
EXTENDS ConfigLayers, TLAPS

(* app_flag_apply yields a table of flags. *)
LEMMA ApplyType ==
  ASSUME NEW v \in [Flag -> BOOLEAN], NEW f \in Flag, NEW b \in BOOLEAN
  PROVE  Apply(v, f, b) \in [Flag -> BOOLEAN]
BY DEF Apply

(* What it does to one flag. *)
LEMMA ApplyAt ==
  ASSUME NEW v \in [Flag -> BOOLEAN], NEW f \in Flag, NEW b \in BOOLEAN, NEW g \in Flag
  PROVE  Apply(v, f, b)[g] = IF g = f THEN b ELSE v[g] /\ ~(b /\ g \in Excludes(f))
BY DEF Apply

(* The exclusions of g_app_flag_table are mutual, and no flag excludes itself. *)
LEMMA ExcludesSymmetric ==
  ASSUME NEW f \in Flag, NEW g \in Flag
  PROVE  /\ f \notin Excludes(f)
         /\ g \in Excludes(f) <=> f \in Excludes(g)
         /\ Excludes(f) \subseteq Flag
<1>1. f \notin Excludes(f)
  BY DEF Excludes
<1>2. g \in Excludes(f) <=> f \in Excludes(g)
  BY DEF Excludes, Verbosity, Output
<1>3. Excludes(f) \subseteq Flag
  BY DEF Excludes, Verbosity, Output, Flag
<1> QED BY <1>1, <1>2, <1>3

(* Setting a flag keeps a table exclusive. *)
LEMMA ApplyKeepsExclusive ==
  ASSUME NEW v \in [Flag -> BOOLEAN], Exclusive(v), NEW f \in Flag, NEW b \in BOOLEAN
  PROVE  Exclusive(Apply(v, f, b))
<1> SUFFICES ASSUME NEW x \in Flag, Apply(v, f, b)[x], NEW y \in Excludes(x)
             PROVE  ~Apply(v, f, b)[y]
  BY DEF Exclusive
<1>1. y \in Flag /\ x \in Excludes(y) /\ y # x
  BY ExcludesSymmetric
<1>2. CASE x = f
  <2>1. b
    BY <1>2, ApplyAt
  <2>2. ~(v[y] /\ ~(b /\ y \in Excludes(f)))
    BY <2>1, <1>2
  <2> QED BY <2>2, <1>1, <1>2, ApplyAt
<1>3. CASE x # f
  <2>1. v[x] /\ ~(b /\ x \in Excludes(f))
    BY <1>3, ApplyAt
  <2>2. ~v[y]
    BY <2>1 DEF Exclusive
  <2>3. CASE y = f
    <3>1. x \in Excludes(f)
      BY <2>3, <1>1
    <3>2. ~b
      BY <3>1, <2>1
    <3> QED BY <3>2, <2>3, ApplyAt
  <2>4. CASE y # f
    BY <2>2, <2>4, <1>1, ApplyAt
  <2> QED BY <2>3, <2>4
<1> QED BY <1>2, <1>3

(* The names of the table are flags. *)
LEMMA FlagOrderType ==
  /\ Len(FlagOrder) = 6
  /\ \A k \in 1..6 : FlagOrder[k] \in Flag
BY DEF FlagOrder, Flag

(* The headless path's two writes yield an exclusive table of flags, with JSON
   on and plain text off. *)
LEMMA ForceJsonType ==
  ASSUME NEW v \in [Flag -> BOOLEAN]
  PROVE  /\ ForceJson(v) \in [Flag -> BOOLEAN]
         /\ Exclusive(v) => Exclusive(ForceJson(v))
         /\ ForceJson(v)["json"] /\ ~ForceJson(v)["plain"]
<1>1. "json" \in Flag /\ "plain" \in Flag /\ "plain" \in Excludes("json")
  BY DEF Flag, Excludes, Verbosity, Output
<1>2. Apply(v, "plain", FALSE) \in [Flag -> BOOLEAN]
  BY <1>1, ApplyType
<1>3. Exclusive(v) => Exclusive(Apply(v, "plain", FALSE))
  BY <1>1, ApplyKeepsExclusive
<1>4. ForceJson(v) \in [Flag -> BOOLEAN]
  BY <1>1, <1>2, ApplyType DEF ForceJson
<1>5. Exclusive(v) => Exclusive(ForceJson(v))
  BY <1>1, <1>2, <1>3, ApplyKeepsExclusive DEF ForceJson
<1>6. ForceJson(v)["json"] /\ ~ForceJson(v)["plain"]
  BY <1>1, <1>2, ApplyAt DEF ForceJson
<1> QED BY <1>4, <1>5, <1>6

(* Every way a step may write the configuration's flags: not at all, one flag
   through app_flag_apply, the file's copy as a whole, or the headless pair. *)
LEMMA FlagWrites ==
  ASSUME TypeOK, [Next]_vars
  PROVE  \/ flags' = flags
         \/ \E f \in Flag, b \in BOOLEAN : flags' = Apply(flags, f, b)
         \/ FileEnds /\ flags' = staged
         \/ flags' = ForceJson(flags)
<1>1. ASSUME i \in Nat, ~(i > Len(FlagOrder)) PROVE FlagOrder[i] \in Flag
  <2>1. i \in 1..6
    BY <1>1, FlagOrderType DEF TypeOK
  <2> QED BY <2>1, FlagOrderType
<1>2. CASE LoadEnv
  <2>1. CASE i > Len(FlagOrder)
    BY <1>2, <2>1 DEF LoadEnv
  <2>2. CASE ~(i > Len(FlagOrder))
    <3>1. FlagOrder[i] \in Flag
      BY <1>1, <2>2 DEF TypeOK
    <3>2. flags' = flags \/ flags' = Apply(flags, FlagOrder[i], TRUE)
      BY <1>2, <2>2 DEF LoadEnv
    <3> QED BY <3>1, <3>2
  <2> QED BY <2>1, <2>2
<1>3. CASE ApplyRequest
  <2>1. CASE i > Len(FlagOrder)
    BY <1>3, <2>1 DEF ApplyRequest
  <2>2. CASE ~(i > Len(FlagOrder))
    <3>1. FlagOrder[i] \in Flag
      BY <1>1, <2>2 DEF TypeOK
    <3>2. values[FlagOrder[i]] \in BOOLEAN
      BY <3>1 DEF TypeOK
    <3>3. flags' = flags \/ flags' = Apply(flags, FlagOrder[i], values[FlagOrder[i]])
      BY <1>3, <2>2 DEF ApplyRequest
    <3> QED BY <3>1, <3>2, <3>3
  <2> QED BY <2>1, <2>2
<1>4. CASE ArgFlag
  BY <1>4 DEF ArgFlag
<1>5. CASE OutputDefault
  <2>1. "json" \in Flag
    BY DEF Flag
  <2>2. flags' = flags \/ flags' = Apply(flags, "json", TRUE)
    BY <1>5 DEF OutputDefault
  <2> QED BY <2>1, <2>2
<1>6. CASE FileEnds \/ RunHeadless \/ RestoreJson
  BY <1>6 DEF FileEnds, RunHeadless, RestoreJson
<1>7. CASE ScanExits \/ ScanArgs \/ CopyFails \/ NoFile \/ FileUnreadable \/ FileOpens
           \/ FileEntry \/ FileMalformed
  BY <1>7 DEF ScanExits, ScanArgs, CopyFails, NoFile, FileUnreadable, FileOpens, FileEntry,
              FileMalformed
<1>8. CASE ArgsWithoutCommand \/ ArgsCommand \/ CommandArgument \/ ArgumentsEnd
           \/ RunTui \/ RunCommand \/ ReadRequest
  BY <1>8 DEF ArgsWithoutCommand, ArgsCommand, CommandArgument, ArgumentsEnd, RunTui,
              RunCommand, ReadRequest
<1>9. CASE RequestFlag \/ RequestArgument \/ RequestCommand \/ RequestMalformed
           \/ RequestEnds \/ ApplyRequestFails \/ Dispatch \/ UNCHANGED vars
  BY <1>9 DEF RequestFlag, RequestArgument, RequestCommand, RequestMalformed,
              RequestEnds, ApplyRequestFails, Dispatch, vars
<1> QED BY <1>2, <1>3, <1>4, <1>5, <1>6, <1>7, <1>8, <1>9 DEF Next, Ended

(* A step writes the copy a file is parsed into in FileOpens and FileEntry. *)
LEMMA StagedWrites ==
  ASSUME TypeOK, [Next]_vars
  PROVE  \/ staged' = staged
         \/ staged' = flags
         \/ \E f \in Flag, b \in BOOLEAN : staged' = Apply(staged, f, b)
<1>1. CASE FileOpens \/ FileEntry
  BY <1>1 DEF FileOpens, FileEntry
<1>2. CASE ScanExits \/ ScanArgs \/ CopyFails \/ NoFile \/ FileUnreadable \/ FileMalformed
           \/ FileEnds \/ LoadEnv \/ ArgFlag \/ ArgsWithoutCommand \/ ArgsCommand
  BY <1>2 DEF ScanExits, ScanArgs, CopyFails, NoFile, FileUnreadable, FileMalformed, FileEnds,
              LoadEnv, ArgFlag, ArgsWithoutCommand, ArgsCommand
<1>3. CASE CommandArgument \/ ArgumentsEnd \/ OutputDefault \/ RunTui \/ RunCommand
           \/ RunHeadless \/ ReadRequest \/ RequestFlag \/ RequestArgument
  BY <1>3 DEF CommandArgument, ArgumentsEnd, OutputDefault, RunTui, RunCommand,
              RunHeadless, ReadRequest, RequestFlag, RequestArgument
<1>4. CASE RequestCommand \/ RequestMalformed \/ RequestEnds \/ ApplyRequestFails
           \/ ApplyRequest \/ RestoreJson \/ Dispatch \/ UNCHANGED vars
  BY <1>4 DEF RequestCommand, RequestMalformed, RequestEnds, ApplyRequestFails,
              ApplyRequest, RestoreJson, Dispatch, vars
<1> QED BY <1>1, <1>2, <1>3, <1>4 DEF Next, Ended

(* A step writes the request's table of values in RequestFlag. *)
LEMMA ValuesWrites ==
  ASSUME TypeOK, [Next]_vars
  PROVE  \/ values' = values
         \/ \E f \in Flag, b \in BOOLEAN : values' = Apply(values, f, b)
<1>1. CASE RequestFlag
  BY <1>1 DEF RequestFlag, RecordFlag
<1>2. CASE ScanExits \/ ScanArgs \/ CopyFails \/ NoFile \/ FileUnreadable \/ FileMalformed
           \/ FileEnds \/ LoadEnv \/ ArgFlag \/ ArgsWithoutCommand \/ ArgsCommand
  BY <1>2 DEF ScanExits, ScanArgs, CopyFails, NoFile, FileUnreadable, FileMalformed, FileEnds,
              LoadEnv, ArgFlag, ArgsWithoutCommand, ArgsCommand, requestvars
<1>3. CASE CommandArgument \/ ArgumentsEnd \/ OutputDefault \/ RunTui \/ RunCommand
           \/ RunHeadless \/ ReadRequest \/ FileOpens \/ FileEntry \/ RequestArgument
  BY <1>3 DEF CommandArgument, ArgumentsEnd, OutputDefault, RunTui, RunCommand,
              RunHeadless, ReadRequest, FileOpens, FileEntry, RequestArgument,
              requestvars
<1>4. CASE RequestCommand \/ RequestMalformed \/ RequestEnds \/ ApplyRequestFails
           \/ ApplyRequest \/ RestoreJson \/ Dispatch \/ UNCHANGED vars
  BY <1>4 DEF RequestCommand, RequestMalformed, RequestEnds, ApplyRequestFails,
              ApplyRequest, RestoreJson, Dispatch, vars, requestvars
<1> QED BY <1>1, <1>2, <1>3, <1>4 DEF Next, Ended

------------------------------------------------------------------------------
(* Every variable keeps its type: no step writes a flag outside the table or
   an argument past the limit. *)
THEOREM TypeCorrect == Spec => []TypeOK
<1> USE MaxArgsAssumption, MaxEntriesAssumption
<1>1. Init => TypeOK
  <2> SUFFICES ASSUME Init PROVE TypeOK
    OBVIOUS
  <2>1. AllOff \in [Flag -> BOOLEAN]
    BY DEF AllOff
  <2>2. 0 \in 0..APP_MAX_COMMAND_ARGS
    OBVIOUS
  <2>3. stage \in Stages /\ i \in Nat \ {0} /\ code \in Codes /\ call \in Call
    BY DEF Init, Stages, Codes
  <2>4. seen \subseteq Flag /\ mentioned \subseteq Flag /\ cli \subseteq Flag
    BY DEF Init
  <2>5. command \in BOOLEAN /\ repeated \in BOOLEAN /\ headless \in BOOLEAN
    BY DEF Init
  <2>6. /\ flags \in [Flag -> BOOLEAN] /\ staged \in [Flag -> BOOLEAN]
        /\ values \in [Flag -> BOOLEAN] /\ replay \in [Flag -> BOOLEAN]
    BY <2>1 DEF Init
  <2>7. nargs \in 0..APP_MAX_COMMAND_ARGS
    BY <2>2 DEF Init
  <2> QED BY <2>3, <2>4, <2>5, <2>6, <2>7 DEF TypeOK
<1>2. TypeOK /\ [Next]_vars => TypeOK'
  <2> SUFFICES ASSUME TypeOK, [Next]_vars PROVE TypeOK'
    OBVIOUS
  <2>0. flags' \in [Flag -> BOOLEAN]
    <3>1. flags \in [Flag -> BOOLEAN] /\ staged \in [Flag -> BOOLEAN]
      BY DEF TypeOK
    <3> QED BY <3>1, FlagWrites, ApplyType, ForceJsonType
  <2> USE DEF TypeOK, Enter, Exit, Stages, Codes
  <2>1. CASE ScanExits
    BY <2>1 DEF ScanExits, requestvars
  <2>2. CASE ScanArgs
    BY <2>2 DEF ScanArgs, requestvars
  <2>3. CASE NoFile
    BY <2>3 DEF NoFile, requestvars
  <2>4. CASE FileUnreadable
    BY <2>4 DEF FileUnreadable, requestvars
  <2>5. CASE FileOpens
    BY <2>5 DEF FileOpens, requestvars
  <2>6. CASE FileEntry
    <3>1. PICK f \in Flag, b \in BOOLEAN : staged' = Apply(staged, f, b)
      BY <2>6 DEF FileEntry
    <3>2. staged' \in [Flag -> BOOLEAN]
      BY <3>1, ApplyType
    <3> QED BY <3>2, <2>6 DEF FileEntry, requestvars
  <2>7. CASE FileMalformed
    BY <2>7 DEF FileMalformed, requestvars
  <2>8. CASE FileEnds
    BY <2>8 DEF FileEnds, requestvars
  <2>9. CASE LoadEnv
    <3>1. stage' \in {stage, "default", "cli"} /\ i' \in {i + 1, 1}
      BY <2>9 DEF LoadEnv
    <3> QED BY <2>0, <3>1, <2>9 DEF LoadEnv, requestvars
  <2>10. CASE ArgFlag
    <3>1. cli' \subseteq Flag
      BY <2>10 DEF ArgFlag
    <3>2. stage' \in Stages /\ i' \in Nat \ {0}
      BY <2>10 DEF ArgFlag
    <3> QED BY <2>0, <3>1, <3>2, <2>10 DEF ArgFlag, requestvars
  <2>11. CASE ArgsWithoutCommand
    BY <2>11 DEF ArgsWithoutCommand, requestvars
  <2>12. CASE ArgsCommand
    BY <2>12 DEF ArgsCommand, requestvars
  <2>13. CASE CommandArgument
    BY <2>13 DEF CommandArgument, requestvars
  <2>14. CASE ArgumentsEnd
    BY <2>14 DEF ArgumentsEnd, requestvars
  <2>15. CASE OutputDefault
    <3>1. stage' = "route" /\ i' = 1
      BY <2>15 DEF OutputDefault
    <3>2. UNCHANGED <<staged, requestvars, command, nargs, code, call, cli>>
      BY <2>15 DEF OutputDefault
    <3> QED BY <2>0, <3>1, <3>2 DEF requestvars
  <2>16. CASE RunTui
    BY <2>16 DEF RunTui, requestvars
  <2>17. CASE RunCommand
    BY <2>17 DEF RunCommand, requestvars
  <2>18. CASE RunHeadless
    BY <2>0, <2>18, ForceJsonType DEF RunHeadless, requestvars
  <2>19. CASE ReadRequest
    BY <2>19 DEF ReadRequest, requestvars
  <2>20. CASE RequestFlag
    <3>1. PICK f \in Flag, b \in BOOLEAN :
            /\ RecordFlag(f, b)
            /\ replay' = Apply(replay, f, b)
            /\ mentioned' = mentioned \cup {f}
            /\ repeated' = (repeated \/ f \in mentioned)
      BY <2>20 DEF RequestFlag
    <3>2. values' \in [Flag -> BOOLEAN] /\ seen' \subseteq Flag
      BY <3>1, ApplyType DEF RecordFlag
    <3>3. replay' \in [Flag -> BOOLEAN] /\ mentioned' \subseteq Flag /\ repeated' \in BOOLEAN
      BY <3>1, ApplyType
    <3> QED BY <3>2, <3>3, <2>20 DEF RequestFlag
  <2>21. CASE RequestArgument
    BY <2>21 DEF RequestArgument, requestvars
  <2>22. CASE RequestCommand
    BY <2>22 DEF RequestCommand, requestvars
  <2>23. CASE RequestMalformed
    BY <2>23 DEF RequestMalformed, requestvars
  <2>24. CASE RequestEnds
    BY <2>24 DEF RequestEnds, requestvars
  <2>25. CASE ApplyRequestFails
    BY <2>25 DEF ApplyRequestFails, requestvars
  <2>26. CASE ApplyRequest
    <3>1. stage' \in Stages /\ i' \in Nat \ {0}
      BY <2>26 DEF ApplyRequest
    <3> QED BY <2>0, <3>1, <2>26 DEF ApplyRequest, requestvars
  <2>27. CASE RestoreJson
    BY <2>27, ForceJsonType DEF RestoreJson, requestvars
  <2>28. CASE Dispatch
    BY <2>28 DEF Dispatch, requestvars
  <2>29. CASE CopyFails
    BY <2>29 DEF CopyFails, requestvars
  <2>30. CASE UNCHANGED vars
    BY <2>30 DEF vars, requestvars
  <2> QED BY <2>1, <2>2, <2>3, <2>4, <2>5, <2>6, <2>7, <2>8, <2>9, <2>10, <2>11,
             <2>12, <2>13, <2>14, <2>15, <2>16, <2>17, <2>18, <2>19, <2>20, <2>21,
             <2>22, <2>23, <2>24, <2>25, <2>26, <2>27, <2>28, <2>29, <2>30
          DEF Next, Ended
<1> QED BY <1>1, <1>2, PTL DEF Spec

(* Flags that exclude each other are never on together, whatever files, the
   environment, the arguments and a request say and in whichever order. *)
THEOREM Exclusions == Spec => []ExclusionsHold
<1>1. Init => ExclusionsHold
  <2> SUFFICES ASSUME Init PROVE ExclusionsHold
    OBVIOUS
  <2>1. \A f \in Flag : ~AllOff[f]
    BY DEF AllOff
  <2>2. Exclusive(AllOff)
    BY <2>1 DEF Exclusive
  <2> QED BY <2>2 DEF Init, ExclusionsHold
<1>2. TypeOK /\ ExclusionsHold /\ [Next]_vars => ExclusionsHold'
  <2> SUFFICES ASSUME TypeOK, ExclusionsHold, [Next]_vars PROVE ExclusionsHold'
    OBVIOUS
  <2>1. /\ flags \in [Flag -> BOOLEAN] /\ Exclusive(flags)
        /\ staged \in [Flag -> BOOLEAN] /\ Exclusive(staged)
        /\ values \in [Flag -> BOOLEAN] /\ Exclusive(values)
    BY DEF TypeOK, ExclusionsHold
  <2>2. Exclusive(flags')
    BY <2>1, FlagWrites, ApplyKeepsExclusive, ForceJsonType
  <2>3. Exclusive(staged')
    BY <2>1, StagedWrites, ApplyKeepsExclusive
  <2>4. Exclusive(values')
    BY <2>1, ValuesWrites, ApplyKeepsExclusive
  <2> QED BY <2>2, <2>3, <2>4 DEF ExclusionsHold, Exclusive
<1> QED BY <1>1, <1>2, TypeCorrect, PTL DEF Spec

------------------------------------------------------------------------------
(* After RunHeadless the program is on the headless path for good: it reaches
   the end through the request's stages only, and what may still fail in the
   application of the request does so before any flag is set. *)
HeadlessStages == {"read", "request", "apply", "applied", "dispatch", "done"}

HeadlessInv ==
  /\ headless => stage \in HeadlessStages
  /\ HeadlessFlagsAreJson
  /\ headless /\ stage = "apply" /\ i = 1 => flags["json"] /\ ~flags["plain"]

(* Once the headless path is chosen, every stage but the application of the
   request, which RestoreJson ends, finds the flags with JSON on and plain text
   off, for any request and any limit of arguments.  This is about the flags;
   the page of a request for --help does not look at them. *)
THEOREM HeadlessFlags == Spec => []HeadlessFlagsAreJson
<1>1. Init => HeadlessInv
  BY DEF Init, HeadlessInv, HeadlessFlagsAreJson
<1>2. TypeOK /\ HeadlessInv /\ [Next]_vars => HeadlessInv'
  <2> SUFFICES ASSUME TypeOK, HeadlessInv, [Next]_vars PROVE HeadlessInv'
    OBVIOUS
  <2> USE DEF HeadlessInv, HeadlessFlagsAreJson, HeadlessStages, Enter, Exit, requestvars
  <2>1. ForceJson(flags)["json"] /\ ~ForceJson(flags)["plain"]
    BY ForceJsonType DEF TypeOK
  <2>2. CASE RunHeadless
    BY <2>1, <2>2 DEF RunHeadless
  <2>3. CASE RestoreJson
    BY <2>1, <2>3 DEF RestoreJson
  <2>4. CASE ApplyRequest
    <3>1. i' # 1 \/ stage' = "applied"
      BY <2>4 DEF ApplyRequest, TypeOK
    <3>2. stage' \in {"apply", "applied"} /\ headless' = headless
      BY <2>4 DEF ApplyRequest
    <3>3. headless' => stage' \in HeadlessStages
      BY <3>2
    <3>4. HeadlessFlagsAreJson'
      BY <3>2
    <3> QED BY <3>1, <3>2, <3>3, <3>4
  <2>5. CASE ApplyRequestFails
    BY <2>5 DEF ApplyRequestFails
  <2>6. CASE RequestEnds
    BY <2>6 DEF RequestEnds
  <2>7. CASE RequestFlag \/ RequestArgument \/ RequestCommand \/ RequestMalformed
             \/ ReadRequest \/ Dispatch
    BY <2>7 DEF RequestFlag, RequestArgument, RequestCommand, RequestMalformed,
                ReadRequest, Dispatch
  <2>8. CASE ScanExits \/ ScanArgs \/ CopyFails \/ NoFile \/ FileUnreadable \/ FileOpens
             \/ FileEntry \/ FileMalformed \/ FileEnds \/ LoadEnv
    <3>1. stage \notin HeadlessStages
      BY <2>8 DEF ScanExits, ScanArgs, CopyFails, NoFile, FileUnreadable, FileOpens, FileEntry,
                  FileMalformed, FileEnds, LoadEnv
    <3>2. headless' = headless
      BY <2>8 DEF ScanExits, ScanArgs, CopyFails, NoFile, FileUnreadable, FileOpens, FileEntry,
                  FileMalformed, FileEnds, LoadEnv
    <3> QED BY <3>1, <3>2
  <2>9. CASE ArgFlag \/ ArgsWithoutCommand \/ ArgsCommand \/ CommandArgument
             \/ ArgumentsEnd \/ OutputDefault \/ RunTui \/ RunCommand
    <3>1. stage \notin HeadlessStages
      BY <2>9 DEF ArgFlag, ArgsWithoutCommand, ArgsCommand, CommandArgument,
                  ArgumentsEnd, OutputDefault, RunTui, RunCommand
    <3>2. headless' = headless
      BY <2>9 DEF ArgFlag, ArgsWithoutCommand, ArgsCommand, CommandArgument,
                  ArgumentsEnd, OutputDefault, RunTui, RunCommand
    <3> QED BY <3>1, <3>2
  <2>10. CASE UNCHANGED vars
    BY <2>10 DEF vars
  <2> QED BY <2>2, <2>3, <2>4, <2>5, <2>6, <2>7, <2>8, <2>9, <2>10 DEF Next, Ended
<1>3. HeadlessInv => HeadlessFlagsAreJson
  BY DEF HeadlessInv
<1> QED BY <1>1, <1>2, <1>3, TypeCorrect, PTL DEF Spec

------------------------------------------------------------------------------
(* The flags of the environment that were gone through so far are on; those of
   the arguments are, and exclude each other no more than any. *)
EnvDone == \A k \in 1..6 : k < i /\ FlagOrder[k] \in call.env => flags[FlagOrder[k]]
CliHolds ==
  /\ \A f \in cli : flags[f] /\ Excludes(f) \cap cli = {}
  /\ \A f \in call.env : flags[f] \/ Excludes(f) \cap cli # {}

LayersInv ==
  /\ stage \in {"scan", "file", "entries", "env"} => cli = {}
  /\ stage = "env" => EnvDone
  /\ stage \in {"cli", "arguments", "default", "route", "tui"} => CliHolds
  /\ stage = "route" /\ ~call.stdout_tty => flags["json"] \/ flags["plain"]
  /\ stage = "tui" => ~flags["json"] /\ Interactive


(* A flag that is set leaves those on that it does not exclude. *)
LEMMA ApplyLeaves ==
  ASSUME NEW v \in [Flag -> BOOLEAN], NEW f \in Flag, NEW g \in Flag
  PROVE  /\ Apply(v, f, TRUE)[f]
         /\ v[g] /\ g \notin Excludes(f) => Apply(v, f, TRUE)[g]
         /\ g # f /\ ~v[g] => ~Apply(v, f, TRUE)[g]
  BY ApplyAt

(* Flags exclude each other within a group: whoever two of a third's excluded
   flags are, they are one or exclude each other. *)
LEMMA ExcludesWithin ==
  ASSUME NEW f \in Flag, NEW g \in Flag, NEW h \in Flag,
         h \in Excludes(f), h \in Excludes(g), f # g
  PROVE  f \in Excludes(g)
  BY DEF Excludes, Verbosity, Output

(* An argument's flag is on from then on, in place of those it excludes. *)
LEMMA ArgKeepsCli ==
  ASSUME TypeOK, CliHolds, NEW f \in Flag,
         flags' = Apply(flags, f, TRUE), cli' = (cli \ Excludes(f)) \cup {f}, call' = call
  PROVE  CliHolds'
<1>1. flags \in [Flag -> BOOLEAN] /\ cli \subseteq Flag /\ call.env \subseteq Flag
  BY DEF TypeOK, Call, EnvFlag, Flag
<1>2. ASSUME NEW g \in cli' PROVE flags'[g] /\ Excludes(g) \cap cli' = {}
  <2>1. g \in Flag /\ g \notin Excludes(f)
    BY <1>1, <1>2, ExcludesSymmetric
  <2>2. flags'[g]
    <3>1. CASE g = f
      BY <3>1, <1>1, ApplyLeaves
    <3>2. CASE g # f
      BY <3>2, <1>1, <1>2, <2>1, ApplyLeaves DEF CliHolds
    <3> QED BY <3>1, <3>2
  <2>3. ASSUME NEW h \in Excludes(g) \cap cli' PROVE FALSE
    <3>1. h \in Flag /\ g \in Excludes(h) /\ h # g
      BY <2>1, <2>3, ExcludesSymmetric
    <3>2. CASE g = f
      BY <2>3, <3>1, <3>2
    <3>3. CASE h = f
      BY <2>1, <3>1, <3>3
    <3>4. CASE g \in cli /\ h \in cli
      BY <2>3, <3>4 DEF CliHolds
    <3> QED BY <1>2, <2>3, <3>2, <3>3, <3>4
  <2> QED BY <2>2, <2>3
<1>3. ASSUME NEW g \in call.env PROVE flags'[g] \/ Excludes(g) \cap cli' # {}
  <2>1. g \in Flag
    BY <1>1
  <2>2. CASE g = f
    BY <2>2, <1>1, ApplyLeaves
  <2>3. CASE g \in Excludes(f)
    BY <2>1, <2>3, ExcludesSymmetric
  <2>4. CASE g # f /\ g \notin Excludes(f) /\ flags[g]
    BY <2>1, <2>4, <1>1, ApplyLeaves
  <2>5. CASE g # f /\ g \notin Excludes(f) /\ ~flags[g]
    <3>1. PICK h \in Excludes(g) \cap cli : TRUE
      BY <1>3, <2>5 DEF CliHolds
    <3>2. h \in Flag
      BY <1>1, <3>1
    <3>3. h \notin Excludes(f)
      BY <2>1, <2>5, <3>1, <3>2, ExcludesWithin
    <3> QED BY <3>1, <3>3
  <2> QED BY <2>2, <2>3, <2>4, <2>5
<1> QED BY <1>2, <1>3 DEF CliHolds

(* One more variable of the environment. *)
LEMMA EnvKeepsDone ==
  ASSUME TypeOK, EnvDone, i \in 1..6, i' = i + 1, call' = call,
         flags' = IF FlagOrder[i] \in call.env THEN Apply(flags, FlagOrder[i], TRUE) ELSE flags
  PROVE  EnvDone'
<1>1. flags \in [Flag -> BOOLEAN] /\ call.env \subseteq {"debug", "no_color"}
  BY DEF TypeOK, Call, EnvFlag
<1>2. \A k \in 1..6 : FlagOrder[k] \in Flag
  BY FlagOrderType
<1>3. \A f, g \in {"debug", "no_color"} : g \notin Excludes(f)
  BY DEF Excludes, Verbosity, Output
<1> SUFFICES ASSUME NEW k \in 1..6, k < i + 1, FlagOrder[k] \in call.env
             PROVE  flags'[FlagOrder[k]]
  BY DEF EnvDone
<1>4. CASE k = i
  BY <1>1, <1>2, <1>4, ApplyLeaves
<1>5. CASE k < i
  <2>1. flags[FlagOrder[k]]
    BY <1>5 DEF EnvDone
  <2>2. CASE FlagOrder[i] \in call.env
    <3>1. FlagOrder[k] \notin Excludes(FlagOrder[i])
      BY <1>1, <1>3, <2>2
    <3> QED BY <1>1, <1>2, <2>1, <2>2, <3>1, ApplyLeaves
  <2> QED BY <2>1, <2>2
<1>6. k = i \/ k < i
  OBVIOUS
<1> QED BY <1>4, <1>5, <1>6

(* The last variable was gone through, and the arguments are still to come. *)
LEMMA EnvIsDone ==
  ASSUME TypeOK, EnvDone, i > 6, cli = {} PROVE CliHolds
<1>1. call.env \subseteq {"debug", "no_color"}
  BY DEF TypeOK, Call, EnvFlag
<1>2. FlagOrder[1] = "debug" /\ FlagOrder[6] = "no_color"
  BY DEF FlagOrder
<1>3. \A f \in call.env : flags[f]
  <2>1. i \in Nat
    BY DEF TypeOK
  <2>2. 1 \in 1..6 /\ 6 \in 1..6 /\ 1 < i /\ 6 < i
    BY <2>1
  <2> QED BY <1>1, <1>2, <2>2 DEF EnvDone
<1> QED BY <1>3 DEF CliHolds

LEMMA LayersKept ==
  ASSUME TypeOK, ExclusionsHold, LayersInv, [Next]_vars PROVE LayersInv'
<1> DEFINE early == {"scan", "file", "entries", "env"}
           middle == {"cli", "arguments", "default", "route", "tui"}
<1>0. flags \in [Flag -> BOOLEAN] /\ "json" \in Flag /\ "plain" \in Flag /\ call.env \subseteq Flag
  BY DEF TypeOK, Flag, Call, EnvFlag
<1> USE DEF Enter, Exit
(* Steps towards the environment's turn. *)
<1>1. CASE ScanArgs \/ NoFile \/ FileOpens \/ FileEntry \/ FileEnds
  <2>1. stage \in early /\ stage' \in early /\ cli' = cli
    BY <1>1 DEF ScanArgs, NoFile, FileOpens, FileEntry, FileEnds, requestvars
  <2>2. stage' = "env" => i' = 1
    BY <1>1 DEF ScanArgs, NoFile, FileOpens, FileEntry, FileEnds
  <2>3. stage' = "env" => EnvDone'
    BY <2>2 DEF EnvDone
  <2> QED BY <2>1, <2>3 DEF LayersInv
<1>2. CASE LoadEnv
  <2>1. stage = "env" /\ cli = {} /\ EnvDone /\ UNCHANGED <<call, cli>>
    BY <1>2 DEF LoadEnv, LayersInv
  <2>2. CASE i > 6
    <3>1. CliHolds
      BY <2>1, <2>2, EnvIsDone
    <3>2. stage' \in {"cli", "default"} /\ flags' = flags
      BY <1>2, <2>2, FlagOrderType DEF LoadEnv
    <3> QED BY <2>1, <3>1, <3>2 DEF LayersInv, CliHolds
  <2>3. CASE ~(i > 6)
    <3>1. /\ stage' = stage /\ i' = i + 1
          /\ flags' = IF FlagOrder[i] \in call.env THEN Apply(flags, FlagOrder[i], TRUE)
                      ELSE flags
      BY <1>2, <2>3, FlagOrderType DEF LoadEnv
    <3>2. i \in 1..6
      BY <2>3 DEF TypeOK
    <3>3. EnvDone'
      BY <2>1, <3>1, <3>2, EnvKeepsDone
    <3> QED BY <2>1, <3>1, <3>3 DEF LayersInv
  <2> QED BY <2>2, <2>3
<1>3. CASE ArgFlag
  <2>1. stage = "cli" /\ stage' = stage /\ call' = call
    BY <1>3 DEF ArgFlag
  <2>2. PICK f \in Flag : /\ flags' = Apply(flags, f, TRUE)
                          /\ cli' = (cli \ Excludes(f)) \cup {f}
    BY <1>3 DEF ArgFlag
  <2>3. CliHolds'
    BY <2>1, <2>2, ArgKeepsCli DEF LayersInv
  <2> QED BY <2>1, <2>3 DEF LayersInv
<1>4. CASE ArgsWithoutCommand \/ ArgsCommand \/ CommandArgument \/ ArgumentsEnd
  <2>1. /\ stage \in {"cli", "arguments"} /\ stage' \in {"arguments", "default", "done"}
        /\ UNCHANGED <<flags, call, cli>>
    BY <1>4 DEF ArgsWithoutCommand, ArgsCommand, CommandArgument, ArgumentsEnd
  <2> QED BY <2>1 DEF LayersInv, CliHolds
<1>5. CASE OutputDefault
  <2>1. /\ stage = "default" /\ stage' = "route" /\ UNCHANGED <<call, cli>>
        /\ flags' = IF ~call.stdout_tty /\ ~flags["plain"] /\ ~flags["json"]
                      THEN Apply(flags, "json", TRUE) ELSE flags
    BY <1>5 DEF OutputDefault
  <2>2. \A f \in Flag : flags[f] => flags'[f]
    <3>1. SUFFICES ASSUME flags' = Apply(flags, "json", TRUE), ~flags["plain"], NEW f \in Flag,
                          flags[f]
                   PROVE  flags'[f]
      BY <2>1
    <3>2. f \notin Excludes("json")
      BY <3>1 DEF Excludes, Verbosity, Output
    <3> QED BY <1>0, <3>1, <3>2, ApplyLeaves
  <2>3. ~call.stdout_tty => flags'["json"] \/ flags'["plain"]
    BY <1>0, <2>1, ApplyLeaves
  <2>4. CliHolds'
    BY <1>0, <2>1, <2>2 DEF LayersInv, CliHolds, TypeOK
  <2> QED BY <2>1, <2>3, <2>4 DEF LayersInv
<1>6. CASE RunTui
  <2>1. /\ stage = "route" /\ Interactive /\ UNCHANGED <<flags, call, cli>>
        /\ stage' = "done" \/ (stage' = "tui" /\ ~(flags["json"] /\ ~flags["plain"]))
    BY <1>6 DEF RunTui
  <2>2. "plain" \in Excludes("json")
    BY DEF Excludes, Verbosity, Output
  <2>3. flags["json"] => ~flags["plain"]
    BY <1>0, <2>2 DEF ExclusionsHold, Exclusive
  <2> QED BY <2>1, <2>3 DEF LayersInv, CliHolds, Interactive
(* The rest of main, and every exit. *)
<1>7. CASE RunCommand \/ RunHeadless
  <2>1. stage' \in {"dispatch", "read"}
    BY <1>7 DEF RunCommand, RunHeadless
  <2> QED BY <2>1 DEF LayersInv
<1>8. CASE ScanExits \/ CopyFails \/ FileUnreadable \/ FileMalformed
  <2>1. stage' = "done"
    BY <1>8 DEF ScanExits, CopyFails, FileUnreadable, FileMalformed
  <2> QED BY <2>1 DEF LayersInv
<1>9. CASE ReadRequest \/ RequestFlag \/ RequestArgument \/ RequestCommand
           \/ RequestMalformed \/ RequestEnds \/ ApplyRequestFails \/ ApplyRequest
           \/ RestoreJson \/ Dispatch
  <2>1. stage' \in {"read", "request", "apply", "applied", "dispatch", "done"}
    BY <1>9 DEF ReadRequest, RequestFlag, RequestArgument, RequestCommand, RequestMalformed,
                RequestEnds, ApplyRequestFails, ApplyRequest, RestoreJson, Dispatch
  <2> QED BY <2>1 DEF LayersInv
<1>10. CASE UNCHANGED vars
  BY <1>10 DEF vars, LayersInv, CliHolds, EnvDone, Interactive
<1> QED BY <1>1, <1>2, <1>3, <1>4, <1>5, <1>6, <1>7, <1>8, <1>9, <1>10 DEF Next, Ended

LEMMA LayersInvariant == Spec => []LayersInv
<1>1. Init => LayersInv
  BY DEF Init, LayersInv
<1>2. TypeOK /\ ExclusionsHold /\ LayersInv /\ [Next]_vars => LayersInv'
  BY LayersKept
<1> QED BY <1>1, <1>2, TypeCorrect, Exclusions, PTL DEF Spec

(* Arguments over environment over file over defaults, whatever each of them
   says and however often: the flags of the arguments are on when the front-end
   is chosen, and of the environment's those the arguments do not exclude. *)
THEOREM LayersInOrder == Spec => []LayersKeepPrecedence
<1>1. LayersInv => LayersKeepPrecedence
  BY DEF LayersInv, CliHolds, LayersKeepPrecedence
<1> QED BY <1>1, LayersInvariant, PTL

(* app_config_apply_output_defaults leaves one of JSON and plain text on for a
   redirected stdout, never both and never against --plain; and app_run_tui is
   not reached under JSON. *)
THEOREM OutputDecided == Spec => []OutputIsDecided
<1>1. TypeOK /\ ExclusionsHold /\ LayersInv => OutputIsDecided
  <2> SUFFICES ASSUME TypeOK, ExclusionsHold, LayersInv PROVE OutputIsDecided
    OBVIOUS
  <2>1. "json" \in Flag /\ "plain" \in Flag /\ "plain" \in Excludes("json")
    BY DEF Flag, Excludes, Verbosity, Output
  <2>2. flags["json"] \in BOOLEAN /\ flags["plain"] \in BOOLEAN
    BY <2>1 DEF TypeOK
  <2>3. flags["json"] => ~flags["plain"]
    BY <2>1 DEF ExclusionsHold, Exclusive
  <2>4. stage = "route" /\ ~call.stdout_tty => flags["json"] # flags["plain"]
    BY <2>2, <2>3 DEF LayersInv
  <2>5. stage = "route" => ("plain" \in cli => ~flags["json"])
    BY <2>3 DEF LayersInv, CliHolds
  <2>6. stage = "tui" => ~flags["json"] /\ Interactive
    BY DEF LayersInv
  <2> QED BY <2>4, <2>5, <2>6 DEF OutputIsDecided
<1> QED BY <1>1, LayersInvariant, TypeCorrect, Exclusions, PTL

------------------------------------------------------------------------------
(* What setting the request's flags in their order made of the configuration,
   told from what is recorded of them. *)
Recorded(g) ==
  IF g \in seen THEN values[g]
  ELSE flags[g] /\ ~\E h \in seen : values[h] /\ g \in Excludes(h)

RequestInv ==
  /\ stage \in Stages \ {"request", "apply", "applied", "dispatch", "done"}
       => seen = {} /\ mentioned = {}
  /\ stage = "read" => replay = flags
  /\ stage \in {"request", "apply", "applied"} /\ ~repeated =>
       seen \subseteq mentioned /\ \A g \in Flag : replay[g] = Recorded(g)
  /\ stage = "apply" =>
       \A k \in 1..6 : k < i /\ FlagOrder[k] \in seen
                         => flags[FlagOrder[k]] = values[FlagOrder[k]]
  /\ stage = "applied" => \A f \in seen : flags[f] = values[f]

(* A request's entry is recorded as it would have been set, unless its flag was
   mentioned before. *)
LEMMA RecordedAsSet ==
  ASSUME TypeOK, NEW f \in Flag, NEW b \in BOOLEAN, f \notin seen,
         RecordFlag(f, b), replay' = Apply(replay, f, b), flags' = flags,
         \A g \in Flag : replay[g] = Recorded(g),
         NEW g \in Flag
  PROVE  replay'[g] = Recorded(g)'
<1>0. /\ flags \in [Flag -> BOOLEAN] /\ values \in [Flag -> BOOLEAN]
      /\ replay \in [Flag -> BOOLEAN] /\ seen \subseteq Flag
  BY DEF TypeOK
<1>1. /\ replay'[g] = IF g = f THEN b ELSE replay[g] /\ ~(b /\ g \in Excludes(f))
      /\ \A h \in Flag : values'[h] = IF h = f THEN b ELSE values[h] /\ ~(b /\ h \in Excludes(f))
  BY <1>0, ApplyAt DEF RecordFlag
<1>2. seen' = IF b THEN (seen \cup {f}) \ Excludes(f) ELSE seen \cup {f}
  BY DEF RecordFlag
<1>3. f \notin Excludes(f)
  BY ExcludesSymmetric
<1>4. Recorded(g)' = IF g \in seen' THEN values'[g]
                     ELSE flags[g] /\ ~\E h \in seen' : values'[h] /\ g \in Excludes(h)
  BY DEF Recorded
<1>5. replay[g] = IF g \in seen THEN values[g]
                  ELSE flags[g] /\ ~\E h \in seen : values[h] /\ g \in Excludes(h)
  BY DEF Recorded
<1>6. CASE g = f
  BY <1>1, <1>2, <1>3, <1>4, <1>6
<1>7. CASE b /\ g \in Excludes(f)
  <2>1. g # f /\ f \in seen' /\ values'[f]
    BY <1>1, <1>2, <1>3, <1>7
  <2>2. ~replay'[g] /\ g \notin seen'
    BY <1>1, <1>2, <2>1, <1>7
  <2>3. replay'[g] \in BOOLEAN
    BY <1>0, <1>1
  <2> QED BY <1>4, <1>7, <2>1, <2>2, <2>3
<1>8. CASE g # f /\ ~(b /\ g \in Excludes(f))
  <2>1. replay'[g] = replay[g] /\ values'[g] = values[g] /\ (g \in seen' <=> g \in seen)
    BY <1>0, <1>1, <1>2, <1>8
  <2>2. ASSUME NEW h \in Flag, g \in Excludes(h)
        PROVE  h \in seen' /\ values'[h] <=> h \in seen /\ values[h]
    <3>1. CASE h = f
      BY <1>1, <1>8, <2>2, <3>1
    <3>2. CASE h # f /\ b /\ h \in Excludes(f)
      <4>1. g \in Excludes(f)
        <5>1. h \in Excludes(g)
          BY <2>2, ExcludesSymmetric
        <5>2. f \in Excludes(g)
          BY <1>8, <3>2, <5>1, ExcludesWithin
        <5> QED BY <5>2, ExcludesSymmetric
      <4> QED BY <1>8, <3>2, <4>1
    <3>3. CASE h # f /\ ~(b /\ h \in Excludes(f))
      BY <1>0, <1>1, <1>2, <3>3
    <3> QED BY <3>1, <3>2, <3>3
  <2>3. seen' \subseteq Flag
    BY <1>0, <1>2
  <2>4. (\E h \in seen' : values'[h] /\ g \in Excludes(h))
          <=> \E h \in seen : values[h] /\ g \in Excludes(h)
    BY <1>0, <2>2, <2>3
  <2> QED BY <1>4, <1>5, <2>1, <2>4
<1> QED BY <1>6, <1>7, <1>8

(* Where a recorded flag is applied, what the whole record amounts to is not
   changed. *)
LEMMA RecordedKept ==
  ASSUME TypeOK, NEW f \in Flag, f \in seen, flags' = Apply(flags, f, values[f]),
         UNCHANGED <<seen, values>>, NEW g \in Flag
  PROVE  Recorded(g)' = Recorded(g)
<1>0. flags \in [Flag -> BOOLEAN] /\ values \in [Flag -> BOOLEAN]
  BY DEF TypeOK
<1>1. flags'[g] = IF g = f THEN values[f] ELSE flags[g] /\ ~(values[f] /\ g \in Excludes(f))
  BY <1>0, ApplyAt
<1>2. CASE g \in seen
  BY <1>2 DEF Recorded
<1>3. CASE g \notin seen /\ values[f] /\ g \in Excludes(f)
  BY <1>3 DEF Recorded
<1>4. CASE g \notin seen /\ ~(values[f] /\ g \in Excludes(f))
  <2>1. flags'[g] = flags[g]
    BY <1>0, <1>1, <1>4
  <2> QED BY <1>4, <2>1 DEF Recorded
<1> QED BY <1>2, <1>3, <1>4

(* Nor are the flags that were applied before: a recorded flag is off where
   another one excludes it. *)
LEMMA AppliedKept ==
  ASSUME TypeOK, ExclusionsHold, NEW f \in Flag, NEW g \in Flag,
         flags[g] = values[g] \/ g = f, flags' = Apply(flags, f, values[f])
  PROVE  flags'[g] = values[g]
<1>0. flags \in [Flag -> BOOLEAN] /\ values \in [Flag -> BOOLEAN]
  BY DEF TypeOK
<1>1. flags'[g] = IF g = f THEN values[f] ELSE flags[g] /\ ~(values[f] /\ g \in Excludes(f))
  BY <1>0, ApplyAt
<1>2. values[f] /\ g \in Excludes(f) => ~values[g]
  BY DEF ExclusionsHold, Exclusive
<1> QED BY <1>0, <1>1, <1>2

(* At the end of app_request_apply_to_config the configuration is what the
   record amounts to. *)
LEMMA AppliedIsRecorded ==
  ASSUME TypeOK, ExclusionsHold, \A f \in seen : flags[f] = values[f], NEW g \in Flag
  PROVE  flags[g] = Recorded(g)
<1>0. flags \in [Flag -> BOOLEAN] /\ seen \subseteq Flag
  BY DEF TypeOK
<1>1. CASE g \in seen
  BY <1>1 DEF Recorded
<1>2. CASE g \notin seen
  <2>1. ASSUME NEW h \in seen, values[h], g \in Excludes(h) PROVE ~flags[g]
    BY <1>0, <2>1 DEF ExclusionsHold, Exclusive
  <2>2. flags[g] \in BOOLEAN
    BY <1>0
  <2> QED BY <1>2, <2>1, <2>2 DEF Recorded
<1> QED BY <1>1, <1>2

LEMMA RequestKept ==
  ASSUME TypeOK, ExclusionsHold, RequestInv, [Next]_vars PROVE RequestInv'
<1>0. \A k \in 1..6 : FlagOrder[k] \in Flag
  BY FlagOrderType
<1> USE DEF Enter, Exit
(* Nothing is recorded before the request is read. *)
<1>1. CASE ScanArgs \/ NoFile \/ FileOpens \/ FileEntry \/ FileEnds \/ LoadEnv \/ ArgFlag
           \/ ArgsWithoutCommand \/ ArgsCommand \/ CommandArgument \/ ArgumentsEnd
           \/ OutputDefault \/ RunTui \/ RunCommand
  <2>1. UNCHANGED <<seen, mentioned>>
    BY <1>1 DEF ScanArgs, NoFile, FileOpens, FileEntry, FileEnds, LoadEnv, ArgFlag,
       ArgsWithoutCommand, ArgsCommand, CommandArgument, ArgumentsEnd, OutputDefault, RunTui,
       RunCommand, requestvars
  <2>2. stage \in {"scan", "file", "entries", "env", "cli", "arguments", "default", "route"}
    BY <1>1 DEF ScanArgs, NoFile, FileOpens, FileEntry, FileEnds, LoadEnv, ArgFlag,
       ArgsWithoutCommand, ArgsCommand, CommandArgument, ArgumentsEnd, OutputDefault, RunTui,
       RunCommand
  <2>3. stage' \notin {"read", "request", "apply", "applied"}
    BY <1>1, <2>2 DEF ScanArgs, NoFile, FileOpens, FileEntry, FileEnds, LoadEnv, ArgFlag,
       ArgsWithoutCommand, ArgsCommand, CommandArgument, ArgumentsEnd, OutputDefault, RunTui,
       RunCommand
  <2>4. seen = {} /\ mentioned = {}
    BY <2>2 DEF RequestInv, Stages
  <2> QED BY <2>1, <2>3, <2>4 DEF RequestInv
<1>2. CASE RunHeadless
  <2>1. /\ stage = "route" /\ stage' = "read" /\ UNCHANGED <<seen, mentioned>>
        /\ replay' = flags'
    BY <1>2 DEF RunHeadless
  <2>2. seen = {} /\ mentioned = {}
    BY <2>1 DEF RequestInv, Stages
  <2> QED BY <2>1, <2>2 DEF RequestInv
<1>3. CASE ReadRequest
  <2>1. /\ stage = "read" /\ stage' \in {"done", "request"}
        /\ UNCHANGED <<flags, seen, mentioned, replay>>
    BY <1>3 DEF ReadRequest, requestvars
  <2>2. seen = {} /\ mentioned = {} /\ replay = flags
    BY <2>1 DEF RequestInv, Stages
  <2>3. \A g \in Flag : replay[g] = Recorded(g)
    <3>1. \A g \in Flag : flags[g] \in BOOLEAN
      BY DEF TypeOK
    <3> QED BY <2>2, <3>1 DEF Recorded
  <2>4. \A g \in Flag : (replay[g] = Recorded(g))'
    BY <2>1, <2>2, <2>3 DEF Recorded
  <2> QED BY <2>1, <2>2, <2>4 DEF RequestInv
<1>4. CASE RequestFlag
  <2>1. stage = "request" /\ stage' = "request" /\ flags' = flags
    BY <1>4 DEF RequestFlag
  <2>2. PICK f \in Flag, b \in BOOLEAN :
          /\ RecordFlag(f, b) /\ replay' = Apply(replay, f, b)
          /\ mentioned' = mentioned \cup {f}
          /\ repeated' = (repeated \/ f \in mentioned)
    BY <1>4 DEF RequestFlag
  <2>3. ASSUME ~repeated'
        PROVE  seen' \subseteq mentioned' /\ \A g \in Flag : (replay[g] = Recorded(g))'
    <3>1. ~repeated /\ f \notin mentioned
      BY <2>2, <2>3
    <3>2. seen \subseteq mentioned /\ \A g \in Flag : replay[g] = Recorded(g)
      BY <2>1, <3>1 DEF RequestInv
    <3>3. \A g \in Flag : (replay[g] = Recorded(g))'
      BY <2>1, <2>2, <3>1, <3>2, RecordedAsSet
    <3>4. seen' \subseteq mentioned'
      BY <2>2, <3>2 DEF RecordFlag
    <3> QED BY <3>3, <3>4
  <2> QED BY <2>1, <2>3 DEF RequestInv, Stages
<1>5. CASE RequestArgument \/ RequestCommand \/ RequestEnds
  <2>1. /\ stage = "request" /\ stage' \in {"request", "apply", "done"}
        /\ UNCHANGED <<flags, seen, values, mentioned, repeated, replay>>
        /\ stage' = "apply" => i' = 1
    BY <1>5 DEF RequestArgument, RequestCommand, RequestEnds, requestvars
  <2>2. \A g \in Flag : (replay[g] = Recorded(g)) => (replay[g] = Recorded(g))'
    BY <2>1 DEF Recorded
  <2> QED BY <2>1, <2>2 DEF RequestInv
<1>6. CASE ApplyRequest
  <2>1. stage = "apply" /\ UNCHANGED <<seen, values, mentioned, repeated, replay>> /\ i \in Nat \ {0}
    BY <1>6 DEF ApplyRequest, requestvars, TypeOK
  <2>2. \A k \in 1..6 : k < i /\ FlagOrder[k] \in seen
                          => flags[FlagOrder[k]] = values[FlagOrder[k]]
    BY <2>1 DEF RequestInv
  <2>3. ~repeated => seen \subseteq mentioned /\ \A g \in Flag : replay[g] = Recorded(g)
    BY <2>1 DEF RequestInv
  <2>4. CASE i > 6
    <3>1. stage' = "applied" /\ flags' = flags
      BY <1>6, <2>4, FlagOrderType DEF ApplyRequest
    <3>2. \A f \in seen : \E k \in 1..6 : f = FlagOrder[k]
      BY DEF TypeOK, Flag, FlagOrder
    <3>3. \A f \in seen : flags[f] = values[f]
      BY <2>1, <2>2, <2>4, <3>2
    <3>4. \A g \in Flag : (replay[g] = Recorded(g)) => (replay[g] = Recorded(g))'
      BY <2>1, <3>1 DEF Recorded
    <3> QED BY <2>1, <2>3, <3>1, <3>3, <3>4 DEF RequestInv
  <2>5. CASE ~(i > 6)
    <3>0. i \in 1..6
      BY <2>1, <2>5
    <3>1. stage' = "apply" /\ i' = i + 1
      BY <1>6, <2>1, <2>5, FlagOrderType DEF ApplyRequest
    <3>2. CASE FlagOrder[i] \in seen
      <4>1. PICK f \in Flag : f = FlagOrder[i]
        BY <1>0, <3>0
      <4>2. flags' = Apply(flags, f, values[f]) /\ f \in seen
        BY <1>6, <2>5, <3>2, <4>1, FlagOrderType DEF ApplyRequest
      <4>3. \A g \in Flag : Recorded(g)' = Recorded(g)
        BY <2>1, <4>2, RecordedKept
      <4>4. ASSUME NEW k \in 1..6, k < i + 1, FlagOrder[k] \in seen
            PROVE  flags'[FlagOrder[k]] = values[FlagOrder[k]]
        <5>1. PICK g \in Flag : g = FlagOrder[k]
          BY <1>0
        <5>2. k < i \/ k = i
          BY <2>1, <4>4
        <5>3. flags[g] = values[g] \/ g = f
          BY <2>2, <4>1, <4>4, <5>1, <5>2
        <5>4. flags'[g] = values[g]
          BY <4>2, <5>3, AppliedKept
        <5> QED BY <5>1, <5>4
      <4>5. \A g \in Flag : (replay[g] = Recorded(g)) => (replay[g] = Recorded(g))'
        BY <2>1, <4>3
      <4> QED BY <2>1, <2>3, <3>1, <4>4, <4>5 DEF RequestInv, Stages
    <3>3. CASE FlagOrder[i] \notin seen
      <4>1. flags' = flags
        BY <1>6, <2>5, <3>3, FlagOrderType DEF ApplyRequest
      <4>2. ASSUME NEW k \in 1..6, k < i + 1, FlagOrder[k] \in seen
            PROVE  flags[FlagOrder[k]] = values[FlagOrder[k]]
        <5>1. k < i \/ k = i
          BY <2>1, <4>2
        <5> QED BY <2>2, <3>3, <4>2, <5>1
      <4>3. \A g \in Flag : (replay[g] = Recorded(g)) => (replay[g] = Recorded(g))'
        BY <2>1, <4>1 DEF Recorded
      <4> QED BY <2>1, <2>3, <3>1, <4>1, <4>2, <4>3 DEF RequestInv, Stages
    <3> QED BY <3>2, <3>3
  <2> QED BY <2>4, <2>5
<1>7. CASE RestoreJson \/ Dispatch \/ RequestMalformed \/ ApplyRequestFails \/ ScanExits
           \/ CopyFails \/ FileUnreadable \/ FileMalformed
  <2>1. stage' \in {"dispatch", "done"}
    BY <1>7 DEF RestoreJson, Dispatch, RequestMalformed, ApplyRequestFails, ScanExits,
       CopyFails, FileUnreadable, FileMalformed
  <2> QED BY <2>1 DEF RequestInv
<1>8. CASE UNCHANGED vars
  BY <1>8 DEF vars, requestvars, RequestInv, Recorded
<1> QED BY <1>1, <1>2, <1>3, <1>4, <1>5, <1>6, <1>7, <1>8 DEF Next, Ended

(* app_request_record_flag and app_request_apply_to_config together set the
   flags as if each had been set where the request mentions it, though they are
   applied in the table's order: for every request that mentions none twice. *)
THEOREM RequestInOrder == Spec => []RequestAppliesInOrder
<1>1. Init => RequestInv
  BY DEF Init, RequestInv
<1>2. TypeOK /\ ExclusionsHold /\ RequestInv /\ [Next]_vars => RequestInv'
  BY RequestKept
<1>3. TypeOK /\ ExclusionsHold /\ RequestInv => RequestAppliesInOrder
  <2> SUFFICES ASSUME TypeOK, ExclusionsHold, RequestInv, stage = "applied", ~repeated
               PROVE  flags = replay
    BY DEF RequestAppliesInOrder
  <2>1. \A g \in Flag : replay[g] = Recorded(g) /\ flags[g] = Recorded(g)
    BY AppliedIsRecorded DEF RequestInv
  <2> QED BY <2>1 DEF TypeOK
<1> QED BY <1>1, <1>2, <1>3, TypeCorrect, Exclusions, PTL DEF Spec
==============================================================================
