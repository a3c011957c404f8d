----------------------------- MODULE MCFrontEnd -----------------------------
(***************************************************************************)
(* CommandLine for TLC: the invocations to go through, a reader of JSON to *)
(* hold the program's documents against, and what is promised of a run as  *)
(* a whole.                                                                *)
(***************************************************************************)
EXTENDS CommandLine

------------------------------------------------------------------------------
(* Invocations *)

QuietEnvironment ==
  [NO_COLOR |-> FALSE, FORCE_COLOR |-> "unset", CLICOLOR_FORCE |-> "unset",
   CLICOLOR |-> "unset", APP_CLI_COLOR |-> "unset", TERM |-> "colours",
   COLORTERM |-> FALSE, APP_CLI_OSC11 |-> "unset", CI |-> FALSE,
   APP_CLI_THEME |-> "unset"]
AllFeatures == {"tui", "cli_style", "terminfo", "git"}
AllTtys == {"stdin", "stdout", "stderr"}
NoRequest == [kind |-> "blank", flags |-> << >>, command |-> << >>, args |-> << >>]

HelloCall ==
  [build |-> AllFeatures, env |-> QuietEnvironment, log |-> "error", file |-> "none",
   stored |-> AllOff, ttys |-> AllTtys, controlling |-> FALSE, globals |-> << >>,
   command |-> hello, args |-> << >>, stdin |-> NoRequest]

Letter == Bare("A")
Globals ==
  {<< >>, <<Long("json")>>, <<Long("plain")>>, <<Short("q")>>, <<Long("json"), Short("q")>>,
   <<Short("d"), Long("json")>>, <<Short("v")>>}
Arguments0 ==
  {<< >>, <<Letter>>, <<Letter, Letter>>, <<Long("deep")>>, <<Long("bogus")>>,
   <<Short("x")>>, <<EndOfOptions>>, <<EndOfOptions, Long("deep")>>,
   <<Long("deep"), EndOfOptions, Letter>>, <<Letter, Long("help")>>,
   <<EndOfOptions, Short("h")>>}
Names == {Commands[k].name : k \in DOMAIN Commands}

(* Every command under every way to ask for a format, on terminals or not. *)
CommandCalls ==
  {[HelloCall EXCEPT !.build = b, !.ttys = t, !.globals = g, !.command = c, !.args = a] :
     b \in {{}, AllFeatures}, t \in {AllTtys, {}, {"stdin", "stderr"}}, g \in Globals,
     c \in Names, a \in Arguments0}

(* Every beginning of the arguments, with a command or without. *)
Options ==
  {Long("help"), Short("h"), Long("version"), Long("json"), Short("d"), Long("config"),
   EndOfOptions, Long("bogus")}
Beginnings == {<< >>} \cup {<<o>> : o \in Options} \cup (Options \X Options)
                \cup ({Short("c")} \X (Options \cup {Letter}))
                \cup ({Long("config")} \X {Letter, Long("json")} \X Options)
Dangling(words) ==
  words # << >> /\ words[Len(words)] \in {Long("config"), Short("c")}
ScanCalls ==
  {[HelloCall EXCEPT !.build = b, !.globals = g, !.command = c, !.file = f,
                     !.stored = [AllOff EXCEPT !.json = (f = "good")], !.log = l] :
     b \in {{}, AllFeatures}, g \in Beginnings, c \in {<< >>, info},
     f \in {"none", "bad", "good"}, l \in {"error", "debug"}}

(* Words an edit or two away from a command's name, and two at the limit. *)
Alphabet == {"e", "l", "x"}
Repeated(letter, n) == [k \in 1..n |-> letter]
Edits(word) ==
  {word} \cup {RemoveAt(word, k) : k \in DOMAIN word}
    \cup {[word EXCEPT ![k] = l] : k \in DOMAIN word, l \in Alphabet}
    \cup {InsertAt(word, k, l) : k \in 1..Len(word)+1, l \in Alphabet}
Misspelled ==
  (UNION {Edits(name) : name \in Names}
     \cup UNION {Edits(word) : word \in Edits(SubSeq(hello, 1, 4))}
     \cup {Repeated("l", 64), Repeated("l", 65), Repeated("l", 1)}) \ (Names \cup {<< >>})
MisspelledCalls ==
  {[HelloCall EXCEPT !.globals = g, !.command = c] :
     g \in {<< >>, <<Long("json")>>}, c \in Misspelled}
    \cup {[HelloCall EXCEPT !.build = {}, !.command = c] : c \in Edits(echo) \ Names}

(* What may stand on stdin of a bare invocation. *)
Requests ==
  {[NoRequest EXCEPT !.kind = k] : k \in {"unreadable", "blank", "malformed"}}
    \cup {[kind |-> "request", flags |-> f, command |-> c, args |-> a] :
            f \in {<< >>, <<<<"json", FALSE>>>>, <<<<"plain", TRUE>>>>, <<<<"quiet", TRUE>>>>,
                   <<<<"debug", TRUE>>>>},
            c \in Names \cup {<<"x">>}, a \in {<< >>, <<Letter>>, <<Long("bogus")>>,
                                              <<Long("deep")>>, <<Long("help")>>}}
BareCalls ==
  {[HelloCall EXCEPT !.command = << >>, !.stdin = r, !.ttys = t,
                     !.stored = [AllOff EXCEPT !.plain = (f = "good")], !.file = f] :
     r \in Requests, t \in {{}, {"stdout", "stderr"}, {"stdin"}, AllTtys},
     f \in {"none", "good"}}

(* What an environment may say of colours, a variable or two at a time. *)
With(env) ==
  {[env EXCEPT !.NO_COLOR = TRUE], [env EXCEPT !.APP_CLI_OSC11 = "0"],
   [env EXCEPT !.APP_CLI_OSC11 = "1"], [env EXCEPT !.CI = TRUE], [env EXCEPT !.COLORTERM = TRUE],
   [env EXCEPT !.APP_CLI_THEME = "light"]}
    \cup {[env EXCEPT !.FORCE_COLOR = v] : v \in {"0", "1"}}
    \cup {[env EXCEPT !.CLICOLOR_FORCE = v] : v \in {"0", "1"}}
    \cup {[env EXCEPT !.CLICOLOR = v] : v \in {"0", "1"}}
    \cup {[env EXCEPT !.APP_CLI_COLOR = v] : v \in {"auto", "never", "16", "other"}}
    \cup {[env EXCEPT !.TERM = v] : v \in {"dumb", "plain", "direct"}}
Environments == UNION {With(env) : env \in With(QuietEnvironment)} \cup {QuietEnvironment}

ColourCalls ==
  {[HelloCall EXCEPT !.env = e, !.build = b, !.ttys = t, !.globals = g,
                     !.command = c, !.args = <<Long("help")>>] :
     e \in Environments, b \in {AllFeatures, {"cli_style"}}, t \in {AllTtys, {"stdin", "stderr"}},
     g \in {<< >>, <<Long("plain")>>, <<Long("no-color")>>}, c \in {hello}}

(* Help at once, with --no-color before it or not, in either build. *)
HelpCalls ==
  {[HelloCall EXCEPT !.env = e, !.build = b, !.ttys = t, !.globals = g, !.command = << >>] :
     e \in Environments, b \in {{}, AllFeatures}, t \in {AllTtys, {"stdout"}},
     g \in {<<Long("help")>>, <<Long("no-color"), Long("help")>>}}

(* As many arguments as there is room for, and one more: on the command line,
   before --help, with a file that is not read, and in a request. *)
Many(n) == [k \in 1..n |-> Letter]
LongCalls ==
  {[HelloCall EXCEPT !.globals = g, !.command = c, !.args = Many(n) \o more, !.file = f] :
     g \in {<< >>, <<Long("json")>>, <<Long("help")>>, <<Long("bogus")>>},
     c \in {echo, hello, <<"x">>}, n \in {99, 100}, more \in {<<Letter>>, <<Long("help")>>},
     f \in {"none", "bad"}}
    \cup {[HelloCall EXCEPT !.command = << >>, !.ttys = t,
                            !.stdin = [kind |-> "request", flags |-> f, command |-> c,
                                       args |-> Many(n)]] :
             t \in {{}, {"stdout"}, AllTtys}, f \in {<< >>, <<<<"quiet", TRUE>>>>},
             c \in {echo, hello}, n \in {100, 101}}

(* Runs that may ask the terminal: a page, an error, the doctor, the TUI. *)
Asking ==
  {[HelloCall EXCEPT !.args = <<Long("help")>>],
   [HelloCall EXCEPT !.globals = <<Long("help")>>, !.ttys = {"stdout"}],
   [HelloCall EXCEPT !.command = <<"x">>],
   [HelloCall EXCEPT !.command = doctor, !.args = <<Long("deep")>>],
   [HelloCall EXCEPT !.command = doctor, !.args = <<Long("deep")>>,
                     !.globals = <<Long("no-color")>>],
   [HelloCall EXCEPT !.command = menu], [HelloCall EXCEPT !.command = << >>]}
AskingCalls ==
  {[c EXCEPT !.controlling = TRUE] : c \in Asking}
    \cup {[c EXCEPT !.controlling = TRUE, !.env = e] :
            c \in Asking, e \in {[QuietEnvironment EXCEPT !.FORCE_COLOR = "0"],
                                 [QuietEnvironment EXCEPT !.NO_COLOR = TRUE],
                                 [QuietEnvironment EXCEPT !.TERM = "dumb"]}}

WellFormed(c) == Dangling(c.globals) => c.command = << >>
MCCalls ==
  {c \in CommandCalls \cup ScanCalls \cup MisspelledCalls \cup BareCalls \cup ColourCalls
           \cup HelpCalls \cup LongCalls \cup AskingCalls : WellFormed(c)}

MCAnswers ==
  {<< >>, <<"ESC ]11;rgb:", "light", "BEL">>, <<"ESC ]11;rgb:", "dark", "ESC", "backslash">>}

------------------------------------------------------------------------------
(* The fairness of the query is all that is needed here. *)
MCSpec == Init /\ [][Next]_vars /\ WF_vars(Ask)

------------------------------------------------------------------------------
(* Reading JSON: the value that begins at a token, and the token behind it,
   0 where there is none. *)
Is(t, k, mark) == k \in DOMAIN t /\ t[k][1] = "mark" /\ t[k][2] = mark
IsText(t, k) == k \in DOMAIN t /\ t[k][1] = "string"
NoValue == [next |-> 0, kind |-> "none", of |-> << >>]

RECURSIVE Value(_, _), Members(_, _), Elements(_, _)
Value(t, k) ==
  IF k \notin DOMAIN t THEN NoValue
  ELSE IF t[k][1] \in {"string", "word"} THEN [next |-> k + 1, kind |-> t[k][1], of |-> t[k][2]]
  ELSE IF Is(t, k, "{") THEN
    IF Is(t, k + 1, "}") THEN [next |-> k + 2, kind |-> "object", of |-> << >>]
    ELSE Members(t, k + 1)
  ELSE IF Is(t, k, "[") THEN
    IF Is(t, k + 1, "]") THEN [next |-> k + 2, kind |-> "array", of |-> << >>]
    ELSE Elements(t, k + 1)
  ELSE NoValue

Members(t, k) ==
  LET first == Value(t, k + 2)
      rest  == Members(t, first.next + 1)
      pair  == <<t[k][2], first>>
  IN IF ~IsText(t, k) \/ ~Is(t, k + 1, ":") \/ first.next = 0 THEN NoValue
     ELSE IF Is(t, first.next, "}")
       THEN [next |-> first.next + 1, kind |-> "object", of |-> <<pair>>]
     ELSE IF ~Is(t, first.next, ",") \/ rest.next = 0 THEN NoValue
     ELSE IF \E m \in DOMAIN rest.of : rest.of[m][1] = pair[1] THEN NoValue
     ELSE [rest EXCEPT !.of = <<pair>> \o @]

Elements(t, k) ==
  LET first == Value(t, k)
      rest  == Elements(t, first.next + 1)
  IN IF first.next = 0 THEN NoValue
     ELSE IF Is(t, first.next, "]")
       THEN [next |-> first.next + 1, kind |-> "array", of |-> <<first>>]
     ELSE IF ~Is(t, first.next, ",") \/ rest.next = 0 THEN NoValue
     ELSE [rest EXCEPT !.of = <<first>> \o @]

Get(object, key) ==
  object.of[CHOOSE m \in DOMAIN object.of : object.of[m][1] = key][2]
List(object, key) ==
  LET array == Get(object, key) IN [k \in DOMAIN array.of |-> array.of[k]]
Said(object, key) == Get(object, key).of
Number1(word) == CHOOSE n \in 0..9 : ToString(n) = word

Contract == Value(OpenCliDocument, 1)
Whole(t, value) == value.kind = "object" /\ value.next = Len(t) + 1
IsDocument(t) ==
  IF t = OpenCliDocument THEN Whole(t, Contract) ELSE Whole(t, Value(t, 1))

(* What is written for people is told by its last token. *)
Of(kind, t) == SelectSeq(t, LAMBDA token : token[1] = kind)
Unlogged == SelectSeq(stderr, LAMBDA token : token[1] # "log")

(* Under JSON, and for every request whatever its flags say, each stream is
   nothing or one JSON document with no key twice, the log and the pages of help
   excepted, also those that a request asks for with "--help" (main.c:180); a
   document on stdout means success, one on stderr failure; the doctor's holds
   each of its checks once.  (docs/CONTRACTS.md:92 and 136, the comments at
   cli/commands.c:349 and main.c:155) *)
OneDocumentPerStream ==
  pc = "done" /\ decided /\ (flags["json"] \/ Headless) =>
    /\ stdout = << >> \/ HelpOnStdout \/ IsDocument(stdout)
    /\ Unlogged = << >> \/ IsDocument(Unlogged)
    /\ stdout # << >> /\ ~HelpOnStdout => code = "SUCCESS"
    /\ Unlogged # << >> => code # "SUCCESS"
    /\ user = "doctor" =>
         LET checks == List(Value(stdout, 1), "checks")
         IN Cardinality({Said(checks[k], "name") : k \in DOMAIN checks}) = 9

------------------------------------------------------------------------------
(* The contract as it is printed, read back. *)
Root == Get(Contract, "command")
ListedCommands == List(Root, "commands")
Entry(name) ==
  ListedCommands[CHOOSE k \in DOMAIN ListedCommands : Said(ListedCommands[k], "name") = name]
ListedOptions == List(Root, "options")
OptionNames == {Said(ListedOptions[k], "name") : k \in DOMAIN ListedOptions}
OptionAliases ==
  UNION {{List(ListedOptions[k], "aliases")[m].of : m \in DOMAIN List(ListedOptions[k], "aliases")} :
           k \in DOMAIN ListedOptions}
Listed(word) ==
  \/ word.dashes = 2 /\ word.word \in OptionNames
  \/ word.dashes = 1 /\ word.word \in OptionAliases
ListedCodes ==
  LET codes == List(Root, "exitCodes") IN [k \in DOMAIN codes |-> Said(codes[k], "code")]
ListedVariables ==
  LET groups == List(Root, "metadata")
      fields == Get(CHOOSE g \in {groups[k] : k \in DOMAIN groups} :
                      Said(g, "name") = "environment", "value")
  IN [k \in DOMAIN fields.of |-> fields.of[k][1]]

(* n positionals are as many as the arguments of a command allow. *)
Takes(entry, n) ==
  LET arguments == List(entry, "arguments")
      minimum(k) == Number1(Said(Get(arguments[k], "arity"), "minimum"))
      maximum(k) == Said(Get(arguments[k], "arity"), "maximum")
      total(f(_)) == FoldLeft(LAMBDA a, b : a + b, 0, [k \in DOMAIN arguments |-> f(k)])
      open == \E k \in DOMAIN arguments : maximum(k) = "null"
  IN n >= total(minimum) /\ (open \/ n <= total(LAMBDA k : Number1(maximum(k))))

(* What a reader of the contract would take for a legal command line. *)
Admits(entry, args) ==
  LET before == {k \in DOMAIN args : \A m \in 1..k : args[m] # EndOfOptions}
      options == {k \in before : args[k].dashes = 2}
      delimiter == IF before = DOMAIN args THEN 0 ELSE 1
      names == {Said(List(entry, "options")[k], "name") : k \in DOMAIN List(entry, "options")}
  IN /\ \A k \in options : args[k].word \in names
     /\ Takes(entry, Len(args) - Cardinality(options) - delimiter)

(* The words before the command, the file and the text of the request are fine:
   it is the command's turn. *)
Read ==
  /\ ImmediateExit(call.globals) = None /\ Scanned.error = None /\ call.file # "bad"
  /\ Headless => Piped("request")

Usage == {"UNKNOWN_OPTION", "MISSING_ARG", "INVALID_ARG"}
Help == Of("help", stdout)[1][2]

(* The program keeps the contract it prints: a command line is refused for its
   arguments exactly if the contract does not admit it, but for one limit the
   contract does not print: more than APP_MAX_COMMAND_ARGS words are out of
   range, for every command and also where the printed maximum is null.  The
   options before the command are those it lists, no run ends with a code it
   does not, and the help texts name the same options, variables and codes.
   (docs/CONTRACTS.md:62-90) *)
ContractIsKept ==
  pc = "done" =>
    /\ code \in {ListedCodes[k] : k \in DOMAIN ListedCodes}
    /\ Read /\ outcome = None => (code = "OUT_OF_RANGE" <=> TooMany(Asked.args))
    /\ Read /\ ~TooMany(Asked.args) /\ Known /\ ~AsksForHelp /\ ~NeedsTerminal
       /\ Command.name # menu =>
         (code \in Usage <=> ~Admits(Entry(Asked.command), Asked.args))
    /\ ~decided /\ code = "UNKNOWN_OPTION" =>
         \E k \in DOMAIN call.globals : ~Listed(call.globals[k])
    /\ decided => \A k \in DOMAIN call.globals :
                    \/ Listed(call.globals[k])
                    \/ k > 1 /\ call.globals[k - 1] \in {Long("config"), Short("c")}
    /\ Of("help", stdout) # << >> =>
         /\ [k \in DOMAIN Help.options |-> Help.options[k].label.long]
              = [k \in DOMAIN ListedOptions |-> Said(ListedOptions[k], "name")]
         /\ Help.environment \in {<< >>, ListedVariables}
         /\ Help.codes \in {<< >>, ListedCodes}

------------------------------------------------------------------------------
(* The words an edit away, by the letters that can matter; whether two words
   are at most n edits apart, n up to 2. *)
Neighbours(word, letters) ==
  {word} \cup {RemoveAt(word, k) : k \in DOMAIN word}
    \cup {[word EXCEPT ![k] = l] : k \in DOMAIN word, l \in letters}
    \cup {InsertAt(word, k, l) : k \in 1..Len(word)+1, l \in letters}
Within(a, b, n) ==
  LET letters == {a[k] : k \in DOMAIN a} \cup {b[k] : k \in DOMAIN b}
  IN CASE n = 0 -> a = b
       [] n = 1 -> b \in Neighbours(a, letters)
       [] n = 2 -> Neighbours(a, letters) \cap Neighbours(b, letters) # {}

ShownNames == {Commands[k].name : k \in {m \in DOMAIN Commands : ~Commands[m].hidden}}
Suggested ==
  IF flags["json"] THEN Of("string", stderr)[4][2][2] ELSE Of("line", stderr)[1][2][2]

(* "Did you mean" names a command that is not hidden, close to what was typed
   by the edits themselves, and none is closer; it is left out only if all are
   too far. *)
SuggestionIsNearest ==
  pc = "done" /\ code = "INVALID_COMMAND" =>
    LET word == Asked.command
        near(n) == {name \in ShownNames : 2 * n < Len(word) /\ Within(word, name, n)}
    IN IF Suggested = << >> THEN near(1) \cup near(2) = {}
       ELSE \E n \in {1, 2} : /\ Suggested \in near(n)
                              /\ \A m \in 1..n-1 : near(m) = {}

------------------------------------------------------------------------------
(* Whatever happens to the query, and whoever runs it, the terminal leaves the
   query's mode again, and a program that ends behind it leaves the terminal as
   it was. *)
TerminalGivenBack ==
  mode = "raw" ~> mode # "raw" /\ (pc = "done" => mode = "canonical")
==============================================================================
