# curspan in TLA+

curspan is a C23 template for command-line programs with a full-screen terminal
mode: an ncurses TUI, a conventional CLI, and a headless mode that reads a JSON
request from stdin and answers in JSON. This directory holds TLA+ modules that
model its core logic, TLC configurations that check them on small instances, and
TLAPS proofs. `PROJECT.json` maps every definition that stands for code to its
lines, and lists the runs, the hazards, the findings and the theorems.

Run a check with `tlc -config X.cfg M`, a proof with `tlapm M.tla`.

## 1. Inventory

| component | state it keeps | operations | hard about it |
|---|---|---|---|
| background stack (`tui/tui.c` 40-91) | the background window, an array of 16, its depth | push, pop, replace, clear | raw pointers to windows others destroy; an array that overflows by forgetting |
| TUI session (`tui.c`, `tui_app.c`, `tui_menu.c`, `tui_progress.c`) | curses mode, signal handlers, the pending signal, a C call stack of screens | init, run, menus, dialogs, progress, cleanup | signals between any two steps, failing allocations, resizes inside nested screens |
| menu model and keys (`tui_menu_model.c`, `tui_menu.c`) | visible rows, selected row, first row, search query | search edits, moves, mnemonics, numbers, mouse, resize | rows renumbered under a selection; two countings of rows; wrapping |
| configuration layers (`core/config.c`, `cli/args.c`, flags of `core/request_json.c`, `main.c`) | six flags, some exclusive, a command and its arguments | load file, environment, arguments, output default, apply request | order of layers against exclusion; early exits half way |
| JSON parsers (`json_scan.c`, `request_json.c`, `config_json.c`) | a cursor | scan, skip, decode | nesting limit, surrogate pairs, two copies of the code |
| bounded input (`io/input.c`) | a growing buffer | read all of stdin | limit and growth |
| output, terminal (`io/output.c`, `io/terminal.c`) | none | messages, JSON writers, JSON strings | one document per stream, commas, bytes that are no UTF-8 |
| command registry, dispatch (`main.c`, `cli/commands*.c`, `cli/args.c`) | constant tables; `main`'s own progress | scan, find, validate, suggest, dispatch | the order of refusals; what `--json` and `--quiet` do to each of them |
| doctor, diagnostics | a list of checks | collect, summarise, try the TUI | a check put into the middle of a full array; the terminal afterwards |
| OpenCLI contract, help, options | constant tables | print | five printers of the same facts |
| CLI styling and probe (`cli/style/`) | the terminal's mode, saved around a query; the answer, once | resolve colours, ask, parse | pieces, late answers, failures half way, who is asked at all |
| styles, themes (`style/`) | constant tables, chosen tier | resolve | fall-backs |
| surfaces (`surface/`) | colour pairs, cells | draw | few pairs, clipping |
| components (`components/`) | none (the spinner has a frame) | render | widths given, widths needed |
| text layout (`ui/`, `cli_layout.c`) | none | wrap, truncate, lay out rows | wide and zero-width characters, words wider than the line, styles across breaks |
| utilities, errors | log level | colour policy, logging | precedence of environment variables, in two copies |
| menu adapter | none | copy a menu | none |
| registry tool (`src/tools/curspan/main.zig`) | the files it has written | closure, list, info, add, check | cycles, half-done copies, two orders of the same tests |

Vendored agent workflows (`.flue`, `.template`), CI, scripts and the tests
themselves are read as evidence of intent, not modelled.

How the parts meet. `main` builds the configuration from its layers and routes to
one of three front-ends. The TUI front-end, `tui_run_app`, is one thread: screens
call menus, menus call nothing, screens call dialogs, and all of them share the
statics of `tui.c`: the background stack and `tui_interrupted_signal`, which the
signal handler writes. A menu owns its model; the loop in `tui_menu.c` feeds it
keys. The command-line front-end and the TUI share one thing that outlives a call:
the terminal. Whoever resolves a theme, a page of help, a styled error or the TUI
itself, may have it asked for its background, which puts it into raw mode, inside
curses or not, and the answer is remembered in statics for the rest of the run.
What makes each part correct is stated as properties in section 3.

## 2. Modules

    ScreenStack          what the background stack promises (abstract)
    BackgroundStack      the array and its four functions
    NestedScreens        screens using it, any nesting depth    -> implements ScreenStack
    NestedScreensProofs  theorems about NestedScreens
    TuiSession           tui_run_app and everything it calls     -> implements NestedScreens
    TuiSessionProofs     theorems about TuiSession
    MenuModel            operators and actions of the menu model
    TuiMenu              the key, mouse and resize loop over MenuModel
    MCTuiMenu            four menus for TLC
    TuiMenuProofs        theorems about MenuModel and TuiMenu
    Flags                the table of flags, and how one is set
    ConfigLayers         from argv, file, environment and request to a front-end
    ConfigLayersProofs   theorems about ConfigLayers
    InputBuffer          the buffer a headless request is read into
    JsonReaders          the config file's and the request's JSON readers
    MCJsonReaders        the documents for TLC, and a grammar to compare with
    InputProofs          theorems about InputBuffer and JsonReaders
    Registry             the registry tool: closure, info, add, check
    MCRegistry           the registries for TLC
    RegistryProofs       theorems about the closure, what add leaves and a passed check
    CommandTable         tables of commands and options, validation, suggestion
    JsonOutput           the JSON writers and the messages of app_output
    Documents            the OpenCLI contract and the report of info
    Doctor               the checks and the doctor's reports
    Help                 the help texts, plain and styled
    TerminalPolicy       when to colour, when to ask the terminal
    QueryConstants       sizes of the background query
    BackgroundQuery      the query of the terminal's background
    MCBackgroundQuery    the answers of a terminal for TLC
    CommandLine          main, from argv to the exit code, over all of these
    CommandLineProofs    theorems about BackgroundQuery and CommandLine
    TextLayout           width, truncation, wrapping, rows of help
    Components           table, list, note, bar, rule, heading, pairs
    JsonStrings          JSON strings byte by byte, written and read
    Rendering            one text drawn by one of the last three
    MCRendering          the texts for TLC
    MCTexts              MCJsonReaders and MCRendering side by side
    RenderingProofs      theorems about JsonStrings, by way of Rendering
    MCFrontEnd           CommandLine for TLC, and its properties

The second half composes as follows: `CommandLine` EXTENDS the tables, documents
and policies, and instantiates `BackgroundQuery` over the terminal's variables, so
that the query's steps interleave with the terminal, the user and `main`.
`Rendering` has a specification of its own. `Flags` is shared by `ConfigLayers` and
`CommandLine`.

**BackgroundStack, NestedScreens, ScreenStack.** `background`, `slot` and `depth`
are the statics; `Push`, `Pop`, `Replace` and `ClearBackground` are the functions.
`NestedScreens` adds what the callers keep: `frames`, the local variable that
holds the frame in every open screen, outermost first, and `live`, the windows
created and not destroyed. A resize that finds no new window leaves `NoWindow` in
the frame, as the code leaves NULL. `deepest` is a history variable.
`ScreenStack` is what a user of the stack may rely on: the innermost screen is
shown, closing shows its encloser, and beyond `Capacity` the shown window may be
none but never a wrong one. The capacity the array really has is
`STACK_MAX + 1`: the first entry pushed is the NULL below the first screen, and
losing that one loses nothing, because popping the empty stack yields NULL too.

**TuiSession.** The thread's control state is `calls`, the calls in progress, each
with the point it has reached (`at`); `ret` is what the last one returned. Every
function of the code that can wait, fail or branch is a group of actions named
after it: `TuiInit*`, `Run*`, `Menu*`, `Dialog*`, `Settings*` (the commands
screen takes the same steps), `Overlay*`, `Prompt*`, `Progress*`. The test
`tui_interrupted()` (`MenuCheck`, `DialogCheck`) and the blocking read (`EnterRead`)
are separate steps, since the handler may run between them. `woken` says that a
signal arrived while the read was blocked; only then does it return ERR
(`ReadInterrupted`). The handler is `SignalArrives`. The two handlers are installed
one after the other (`InstallSigint`, `InstallSigterm`), each of which may fail, and
SIGINT may arrive between them. Any allocation may fail.
The height of the terminal matters through the thresholds of the code: 3 rows
for a window, 4 for a dialog, 7 for the progress box, 8 to recentre a frame, 9
for a menu in a frame of its own.

**MenuModel, TuiMenu.** Rows and items count from 1, the code's from 0. A label is
the sequence of characters a search compares; a mnemonic is the marked one. Each
event of the loop is one action with the repaint that follows it, which scrolls
the selection into view, in the same step (`Continue`). In a search the arrows and
the paging keys do nothing (`SearchArrow`).

**ConfigLayers.** `stage` is where `main` is; each layer is read entry by entry, an
entry being a flag and a value, and may turn out malformed at any entry.
`Apply` is `app_flag_apply` with its exclusions. A config file goes through the
copy `staged`, a request through `seen` and `values`, as in the code. The
history variables `cli` and `replay` record what was asked for.

**InputBuffer.** `app_read_input_from_stdin`. One action per end of the loop's head
(`Refuse`, `GrowFails`, `MakeRoom`) and one for `fread` with what is made of it
(`Read`). The operators `Cramped`, `Doubled`, `Enlarged` and `Request` are the
head's arithmetic. The stream is a number of bytes, `left`; `fread` delivers all
that is asked for, or less at the end of the stream or at an error, which need
not last. `size` is a history variable.

**JsonReaders.** `app_config_parse_json_state` and `app_request_parse_json` are two
copies of one recursive descent that differ in their strings and in what they
expect under a key; `reader` says which one runs. A document is a sequence of
tokens, the cursor `pos` an index into it, and the functions in progress are the
entries of `stack`, each an object or array with the point its loop has reached
(`at`) and the `depth` its function was called with. The request reader's copies
may fail. A string is a token: what the readers tell apart is whether it is
empty, too long for the config reader's keys, has an escape that this reader
rejects, or is one of the keys that mean something.

**Registry.** One command of `main.zig` after the other, over one registry and one
source tree. `addClosure` is modelled call by call: `visiting` is both the code's
list of that name and its recursion, each entry with the place its loop over the
dependencies has reached; `wanted` is the argument of the call about to be made.
`cmdAdd`'s two loops are `unit` and `file`, and a write has two steps, since
`writeFile` truncates: a file is `"absent"`, `"partial"` or `"whole"`. `fail` ends
the process from anywhere (`End`), and so may the user (`Kill`). `checked` is a
history variable.

**CommandTable, Documents, Doctor, Help, JsonOutput, TerminalPolicy.** The constant
tables and pure functions of the front-end. `ValidateInvocation`, `Suggest` with
its two rows of the edit distance, and `ImmediateExit`, `Scan` (in `CommandLine`)
walk over words as the loops of the code do. A stream is a sequence of tokens: a
mark, a string or a word of JSON, a line for people, an entry of the log. The
printers write the commas where the code writes them, so a document can come out
wrong. `Collected`, `Checks` and `ChecksFit` are the doctor's array. A help text is
the sections it lists; both renderers go through the tables. `UseColors` and
`StyleWanted` are the two colour policies, `Profile` what the terminal back ends
make of the second.

**CommandLine.** `call` is the invocation: the build's features, the environment,
the file, which streams are terminals, the words, and what is on stdin. `pc` is
where `main` is; `stdout` and `stderr` are what was written; `code` is the exit
code. Each way through `main` and dispatch is an action, named after its function
where it has one. A page is handed to a renderer (`Render`), which resolves the
theme (`StartPage`) and prints when the answer is there (`Paint`). The TUI opens
(`Initscr`, `InitColors`), may fail (`TuiInitFails`), asks for its colours, and
closes (`CloseTui`); what it does between is `TuiSession`. A command line with more
words than `APP_MAX_COMMAND_ARGS` behind the command ends in `TooManyArguments`, which
writes nothing. `PageStyled` is the theme's answer with `cli_style`, and without it
what `app_use_colors` says for the bold headings of help.

**BackgroundQuery.** `app_cli_term_detect_background` and the round-trip below it,
step by step: `SetRaw` or `SetupFails`, `Write` or `WriteFails`, then slices of
`Poll` and `Read` until a terminator, a full buffer or no time (`GiveUp`), then
`Restore`, which parses and sets the mode back. `remaining` is the timeout as the
loop counts it, `elapsed` as a clock would. The terminal sends its answer in any
pieces, before the timeout or after it (`Arrive`), and the user types (`Type`). An
answer is a sequence of the tokens the parser tells apart.

**TextLayout, Components, JsonStrings, Rendering.** A character is the number of its
columns; blanks, line ends and the begin and end of a style are marks. The operators
are the loops of the code as recursive functions or folds. `Rendering` holds one
`subject` and what is `drawn` of it. `JsonStrings` works on bytes: the writer's
`SequenceLen` and escapes, the reader's `\u` escapes with surrogate pairs. What they
are compared with, `CodePoints` and `Utf16`, is in `Rendering`.

## 3. Runs

Deadlock is checked in all but one: the ended program has a step of its own
(`Ended`, of the buffer `BufferRead`; in `TuiMenu` another menu can be shown, in
`NestedScreens` a screen can always open or close, and in `BackgroundQuery` curses
may change the mode again). In `MCFrontEnd` a run of the program ends, with every
behaviour it has, when `main` returns, so its configuration says `CHECK_DEADLOCK
FALSE`; that a run does come out of the query is `TerminalGivenBack`.

Type invariants and `StackInv` are proved for all constants (section 4) and not
run as well. The menu's is run too, because a type is at stake there, the length of
the search buffer.

**nested_screens** (5 windows, `STACK_MAX` 2). With five windows the nesting goes to
three past the array's size, so both the harmless first overflow and the ones that
forget happen, with resizes and lost windows between. `NoDanglingBackground`: no
pointer of the statics outlives its window. `ScreensSpec`: refinement of
`ScreenStack`. The array's size matters only relative to the depth, so 2 stands for
16; the proofs cover every size.

**session** (4 windows, heights 2, 3, 4, 8 and 24). Four windows are one more than
a main menu, a settings or overlay frame and a dialog need at once (a resize
holds one extra). The heights are one on each side of the thresholds 3, 4, 7 and
8, and 9. Each of the two signals arrives at most once (`delivered`), which
includes one overwriting the other. `EveryWindowHeld`: no exit path leaks or frees
twice. `RepaintsInnermostScreen`: a closing dialog repaints the screen it covered.
`LeavesNothingBehind`: whatever failed, the terminal and handlers are restored and
the statics are as at the start, with one exception: a SIGINT that arrives after its
handler is installed, when SIGTERM's then cannot be, stays recorded (tui.c:222-228 does
not reset it, as :289 does). `ExitCodeIsEarned`: success only after a
confirmed exit, a signal's code only after that signal. `FollowsScreenDiscipline`:
each step is a step of `NestedScreens` or none, so its theorems apply here, where
the program's own nesting (at most a main, an inner screen and an overlay, below
16) never overflows. `SeenSignalEndsProgram`: a signal that is tested for, or
interrupts a read, ends the program with a failure and no more waiting.
`WaitsOrEnds`: no failure makes the program spin without reading a key.

**session_lost_wakeup** checks `SignalEndsProgram`, which the comments at tui.c:111
and tui.c:120 promise, and finds it violated: see finding 1.

**menu** (four menus, search buffer of 2 characters for the code's 63, viewports of
3 and 4 rows). The menus have a shared mnemonic, rules, disabled items, a letter
that is also a command key, a digit as mnemonic, and one with nothing to choose.
The longest has eight rows, twice a viewport. A query of two characters is the
shortest that can match in the middle of a word and be rubbed out to another one.
`VisibleAreTheWanted` compares the rows with a definition of its own of what the
query asks for. `SelectionOnScreen`: the selection is a row and in the viewport at
every wait. `MovesLandOnChoices`, `KeysReachEveryChoice`,
`MnemonicsReachEveryMatch`: moves skip what cannot be chosen, and repeating a key
reaches everything it should; in a search, where the arrows and the paging keys are
ignored, turning the wheel does, if there is a mouse. `NumbersAreInverse`: the digit on a row is the digit
that selects it. `AnswersWereOnOffer`: what is returned was enabled and listed.

**menu_stale** checks `SelectionOffRules` (tui_menu.h:53): see finding 2.

**config** (2 flags per layer, 2 arguments for the code's 100). Two entries per
layer are enough for one to exclude the other, and for every order of two layers.
`ExclusionsHold`; `LayersKeepPrecedence`: arguments over environment, with what
they exclude, whatever the file said; `OutputIsDecided`: a redirected stdout has
exactly one format and the TUI never starts under JSON; `HeadlessFlagsAreJson`: on the
headless path whoever reads the flags finds JSON on and plain text off, whatever the
request sets (what is then written is a matter of `OneDocumentPerStream`, below);
`RequestAppliesInOrder`: recording the request's flags and applying them in the
table's order equals setting them in the order of the text, if none is repeated.

**input** (a limit of 32, an initial buffer of 8 and chunks of 4 for the code's
524288, 131072 and 8192; inputs of up to 34 bytes). The initial buffer is a quarter
of the limit, as in the code, and a chunk half of it rather than a sixteenth, so
that its edges coincide with those of the doubling too. Any size that `fstat` may
report is tried with any input, whether it fits or not. `BufferHoldsInput`: every
read fits, with a byte for the NUL. `AcceptsWholeInput`: nothing is lost at short
reads and errors. `RefusesNearLimit`: what is refused is within a chunk of the
limit. `ReadEnds`: the loop does.

**input_limit** checks `MaximumPayloadAccepted`, what the log line says of the
limit, and finds it violated: see finding 3.

**texts** (nesting limit 4 for the code's 32, 2 arguments for 100; pages of 8 to 16
columns for 40 to 120, label columns of 3 to 6 for 18 to 42). The documents are
those with up to three members of every kind, values nested to past the limit, and
every document that differs from one with two members by a token put in, left out or
changed: some nineteen thousand. `RecursionBounded`: the limit bounds the calls in
progress, and arguments and flags do not nest. `AcceptsItsGrammar`: a reader accepts
a document if and only if a grammar that knows neither cursor nor stack derives it;
the grammar splits a list at the commas outside all brackets. It is where a skipped
token, a comma before a closing bracket or a limit off by one would show.
Beside the empty document some 26,000 texts, widgets and JSON strings are drawn,
with which it has nothing to do. `LinesFit`: what is drawn stays in its columns, no
line ends early, no style runs over a line's end, and no character with columns is
lost or moved, but for the cells of a table and the label of a bar, which are cut.
Wider than its columns is only what the code means to leave so, and the property
names each case: a word that is wider by itself; the first word of a line behind the
blanks the text begins it with, and a line of blanks (text_layout.c:233); the one
column that is drawn where there is none; the title of a note, which is never cut
(cs_note.c:79), although cs_note.h:30 gives a width in total columns; the label of a
rule without room for a glyph (cs_rule.c:35); a label of help that has a line of its
own; and the first column of a table, which gets what rounding leaves, less than a
column for each, past its `max_width` (cs_table.c:119, cs_table.h:29). The texts are all sequences of
up to four characters of 0, 1 and 2 columns, blanks and line ends, enough for a wide
word between runs of blanks, at widths with room for one and a half words.
`StringsSurvive`: bytes written as JSON and read back are the same, with what is no
UTF-8 replaced, against a definition by place value; `\u` escapes are read as UTF-16
says. The bytes and units are those on either side of every limit in the two
encodings.

**registry** (three components). Every component's dependencies are one of six lists
over the three, among them themselves and each other in both orders, which gives all
chains, diamonds, loops and cycles that three components have; added are an unknown
dependency, a file that two components list, one that is not safe, a name used
twice, and the empty registry. Any of the source files may be missing. The sequence
of commands is not bounded. `DependenciesFirst`: the order of the closure.
`WalkIsExact`: the walk ends with what can be reached, defined without a walk, and
fails only for a cycle or a name that is really at fault. `CheckedRegistryAdds`:
what docs/ARCHITECTURE.md:106 says check validates is enough for every later
command. `InstallsClosure`: whatever stops an add, and whatever is added over the
remains, a component's files are not there without those of its dependencies, and a
successful add leaves its closure whole. It speaks of the files that a component
alone lists: a file of two comes with whichever is first.

**front_end** (some 11,000 invocations). The invocations: every command with every
kind of argument list, under every way to ask for a format, on terminals or not,
with and without the features of the build; every two words before the command, a
config file absent, good or bad; words an edit or two away from a command, and words
of 64 and 65 letters, the edge of the real `APP_SUGGEST_MAX_LEN`; every kind of
request; the environment's variables two at a time; help at once in both builds, with
`--no-color` before it or not; 100 arguments, and 101, on the command line and in a
request; and those runs that may ask a terminal, with one there. For the query the timeout is two slices and a half (5 and
2) for the code's five (100 and 20 ms), so that a last, short slice happens; the
buffer of 5 tokens holds one answer and little else, so that a key makes it too
small; one key may be typed, and the answers are none or a colour with either
terminator, in any pieces, at any time. `MaxChecks` 9, `APP_HELP_MAX_ROWS` 64 and
`APP_MAX_COMMAND_ARGS` 100 are the code's. `OneDocumentPerStream`: under JSON, and for
every request whatever its flags say, each stream is nothing or one document with no
key twice (pages of help and log entries apart), read by a reader of JSON that shares
nothing with the writers; the doctor's has each of its nine checks once.
`ContractIsKept`: what `opencli` prints, read back by that reader, admits exactly the
arguments the program does not refuse, but for the limit of 100, which it does not
print; it lists the options before a command, the exit codes it ends with, and what
both help texts list. `FailuresAreSaid`: no failure is silent, under `--quiet`
neither, and success writes no error; two are silent, a TUI ended by a signal and a
command line of more than 100 arguments. `SuggestionIsNearest`: the suggestion is
compared with the words one and two edits away, made without a table of distances.
`OffMeansOff`: what the environment switches off is off for every text and for the
query, what the settled flags switch off is off for the texts and for the TUI's query,
and where every stream is a terminal the two colour policies agree. Its exceptions are
those of the code: a page that exits at once heeds the environment alone
(args.c:125); without `cli_style` such a page is bold if a colour is forced, on a dumb
terminal too (colors.c:80); and the doctor tries the TUI with its colours.
`TerminalGivenBack`: the query always comes to its end, whatever fails or arrives,
and a program that ends has the terminal in the mode it found.

**osc11_fragments** (timeout 5, slices of 2, a buffer of 7 tokens, up to 3 keys)
checks `FalseOnlyOnTimeoutOrError`, what the header of the query promises: see
finding 4.

### Fairness

`TuiSession` assumes `WF_vars(Program)` and nothing else: the thread is scheduled as
long as it has something to do, and `Program` holds none of the steps that wait for
somebody. Keys, resizes and signals carry no fairness; a user may walk away.
`InputBuffer` assumes `WF_bufferVars(BufferNext)`: a read returns, because whoever writes the
input goes on or closes it. A writer that does neither keeps the program waiting, as
it does any reader of a pipe. `BackgroundQuery` assumes `WF_vars(Step)`: its loop is
the program's own, and `poll()` returns at the end of a slice if nothing arrives.
Nothing is assumed of the terminal or the user. `CommandLine` has weak fairness of
`Program` and of the query; nobody has to leave the TUI, so the program need not
end. The run `front_end` assumes the query's only (`MCSpec`), which is less and
enough for `TerminalGivenBack`. No other module claims liveness.

### Findings

1. *Lost wake-up.* A signal between `tui_interrupted()` (tui_menu.c:654) and
   `wgetch()` (680), or between tui.c:990 and 993, is not acted upon until the next
   key: the read does not return ERR for a signal delivered before it blocks.
2. *Selection on a separator.* Clearing a search keeps the selected row's number
   from the filtered list (tui_menu_model.c:104). In the main menu `/`, `o`, three
   wheel steps down and Escape leave the highlight on a separator.
3. *Inputs refused below the limit.* A request of 516096 to 524287 bytes from a pipe
   is refused as longer than 524287 bytes (input.c:79): the loop wants room for
   another chunk even when the stream has ended.
4. *The query gives up early.* The background query takes a whole slice off its
   timeout whenever `poll()` returns, also when it returned at once with input
   (cli_term_osc11.c:122). An answer that comes in more pieces than there are
   slices is given up, with no timeout and no error, against cli_term_osc11.h:22-25,
   and the rest of it is left to whoever reads the terminal next.

Met while reading, and not claimed by a run: tui_menu_internal.h:54 has the caller
beep when a mnemonic matches a disabled item, while the code skips such an item in
silence (tui_menu_model.c:359), as the test has it (test/unit_tui_menu_tests.c:216);
the footer of a search offers `↑↓:nav` (tui_menu.c:424), but the keys of a search are
read by `menu_handle_key_in_search` (449-467), which ignores arrows and paging; a
SIGINT between the two calls of `sigaction()` stays recorded if the second fails
(tui.c:222-228), for a later session of the same process to find; a request with
`{"debug":false,"quiet":true,"quiet":false}` loses `"debug":false` (a repeated key,
hence the condition of `RequestAppliesInOrder`); a SIGTERM after `y` was pressed in
the exit confirmation is dropped and the program ends with 0; the nesting limit of
32 (config_json.c:152, request_json.c:14) counts a container and the value in it
one level each, so that 16 containers may be open in a value that is skipped and
the 17th is refused (`NestingLimit`).

In the front-end, likewise: more than 100 arguments end the program with
`OUT_OF_RANGE` and no message (config.c:483, args.c:190, main.c:80), although the
contract it prints sets echo no maximum, while a request of as many is refused with a
message; `--no-color --help` may be styled, as a page that exits at once is drawn
without a configuration (args.c:125), and `FORCE_COLOR=1 TERM=dumb myapp --help` is
bold in the build without `cli_style` (help.c:140, colors.c:80); a request whose arguments are `["--help"]` is answered
with a page of help for people, and so are `myapp --json` and `myapp --json cmd
--help` (`OneDocumentPerStream` excepts these pages); the log goes to the stderr
that carries the JSON error, so that `--json --verbose` puts a log line beside the
document (excepted too); `echo -- --help` prints `-- --help`, and `hello -- X`
greets `--`: the handlers do not drop the delimiter dispatch has honoured
(main.c:169); `myapp -- cmd` is refused as an unknown option `--`; `--no-color
doctor --deep` still asks the terminal for its background, as the doctor opens the
TUI without its colour policy (`OffMeansOff` excepts it); the two colour policies
differ on `TERM=dumb` under `FORCE_COLOR=1` and on `--json`, which only the styled
one heeds; a signal that kills the program inside the query leaves the terminal raw,
as no handler is installed; an answer that comes after the query is read as keys,
unless curses drops it on its way out; the title of a note may be wider than the
note, and the columns left over in a table go to its first column, past its
`max_width` (`LinesFit` names both).

## 4. Proofs

What is proved holds for every value of the constants.

**NestedScreensProofs**, from `STACK_MAX \in Nat \ {0}` and
`NoWindow \notin Window`:
`TypeCorrect` (`TypeOK`), `StackInvariant` (`StackInv`), `NoDangling`
(`NoDanglingBackground`), `ImplementsScreenStack` (`ScreensSpec`).
`NoDanglingBackground` is not inductive: to know that a pop yields a live window
one must know which window each entry holds. `StackInv` says so in three parts.
`FramesOwned`: the screens' frames are live and distinct, so that destroying one
leaves the others. `RemembersOrForgets`: entry *i* is the frame of the screen it
was pushed over, or none; the offset is `Len(frames) - depth`, which overflow
increases. `RemembersAll`: while `deepest` is at most `STACK_MAX + 1` nothing is
forgotten. Each of open, replace and close preserves it (a lemma each); a resize
with and without a new window share the lemma about `Replace`. Refinement then
follows step by step, `Close` being the step that uses `RemembersAll`.

**TuiSessionProofs**, from `NullAssumption` (`NoWindow` is no window),
`HeightsAssumption` and `NestingAssumption`, `STACK_MAX > 3`: the code's 16 entries
are more than its three nested screens ever push. `WindowsAreHeld`
(`EveryWindowHeld`), `InnermostIsRepainted` (`RepaintsInnermostScreen`),
`SessionFollowsDiscipline` (`FollowsScreenDiscipline`, the refinement of
`NestedScreens`), `SessionTypeCorrect` (`TypeOK`), `NothingIsLeftBehind` (`LeavesNothingBehind`),
`ExitCodesAreEarned` (`ExitCodeIsEarned`). None of them is inductive: whether a
return destroys the right window depends on who called whom. `WindowsInv` says it in
six parts. `CallsInv`: at most three calls, each one that the code makes at that
depth and at a point its function has, all but the innermost waiting for another.
`ExactInv`: the array is the frames below the innermost, the background is the
innermost, and nothing was forgotten. `FramesInv`: the live windows are the frames,
each once. `GoneInv`: a frame is NULL only while the menu that lost it leaves.
`HeldInv`: there are as many frames as calls that own one. `DialogInv`: a dialog is
the innermost call's and no screen's. `TermInv` and `ExitInv` add what is set up at
each point of `tui_run_app`, between the two handlers too, and what each result, code
and pending signal goes back to. The forty-odd actions change the calls and the stack in few ways (`Invoke`,
`Return`, `Goto`; open, close, recentre), which have a lemma each; an action's case
names the ways it takes.

**TuiMenuProofs**, from `SearchCapAssumption`, `MenusAssumption` (a menu is a
non-empty sequence of items, their texts sequences of characters) and
`ViewportsAssumption` (a viewport has at least three rows, `MENU_MIN_ITEM_ROWS`):
`MenuTypeCorrect` (`TypeOK`), `SelectionStaysOnScreen` (`SelectionOnScreen`),
`RowsAreTheWanted` (`VisibleAreTheWanted`), `LabelsAreInverse`
(`NumbersAreInverse`), `SelectionLandsOnChoices` (`MovesLandOnChoices`),
`AnswersAreOnOffer` (`AnswersWereOnOffer`), `MnemonicsGoRound`
(`MnemonicsReachEveryMatch`), `KeysGoRound` (`KeysReachEveryChoice`, so with the wheel alone in a search). The
invariant
`MenuInv` adds `Loop`: the menu has a choice, the rows are those of the query, a
query is only kept during a search, and a list without a choice has its first row
selected, which is why leaving a search keeps the selection in range. Lemmas about
the model's operators come first: the rows that `InOrder` lists are the set's, in
order (`InOrderLists`, by counting, `RanksAreNumbers`); every move lands on a choice
or stays (`StepLands`, `PageLands`, `MnemonicLands`); scrolling shows the selection
(`ScrolledIntoView`); a text contains a word where it is three texts joined
(`ContainsIs`). `StepsAre` then sorts the keys into moves, searches, answers and
resizes. That keys go round is an argument about distance: each press goes to the
row nearest in its direction (`StepIsNearest`, `MnemonicIsNearest`), which is on the
way to all the others (`NearestIsOnTheWay`), and a distance of at most *n* that falls
with every press is gone after *n* (`WalkArrives`).

**ConfigLayersProofs**, from `MaxEntries, APP_MAX_COMMAND_ARGS \in Nat`:
`TypeCorrect` (`TypeOK`), `Exclusions` (`ExclusionsHold`), `HeadlessFlags`
(`HeadlessFlagsAreJson`), `LayersInOrder` (`LayersKeepPrecedence`), `OutputDecided`
(`OutputIsDecided`), `RequestInOrder` (`RequestAppliesInOrder`). Twenty-odd actions
leave the flags alone and few write them; the lemma `FlagWrites` says what every step
can do to `flags`, and `StagedWrites` and `ValuesWrites` likewise for the copies, so
that each theorem looks at the few kinds of write and never at the whole of `Next`.
`Exclusions` needs that `Apply` keeps a set of flags exclusive
(`ApplyKeepsExclusive`), which needs `Excludes` to be symmetric. `HeadlessFlagsAreJson`
holds except while a request is being applied; its strengthening `HeadlessInv` adds
which stages the headless path can be in. `LayersInv` follows the layers through
their stages: the environment's flags set so far are on (`EnvDone`), and from the
arguments on, those of the arguments are, and of the environment's all that they do
not exclude (`CliHolds`); a redirected stdout has been given JSON or plain text
before the front-end is chosen. For `RequestInOrder` the flags that setting the
entries one by one would give (`replay`) have to be told from what the code records,
the flags seen and the value of each: `Recorded` does, and `RequestInv` says the two
agree as long as no flag was mentioned twice.

**InputProofs**, about the buffer from `SizesAssumption`: it starts no larger than the
limit and a chunk is no larger either. `BufferTypes` (`BufferTypeOK`), `BufferBounds`
(`BufferHoldsInput`), `WholeInput` (`AcceptsWholeInput`), `NearLimit`
(`RefusesNearLimit`). The invariant `LoopInv` adds that the bytes read and the bytes
left are the input, that a stream that has ended has none left, and that a refusal
comes at most a chunk from the limit. The arithmetic of the loop's head is in
lemmas about its operators: `EnlargedFits`, `RequestFits`, `TooLargeIsNearLimit`.

About the readers, from `LimitsAssumption` (the limits are naturals) and
`DocumentsAssumption` (documents are sequences of tokens): `TypeCorrect`
(`TypeOK`), `BoundedRecursion` (`RecursionBounded`). The thirteen actions do one of
six things to the stack (`StackStep`, lemma `StackSteps`). `DepthInv` says that the
*k*-th container was called with depth `2k - 3`: it, with the limit checked when a
container is opened, bounds the stack.

**RenderingProofs**, from `SubjectsAreStrings` (texts are sequences of bytes without a
0, as C strings are; units are of 16 bits): `StringsSurviveHolds` (`StringsSurvive`),
for every text and every row of units. That what is drawn is the subject, drawn,
is all the state has to say (`DrawnInv`); the rest is about the operators. A loop over
a text is a function defined from the last position down, and that there is one is
a lemma of its own (`DescentExists`, from the least position at which no part of it
would exist). Facts about such functions go down the same way (`Downwards`). The
first part is UTF-8: the writer's table of leads and ranges accepts exactly the
sequences that are worth a code point by place value (`CharIsFitting`,
`FittingIsChar`, `WorthIs`), none of which begins another (`OneLength`), and what the
reader emits for a code point is the character worth it (`EmittedIsChar`). Then the
two directions. What is written behind a place is read as the code points of what the
text has there (`StepReads`, `WrittenReads`, `WrittenReadsBack`), where a byte that
belongs to no character is written as the escape of the replacement character. And
a row of escapes is read unit by unit, a pair at once, a half without its other half
refused, as `Utf16` says of the rest of the row (`OneUnitReads`, `PairReads`,
`LoneHighReads`, `UnitsRead`, `EscapedReadsBack`).

**RegistryProofs**, from `NamesAssumption` and `RegistriesAssumption` (a registry is
any sequence of components): `TypeCorrect` (`TypeOK`), `ClosureOrder`
(`DependenciesFirst`), `ClosureInstalled` (`InstallsClosure`), `ExactClosure`
(`WalkIsExact`), `CheckIsEnough` (`CheckedRegistryAdds`). The actions do one of
seven things to the walk (`WalkStep`, lemma `WalkSteps`). `WalkInv` says that calls
in progress are distinct and not in the closure yet (`CallsDistinct`) and that every
dependency already handed down is in the closure or is the next call
(`CallsComplete`): when a loop is over the caller may follow its dependencies. For
`ClosureInstalled`, `CopyInv` says that the files add is done with are there, except
one that is being written over, and `OwnInv` strengthens the property to known
dependencies. `PathInv` says that the calls in progress are a path from the root,
each reachable from those before it, so that meeting one of them again is a cycle.
In the other direction no induction is needed: what stands before a place of the
finished closure is closed under dependencies, so nothing in it leads to what comes
later (`NoCycleSeen`).

**CommandLineProofs**, first about the query alone, from the assumptions of
`QueryConstants` (a positive timeout, slice and buffer; answers are sequences, one of
them empty): `QueryTypeCorrect`, `TerminalIsRestored` (`TerminalRestored`),
`QueryIsBounded` (`QueryBounded`), `TerminalIsAskedOnce` (`AskedOnce`), all of
`BackgroundQuery`'s specification, here `Query!Spec`. The invariant `QueryInv` is
their conjunction with `Remembered`: a colour is only remembered by a query that is
over. `SliceFits` says that a slice leaves the sum of the two clocks within the
timeout, `ReadFits` that a read leaves a byte, `ParseIsColour` that the parser
returns a colour, for which the earliest answer in a text has to exist
(`MinimumExists`, by well-foundedness of `<`).

Then about the program around it, for any set of invocations (`CallsAssumption`: each
has a number of words) and any limit on arguments (`ArgumentsAssumption`: a natural). `ImplementsQuery`: every step of the program is one of the
query, one of curses between two queries, or leaves the terminal alone, so the whole
program implements `BackgroundQuery`, and `QueryInProgram` carries its theorems over.
`TerminalLeftAsFound` (`LeftAsFound`) and `NobodyWritesWhileAsking`
(`QuietWhileAsking`): `ModeInv` says which mode a query goes back to, curses' own
inside the TUI, else the one the program was started in (`Home`), and that only two
places of `main` wait for one. Most actions touch neither the terminal nor leave the
TUI (`AloneKeepsMode`).

`FailuresAreReported` (`FailuresAreSaid`) has one hypothesis, `9 <= MaxChecks`: with
a smaller array the doctor would fail silently, as the branch `Report` keeps does.
`SaidInv` says that until the program ends stdout is empty and stderr holds the log
only, and that a page on its way is fit: for stdout without an error, or for stderr
with one that speaks. `ProgramSteps` sorts the actions into those that conclude with
an answer (`Concludes`), those that go on in silence (`GoesOn`), those that take a
page (`TakesPage`) and those that draw it; what each kind does to `SaidInv` is a
lemma. `ScanOutcomes` goes through the words of the command line.

`ColoursAreOff` (`OffMeansOff`): `DecidedInv` says that until the flags are
settled none is on, and `main` is at its start, at its end or at a page of an
immediate exit. `ColourInv` says that only a page drawn under a policy that allows it
(`MayPaint`) holds a style, and that a query on behalf of a page or the TUI is for
somebody who may use its answer. `OffSkipsProbe` and `OffDisables` compare the
three places that decide, which the code spells out in three orders.

*Only model-checked.* Liveness, which is beyond the prover: `SeenSignalEndsProgram`
and `WaitsOrEnds` of the session, `ReadEnds` of the input, `TerminalGivenBack` of the
program. `AcceptsItsGrammar`, whose reference is a recursive grammar.
`OneDocumentPerStream` and `ContractIsKept` read the printed documents back with
recursive readers and compare them with the code's own constant tables: there is one
value of each, and TLC evaluates it. `SuggestionIsNearest` compares the edit distance
with words one edit apart, `LinesFit` a text with what a loop made of it. They would
go the way of `StringsSurvive`, with a table of two indices for the one, and for the
other with a loop whose place in the text and in the line both move.

## 5. Not modelled

*Whole components.* The menu adapter: it copies a structure field by field, and its
one allocation fails as in `TuiSession`.

*Surfaces.* The curses and buffer back ends, with their cells, clipping and colour
pairs: curses' own screen is not the program's. Badge and spinner write a glyph
and a text. Palettes, colour arithmetic and the resolution of a role under a
profile are formulas without state whose results no document pins down.
`action_item.c` holds data.

*In the TUI.* Rendering, colours and columns: a terminal too narrow fails the same
tests as one too low. Widths of characters in labels. Failures to allocate a visible
list inside a menu, which end it as `MenuNoMemory` does. The signals' default action
before `tui_init` installs the handlers and after `tui_cleanup` removes them; so too
in the query.

*In the front-end.* Wording, indentation and the truncation of formatted messages;
failing writes (no writer looks at a stream's error) and failing allocations, which
`ConfigLayers` and `JsonReaders` have; what `hello` and `echo` make of their
arguments; the path of the config file; the format of a log line. The decoding of
UTF-8 to code points in text_layout.c, which does it by itself, and its table of
widths, of which a character's columns are what is left; glyphs and roles; the escape
sequences of styles. The variables that stand in for a terminal in tests:
`APP_CLI_TEST_PROFILE`, `APP_CLI_TEST_WIDTH` and `__FANG_TEST_WIDTH`,
`APP_CLI_TEST_BG` (cli_term.c:131, 145, 147 and 306) and `APP_CLI_TEST_THEME`
(cs_theme.c:15).

*In the readers.* Numbers, and strings that are skipped or belong to the config
file, are one token each. `app_read_input_from_file`, which only the tests call.

*In the registry tool.* `list`, the printing, the options, the registry's JSON, and
`--root` equal to `--dest` (the default), where each file is read whole before it is
written onto itself.

*Unreachable.* `Report`'s `OUT_OF_RANGE`: the array of nine holds the eight checks
and the ninth for every invocation; the branch is kept as the code has it.

## 6. Further work

Theorems: in `CommandLine`, that the flags of a headless run stay under JSON from
`ApplyRequest` to its end; that wrapping and truncating keep `LinesFit` for any text and width, by
a measure of what is left as in `WalkArrives`; that `Shrink` fills a budget exactly;
that the edit distance is the number of edits. Models: the buffer surface with its
clipping, compared with the stream surface on the components of `Components`; the
config file's strings beside the request's; and `CommandLine`'s layers shown to
compute what `ConfigLayers` ends with.
