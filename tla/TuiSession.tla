------------------------------ MODULE TuiSession ------------------------------
(***************************************************************************)
(* One run of the TUI, tui_run_app of src/tui/tui_app.c, with all it calls: *)
(* the terminal's set-up and tear-down, the main menu, the settings and    *)
(* commands screens, the overlay menu, the dialogs and the progress box,   *)
(* while the user types and resizes and signals arrive at any point.       *)
(*                                                                         *)
(* The program is one thread: its control state is the stack of calls in   *)
(* progress, each with the point it has reached.  The signal handler runs  *)
(* between any two steps.  tui_interrupted() and the wgetch() that follows  *)
(* it are two steps, as they are two calls in the code.                    *)
(***************************************************************************)
EXTENDS Integers, Sequences, FiniteSets

CONSTANTS Window, NoWindow, STACK_MAX,
          Heights    \* the heights, in rows, the terminal may take

ASSUME HeightsAssumption == Heights \subseteq Nat /\ Heights # {}
ASSUME NullAssumption == NoWindow \notin Window
ASSUME NestingAssumption == STACK_MAX \in Nat /\ STACK_MAX > 3   \* 16 in the code

VARIABLES background, slot, depth, frames, live, deepest,  \* NestedScreens
          calls,     \* the calls in progress, outermost first
          ret,       \* what the last call returned
          dialog,    \* window of the open dialog or progress box
          rows,      \* height of stdscr as ncurses last reported it
          pending,   \* tui_interrupted_signal
          woken,     \* a signal arrived while wgetch() was blocked
          curses,    \* between initscr() and endwin()
          handlers,  \* the signals tui_signal_handler is installed for
          inited,    \* tui_initialized
          err,       \* tui_run_app's err, what it returns when it does
          delivered, \* history: the signals that have arrived
          yes        \* history: the user answered yes to a confirmation

screenvars == <<background, slot, depth, frames, live, deepest>>
signalvars == <<pending, woken, delivered>>
termvars == <<curses, handlers, inited>>
vars == <<screenvars, signalvars, termvars, calls, ret, dialog, rows, err, yes>>

Screens == INSTANCE NestedScreens

NoSignal == "none"
Signal == {"SIGINT", "SIGTERM"}
Code == {"SUCCESS", "IO", "INTERNAL", "SIGNAL", "OUT_OF_RANGE", "MEMORY",
         "INTERRUPTED", "TERMINATED"}

(* Thresholds of stdscr's height: MENU_ROWS is what tui_menu_layout_compute
   needs of a frame two rows lower than the screen.  A terminal wide enough
   is taken for granted: a narrow one fails the same tests. *)
WINDOW_ROWS == 3
DIALOG_ROWS == 4
PROGRESS_ROWS == 7
RECENTER_ROWS == 8
MENU_ROWS == 9

------------------------------------------------------------------------------
(* Calls.  kind tells one menu or dialog from another, pushed is
   pushed_background of tui_show_menu. *)

Call(fn, kind) == [fn |-> fn, kind |-> kind, at |-> "open", pushed |-> FALSE]
Menu(kind) == Call("menu", kind)
Dialog(kind) == Call("dialog", kind)

Current == calls[Len(calls)]
At(fn, at) == calls # << >> /\ Current.fn = fn /\ Current.at = at

Goto(at) == calls' = [calls EXCEPT ![Len(calls)].at = at]
Invoke(call, at) == calls' = Append([calls EXCEPT ![Len(calls)].at = at], call)
BecomeMessage == calls' = [calls EXCEPT ![Len(calls)] = Dialog("message")]
Return(v) == calls' = SubSeq(calls, 1, Len(calls) - 1) /\ ret' = v

Running == calls # << >>

(* What a menu or dialog returns for a key that ends it. *)
Answers(call) ==
  CASE call.fn = "dialog" /\ call.kind = "confirm" -> {"yes", "no"}
    [] call.fn = "dialog" /\ call.kind = "input"   -> {"text", "failed"}
    [] call.fn = "dialog"                          -> {"done"}
    [] call.kind = "main"     -> {"message", "prompt", "progress", "layout",
                                  "settings", "exit", "menu", "cancelled"}
    [] call.kind = "settings" -> {"message", "back", "cancelled"}
    [] call.kind = "overlay"  -> {"message", "exit", "cancelled"}

(* An interrupted confirmation counts as a yes: a mutant of Default. *)
DefaultYes(kind) == IF kind = "confirm" THEN "yes" ELSE "failed"

(* What a dialog returns that is interrupted or cannot be shown. *)
Default(kind) ==
  CASE kind = "confirm" -> "no" [] kind = "input" -> "failed" [] OTHER -> "done"

OwnsFrame(call) == call.fn = "menu" /\ call.kind = "overlay"

------------------------------------------------------------------------------
(* Windows.  Any allocation may fail. *)

FreeWindow == Window \ (live \cup {dialog})

(* tui_create_centered_window and the tui_push_background after it. *)
OpenFrame == rows >= WINDOW_ROWS /\ \E w \in FreeWindow : Screens!OpenScreen(w)

NewDialog(h, needed) == h >= needed /\ dialog' \in Window \ live

------------------------------------------------------------------------------
(* tui_run_app, tui_init, tui_cleanup *)

Init ==
  /\ Screens!Init
  /\ calls = <<Call("run", "app")>> /\ ret = "none"
  /\ dialog = NoWindow /\ rows \in Heights
  /\ pending = NoSignal /\ woken = FALSE /\ delivered = {}
  /\ curses = FALSE /\ handlers = {} /\ inited = FALSE
  /\ err = "SUCCESS" /\ yes = FALSE

Finish(code) == calls' = << >> /\ err' = code

TuiInitRefused ==
  /\ At("run", "open")
  /\ Finish("IO") \/ Finish("INTERNAL")
  /\ UNCHANGED <<screenvars, signalvars, termvars, ret, dialog, rows, yes>>

TuiInitCurses ==
  /\ At("run", "open")
  /\ curses' = TRUE /\ Goto("sigint")
  /\ UNCHANGED <<screenvars, signalvars, handlers, inited, ret, dialog, rows,
                 err, yes>>

(* tui_install_signal_handlers: one sigaction() for each signal, and either
   may fail.  The first handler may run before the second is there. *)
InstallSigint ==
  /\ At("run", "sigint")
  /\ handlers' = {"SIGINT"} /\ Goto("sigterm")
  /\ UNCHANGED <<screenvars, signalvars, curses, inited, ret, dialog, rows,
                 err, yes>>

InstallSigintFails ==
  /\ At("run", "sigint")
  /\ curses' = FALSE /\ Finish("SIGNAL")
  /\ UNCHANGED <<screenvars, signalvars, handlers, inited, ret, dialog, rows,
                 yes>>

InstallSigterm ==
  /\ At("run", "sigterm")
  /\ handlers' = Signal /\ Goto("modes")
  /\ UNCHANGED <<screenvars, signalvars, curses, inited, ret, dialog, rows,
                 err, yes>>

(* SIGINT's handler is taken back; what it has recorded stays. *)
InstallSigtermFails ==
  /\ At("run", "sigterm")
  /\ curses' = FALSE /\ handlers' = {} /\ Finish("SIGNAL")
  /\ UNCHANGED <<screenvars, signalvars, inited, ret, dialog, rows, yes>>

TuiInitModes ==
  /\ At("run", "modes")
  /\ inited' = TRUE /\ Goto("frame")
  /\ UNCHANGED <<screenvars, signalvars, curses, handlers, ret, dialog, rows,
                 err, yes>>

TuiInitModesFail ==
  /\ At("run", "modes")
  /\ curses' = FALSE /\ handlers' = {} /\ pending' = NoSignal
  /\ Finish("INTERNAL")
  /\ UNCHANGED <<screenvars, woken, delivered, inited, ret, dialog, rows, yes>>

(* tui_cleanup; the frames themselves are the callers' to destroy. *)
TuiCleanup ==
  /\ curses' = FALSE /\ handlers' = {} /\ inited' = FALSE
  /\ pending' = NoSignal
  /\ Screens!ClearBackground
  /\ UNCHANGED <<frames, live, deepest, woken, delivered>>

RunOpen ==
  /\ At("run", "frame")
  /\ OpenFrame /\ Goto("loop")
  /\ UNCHANGED <<signalvars, termvars, ret, dialog, rows, err, yes>>

RunOpenFails ==
  /\ At("run", "frame")
  /\ TuiCleanup /\ Finish("OUT_OF_RANGE")
  /\ UNCHANGED <<ret, dialog, rows, yes>>

RunLoop ==
  /\ At("run", "loop")
  /\ Invoke(Menu("main"), "status")
  /\ UNCHANGED <<screenvars, signalvars, termvars, ret, dialog, rows, err, yes>>

RunDispatch ==
  /\ At("run", "status")
  /\ \/ /\ ret \in {"exit", "cancelled"}
        /\ Invoke(Dialog("confirm"), "confirmed")
     \/ /\ ret \in {"message", "layout"}
        /\ Invoke(Dialog(ret), "loop")
     \/ /\ ret \in {"prompt", "progress", "settings"}
        /\ Invoke(Call(ret, ret), "loop")
     \/ /\ ret = "menu"
        /\ Invoke(Call("overlay", "overlay"), "overlaid")
  /\ UNCHANGED <<screenvars, signalvars, termvars, ret, dialog, rows, err, yes>>

(* tui_take_interrupt_error's return value. *)
InterruptError(signal) ==
  IF signal = "SIGTERM" THEN "TERMINATED" ELSE "INTERRUPTED"

RunInterrupted ==
  /\ At("run", "status") /\ ret = "interrupted"
  /\ err' = InterruptError(pending) /\ pending' = NoSignal
  /\ Goto("pop")
  /\ UNCHANGED <<screenvars, woken, delivered, termvars, ret, dialog, rows, yes>>

(* A menu that fails is shown again: a mutant of RunMenuFailed. *)
RunMenuRetried ==
  /\ At("run", "status") /\ ret \in {"too_small", "no_memory"}
  /\ Goto("loop")
  /\ UNCHANGED <<screenvars, signalvars, termvars, ret, dialog, rows, err, yes>>

RunMenuFailed ==
  /\ At("run", "status") /\ ret \in {"too_small", "no_memory"}
  /\ err' = IF ret = "too_small" THEN "OUT_OF_RANGE" ELSE "MEMORY"
  /\ Goto("pop")
  /\ UNCHANGED <<screenvars, signalvars, termvars, ret, dialog, rows, yes>>

RunOverlaid ==
  /\ At("run", "overlaid")
  /\ IF ret = "exit" THEN Invoke(Dialog("confirm"), "confirmed") ELSE Goto("loop")
  /\ UNCHANGED <<screenvars, signalvars, termvars, ret, dialog, rows, err, yes>>

RunConfirmed ==
  /\ At("run", "confirmed")
  /\ Goto(IF ret = "yes" THEN "pop" ELSE "loop")
  /\ UNCHANGED <<screenvars, signalvars, termvars, ret, dialog, rows, err, yes>>

(* The frame is left to tui_cleanup: a mutant of RunPop. *)
RunCleanupOnly ==
  /\ At("run", "pop")
  /\ Goto("cleanup")
  /\ UNCHANGED <<screenvars, signalvars, termvars, ret, dialog, rows, err, yes>>

RunPop ==
  /\ At("run", "pop")
  /\ Screens!CloseScreen /\ Goto("cleanup")
  /\ UNCHANGED <<signalvars, termvars, ret, dialog, rows, err, yes>>

RunCleanup ==
  /\ At("run", "cleanup")
  /\ TuiCleanup /\ Finish(err)
  /\ UNCHANGED <<ret, dialog, rows, yes>>

------------------------------------------------------------------------------
(* tui_show_menu.  A menu without a frame of its caller owns one: it is the
   top screen while the menu runs. *)

MenuNoMemory ==
  /\ At("menu", "open")
  /\ Return("no_memory")
  /\ UNCHANGED <<screenvars, signalvars, termvars, dialog, rows, err, yes>>

MenuOpenOwned ==
  /\ At("menu", "open") /\ OwnsFrame(Current)
  /\ OpenFrame
  /\ calls' = [calls EXCEPT ![Len(calls)] =
                 [@ EXCEPT !.at = "check", !.pushed = TRUE]]
  /\ UNCHANGED <<signalvars, termvars, ret, dialog, rows, err, yes>>

MenuOpenCallers ==
  /\ At("menu", "open") /\ ~OwnsFrame(Current)
  /\ rows >= RECENTER_ROWS
  /\ LET push == background # Screens!Top
     IN /\ IF push THEN Screens!Push(Screens!Top) ELSE UNCHANGED screenvars
        /\ calls' = [calls EXCEPT ![Len(calls)] =
                       [@ EXCEPT !.at = "check", !.pushed = push]]
  /\ UNCHANGED <<frames, live, deepest, signalvars, termvars, ret, dialog,
                 rows, err, yes>>

(* No frame, or the caller's cannot be resized to the screen. *)
MenuOpenFails ==
  /\ At("menu", "open")
  /\ Return("too_small")
  /\ UNCHANGED <<screenvars, signalvars, termvars, dialog, rows, err, yes>>

(* The frame stays: a mutant of LeaveMenu. *)
LeaveMenuLeaks(v) == UNCHANGED screenvars /\ Return(v)

(* The epilogue of tui_show_menu. *)
LeaveMenu(v) ==
  /\ IF OwnsFrame(Current)
       THEN Screens!CloseScreen
       ELSE IF Current.pushed
              THEN Screens!Pop /\ UNCHANGED <<frames, live, deepest>>
              ELSE UNCHANGED screenvars
  /\ Return(v)

MenuCheck ==
  /\ At("menu", "check")
  /\ IF pending # NoSignal
       THEN LeaveMenu("interrupted")
       ELSE IF OwnsFrame(Current) /\ rows < MENU_ROWS
              THEN LeaveMenu("too_small")
              ELSE Goto("enter") /\ UNCHANGED <<screenvars, ret>>
  /\ UNCHANGED <<signalvars, termvars, dialog, rows, err, yes>>

MenuKey ==
  /\ At("menu", "read") /\ ~woken
  /\ \E v \in Answers(Current) : LeaveMenu(v)
  /\ UNCHANGED <<signalvars, termvars, dialog, rows, err, yes>>

MenuResize ==
  /\ At("menu", "read") /\ ~woken
  /\ rows' \in Heights
  /\ IF OwnsFrame(Current)
       THEN /\ \/ /\ rows' >= WINDOW_ROWS
                  /\ \E w \in FreeWindow : Screens!ResizeScreen(w)
                  /\ Goto("check")
               \/ Screens!ResizeScreenFails /\ Goto("gone")
            /\ UNCHANGED ret
       ELSE \/ rows' >= RECENTER_ROWS /\ Goto("check") /\ UNCHANGED <<screenvars, ret>>
            \/ LeaveMenu("too_small")
  /\ UNCHANGED <<signalvars, termvars, dialog, err, yes>>

MenuGone ==
  /\ At("menu", "gone")
  /\ LeaveMenu("too_small")
  /\ UNCHANGED <<signalvars, termvars, dialog, rows, err, yes>>

------------------------------------------------------------------------------
(* wgetch(), of menus and dialogs alike. *)

AtRead == At("menu", "read") \/ At("dialog", "read")

(* From here on the call is blocked. *)
EnterRead ==
  /\ At("menu", "enter") \/ At("dialog", "enter")
  /\ Goto("read")
  /\ UNCHANGED <<screenvars, signalvars, termvars, ret, dialog, rows, err, yes>>

(* ERR is ignored: a mutant of ReadInterrupted. *)
RetryRead ==
  /\ AtRead /\ woken
  /\ woken' = FALSE
  /\ UNCHANGED <<screenvars, pending, delivered, termvars, calls, ret, dialog,
                 rows, err, yes>>

(* A signal makes it return ERR: back to the test at the loop's head. *)
ReadInterrupted ==
  /\ AtRead /\ woken
  /\ woken' = FALSE /\ Goto("check")
  /\ UNCHANGED <<screenvars, pending, delivered, termvars, ret, dialog, rows,
                 err, yes>>

(* A key that moves within the menu or edits the field; ERR for another
   reason does the same. *)
ReadOtherKey ==
  /\ AtRead /\ ~woken
  /\ Goto("check")
  /\ UNCHANGED <<screenvars, signalvars, termvars, ret, dialog, rows, err, yes>>

------------------------------------------------------------------------------
(* tui_modal_run, under tui_show_message, tui_confirm, tui_input_dialog and
   the layout panel. *)

DialogOpen ==
  /\ At("dialog", "open") /\ inited
  /\ NewDialog(rows, DIALOG_ROWS) /\ Goto("check")
  /\ UNCHANGED <<screenvars, signalvars, termvars, ret, rows, err, yes>>

DialogOpenFails ==
  /\ At("dialog", "open")
  /\ Return(Default(Current.kind))
  /\ UNCHANGED <<screenvars, signalvars, termvars, dialog, rows, err, yes>>

CloseDialog(v) == dialog' = NoWindow /\ Return(v)

DialogCheck ==
  /\ At("dialog", "check")
  /\ IF pending # NoSignal
       THEN CloseDialog(Default(Current.kind))
       ELSE Goto("enter") /\ UNCHANGED <<dialog, ret>>
  /\ UNCHANGED <<screenvars, signalvars, termvars, rows, err, yes>>

DialogKey ==
  /\ At("dialog", "read") /\ ~woken
  /\ \E v \in Answers(Current) : CloseDialog(v) /\ yes' = (yes \/ v = "yes")
  /\ UNCHANGED <<screenvars, signalvars, termvars, rows, err>>

DialogResize ==
  /\ At("dialog", "read") /\ ~woken
  /\ rows' \in Heights
  /\ \/ NewDialog(rows', DIALOG_ROWS) /\ Goto("check") /\ UNCHANGED ret
     \/ CloseDialog(Default(Current.kind))
  /\ UNCHANGED <<screenvars, signalvars, termvars, err, yes>>

------------------------------------------------------------------------------
(* app_show_config_menu and app_show_commands; app_show_menu_overlay;
   app_show_input; app_show_progress. *)

SettingsOpen ==
  /\ At("settings", "open")
  /\ OpenFrame /\ Goto("loop")
  /\ UNCHANGED <<signalvars, termvars, ret, dialog, rows, err, yes>>

SettingsOpenFails ==
  /\ At("settings", "open")
  /\ BecomeMessage
  /\ UNCHANGED <<screenvars, signalvars, termvars, ret, dialog, rows, err, yes>>

SettingsLoop ==
  /\ At("settings", "loop")
  /\ Invoke(Menu("settings"), "status")
  /\ UNCHANGED <<screenvars, signalvars, termvars, ret, dialog, rows, err, yes>>

SettingsDispatch ==
  /\ At("settings", "status")
  /\ IF ret = "message"
       THEN Invoke(Dialog("message"), "loop") /\ UNCHANGED <<screenvars, ret>>
       ELSE Screens!CloseScreen /\ Return("done")
  /\ UNCHANGED <<signalvars, termvars, dialog, rows, err, yes>>

OverlayLoop ==
  /\ At("overlay", "open")
  /\ Invoke(Menu("overlay"), "status")
  /\ UNCHANGED <<screenvars, signalvars, termvars, ret, dialog, rows, err, yes>>

OverlayDispatch ==
  /\ At("overlay", "status")
  /\ IF ret = "message"
       THEN Invoke(Dialog("message"), "open") /\ UNCHANGED ret
       ELSE Return(IF ret = "exit" THEN "exit" ELSE "resume")
  /\ UNCHANGED <<screenvars, signalvars, termvars, dialog, rows, err, yes>>

PromptAsk ==
  /\ At("prompt", "open")
  /\ Invoke(Dialog("input"), "asked")
  /\ UNCHANGED <<screenvars, signalvars, termvars, ret, dialog, rows, err, yes>>

PromptAsked ==
  /\ At("prompt", "asked")
  /\ IF ret = "text" THEN BecomeMessage /\ UNCHANGED ret ELSE Return("done")
  /\ UNCHANGED <<screenvars, signalvars, termvars, dialog, rows, err, yes>>

ProgressOpen ==
  /\ At("progress", "open")
  /\ NewDialog(rows, PROGRESS_ROWS) /\ Goto("work")
  /\ UNCHANGED <<screenvars, signalvars, termvars, ret, rows, err, yes>>

ProgressOpenFails ==
  /\ At("progress", "open")
  /\ BecomeMessage
  /\ UNCHANGED <<screenvars, signalvars, termvars, ret, dialog, rows, err, yes>>

(* The updates look at no signal and read no key. *)
ProgressDone ==
  /\ At("progress", "work")
  /\ dialog' = NoWindow /\ BecomeMessage
  /\ UNCHANGED <<screenvars, signalvars, termvars, ret, rows, err, yes>>

------------------------------------------------------------------------------
(* tui_signal_handler.  Each signal arrives at most once. *)
SignalArrives ==
  /\ \E s \in handlers \ delivered :
       pending' = s /\ delivered' = delivered \cup {s}
  /\ woken' = AtRead
  /\ UNCHANGED <<screenvars, termvars, calls, ret, dialog, rows, err, yes>>

(* The program's own steps, none of which waits for anyone. *)
Program ==
  \/ TuiInitRefused \/ TuiInitCurses
  \/ InstallSigint \/ InstallSigintFails \/ InstallSigterm \/ InstallSigtermFails
  \/ TuiInitModes \/ TuiInitModesFail \/ RunOpen \/ RunOpenFails
  \/ RunLoop \/ RunDispatch \/ RunInterrupted \/ RunMenuFailed
  \/ RunOverlaid \/ RunConfirmed \/ RunPop \/ RunCleanup
  \/ MenuNoMemory \/ MenuOpenOwned \/ MenuOpenCallers \/ MenuOpenFails
  \/ MenuCheck \/ MenuGone \/ EnterRead \/ ReadInterrupted
  \/ DialogOpen \/ DialogOpenFails \/ DialogCheck
  \/ SettingsOpen \/ SettingsOpenFails \/ SettingsLoop \/ SettingsDispatch
  \/ OverlayLoop \/ OverlayDispatch \/ PromptAsk \/ PromptAsked
  \/ ProgressOpen \/ ProgressOpenFails \/ ProgressDone

User == MenuKey \/ MenuResize \/ ReadOtherKey \/ DialogKey \/ DialogResize

Ended == ~Running /\ UNCHANGED vars

Next == Program \/ User \/ SignalArrives \/ Ended

(* The thread is scheduled; nobody is obliged to type or to signal. *)
Spec == Init /\ [][Next]_vars /\ WF_vars(Program)

------------------------------------------------------------------------------
Kinds == {"app", "main", "settings", "overlay", "prompt", "progress",
          "message", "layout", "input", "confirm"}
Functions == {"run", "menu", "dialog", "settings", "overlay", "prompt", "progress"}
Points == {"open", "sigint", "sigterm", "modes", "frame", "loop", "status", "confirmed",
           "overlaid", "pop", "cleanup", "check", "enter", "read", "gone",
           "asked", "work"}

Results == {"none", "interrupted", "too_small", "no_memory", "resume", "done", "yes",
            "no", "text", "failed", "message", "prompt", "progress", "layout",
            "settings", "exit", "menu", "back", "cancelled"}

CallRecord == [fn : Functions, kind : Kinds, at : Points, pushed : BOOLEAN]

TypeOK ==
  /\ Screens!TypeOK
  /\ calls \in Seq(CallRecord) /\ ret \in Results
  /\ dialog \in {NoWindow} \cup Window
  /\ rows \in Heights
  /\ pending \in Signal \cup {NoSignal} /\ woken \in BOOLEAN
  /\ delivered \subseteq Signal
  /\ curses \in BOOLEAN /\ handlers \subseteq Signal /\ inited \in BOOLEAN
  /\ err \in Code /\ yes \in BOOLEAN

(* The calls that hold a frame of their own. *)
HoldsFrame(call) ==
  \/ call.fn = "run" /\ call.at \notin {"open", "sigint", "sigterm", "modes", "frame",
                                       "cleanup"}
  \/ call.fn = "settings" /\ call.at # "open"
  \/ OwnsFrame(call) /\ call.at # "open"

Holders == {k \in 1..Len(calls) : HoldsFrame(calls[k])}

(* Every window is some call's to destroy: tui_show_menu, the screens and
   tui_run_app hold one frame each, in the order they were called, and the
   innermost call alone can hold a dialog.  No exit path leaks or frees
   twice, whichever call fails. *)
EveryWindowHeld ==
  /\ Len(frames) = Cardinality(Holders)
  /\ live = {frames[i] : i \in 1..Len(frames)} \ {NoWindow}
  /\ dialog \notin live
  /\ dialog # NoWindow => /\ Current.fn \in {"dialog", "progress"}
                          /\ Current.at \in {"check", "enter", "read", "work"}

(* Whenever the user is asked for a key, what a closing dialog repaints is
   the frame of the innermost open screen, no frame is on the stack twice
   (a menu drawn in its caller's frame pushes nothing), and the program's
   own nesting stays far from the stack's limit. *)
RepaintsInnermostScreen ==
  AtRead => /\ background = Screens!Top /\ background \in live
            /\ depth = Len(frames) /\ depth < STACK_MAX

(* However tui_run_app returns, the terminal is out of curses mode, the
   signal handlers are restored, no window or background is left, and no
   signal is recorded: a second run would start from the first one's initial
   state.  The one exception is that of tui.c:222: a SIGINT that came before
   the installation of SIGTERM's handler failed stays recorded (the failures
   further on forget it, at tui.c:289), and would end a second run at its
   first menu. *)
LeavesNothingBehind ==
  ~Running => /\ ~curses /\ handlers = {} /\ ~inited
              /\ pending = NoSignal \/ (pending = "SIGINT" /\ err = "SIGNAL")
              /\ live = {} /\ frames = << >> /\ dialog = NoWindow
              /\ Screens!BackgroundInit

(* APP_SUCCESS is returned to a user who confirmed the exit and to nobody
   else; the codes of the signals only after such a signal. *)
ExitCodeIsEarned ==
  ~Running => /\ err = "SUCCESS" => yes
              /\ err = "TERMINATED" => "SIGTERM" \in delivered
              /\ err = "INTERRUPTED" => "SIGINT" \in delivered

(* The screens of the program follow the discipline of NestedScreens, whose
   theorems so apply to it. *)
FollowsScreenDiscipline == Screens!Spec

(* A signal that interrupts a blocked wgetch(), or that is there when a menu
   or dialog tests for one, ends the program, with a failure: no dialog,
   menu or screen on the way out waits for the user again. *)
SignalSeen == pending # NoSignal /\ (woken \/ At("menu", "check") \/ At("dialog", "check"))
SeenSignalEndsProgram == SignalSeen ~> ~Running /\ err # "SUCCESS"

(* Left alone the program comes to wait for a key, or ends: it never spins
   through its menus, whatever fails. *)
WaitsOrEnds == []<>(AtRead \/ ~Running)

(* tui.c:111 and tui.c:120: the handlers are installed so that the menu loop
   can react to a signal and shut down promptly. *)
SignalEndsProgram == pending # NoSignal ~> ~Running
==============================================================================
