--------------------------- MODULE BackgroundStack ---------------------------
(***************************************************************************)
(* The background window and its bounded stack, the statics of            *)
(* src/tui/tui.c and the four functions that change them.  The array has a *)
(* fixed size: a push onto a full array shifts the oldest entry out.       *)
(***************************************************************************)
EXTENDS Integers

CONSTANTS Window,     \* the windows an allocation can return
          NoWindow,   \* NULL
          STACK_MAX   \* TUI_BACKGROUND_STACK_MAX, 16 in the code

ASSUME StackMaxAssumption == STACK_MAX \in Nat \ {0}
ASSUME NoWindowAssumption == NoWindow \notin Window

VARIABLES background,  \* tui_background_win
          slot,        \* tui_background_stack, the whole array
          depth        \* tui_background_stack_depth

bgvars == <<background, slot, depth>>

WindowOrNone == Window \cup {NoWindow}
Slots == 0..STACK_MAX-1

BackgroundTypeOK ==
  /\ background \in WindowOrNone
  /\ slot \in [Slots -> WindowOrNone]
  /\ depth \in 0..STACK_MAX

(* tui_clear_background_window; also the statics' initial values. *)
BackgroundInit ==
  background = NoWindow /\ slot = [i \in Slots |-> NoWindow] /\ depth = 0

ClearBackground ==
  /\ background' = NoWindow
  /\ slot' = [i \in Slots |-> IF i < depth THEN NoWindow ELSE slot[i]]
  /\ depth' = 0

(* tui_push_background *)
Push(w) ==
  /\ background' = w
  /\ IF depth < STACK_MAX
       THEN slot' = [slot EXCEPT ![depth] = background] /\ depth' = depth + 1
       ELSE /\ slot' = [i \in Slots |-> IF i < STACK_MAX - 1 THEN slot[i + 1]
                                                             ELSE background]
            /\ depth' = depth

(* The empty stack leaves the pointer: a mutant of Pop. *)
PopKeepsBackground ==
  IF depth = 0
    THEN UNCHANGED bgvars
    ELSE /\ depth' = depth - 1
         /\ background' = slot[depth - 1]
         /\ slot' = [slot EXCEPT ![depth - 1] = NoWindow]

(* tui_pop_background *)
Pop ==
  IF depth = 0
    THEN background' = NoWindow /\ UNCHANGED <<slot, depth>>
    ELSE /\ depth' = depth - 1
         /\ background' = slot[depth - 1]
         /\ slot' = [slot EXCEPT ![depth - 1] = NoWindow]

(* A resize that forgets the statics: a mutant of Replace. *)
ReplaceNothing(old, new) == UNCHANGED bgvars

(* tui_replace_background *)
Replace(old, new) ==
  /\ background' = IF background = old THEN new ELSE background
  /\ slot' = [i \in Slots |-> IF i < depth /\ slot[i] = old THEN new ELSE slot[i]]
  /\ UNCHANGED depth
==============================================================================
