---------------------------- MODULE NestedScreens ----------------------------
(***************************************************************************)
(* The discipline every screen of the TUI follows around the background    *)
(* stack: create a window and push it, replace it when a resize makes a    *)
(* new one, pop before destroying it.  tui_run_app, app_show_config_menu,  *)
(* app_show_commands and tui_show_menu with a frame of its own all do      *)
(* this, nested in one another to any depth.                               *)
(***************************************************************************)
EXTENDS BackgroundStack, Sequences

VARIABLES frames,   \* the frame each open screen holds, outermost first
          live,     \* windows created and not yet destroyed
          deepest   \* history: deepest nesting since no screen was open

vars == <<background, slot, depth, frames, live, deepest>>

Top == frames[Len(frames)]

(* The window the k-th screen holds; the 0-th stands for "no screen". *)
Frame(k) == IF k = 0 THEN NoWindow ELSE frames[k]

Init == BackgroundInit /\ frames = << >> /\ live = {} /\ deepest = 0

(* tui_create_centered_window returns a window no one holds; push it.  A
   screen whose frame is gone opens nothing any more. *)
OpenScreen(w) ==
  /\ w \notin live
  /\ frames # << >> => Top # NoWindow
  /\ live' = live \cup {w}
  /\ frames' = Append(frames, w)
  /\ deepest' = IF deepest > Len(frames) THEN deepest ELSE Len(frames) + 1
  /\ Push(w)

(* KEY_RESIZE in tui_show_menu with an owned frame. *)
ResizeScreen(w) ==
  /\ frames # << >> /\ Top # NoWindow
  /\ w \notin live
  /\ live' = (live \cup {w}) \ {Top}
  /\ frames' = [frames EXCEPT ![Len(frames)] = w]
  /\ Replace(Top, w)
  /\ UNCHANGED deepest

(* The same when no window of the new size can be made: the frame is gone
   and the screen can only close. *)
ResizeScreenFails ==
  /\ frames # << >> /\ Top # NoWindow
  /\ live' = live \ {Top}
  /\ frames' = [frames EXCEPT ![Len(frames)] = NoWindow]
  /\ Replace(Top, NoWindow)
  /\ UNCHANGED deepest

CloseScreen ==
  /\ frames # << >>
  /\ live' = live \ {Top}
  /\ frames' = SubSeq(frames, 1, Len(frames) - 1)
  /\ deepest' = IF Len(frames) = 1 THEN 0 ELSE deepest
  /\ Pop

Next ==
  \/ \E w \in Window : OpenScreen(w) \/ ResizeScreen(w)
  \/ ResizeScreenFails
  \/ CloseScreen

Spec == Init /\ [][Next]_vars

------------------------------------------------------------------------------
TypeOK ==
  /\ BackgroundTypeOK
  /\ frames \in Seq(WindowOrNone)
  /\ live \subseteq Window
  /\ deepest \in Nat

(* No pointer the statics hold outlives its window: what a closing dialog
   repaints (tui_modal_restore_background) is NULL or allocated, whatever
   the nesting, resizes and overflows before it. *)
NoDanglingBackground ==
  /\ background \in live \cup {NoWindow}
  /\ \A i \in 0..depth-1 : slot[i] \in live \cup {NoWindow}

(* The frames the screens hold are allocated, and no two are the same. *)
FramesOwned ==
  /\ \A i \in 1..Len(frames) : frames[i] \in live \cup {NoWindow}
  /\ \A i, j \in 1..Len(frames) :
       i # j /\ frames[i] # NoWindow => frames[i] # frames[j]

(* The stack remembers the innermost screens, or has forgotten them. *)
RemembersOrForgets ==
  /\ depth <= Len(frames)
  /\ background \in {NoWindow, Frame(Len(frames))}
  /\ \A i \in 0..depth-1 : slot[i] \in {NoWindow, Frame(Len(frames) - depth + i)}

(* Until the nesting has exceeded STACK_MAX + 1 nothing is forgotten: the
   entry that the first overflow shifts out is the NULL under the first
   screen, which a pop of the empty stack gives back. *)
RemembersAll ==
  deepest <= STACK_MAX + 1 =>
    /\ Len(frames) - depth <= 1
    /\ background = Frame(Len(frames))
    /\ \A i \in 0..depth-1 : slot[i] = Frame(Len(frames) - depth + i)

(* The strengthening the proofs need: inductive together with TypeOK. *)
StackInv ==
  /\ FramesOwned
  /\ RemembersOrForgets
  /\ RemembersAll
  /\ Len(frames) <= deepest

(* The array and its depth implement a stack of screens of capacity
   STACK_MAX + 1. *)
Screens == INSTANCE ScreenStack
             WITH screens <- frames, shown <- background,
                  Capacity <- STACK_MAX + 1

ScreensSpec == Screens!Spec
==============================================================================
