----------------------------- MODULE ScreenStack -----------------------------
(***************************************************************************)
(* What the background stack of src/tui/tui.c promises the screens that    *)
(* use it: screens nest, the innermost one is the background a closing     *)
(* dialog repaints, and closing a screen brings its encloser back.  A      *)
(* nesting deeper than Capacity may forget an encloser (the background is  *)
(* then none at all), but never shows a wrong screen.                      *)
(***************************************************************************)
EXTENDS Naturals, Sequences

CONSTANTS Window,    \* the windows an allocation can return
          NoWindow,  \* NULL
          Capacity   \* nesting up to which no encloser is forgotten

VARIABLES screens,   \* the open screens, outermost first
          shown,     \* the background window
          deepest    \* deepest nesting since no screen was open

vars == <<screens, shown, deepest>>

Enclosing(stack) == SubSeq(stack, 1, Len(stack) - 1)

Innermost(stack) == IF stack = << >> THEN NoWindow ELSE stack[Len(stack)]

Init == screens = << >> /\ shown = NoWindow /\ deepest = 0

(* A screen opens on a window no other screen holds; one that has lost its
   window opens nothing. *)
Open(w) ==
  /\ screens # << >> => Innermost(screens) # NoWindow
  /\ \A i \in 1..Len(screens) : screens[i] # w
  /\ screens' = Append(screens, w)
  /\ shown' = w
  /\ deepest' = IF deepest > Len(screens) THEN deepest ELSE Len(screens) + 1

(* The innermost screen moves to a new window, or loses its window; the
   background follows it unless it was forgotten. *)
Resize(w) ==
  /\ screens # << >> /\ Innermost(screens) # NoWindow
  /\ w = NoWindow \/ \A i \in 1..Len(screens) : screens[i] # w
  /\ screens' = [screens EXCEPT ![Len(screens)] = w]
  /\ \/ shown = Innermost(screens) /\ shown' = w
     \/ shown # Innermost(screens) /\ UNCHANGED shown
  /\ UNCHANGED deepest

Close ==
  /\ screens # << >>
  /\ screens' = Enclosing(screens)
  /\ deepest' = IF Len(screens) = 1 THEN 0 ELSE deepest
  /\ \/ shown' = Innermost(screens')
     \/ deepest > Capacity /\ shown' = NoWindow

Next ==
  \/ \E w \in Window : Open(w)
  \/ \E w \in Window \cup {NoWindow} : Resize(w)
  \/ Close

Spec == Init /\ [][Next]_vars
==============================================================================
