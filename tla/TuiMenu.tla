------------------------------- MODULE TuiMenu -------------------------------
(***************************************************************************)
(* tui_show_menu, src/tui/tui_menu.c: the menu model under the keys, mouse *)
(* events and resizes of the loop.  Each event is one step, the repaint    *)
(* that follows it (which scrolls the selected row into view) included.    *)
(* Frames, signals and failures are in TuiSession.                         *)
(***************************************************************************)
EXTENDS MenuModel

CONSTANTS Letters,    \* letters the user may type
          Digits,     \* a sequence: Digits[n] is the key of number n
          Viewports   \* values item_area_h may take

(* MENU_MIN_ITEM_ROWS: a lower frame shows no menu. *)
ASSUME ViewportsAssumption == \A h \in Viewports : h \in Nat /\ h >= 3

VARIABLES shown,   \* the loop is running
          area,    \* item_area_h
          answer   \* result of the last menu shown

vars == <<modelvars, shown, area, answer>>

NoAnswer == [status |-> "none", item |-> 0]
Answer(status, i) == [status |-> status, item |-> i]

Init ==
  /\ menu \in Menus
  /\ visible = << >> /\ selected = 1 /\ top = 1
  /\ searching = FALSE /\ query = << >>
  /\ shown = FALSE /\ area \in Viewports /\ answer = NoAnswer

Show ==
  /\ ~shown
  /\ \E m \in Menus :
       IF FirstSelected(m) = 0
         THEN answer' = Answer("invalid", 0) /\ UNCHANGED <<modelvars, shown>>
         ELSE Create(m, area) /\ shown' = TRUE /\ answer' = NoAnswer
  /\ UNCHANGED area

(* The loop goes on, with the selected row scrolled into view. *)
Continue ==
  /\ top' = EnsureVisible(top, selected', area)
  /\ UNCHANGED <<menu, shown, area, answer>>

Ignore == UNCHANGED <<visible, selected, searching, query>> /\ Continue
MoveTo(r) == selected' = r /\ UNCHANGED <<visible, searching, query>> /\ Continue

Leave(result) ==
  /\ shown' = FALSE /\ answer' = result
  /\ UNCHANGED <<modelvars, area>>

(* Any row may be chosen: a mutant of Confirm. *)
ConfirmAnything(i) == IF i = 0 THEN Ignore ELSE Leave(Answer("ok", i))

(* TUI_MENU_EV_CONFIRM: a row that cannot be chosen only beeps. *)
Confirm(i) ==
  IF i = 0 \/ (i # 0 /\ ~Selectable(i)) THEN Ignore ELSE Leave(Answer("ok", i))

------------------------------------------------------------------------------
(* menu_handle_key_in_search *)

SearchEscape == shown /\ searching /\ SearchClose /\ Continue
SearchEnter == shown /\ searching /\ Confirm(SelectedItem)
SearchRubout == shown /\ searching /\ SearchBackspace /\ Continue

DigitKeys == {Digits[n] : n \in DOMAIN Digits}
Printable == Letters \cup DigitKeys \cup {"/"}

(* Arrows, paging, Home and End. *)
SearchArrow == shown /\ searching /\ Ignore

SearchType ==
  /\ shown /\ searching
  /\ \E ch \in Printable : SearchAppend(ch)
  /\ Continue

------------------------------------------------------------------------------
(* menu_handle_key outside a search: letters and digits are tried as
   mnemonics before they mean anything else. *)

MnemonicConfirms ==
  /\ shown /\ ~searching
  /\ \E ch \in Letters \cup DigitKeys :
       \E i \in MnemonicItems(ch) : MnemonicItems(ch) = {i} /\ Confirm(i)

MnemonicCycles ==
  /\ shown /\ ~searching
  /\ \E ch \in Letters \cup DigitKeys :
       Cardinality(MnemonicItems(ch)) > 1 /\ MoveTo(NextMnemonicRow(ch, selected))

Free(ch) == shown /\ ~searching /\ MnemonicItems(ch) = {}

(* Arrows, and j and k where no item claims them. *)
KeyStep ==
  /\ shown /\ ~searching
  /\ \E d \in {-1, 1} : MoveTo(StepFrom(selected, d))

KeyPage ==
  /\ shown /\ ~searching
  /\ \E d \in {-1, 1} : MoveTo(PageFrom(selected, d, area))

KeyHomeEnd ==
  /\ shown /\ ~searching
  /\ \E r \in {Home, End} : MoveTo(r)

KeyEnter == shown /\ ~searching /\ Confirm(SelectedItem)

KeyEscape ==
  /\ shown /\ ~searching
  /\ Leave(Answer(IF menu.menu_key THEN "menu" ELSE "cancelled", 0))

KeyQuit == Free("q") /\ Leave(Answer("cancelled", 0))

KeySlash ==
  /\ shown /\ ~searching
  /\ IF menu.search THEN SearchOpen /\ Continue ELSE Ignore

KeyDigit ==
  /\ menu.numeric
  /\ \E n \in DOMAIN Digits :
       Free(Digits[n]) /\ MoveTo(NumericJump(RowForNumber(n)))

------------------------------------------------------------------------------
(* menu_handle_mouse: in a search too. *)

RowsOnScreen == {r \in Rows : top <= r /\ r < top + area}

MouseWheel ==
  /\ shown /\ menu.mouse
  /\ \E d \in {-1, 1} : MoveTo(StepFrom(selected, d))

MouseClick ==
  /\ shown /\ menu.mouse
  /\ \E r \in RowsOnScreen : MoveTo(NumericJump(r))

MouseDoubleClick ==
  /\ shown /\ menu.mouse
  /\ \E r \in RowsOnScreen :
       IF r \in SelectableRows THEN Confirm(visible[r]) ELSE Ignore

(* KEY_RESIZE that still leaves room for the menu. *)
Resize ==
  /\ shown
  /\ area' \in Viewports
  /\ top' = EnsureVisible(top, selected, area')
  /\ UNCHANGED <<menu, visible, selected, searching, query, shown, answer>>

Next ==
  \/ Show
  \/ SearchEscape \/ SearchEnter \/ SearchRubout \/ SearchArrow \/ SearchType
  \/ MnemonicConfirms \/ MnemonicCycles
  \/ KeyStep \/ KeyPage \/ KeyHomeEnd \/ KeyEnter \/ KeyEscape \/ KeyQuit
  \/ KeySlash \/ KeyDigit
  \/ MouseWheel \/ MouseClick \/ MouseDoubleClick
  \/ Resize

Spec == Init /\ [][Next]_vars

------------------------------------------------------------------------------
TypeOK ==
  /\ menu \in Menus
  /\ visible \in Seq(Items(menu))
  /\ selected \in 1..Len(menu.items) /\ top \in 1..Len(menu.items)
  /\ searching \in BOOLEAN /\ query \in Seq(Printable) /\ Len(query) <= SEARCH_CAP
  /\ shown \in BOOLEAN /\ area \in Viewports
  /\ answer.status \in {"none", "invalid", "ok", "cancelled", "menu"}
  /\ answer.item \in Nat

(* At every key the rows are those the query on the screen asks for, in the
   items' order: no edit of the query leaves rows of an earlier one. *)
Wanted(i) ==
  query = << >> \/
    /\ ~IsRule(i)
    /\ LET text == menu.items[i].text
       IN \E a, b \in 0..Len(text) :
            text = SubSeq(text, 1, a) \o query \o SubSeq(text, b + 1, Len(text))

VisibleAreTheWanted ==
  shown => /\ {visible[r] : r \in Rows} = {i \in Items(menu) : Wanted(i)}
           /\ \A r, s \in Rows : r < s => visible[r] < visible[s]
           /\ query # << >> => searching

(* Whatever was searched, clicked or resized, the loop waits with the
   selected row on the screen, and a row to select if any is listed. *)
SelectionOnScreen ==
  shown => /\ selected \in Rows \/ visible = << >>
           /\ top <= selected /\ selected < top + area

(* What a key, click or wheel moves the selection to within a list can be
   chosen: rules and disabled items are skipped (tui_menu_internal.h:42). *)
MovesLandOnChoices ==
  [][shown /\ shown' /\ visible' = visible /\ selected' # selected
       => Selectable(visible[selected'])]_vars

(* A menu answers with an item that is enabled and was listed when the user
   confirmed it, also when a search had hidden the rest. *)
AnswersWereOnOffer ==
  [][shown /\ answer'.status = "ok"
       => \E r \in SelectableRows : visible[r] = answer'.item]_vars

(* The rows a move visits when repeated n times from row r. *)
Visited(Move(_), r, n) ==
  LET at[k \in 0..n] == IF k = 0 THEN r ELSE Move(at[k - 1])
  IN {at[k] : k \in 1..n}

(* From any selection, a rule included, either arrow goes round every choice,
   and so does the wheel where there is a mouse; paging stops at the last
   choice, or the first.  In a search only the wheel is left: the arrows and
   the paging keys are ignored there (tui_menu.c:449), although the footer of a
   search offers them (tui_menu.c:424). *)
KeysReachEveryChoice ==
  shown /\ visible # << >> =>
    /\ ~searching \/ menu.mouse =>
         \A d \in {-1, 1} :
           Visited(LAMBDA r : StepFrom(r, d), selected, Len(visible))
             = IF SelectableRows = {} THEN {selected} ELSE SelectableRows
    /\ ~searching /\ selected \in SelectableRows =>
         /\ End \in Visited(LAMBDA r : PageFrom(r, 1, area), selected, Len(visible))
         /\ PageFrom(End, 1, area) = End
         /\ Home \in Visited(LAMBDA r : PageFrom(r, -1, area), selected, Len(visible))
         /\ PageFrom(Home, -1, area) = Home

(* A mnemonic several items share goes round all of them, from any row. *)
MnemonicsReachEveryMatch ==
  shown /\ ~searching => \A ch \in Letters \cup DigitKeys :
    Cardinality(MnemonicItems(ch)) > 1 =>
      Visited(LAMBDA r : NextMnemonicRow(ch, r), selected, Len(visible))
        = {r \in Rows : visible[r] \in MnemonicItems(ch)}

(* row_for_number is the inverse of number_for_row (tui_menu_internal.h:61),
   and the labels on the screen are 1, 2, 3... without a gap. *)
NumbersAreInverse ==
  shown =>
    LET labelled == {r \in Rows : ~IsRule(visible[r])}
    IN /\ {NumberForRow(r) : r \in labelled} = 1..Cardinality(labelled)
       /\ \A r \in labelled : RowForNumber(NumberForRow(r)) = r
       /\ \A n \in 0..Len(visible) + 1 :
            RowForNumber(n) # 0 => NumberForRow(RowForNumber(n)) = n

(* tui_menu.h:53: a separator is a visual rule that navigation skips. *)
SelectionOffRules == shown /\ visible # << >> => ~IsRule(SelectedItem)
==============================================================================
