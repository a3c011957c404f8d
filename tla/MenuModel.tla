------------------------------ MODULE MenuModel ------------------------------
(***************************************************************************)
(* The model layer of the menu, src/tui/tui_menu_model.c: the visible rows *)
(* of a list of items under an incremental search, the selected row, and   *)
(* the moves of the selection.                                             *)
(*                                                                         *)
(* Rows and items are counted from 1, the code's from 0.  An item's text   *)
(* is its label without ampersands and in lower case, a sequence of        *)
(* characters; its mnemonic is the character marked in the label.          *)
(***************************************************************************)
EXTENDS Integers, Sequences, FiniteSets

CONSTANTS Menus,       \* the tui_menu_config_t values a caller may show
          SEARCH_CAP,  \* room in search_buf: 63 characters in the code
          NoMnemonic   \* no character, 0 in the code

ASSUME SearchCapAssumption == SEARCH_CAP \in Nat

(* A configuration without items is refused before anything is made of it. *)
ASSUME MenusAssumption ==
  \A m \in Menus :
    /\ m.items \in Seq({m.items[i] : i \in DOMAIN m.items}) \ {<< >>}
    /\ \A i \in DOMAIN m.items : m.items[i].text \in Seq(STRING)

VARIABLES menu,      \* cfg
          visible,   \* the items of the visible rows, a sequence
          selected,  \* selected_visible
          top,       \* top_visible
          searching, \* search_active
          query      \* search_buf and search_len

modelvars == <<menu, visible, selected, top, searching, query>>

Items(m) == DOMAIN m.items

SmallestOf(S) == CHOOSE x \in S : \A y \in S : x <= y
LargestOf(S) == CHOOSE x \in S : \A y \in S : x >= y

IsRule(i) == menu.items[i].kind = "separator"
Choosable(item) == item.kind = "normal" /\ ~item.disabled
Selectable(i) == Choosable(menu.items[i])

Rows == 1..Len(visible)
SelectableRows == {r \in Rows : Selectable(visible[r])}

(* tui_menu_state_selected_index, visible_at; 0 is none. *)
VisibleAt(r) == IF r \in Rows THEN visible[r] ELSE 0
SelectedItem == VisibleAt(selected)

------------------------------------------------------------------------------
(* wcs_contains_icase *)
Contains(text, word) ==
  \/ word = << >>
  \/ \E p \in 1..Len(text) :
       \A k \in 1..Len(word) : p + k - 1 <= Len(text) /\ text[p + k - 1] = word[k]

AllItems(m) == [i \in Items(m) |-> i]

(* Some of the items, in the order of the list. *)
InOrder(S) ==
  [r \in 1..Cardinality(S) |-> CHOOSE i \in S : Cardinality({j \in S : j <= i}) = r]

(* The items a word is looked for in and found. *)
Found(word) == {i \in Items(menu) : ~IsRule(i) /\ Contains(menu.items[i].text, word)}

(* The query is left as a filter after the search: a mutant of ApplyFilter. *)
FilterKeepsRows(active, word) ==
  /\ visible' = IF active /\ word # << >> THEN InOrder(Found(word)) ELSE visible
  /\ UNCHANGED selected

(* menu_state_apply_filter: without a word to look for, every item is visible
   and the selected row keeps its number. *)
ApplyFilter(active, word) ==
  IF ~active \/ word = << >>
    THEN visible' = AllItems(menu) /\ UNCHANGED selected
    ELSE LET found == InOrder(Found(word))
             choices == {r \in 1..Len(found) : Selectable(found[r])}
         IN /\ visible' = found
            /\ selected' = IF choices = {} THEN 1 ELSE SmallestOf(choices)

Search(active, word) ==
  /\ searching' = active
  /\ query' = word
  /\ ApplyFilter(active, word)

SearchOpen == Search(TRUE, << >>)
SearchClose == Search(FALSE, << >>)

(* One character too many: a mutant of SearchAppend. *)
AppendPastCap(ch) ==
  IF Len(query) > SEARCH_CAP
    THEN UNCHANGED <<searching, query, visible, selected>>
    ELSE Search(TRUE, Append(query, ch))

SearchAppend(ch) ==
  IF Len(query) >= SEARCH_CAP
    THEN UNCHANGED <<searching, query, visible, selected>>
    ELSE Search(TRUE, Append(query, ch))

SearchBackspace ==
  IF query = << >>
    THEN UNCHANGED <<searching, query, visible, selected>>
    ELSE Search(TRUE, SubSeq(query, 1, Len(query) - 1))

------------------------------------------------------------------------------
(* It stops at the list's ends: a mutant of StepFrom. *)
StepClamped(r, d) ==
  LET beyond == {s \in SelectableRows : d * (s - r) > 0}
  IN IF beyond = {} THEN r
     ELSE IF d > 0 THEN SmallestOf(beyond) ELSE LargestOf(beyond)

(* It stops on any row: a mutant of StepFrom. *)
StepOntoAnyRow(r, d) == IF visible = << >> THEN r ELSE ((r - 1 + d) % Len(visible)) + 1

(* The row tui_menu_state_step reaches from row r: the next selectable one in
   direction d, wrapping, r itself last. *)
StepFrom(r, d) ==
  LET n == Len(visible)
      Ahead(i) == ((r - 1 + i * d) % n) + 1
      stops == {i \in 1..n : Ahead(i) \in SelectableRows}
  IN IF stops = {} THEN r ELSE Ahead(SmallestOf(stops))

(* tui_menu_state_page from row r: steps, but none past the list's ends. *)
PageFrom(r, d, size) ==
  LET after[k \in 0..size] ==
        IF k = 0 THEN r
        ELSE LET next == StepFrom(after[k - 1], d)
             IN IF d * (next - after[k - 1]) > 0 THEN next ELSE after[k - 1]
  IN after[size]

Home == IF SelectableRows = {} THEN selected ELSE SmallestOf(SelectableRows)
End == IF SelectableRows = {} THEN selected ELSE LargestOf(SelectableRows)

(* Only a selection below the viewport scrolls it: a mutant of EnsureVisible. *)
ScrollsDownOnly(first, row, height) ==
  IF row >= first + height THEN row - height + 1 ELSE first

(* tui_menu_state_ensure_selection_visible: the new first row. *)
EnsureVisible(first, row, height) ==
  IF row < first THEN row
  ELSE IF row >= first + height THEN row - height + 1
  ELSE first

------------------------------------------------------------------------------
(* tui_menu_state_mnemonic_jump *)
MnemonicItems(ch) == {i \in Items(menu) : menu.items[i].mnemonic = ch /\ Selectable(i)}

MnemonicRows(ch) == {r \in SelectableRows : menu.items[visible[r]].mnemonic = ch}

(* It alternates between the first two: a mutant of NextMnemonicRow. *)
OtherOfFirstTwo(ch, row) ==
  LET first == SmallestOf(MnemonicRows(ch))
      others == MnemonicRows(ch) \ {first}
  IN IF row = first /\ others # {} THEN SmallestOf(others) ELSE first

(* With several matches: the next one below the selected row, or the first. *)
NextMnemonicRow(ch, row) ==
  LET later == {r \in MnemonicRows(ch) : r > row}
  IN IF later # {} THEN SmallestOf(later)
     ELSE IF MnemonicRows(ch) # {} THEN SmallestOf(MnemonicRows(ch))
     ELSE row

(* The label of a row counts the rows that are not rules up to it. *)
NumberForRow(r) ==
  IF r \notin Rows \/ (r \in Rows /\ IsRule(visible[r])) THEN 0
  ELSE Cardinality({v \in 1..r : ~IsRule(visible[v])})

(* A rule has a number of its own: a mutant of RowForNumber. *)
RowIsNumber(number) == IF number \in Rows THEN number ELSE 0

RowForNumber(number) ==
  LET rows == {v \in Rows : ~IsRule(visible[v]) /\
                            Cardinality({u \in 1..v : ~IsRule(visible[u])}) = number}
  IN IF number <= 0 \/ rows = {} THEN 0 ELSE SmallestOf(rows)

NumericJump(r) == IF r \in SelectableRows THEN r ELSE selected

------------------------------------------------------------------------------
(* tui_menu_state_create: the item selected at first, 0 when the menu offers
   nothing to select. *)
FirstSelected(m) ==
  LET choices == {i \in Items(m) : Choosable(m.items[i])}
  IN IF m.default \in choices THEN m.default
     ELSE IF choices # {} THEN SmallestOf(choices)
     ELSE 0

Create(m, height) ==
  /\ menu' = m
  /\ visible' = AllItems(m)
  /\ selected' = FirstSelected(m)
  /\ top' = EnsureVisible(1, FirstSelected(m), height)
  /\ searching' = FALSE /\ query' = << >>
==============================================================================
