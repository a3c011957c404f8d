------------------------------ MODULE MCTuiMenu ------------------------------
(***************************************************************************)
(* Menus for TLC.  In the first, letters are shared, one is also a command *)
(* key, and a rule and a disabled item stand in the way; the second starts *)
(* on a disabled item, has a digit for a mnemonic, and a search can leave  *)
(* it only disabled rows; the third has nothing to choose.                 *)
(***************************************************************************)
EXTENDS TuiMenu

Item(text, mnemonic) ==
  [text |-> text, mnemonic |-> mnemonic, kind |-> "normal", disabled |-> FALSE]
Disabled(item) == [item EXCEPT !.disabled = TRUE]
Rule ==
  [text |-> << >>, mnemonic |-> NoMnemonic, kind |-> "separator", disabled |-> FALSE]

MCMenus == {
  [items |-> <<Item(<<"a", "b">>, "a"), Item(<<"b", "a">>, "b"), Rule,
               Disabled(Item(<<"a">>, "a")), Item(<<"a", "q">>, "a"),
               Item(<<"b", "b">>, NoMnemonic), Rule, Item(<<"a", "a">>, "a")>>,
   default |-> 2, search |-> TRUE, mouse |-> TRUE, menu_key |-> TRUE,
   numeric |-> TRUE],
  [items |-> <<Disabled(Item(<<"b">>, "b")), Item(<<"a">>, "1"), Rule,
               Item(<<"q">>, "q"), Disabled(Item(<<"b", "a">>, NoMnemonic))>>,
   default |-> 1, search |-> TRUE, mouse |-> FALSE, menu_key |-> FALSE,
   numeric |-> TRUE],
  [items |-> <<Item(<<"a">>, "j"), Rule>>,
   default |-> 0, search |-> FALSE, mouse |-> FALSE, menu_key |-> FALSE,
   numeric |-> FALSE],
  [items |-> <<Rule, Disabled(Item(<<"a">>, "a"))>>,
   default |-> 2, search |-> TRUE, mouse |-> TRUE, menu_key |-> FALSE,
   numeric |-> FALSE]}

MCDigits == <<"1", "2", "3", "4", "5", "6">>
==============================================================================
