---------------------------- MODULE TuiMenuProofs ----------------------------
(***************************************************************************)
(* Proofs about the menu, for every list of items, viewport and key: what  *)
(* its model's operators return, and what its loop keeps.                  *)
(***************************************************************************)
EXTENDS TuiMenu, SequenceTheorems, FiniteSetTheorems, WellFoundedInduction, TLAPS

------------------------------------------------------------------------------
(***************************************************************************)
(* Sets of rows: the first, the last, and the place of each.               *)
(***************************************************************************)

LEMMA MinimumExists ==
  ASSUME NEW S \in SUBSET Nat, S # {}
  PROVE  \E k \in S : \A m \in S : k <= m
<1>1. PICK k \in S : \A m \in S : <<m, k>> \notin OpToRel(<, Nat)
  BY WFMin, NatLessThanWellFounded, Zenon
<1>2. ASSUME NEW m \in S PROVE k <= m
  <2>1. ~(m < k)
    BY <1>1, Zenon DEF OpToRel
  <2> QED
    BY <2>1
<1> QED
  BY <1>2

LEMMA SmallestIs ==
  ASSUME NEW S \in SUBSET Nat, S # {}
  PROVE  SmallestOf(S) \in S /\ \A y \in S : SmallestOf(S) <= y
<1>1. \E k \in S : \A m \in S : k <= m
  BY MinimumExists
<1> QED
  BY <1>1 DEF SmallestOf

LEMMA LargestIs ==
  ASSUME NEW n \in Nat, NEW S \in SUBSET (1..n), S # {}
  PROVE  LargestOf(S) \in S /\ \A y \in S : LargestOf(S) >= y
<1> DEFINE T == {n - x : x \in S}
<1>1. T \in SUBSET Nat /\ T # {}
  <2>1. \A x \in S : x \in 1..n
    OBVIOUS
  <2>2. \A x \in S : n - x \in Nat
    BY <2>1
  <2>3. PICK x \in S : TRUE
    OBVIOUS
  <2>4. n - x \in T
    BY <2>3
  <2> QED
    BY <2>2, <2>4, Zenon
<1>2. PICK k \in T : \A m \in T : k <= m
  <2> HIDE DEF T
  <2> QED
    BY <1>1, MinimumExists
<1>3. PICK x \in S : k = n - x
  BY <1>2
<1>4. ASSUME NEW y \in S PROVE x >= y
  <2>1. n - y \in T
    OBVIOUS
  <2>2. n - x <= n - y
    BY <1>2, <1>3, <2>1
  <2>3. x \in 1..n /\ y \in 1..n
    OBVIOUS
  <2> HIDE DEF T
  <2> QED
    BY <2>2, <2>3
<1> HIDE DEF T
<1> QED
  BY <1>4 DEF LargestOf

(* The place of an element among those of its set. *)
Rank(S, i) == Cardinality({j \in S : j <= i})

(* The elements of a finite set have the places 1, 2, 3... without a gap, and in
   their order. *)
LEMMA RanksAreNumbers ==
  ASSUME NEW S \in SUBSET Nat, IsFiniteSet(S)
  PROVE  /\ \A i \in S : Rank(S, i) \in 1..Cardinality(S)
         /\ \A i, k \in S : i < k => Rank(S, i) < Rank(S, k)
         /\ \A n \in 1..Cardinality(S) : \E i \in S : Rank(S, i) = n
<1> DEFINE UpTo(i) == {j \in S : j <= i}
<1>1. ASSUME NEW i \in S
      PROVE  /\ IsFiniteSet(UpTo(i)) /\ Cardinality(UpTo(i)) \in 1..Cardinality(S)
             /\ Cardinality(S) \in Nat
  <2>1. UpTo(i) \in SUBSET S /\ i \in UpTo(i)
    OBVIOUS
  <2>2. IsFiniteSet(UpTo(i)) /\ Cardinality(UpTo(i)) <= Cardinality(S)
    BY <2>1, FS_Subset, Zenon
  <2>3. Cardinality(UpTo(i)) \in Nat /\ Cardinality(S) \in Nat
    BY <2>2, FS_CardinalityType, Zenon
  <2>4. Cardinality(UpTo(i)) # 0
    BY <2>1, <2>2, FS_EmptySet, Zenon
  <2> HIDE DEF UpTo
  <2> QED
    BY <2>2, <2>3, <2>4
<1>2. ASSUME NEW i \in S, NEW k \in S, i < k
      PROVE  Cardinality(UpTo(i)) < Cardinality(UpTo(k))
  <2>1. UpTo(i) \in SUBSET UpTo(k) /\ k \in UpTo(k) /\ k \notin UpTo(i)
    <3>1. i \in Nat /\ k \in Nat /\ ~(k <= i) /\ k <= k
      BY <1>2
    <3>2. \A j \in S : j <= i => j <= k
      BY <1>2
    <3> QED
      BY <3>1, <3>2, Zenon
  <2>2. UpTo(i) # UpTo(k)
    BY <2>1, Zenon
  <2>3. /\ Cardinality(UpTo(i)) <= Cardinality(UpTo(k))
        /\ Cardinality(UpTo(i)) # Cardinality(UpTo(k))
    BY <1>1, <2>1, <2>2, FS_Subset, Zenon
  <2>4. Cardinality(UpTo(i)) \in Nat /\ Cardinality(UpTo(k)) \in Nat
    BY <1>1, FS_CardinalityType, Zenon
  <2> HIDE DEF UpTo
  <2> QED
    BY <2>3, <2>4
<1>3. \A i \in S : Rank(S, i) = Cardinality(UpTo(i))
  BY Zenon DEF Rank
<1> HIDE DEF UpTo
<1>4. \A i \in S : Rank(S, i) \in 1..Cardinality(S)
  BY <1>1, <1>3
<1>5. \A i, k \in S : i < k => Rank(S, i) < Rank(S, k)
  BY <1>2, <1>3
<1>6. \A n \in 1..Cardinality(S) : \E i \in S : Rank(S, i) = n
  <2> DEFINE f == [i \in S |-> Rank(S, i)]
             T == 1..Cardinality(S)
  <2>1. Cardinality(S) \in Nat
    BY FS_CardinalityType
  <2>2. IsFiniteSet(T) /\ Cardinality(T) = Cardinality(S)
    BY <2>1, FS_Interval
  <2>3. f \in [S -> T]
    BY <1>4
  <2>4. ASSUME NEW a \in S, NEW b \in S, f[a] = f[b] PROVE a = b
    <3>1. Rank(S, a) = Rank(S, b) /\ a \in Nat /\ b \in Nat
      BY <2>4
    <3>2. Rank(S, a) \in Nat /\ Rank(S, b) \in Nat
      BY <1>4
    <3>3. ~(a < b) /\ ~(b < a)
      BY <1>5, <3>1, <3>2
    <3> QED
      BY <3>1, <3>3
  <2>5. f \in Injection(S, T)
    BY <2>3, <2>4, Zenon DEF Injection, IsInjective
  <2>6. f \in Surjection(S, T)
    BY <2>2, <2>5, FS_Injection, Zenon
  <2> QED
    BY <2>6 DEF Surjection
<1> QED
  BY <1>4, <1>5, <1>6

(* So a set of items is listed in its order, each of them once. *)
LEMMA InOrderLists ==
  ASSUME NEW S \in SUBSET Nat, IsFiniteSet(S)
  PROVE  /\ InOrder(S) \in Seq(S) /\ Len(InOrder(S)) = Cardinality(S)
         /\ {InOrder(S)[r] : r \in 1..Cardinality(S)} = S
         /\ \A r, s \in 1..Cardinality(S) : r < s => InOrder(S)[r] < InOrder(S)[s]
<1> DEFINE n == Cardinality(S)
           list == InOrder(S)
<1>0. n \in Nat
  BY FS_CardinalityType
<1>1. \A r \in 1..n : list[r] = CHOOSE i \in S : Rank(S, i) = r
  BY Zenon DEF InOrder, Rank
<1>2. \A r \in 1..n : list[r] \in S /\ Rank(S, list[r]) = r
  BY <1>1, RanksAreNumbers
<1>3. DOMAIN list = 1..n /\ list = [r \in DOMAIN list |-> list[r]]
  <2> DEFINE item(r) == CHOOSE i \in S : Cardinality({j \in S : j <= i}) = r
  <2>1. list = [r \in 1..n |-> item(r)]
    BY Zenon DEF InOrder
  <2> HIDE DEF list, n, item
  <2> QED
    BY <2>1
<1> HIDE DEF list, n
<1>4. list \in [1..n -> S]
  BY <1>2, <1>3, Zenon
<1>5. list \in Seq(S) /\ Len(list) = n
  BY <1>0, <1>4
<1>6. ASSUME NEW r \in 1..n, NEW s \in 1..n, r < s PROVE list[r] < list[s]
  <2>1. /\ list[r] \in Nat /\ list[s] \in Nat
        /\ Rank(S, list[r]) = r /\ Rank(S, list[s]) = s
    BY <1>2
  <2>2. list[r] # list[s]
    BY <1>0, <1>6, <2>1
  <2>3. ~(list[s] < list[r])
    <3>1. ASSUME list[s] < list[r] PROVE s < r
      BY <1>2, <2>1, <3>1, RanksAreNumbers
    <3> QED
      BY <1>0, <1>6, <3>1
  <2> QED
    BY <2>1, <2>2, <2>3
<1>7. \A i \in S : \E r \in 1..n : list[r] = i
  <2> SUFFICES ASSUME NEW i \in S PROVE \E r \in 1..n : list[r] = i
    OBVIOUS
  <2>1. PICK r \in 1..n : r = Rank(S, i)
    BY RanksAreNumbers DEF n
  <2>2. list[r] \in S /\ Rank(S, list[r]) = r
    BY <1>2, <2>1
  <2>3. list[r] \in Nat /\ i \in Nat /\ r \in Nat
    <3>1. \A x \in S : x \in Nat
      OBVIOUS
    <3>2. r \in Nat
      BY <1>0
    <3> QED
      BY <2>2, <3>1, <3>2, Zenon
  <2>4. ~(list[r] < i) /\ ~(i < list[r])
    BY <2>1, <2>2, <2>3, RanksAreNumbers
  <2> QED
    BY <2>1, <2>3, <2>4
<1> QED
  BY <1>2, <1>5, <1>6, <1>7 DEF list, n

------------------------------------------------------------------------------
(***************************************************************************)
(* Where the moves lead: to a row that can be chosen, or nowhere.          *)
(***************************************************************************)

(* The selected row is scrolled into view, and no further than the list. *)
LEMMA ScrolledIntoView ==
  ASSUME NEW first \in Nat \ {0}, NEW row \in Nat \ {0}, NEW height \in Nat, height >= 3
  PROVE  /\ EnsureVisible(first, row, height) \in 1..row
         /\ row < EnsureVisible(first, row, height) + height
  BY DEF EnsureVisible

LEMMA StepLands ==
  ASSUME NEW r, NEW d, Len(visible) \in Nat
  PROVE  StepFrom(r, d) \in SelectableRows \cup {r}
<1> DEFINE n == Len(visible)
           Ahead(i) == ((r - 1 + i * d) % n) + 1
           stops == {i \in 1..n : Ahead(i) \in SelectableRows}
<1>1. StepFrom(r, d) = IF stops = {} THEN r ELSE Ahead(SmallestOf(stops))
  BY DEF StepFrom
<1>2. stops \in SUBSET Nat
  OBVIOUS
<1>3. stops # {} => SmallestOf(stops) \in stops
  <2> HIDE DEF stops
  <2> QED
    BY <1>2, SmallestIs
<1>4. stops # {} => Ahead(SmallestOf(stops)) \in SelectableRows
  BY <1>3, Zenon
<1> QED
  BY <1>1, <1>4, Zenon

(* One row of a page. *)
PageStep(r, d) ==
  LET next == StepFrom(r, d) IN IF d * (next - r) > 0 THEN next ELSE r

(* The rows of a page, one after another. *)
IsPage(f, r, d, size) ==
  f = [k \in 0..size |-> IF k = 0 THEN r ELSE PageStep(f[k - 1], d)]

LEMMA PageExists ==
  ASSUME NEW r, NEW d, NEW size \in Nat
  PROVE  \E f : IsPage(f, r, d, size)
<1> USE DEF IsPage
<1> DEFINE Is(f, m) == IsPage(f, r, d, m)
           bad == {m \in Nat : ~\E f : Is(f, m)}
<1>1. SUFFICES ASSUME bad # {} PROVE FALSE
  BY <1>1
<1>2. PICK m \in bad : \A k \in bad : m <= k
  <2>1. bad \in SUBSET Nat
    OBVIOUS
  <2> HIDE DEF bad
  <2> QED
    BY <1>1, <2>1, MinimumExists
<1>3. m \in Nat /\ ~\E f : Is(f, m)
  OBVIOUS
<1>4. CASE m = 0
  <2> DEFINE f == [k \in 0..0 |-> r]
  <2>1. f = [k \in 0..0 |-> IF k = 0 THEN r ELSE PageStep(f[k - 1], d)]
    OBVIOUS
  <2> QED
    BY <1>3, <1>4, <2>1
<1>5. CASE m # 0
  <2>1. m - 1 \in Nat /\ ~(m <= m - 1)
    BY <1>3, <1>5
  <2>2. m - 1 \notin bad
    BY <1>2, <2>1
  <2>3. PICK g : Is(g, m - 1)
    BY <2>1, <2>2
  <2> DEFINE f == [k \in 0..m |-> IF k = m THEN PageStep(g[m - 1], d) ELSE g[k]]
  <2>4. \A k \in 0..m : f[k] = IF k = 0 THEN r ELSE PageStep(f[k - 1], d)
    <3> SUFFICES ASSUME NEW k \in 0..m
                 PROVE  f[k] = IF k = 0 THEN r ELSE PageStep(f[k - 1], d)
      OBVIOUS
    <3>1. CASE k = m
      <4>1. k - 1 \in 0..m /\ k - 1 # m /\ k # 0
        BY <1>3, <1>5, <3>1
      <4>2. f[k - 1] = g[m - 1] /\ f[k] = PageStep(g[m - 1], d)
        BY <3>1, <4>1
      <4> QED
        BY <4>1, <4>2
    <3>2. CASE k # m
      <4>1. k \in 0..m-1
        BY <1>3, <3>2
      <4>2. f[k] = g[k]
        BY <3>2
      <4>3. g[k] = IF k = 0 THEN r ELSE PageStep(g[k - 1], d)
        BY <2>3, <4>1
      <4>4. k # 0 => k - 1 \in 0..m /\ k - 1 # m
        BY <4>1, <1>3
      <4>5. k # 0 => f[k - 1] = g[k - 1]
        BY <4>4
      <4> QED
        BY <4>2, <4>3, <4>5
    <3> QED
      BY <3>1, <3>2
  <2>5. Is(f, m)
    <3>1. f = [k \in 0..m |-> f[k]]
      OBVIOUS
    <3> HIDE DEF f
    <3> QED
      BY <2>4, <3>1
  <2> QED
    BY <1>3, <2>5
<1> QED
  BY <1>4, <1>5

LEMMA PageLands ==
  ASSUME NEW r, NEW d, NEW size \in Nat, Len(visible) \in Nat
  PROVE  PageFrom(r, d, size) \in SelectableRows \cup {r}
<1> DEFINE after == CHOOSE f : f = [k \in 0..size |->
                                      IF k = 0 THEN r ELSE PageStep(f[k - 1], d)]
           good == SelectableRows \cup {r}
           bad == {k \in 0..size : after[k] \notin good}
<1>1. after = [k \in 0..size |-> IF k = 0 THEN r ELSE PageStep(after[k - 1], d)]
  <2>1. after = CHOOSE f : IsPage(f, r, d, size)
    BY DEF IsPage
  <2>2. \E f : IsPage(f, r, d, size)
    BY PageExists
  <2>3. IsPage(after, r, d, size)
    <3> HIDE DEF after
    <3> QED
      BY <2>1, <2>2, Zenon
  <2> QED
    BY <2>3 DEF IsPage
<1>2. PageFrom(r, d, size) = after[size]
  BY Zenon DEF PageFrom, PageStep
<1> HIDE DEF after
<1>3. ASSUME NEW q \in good PROVE PageStep(q, d) \in good
  BY StepLands DEF PageStep
<1> HIDE DEF good
<1>4. SUFFICES ASSUME bad # {} PROVE FALSE
  <2>1. size \in 0..size
    OBVIOUS
  <2> QED
    BY <1>2, <1>4, <2>1 DEF good
<1>5. PICK m \in bad : \A k \in bad : m <= k
  <2>1. bad \in SUBSET Nat
    OBVIOUS
  <2> HIDE DEF bad
  <2> QED
    BY <1>4, <2>1, MinimumExists
<1>6. m \in 0..size /\ after[m] \notin good
  OBVIOUS
<1>7. m # 0
  BY <1>1, <1>6 DEF good
<1>8. m - 1 \in 0..size /\ ~(m <= m - 1)
  BY <1>6, <1>7
<1>9. after[m - 1] \in good
  BY <1>5, <1>8
<1>10. after[m] = PageStep(after[m - 1], d)
  BY <1>1, <1>6, <1>7
<1> QED
  BY <1>3, <1>6, <1>9, <1>10

LEMMA EndsLand ==
  ASSUME Len(visible) \in Nat
  PROVE  Home \in SelectableRows \cup {selected} /\ End \in SelectableRows \cup {selected}
<1>1. SelectableRows \in SUBSET Nat /\ SelectableRows \in SUBSET (1..Len(visible))
  BY DEF SelectableRows, Rows
<1> QED
  BY <1>1, SmallestIs, LargestIs DEF Home, End

LEMMA MnemonicLands ==
  ASSUME NEW ch, Len(visible) \in Nat
  PROVE  NextMnemonicRow(ch, selected) \in SelectableRows \cup {selected}
<1> DEFINE later == {r \in MnemonicRows(ch) : r > selected}
<1>1. /\ MnemonicRows(ch) \in SUBSET SelectableRows /\ later \in SUBSET MnemonicRows(ch)
      /\ SelectableRows \in SUBSET Nat
  BY DEF SelectableRows, Rows, MnemonicRows
<1>2. NextMnemonicRow(ch, selected) =
        IF later # {} THEN SmallestOf(later)
        ELSE IF MnemonicRows(ch) # {} THEN SmallestOf(MnemonicRows(ch)) ELSE selected
  BY DEF NextMnemonicRow
<1> HIDE DEF later
<1> QED
  BY <1>1, <1>2, SmallestIs

LEMMA JumpLands ==
  ASSUME NEW r PROVE NumericJump(r) \in SelectableRows \cup {selected}
  BY DEF NumericJump

------------------------------------------------------------------------------
(***************************************************************************)
(* What the loop keeps.                                                    *)
(***************************************************************************)

(* The rows of a query, as menu_state_apply_filter lists them. *)
ListedFor(word) == IF word = << >> THEN AllItems(menu) ELSE InOrder(Found(word))

(* While a menu is shown: an item can be chosen, the rows are those of the query
   on the screen, a query is only kept during a search, with nothing to select
   the selection is on the first row, and there is no answer yet. *)
Loop ==
  /\ \E i \in Items(menu) : Selectable(i)
  /\ visible = ListedFor(query)
  /\ query # << >> => searching
  /\ SelectableRows = {} => selected = 1
  /\ answer = NoAnswer

MenuInv == TypeOK /\ (shown => Loop) /\ SelectionOnScreen

(* The kinds of step the loop takes: the selection moves, to a row that can be
   chosen or nowhere; the query changes; or the loop ends with an answer. *)
Moves == shown /\ \E r \in SelectableRows \cup {selected} : MoveTo(r)

Searches ==
  /\ shown
  /\ \E active \in BOOLEAN, word \in Seq(Printable) :
       /\ Len(word) <= SEARCH_CAP /\ (word # << >> => active)
       /\ Search(active, word)
  /\ Continue

Answers ==
  /\ shown
  /\ \E status \in {"ok", "cancelled", "menu"}, item \in Nat :
       /\ status = "ok" => \E r \in SelectableRows : visible[r] = item
       /\ Leave(Answer(status, item))

(* The items of a menu are numbered from 1, and there is one. *)
LEMMA ItemsAreNumbered ==
  ASSUME NEW m \in Menus
  PROVE  /\ Len(m.items) \in Nat \ {0}
         /\ Items(m) = 1..Len(m.items)
         /\ IsFiniteSet(Items(m)) /\ Cardinality(Items(m)) = Len(m.items)
<1>1. m.items \in Seq({m.items[i] : i \in DOMAIN m.items}) /\ m.items # << >>
  BY MenusAssumption
<1> DEFINE V == {m.items[i] : i \in DOMAIN m.items}
           items == m.items
<1>2. items \in Seq(V) /\ items # << >>
  BY <1>1
<1> HIDE DEF V, items
<1>3. Len(items) \in Nat \ {0} /\ DOMAIN items = 1..Len(items)
  BY <1>2
<1>4. IsFiniteSet(1..Len(items)) /\ Cardinality(1..Len(items)) = Len(items)
  BY <1>3, FS_Interval
<1> QED
  BY <1>3, <1>4 DEF items, Items

(* The rows under every query: items of the menu, in their order, each once. *)
LEMMA RowsAreItems ==
  ASSUME menu \in Menus, NEW word
  PROVE  /\ ListedFor(word) \in Seq(Items(menu))
         /\ Len(ListedFor(word)) \in Nat /\ Len(ListedFor(word)) <= Len(menu.items)
         /\ \A r, s \in 1..Len(ListedFor(word)) :
              r < s => ListedFor(word)[r] < ListedFor(word)[s]
         /\ {ListedFor(word)[r] : r \in 1..Len(ListedFor(word))} =
              IF word = << >> THEN Items(menu) ELSE Found(word)
<1> DEFINE n == Len(menu.items)
<1>1. /\ n \in Nat \ {0} /\ Items(menu) = 1..n /\ IsFiniteSet(Items(menu))
      /\ Cardinality(Items(menu)) = n
  BY ItemsAreNumbered, Zenon
<1>2. CASE word = << >>
  <2>1. ListedFor(word) = [i \in 1..n |-> i]
    BY <1>1, <1>2, Zenon DEF ListedFor, AllItems
  <2> HIDE DEF n
  <2>2. [i \in 1..n |-> i] \in Seq(1..n) /\ Len([i \in 1..n |-> i]) = n
    BY <1>1
  <2> QED
    BY <1>1, <1>2, <2>1, <2>2 DEF n
<1>3. CASE word # << >>
  <2> DEFINE S == Found(word)
  <2>1. S \in SUBSET Items(menu)
    BY DEF Found
  <2>2. IsFiniteSet(S) /\ Cardinality(S) <= Cardinality(Items(menu))
    BY <1>1, <2>1, FS_Subset, Zenon
  <2>3. ListedFor(word) = InOrder(S)
    BY <1>3 DEF ListedFor
  <2> HIDE DEF S, n
  <2>4. S \in SUBSET Nat
    BY <1>1, <2>1
  <2>5. Cardinality(S) \in Nat
    BY <2>2, FS_CardinalityType
  <2>6. /\ InOrder(S) \in Seq(S) /\ Len(InOrder(S)) = Cardinality(S)
        /\ {InOrder(S)[r] : r \in 1..Cardinality(S)} = S
        /\ \A r, s \in 1..Cardinality(S) : r < s => InOrder(S)[r] < InOrder(S)[s]
    BY <2>2, <2>4, InOrderLists
  <2>7. InOrder(S) \in Seq(Items(menu))
    BY <2>1, <2>6
  <2> QED
    BY <1>1, <1>3, <2>2, <2>3, <2>5, <2>6, <2>7 DEF S, n
<1> QED
  BY <1>2, <1>3

(* The types of what the loop reads. *)
LEMMA LoopTypes ==
  ASSUME TypeOK
  PROVE  /\ Len(menu.items) \in Nat \ {0} /\ Items(menu) = 1..Len(menu.items)
         /\ Len(visible) \in Nat /\ Rows = 1..Len(visible)
         /\ \A r \in Rows : visible[r] \in Items(menu)
         /\ SelectableRows \in SUBSET Rows
         /\ selected \in Nat \ {0} /\ top \in Nat \ {0} /\ area \in Nat /\ area >= 3
<1>1. Len(menu.items) \in Nat \ {0} /\ Items(menu) = 1..Len(menu.items)
  BY ItemsAreNumbered, Zenon DEF TypeOK
<1>2. /\ Len(visible) \in Nat /\ Rows = 1..Len(visible)
      /\ \A r \in Rows : visible[r] \in Items(menu)
  BY DEF TypeOK, Rows
<1>3. selected \in Nat \ {0} /\ top \in Nat \ {0}
  BY <1>1 DEF TypeOK
<1> QED
  BY <1>1, <1>2, <1>3, ViewportsAssumption DEF TypeOK, SelectableRows

(* Outside a search every item is a row, and one of them can be chosen. *)
LEMMA AllItemsListed ==
  ASSUME TypeOK, Loop, query = << >>
  PROVE  /\ SelectableRows # {}
         /\ \A i \in Items(menu) : i \in Rows /\ visible[i] = i
<1>1. visible = [i \in Items(menu) |-> i]
  BY DEF Loop, ListedFor, AllItems
<1>2. Items(menu) = 1..Len(menu.items) /\ Len(menu.items) \in Nat
  BY LoopTypes
<1>3. Rows = Items(menu)
  BY <1>1, <1>2 DEF Rows
<1>4. \A i \in Items(menu) : i \in Rows /\ visible[i] = i
  BY <1>1, <1>3, Zenon
<1>5. PICK i \in Items(menu) : Selectable(i)
  BY DEF Loop
<1>6. i \in SelectableRows
  BY <1>4, <1>5 DEF SelectableRows
<1> QED
  BY <1>4, <1>6, Zenon

------------------------------------------------------------------------------
(* A step that only moves the selection keeps the invariant. *)
LEMMA MovesKeep ==
  ASSUME MenuInv, Moves
  PROVE  MenuInv'
<1>1. PICK r \in SelectableRows \cup {selected} : MoveTo(r)
  BY DEF Moves
<1>2. /\ selected' = r /\ top' = EnsureVisible(top, r, area)
      /\ UNCHANGED <<menu, visible, searching, query, shown, area, answer>>
  BY <1>1 DEF MoveTo, Continue
<1>3. shown /\ TypeOK /\ Loop /\ (selected \in Rows \/ visible = << >>)
  BY DEF Moves, MenuInv, SelectionOnScreen
<1>4. /\ Items(menu)' = Items(menu) /\ Rows' = Rows
      /\ SelectableRows' = SelectableRows
      /\ Found(query)' = Found(query)
  BY <1>2 DEF Items, Rows, SelectableRows, Selectable, Found, IsRule
<1>5. /\ Len(menu.items) \in Nat \ {0} /\ Items(menu) = 1..Len(menu.items)
      /\ Len(visible) \in Nat /\ Rows = 1..Len(visible)
      /\ \A i \in Rows : visible[i] \in Items(menu)
      /\ SelectableRows \in SUBSET Rows
      /\ selected \in Nat \ {0} /\ top \in Nat \ {0} /\ area \in Nat /\ area >= 3
  BY <1>3, LoopTypes, Zenon
<1>6. Len(visible) <= Len(menu.items)
  BY <1>3, RowsAreItems, Zenon DEF TypeOK, Loop
<1>7. r \in 1..Len(menu.items)
  BY <1>3, <1>5, <1>6 DEF TypeOK
<1>8. top' \in 1..r /\ r < top' + area
  <2>1. r \in Nat \ {0}
    BY <1>5, <1>7
  <2>2. /\ EnsureVisible(top, r, area) \in 1..r
        /\ r < EnsureVisible(top, r, area) + area
    BY <1>5, <2>1, ScrolledIntoView
  <2> QED
    BY <1>2, <2>2
<1>9. TypeOK'
  <2>1. top' \in 1..Len(menu.items)
    BY <1>5, <1>7, <1>8
  <2> QED
    BY <1>2, <1>3, <1>4, <1>7, <2>1 DEF TypeOK
<1>10. Loop'
  <2>1. ListedFor(query)' = ListedFor(query)
    BY <1>2, <1>4 DEF ListedFor, AllItems, InOrder, Items
  <2>2. \A i \in Items(menu) : Selectable(i)' = Selectable(i)
    BY <1>2 DEF Selectable
  <2>3. SelectableRows = {} => r = selected
    BY <1>1
  <2> QED
    BY <1>2, <1>3, <1>4, <2>1, <2>2, <2>3 DEF Loop
<1>11. SelectionOnScreen'
  <2>1. r \in Rows \/ visible = << >>
    BY <1>3, <1>5
  <2>2. top' <= r
    BY <1>5, <1>7, <1>8
  <2> QED
    BY <1>2, <1>4, <1>8, <2>1, <2>2 DEF SelectionOnScreen
<1> QED
  BY <1>9, <1>10, <1>11 DEF MenuInv

(* A search leaves the rows of its word, and selects one that can be chosen,
   the same one as before, or the first of a list that has none. *)
LEMMA SearchSelects ==
  ASSUME TypeOK, Loop, NEW active \in BOOLEAN, NEW word, Search(active, word),
         word # << >> => active, menu' = menu
  PROVE  /\ visible' = ListedFor(word) /\ searching' = active /\ query' = word
         /\ Rows' = 1..Len(ListedFor(word))
         /\ \/ word = << >> /\ selected' = selected
            \/ word # << >> /\ selected' \in SelectableRows'
            \/ word # << >> /\ SelectableRows' = {} /\ selected' = 1
<1>1. searching' = active /\ query' = word /\ ApplyFilter(active, word)
  BY DEF Search
<1>2. visible' = ListedFor(word)
  BY <1>1 DEF ApplyFilter, ListedFor
<1>3. Rows' = 1..Len(ListedFor(word))
  BY <1>2 DEF Rows
<1>4. CASE word = << >>
  BY <1>1, <1>2, <1>3, <1>4 DEF ApplyFilter
<1>5. CASE word # << >>
  <2> DEFINE found == InOrder(Found(word))
             choices == {r \in 1..Len(found) : Selectable(found[r])}
  <2>1. visible' = found /\ selected' = IF choices = {} THEN 1 ELSE SmallestOf(choices)
    BY <1>1, <1>5 DEF ApplyFilter
  <2>2. SelectableRows' = choices
    BY <2>1 DEF SelectableRows, Rows, Selectable
  <2>3. choices \in SUBSET Nat
    <3>1. found = ListedFor(word)
      BY <1>5 DEF ListedFor
    <3>2. Len(found) \in Nat
      BY <3>1, RowsAreItems DEF TypeOK
    <3> HIDE DEF found
    <3> QED
      BY <3>2
  <2>4. choices # {} => SmallestOf(choices) \in choices
    <3> HIDE DEF choices
    <3> QED
      BY <2>3, SmallestIs
  <2> HIDE DEF choices, found
  <2> QED
    BY <1>1, <1>2, <1>3, <1>5, <2>1, <2>2, <2>4
<1> QED
  BY <1>4, <1>5

LEMMA SearchesKeep ==
  ASSUME MenuInv, Searches
  PROVE  MenuInv'
<1>1. PICK active \in BOOLEAN, word \in Seq(Printable) :
        /\ Len(word) <= SEARCH_CAP /\ (word # << >> => active)
        /\ Search(active, word)
  BY DEF Searches
<1>2. /\ top' = EnsureVisible(top, selected', area)
      /\ UNCHANGED <<menu, shown, area, answer>>
  BY DEF Searches, Continue
<1>3. shown /\ TypeOK /\ Loop /\ (selected \in Rows \/ visible = << >>)
  BY DEF Searches, MenuInv, SelectionOnScreen
<1>4. /\ visible' = ListedFor(word) /\ searching' = active /\ query' = word
      /\ Rows' = 1..Len(ListedFor(word))
      /\ \/ word = << >> /\ selected' = selected
         \/ word # << >> /\ selected' \in SelectableRows'
         \/ word # << >> /\ SelectableRows' = {} /\ selected' = 1
  BY <1>1, <1>2, <1>3, SearchSelects
<1>5. /\ ListedFor(word) \in Seq(Items(menu))
      /\ Len(ListedFor(word)) \in Nat /\ Len(ListedFor(word)) <= Len(menu.items)
  BY <1>3, RowsAreItems DEF TypeOK
<1>6. /\ Len(menu.items) \in Nat \ {0} /\ Items(menu) = 1..Len(menu.items)
      /\ top \in Nat \ {0} /\ area \in Nat /\ area >= 3
  BY <1>3, LoopTypes, Zenon
<1>7. SelectableRows' \in SUBSET Rows'
  BY DEF SelectableRows
<1>8. selected' \in 1..Len(menu.items)
  <2>1. CASE selected' = selected
    BY <1>3, <2>1 DEF TypeOK
  <2>2. CASE selected' \in SelectableRows'
    <3>1. selected' \in 1..Len(ListedFor(word))
      BY <1>4, <1>7, <2>2
    <3> QED
      BY <1>5, <1>6, <3>1
  <2>3. CASE selected' = 1
    BY <1>6, <2>3
  <2> QED
    BY <1>4, <2>1, <2>2, <2>3
<1>9. top' \in 1..selected' /\ selected' < top' + area
  BY <1>2, <1>6, <1>8, ScrolledIntoView
<1>10. Items(menu)' = Items(menu)
  BY <1>2 DEF Items
<1>11. TypeOK'
  <2>1. top' \in 1..Len(menu.items)
    BY <1>6, <1>8, <1>9
  <2> QED
    BY <1>1, <1>2, <1>3, <1>4, <1>5, <1>8, <1>10, <2>1 DEF TypeOK
<1>12. ListedFor(query)' = ListedFor(word)
  <2>1. Found(query)' = Found(word)
    BY <1>2, <1>4 DEF Found, Items, IsRule
  <2> QED
    BY <1>2, <1>4, <2>1 DEF ListedFor, AllItems, InOrder, Items
<1>13. \E i \in Items(menu)' : Selectable(i)'
  BY <1>2, <1>3, <1>10 DEF Loop, Selectable
<1>14. word = << >> => SelectableRows' # {} /\ Rows' = 1..Len(menu.items)
  <2> SUFFICES ASSUME word = << >>
               PROVE  SelectableRows' # {} /\ Rows' = 1..Len(menu.items)
    OBVIOUS
  <2>1. visible' = [i \in 1..Len(menu.items) |-> i]
    BY <1>4, <1>6, Zenon DEF ListedFor, AllItems
  <2>2. Rows' = 1..Len(menu.items)
    <3> DEFINE n == Len(menu.items)
    <3>1. n \in Nat /\ visible' = [i \in 1..n |-> i]
      BY <1>6, <2>1
    <3> HIDE DEF n
    <3>2. Len(visible') = n
      BY <3>1
    <3> QED
      BY <3>2 DEF Rows, n
  <2>3. PICK i \in Items(menu)' : Selectable(i)'
    BY <1>13
  <2>4. i \in Rows' /\ visible'[i] = i
    BY <1>6, <1>10, <2>1, <2>2
  <2>5. i \in SelectableRows'
    BY <2>3, <2>4 DEF SelectableRows, Selectable
  <2> QED
    BY <2>2, <2>5
<1>15. Loop'
  <2>1. answer' = NoAnswer
    BY <1>2, <1>3 DEF Loop
  <2> QED
    BY <1>1, <1>4, <1>12, <1>13, <1>14, <2>1 DEF Loop, NoAnswer
<1>16. SelectionOnScreen'
  <2>1. selected' \in Rows' \/ visible' = << >>
    <3>1. CASE selected' \in SelectableRows'
      BY <1>7, <3>1
    <3>2. CASE word = << >>
      BY <1>8, <1>14, <3>2
    <3>3. CASE selected' = 1
      <4>1. Len(ListedFor(word)) = 0 => visible' = << >>
        BY <1>4, <1>5
      <4>2. Len(ListedFor(word)) # 0 => 1 \in Rows'
        BY <1>4, <1>5
      <4> QED
        BY <3>3, <4>1, <4>2
    <3> QED
      BY <1>4, <3>1, <3>2, <3>3
  <2>2. top' <= selected' /\ selected' < top' + area
    <3>1. selected' \in Nat
      BY <1>6, <1>8
    <3> QED
      BY <1>9, <3>1
  <2> QED
    BY <1>2, <2>1, <2>2 DEF SelectionOnScreen
<1> QED
  BY <1>11, <1>15, <1>16 DEF MenuInv

LEMMA AnswersKeep ==
  ASSUME MenuInv, Answers
  PROVE  MenuInv'
<1>1. PICK status \in {"ok", "cancelled", "menu"}, item \in Nat : Leave(Answer(status, item))
  BY DEF Answers
<1>2. /\ UNCHANGED modelvars /\ area' = area /\ shown' = FALSE
      /\ answer' = [status |-> status, item |-> item]
  BY <1>1 DEF Leave, Answer
<1>3. TypeOK'
  BY <1>2 DEF MenuInv, TypeOK, modelvars, Items
<1> QED
  BY <1>2, <1>3 DEF MenuInv, SelectionOnScreen

LEMMA ResizeKeeps ==
  ASSUME MenuInv, Resize
  PROVE  MenuInv'
<1>1. /\ area' \in Viewports /\ top' = EnsureVisible(top, selected, area')
      /\ UNCHANGED <<menu, visible, selected, searching, query, shown, answer>>
  BY DEF Resize
<1>2. shown /\ TypeOK /\ Loop /\ (selected \in Rows \/ visible = << >>)
  BY DEF Resize, MenuInv, SelectionOnScreen
<1>3. selected \in Nat \ {0} /\ top \in Nat \ {0} /\ Len(menu.items) \in Nat \ {0}
  BY <1>2, LoopTypes
<1>4. top' \in 1..selected /\ selected < top' + area'
  BY <1>1, <1>3, ScrolledIntoView, ViewportsAssumption
<1>5. Items(menu)' = Items(menu) /\ Rows' = Rows /\ SelectableRows' = SelectableRows
      /\ Found(query)' = Found(query)
  BY <1>1 DEF Items, Rows, SelectableRows, Selectable, Found, IsRule
<1>6. TypeOK'
  <2>1. top' \in 1..Len(menu.items)
    BY <1>2, <1>3, <1>4 DEF TypeOK
  <2> QED
    BY <1>1, <1>2, <1>5, <2>1 DEF TypeOK
<1>7. Loop'
  <2>1. ListedFor(query)' = ListedFor(query)
    BY <1>1, <1>5 DEF ListedFor, AllItems, InOrder, Items
  <2>2. \A i \in Items(menu) : Selectable(i)' = Selectable(i)
    BY <1>1 DEF Selectable
  <2> QED
    BY <1>1, <1>2, <1>5, <2>1, <2>2 DEF Loop
<1>8. SelectionOnScreen'
  <2>1. top' <= selected
    BY <1>3, <1>4
  <2> QED
    BY <1>1, <1>2, <1>4, <1>5, <2>1 DEF SelectionOnScreen
<1> QED
  BY <1>6, <1>7, <1>8 DEF MenuInv

(* A menu is shown with an item selected that can be chosen. *)
LEMMA FirstCanBeChosen ==
  ASSUME NEW m \in Menus, FirstSelected(m) # 0
  PROVE  FirstSelected(m) \in Items(m) /\ Choosable(m.items[FirstSelected(m)])
<1> DEFINE choices == {i \in Items(m) : Choosable(m.items[i])}
<1>1. FirstSelected(m) = IF m.default \in choices THEN m.default
                         ELSE IF choices # {} THEN SmallestOf(choices) ELSE 0
  BY DEF FirstSelected
<1>2. choices \in SUBSET Nat
  <2>1. Items(m) = 1..Len(m.items) /\ Len(m.items) \in Nat
    BY ItemsAreNumbered
  <2> DEFINE n == Len(m.items)
  <2>2. \A i \in Items(m) : i \in Nat
    <3>1. n \in Nat /\ Items(m) = 1..n
      BY <2>1
    <3> HIDE DEF n
    <3> QED
      BY <3>1
  <2> QED
    BY <2>2, Zenon
<1>3. FirstSelected(m) \in choices
  <2> HIDE DEF choices
  <2> QED
    BY <1>1, <1>2, SmallestIs
<1> QED
  BY <1>3

LEMMA ShowKeeps ==
  ASSUME MenuInv, Show
  PROVE  MenuInv'
<1>1. ~shown /\ area' = area /\ TypeOK
  BY DEF Show, MenuInv
<1>2. PICK m \in Menus :
        IF FirstSelected(m) = 0
          THEN answer' = Answer("invalid", 0) /\ UNCHANGED <<modelvars, shown>>
          ELSE Create(m, area) /\ shown' = TRUE /\ answer' = NoAnswer
  BY DEF Show
<1>3. CASE FirstSelected(m) = 0
  <2>1. /\ answer' = [status |-> "invalid", item |-> 0]
        /\ UNCHANGED <<modelvars, shown>>
    BY <1>2, <1>3 DEF Answer
  <2>2. TypeOK'
    BY <1>1, <2>1 DEF TypeOK, modelvars, Items
  <2> QED
    BY <1>1, <2>1, <2>2 DEF MenuInv, SelectionOnScreen
<1>4. CASE FirstSelected(m) # 0
  <2> DEFINE n == Len(m.items)
             f == FirstSelected(m)
  <2>1. /\ menu' = m /\ visible' = AllItems(m) /\ selected' = f
        /\ top' = EnsureVisible(1, f, area)
        /\ searching' = FALSE /\ query' = << >>
        /\ shown' = TRUE /\ answer' = [status |-> "none", item |-> 0]
    BY <1>2, <1>4 DEF Create, NoAnswer
  <2>2. n \in Nat \ {0} /\ Items(m) = 1..n
    BY ItemsAreNumbered
  <2>3. f \in Items(m) /\ Choosable(m.items[f])
    BY <1>4, FirstCanBeChosen
  <2>4. area \in Nat /\ area >= 3
    BY <1>1, ViewportsAssumption DEF TypeOK
  <2>5. n = Len(menu.items)' /\ Items(menu)' = Items(m)
    BY <2>1 DEF Items
  <2>6. visible' = [i \in 1..n |-> i]
    BY <2>1, <2>2, Zenon DEF AllItems
  <2> HIDE DEF n, f
  <2>7. f \in Nat \ {0}
    BY <2>2, <2>3
  <2>8. top' \in 1..f /\ f < top' + area
    <3>1. 1 \in Nat \ {0}
      OBVIOUS
    <3>2. EnsureVisible(1, f, area) \in 1..f /\ f < EnsureVisible(1, f, area) + area
      BY <2>4, <2>7, <3>1, ScrolledIntoView
    <3> QED
      BY <2>1, <3>2
  <2>9. visible' \in Seq(1..n) /\ Len(visible') = n
    BY <2>2, <2>6
  <2>10. Rows' = 1..n
    BY <2>9 DEF Rows
  <2>11. TypeOK'
    <3>1. selected' \in 1..n /\ top' \in 1..n
      BY <2>1, <2>2, <2>3, <2>7, <2>8
    <3>2. query' \in Seq(Printable) /\ Len(query') <= SEARCH_CAP
      BY <2>1, SearchCapAssumption
    <3> QED
      BY <1>1, <2>1, <2>2, <2>5, <2>9, <3>1, <3>2 DEF TypeOK
  <2>12. f \in SelectableRows'
    BY <2>1, <2>2, <2>3, <2>6, <2>10 DEF SelectableRows, Selectable
  <2>13. Loop'
    <3>1. Selectable(f)'
      BY <2>1, <2>3 DEF Selectable
    <3>2. visible' = ListedFor(query)'
      BY <2>1 DEF ListedFor
    <3> QED
      BY <2>1, <2>3, <2>5, <2>12, <3>1, <3>2 DEF Loop, NoAnswer
  <2>14. SelectionOnScreen'
    <3>1. top' <= f /\ f \in Rows'
      BY <2>2, <2>3, <2>7, <2>8, <2>10
    <3> QED
      BY <1>1, <2>1, <2>8, <3>1 DEF SelectionOnScreen
  <2> QED
    BY <2>11, <2>13, <2>14 DEF MenuInv
<1> QED
  BY <1>3, <1>4

------------------------------------------------------------------------------
(***************************************************************************)
(* Every step of the loop is of one of its kinds.                          *)
(***************************************************************************)

LEMMA IgnoredIsMove ==
  ASSUME shown, Ignore PROVE Moves
<1>1. MoveTo(selected)
  BY DEF Ignore, MoveTo
<1> QED
  BY <1>1 DEF Moves

LEMMA ConfirmIs ==
  ASSUME TypeOK, shown, NEW i, Confirm(i),
         i # 0 /\ Selectable(i) => \E r \in SelectableRows : visible[r] = i
  PROVE  Moves \/ Answers
<1>1. CASE Ignore
  BY <1>1, IgnoredIsMove
<1>2. CASE i # 0 /\ Selectable(i) /\ Leave(Answer("ok", i))
  <2>1. PICK r \in SelectableRows : visible[r] = i
    BY <1>2
  <2>2. i \in Nat
    <3>1. visible[r] \in Items(menu) /\ Items(menu) = 1..Len(menu.items)
      BY <2>1, LoopTypes
    <3>2. Len(menu.items) \in Nat
      BY LoopTypes
    <3> QED
      BY <2>1, <3>1, <3>2
  <2> QED
    BY <1>2, <2>1, <2>2 DEF Answers
<1> QED
  BY <1>1, <1>2 DEF Confirm

LEMMA ConfirmSelected ==
  ASSUME TypeOK, shown, Confirm(SelectedItem)
  PROVE  Moves \/ Answers
<1>1. SelectedItem # 0 /\ Selectable(SelectedItem) =>
        \E r \in SelectableRows : visible[r] = SelectedItem
  BY DEF SelectedItem, VisibleAt, SelectableRows
<1> QED
  BY <1>1, ConfirmIs

LEMMA SearchIs ==
  ASSUME shown, Continue, NEW active \in BOOLEAN, NEW word \in Seq(Printable),
         Len(word) <= SEARCH_CAP, word # << >> => active, Search(active, word)
  PROVE  Searches
BY DEF Searches

LEMMA ShorterQuery ==
  ASSUME TypeOK, query # << >>
  PROVE  /\ SubSeq(query, 1, Len(query) - 1) \in Seq(Printable)
         /\ Len(SubSeq(query, 1, Len(query) - 1)) <= SEARCH_CAP
<1>1. query \in Seq(Printable) /\ Len(query) <= SEARCH_CAP
  BY DEF TypeOK
<1>2. Len(query) \in Nat \ {0}
  BY <1>1
<1>3. PICK n \in Nat : n = Len(query) - 1
  BY <1>2
<1>4. 1 \in 1..Len(query) + 1 /\ n \in 0..Len(query)
  BY <1>2, <1>3
<1>5. /\ SubSeq(query, 1, n) \in Seq(Printable)
      /\ Len(SubSeq(query, 1, n)) = IF 1 <= n THEN n - 1 + 1 ELSE 0
  BY <1>1, <1>4, SubSeqProperties
<1>6. n <= SEARCH_CAP /\ 0 <= SEARCH_CAP
  BY <1>1, <1>2, <1>3, SearchCapAssumption
<1> QED
  BY <1>3, <1>5, <1>6

LEMMA StepsAre ==
  ASSUME MenuInv, Next
  PROVE  Show \/ Moves \/ Searches \/ Answers \/ Resize
<1>1. TypeOK /\ (shown => Loop)
  BY DEF MenuInv
<1>2. Len(visible) \in Nat
  BY <1>1, LoopTypes
<1>3. query \in Seq(Printable) /\ Len(query) <= SEARCH_CAP
  BY <1>1 DEF TypeOK
<1>4. \A r \in SelectableRows \cup {selected} : shown /\ MoveTo(r) => Moves
  BY DEF Moves
<1>5. CASE SearchEscape
  <2>1. << >> \in Seq(Printable) /\ Len(<< >>) <= SEARCH_CAP
    BY SearchCapAssumption
  <2> QED
    BY <1>5, <2>1, SearchIs DEF SearchEscape, SearchClose
<1>6. CASE SearchEnter
  BY <1>1, <1>6, ConfirmSelected DEF SearchEnter
<1>7. CASE SearchRubout
  <2>1. shown /\ SearchBackspace /\ Continue
    BY <1>7 DEF SearchRubout
  <2>2. CASE query = << >>
    BY <2>1, <2>2, IgnoredIsMove DEF SearchBackspace, Ignore
  <2>3. CASE query # << >>
    BY <1>1, <2>1, <2>3, ShorterQuery, SearchIs DEF SearchBackspace
  <2> QED
    BY <2>2, <2>3
<1>8. CASE SearchType
  <2>1. PICK ch \in Printable : SearchAppend(ch)
    BY <1>8 DEF SearchType
  <2>2. shown /\ Continue
    BY <1>8 DEF SearchType
  <2>3. CASE Len(query) >= SEARCH_CAP
    BY <2>1, <2>2, <2>3, IgnoredIsMove DEF SearchAppend, Ignore
  <2>4. CASE ~(Len(query) >= SEARCH_CAP)
    <3>1. /\ Append(query, ch) \in Seq(Printable)
          /\ Len(Append(query, ch)) <= SEARCH_CAP
      BY <1>3, <2>4, SearchCapAssumption
    <3> QED
      BY <2>1, <2>2, <2>4, <3>1, SearchIs DEF SearchAppend
  <2> QED
    BY <2>3, <2>4
<1>22. CASE SearchArrow
  BY <1>22, IgnoredIsMove DEF SearchArrow
<1>9. CASE MnemonicConfirms
  <2>0. PICK ch : \E i \in MnemonicItems(ch) : Confirm(i)
    BY <1>9 DEF MnemonicConfirms
  <2>1. PICK i \in MnemonicItems(ch) : Confirm(i)
    BY <2>0
  <2>2. shown /\ ~searching
    BY <1>9 DEF MnemonicConfirms
  <2>3. query = << >>
    BY <1>1, <2>2 DEF Loop
  <2>4. i \in Items(menu) /\ Selectable(i)
    BY <2>1 DEF MnemonicItems
  <2>5. i \in SelectableRows /\ visible[i] = i
    BY <1>1, <2>2, <2>3, <2>4, AllItemsListed DEF SelectableRows
  <2> QED
    BY <1>1, <2>1, <2>2, <2>5, ConfirmIs
<1>10. CASE MnemonicCycles
  BY <1>2, <1>4, <1>10, MnemonicLands DEF MnemonicCycles
<1>11. CASE KeyStep
  BY <1>2, <1>4, <1>11, StepLands DEF KeyStep
<1>12. CASE KeyPage
  <2>1. area \in Nat
    BY <1>1, LoopTypes
  <2> QED
    BY <1>2, <1>4, <1>12, <2>1, PageLands DEF KeyPage
<1>13. CASE KeyHomeEnd
  BY <1>2, <1>4, <1>13, EndsLand DEF KeyHomeEnd
<1>14. CASE KeyEnter
  BY <1>1, <1>14, ConfirmSelected DEF KeyEnter
<1>15. CASE KeyEscape
  BY <1>15 DEF KeyEscape, Answers
<1>16. CASE KeyQuit
  BY <1>16 DEF KeyQuit, Free, Answers
<1>17. CASE KeySlash
  <2>1. CASE menu.search
    <3>1. << >> \in Seq(Printable) /\ Len(<< >>) <= SEARCH_CAP
      BY SearchCapAssumption
    <3> QED
      BY <1>17, <2>1, <3>1, SearchIs DEF KeySlash, SearchOpen
  <2>2. CASE ~menu.search
    BY <1>17, <2>2, IgnoredIsMove DEF KeySlash
  <2> QED
    BY <2>1, <2>2
<1>18. CASE KeyDigit
  BY <1>4, <1>18, JumpLands DEF KeyDigit, Free
<1>19. CASE MouseWheel
  BY <1>2, <1>4, <1>19, StepLands DEF MouseWheel
<1>20. CASE MouseClick
  BY <1>4, <1>20, JumpLands DEF MouseClick
<1>21. CASE MouseDoubleClick
  <2>1. PICK r : IF r \in SelectableRows THEN Confirm(visible[r]) ELSE Ignore
    BY <1>21 DEF MouseDoubleClick
  <2>2. shown
    BY <1>21 DEF MouseDoubleClick
  <2>3. CASE r \in SelectableRows
    BY <1>1, <2>1, <2>2, <2>3, ConfirmIs
  <2>4. CASE r \notin SelectableRows
    BY <2>1, <2>2, <2>4, IgnoredIsMove
  <2> QED
    BY <2>3, <2>4
<1> QED
  BY <1>5, <1>6, <1>7, <1>8, <1>9, <1>10, <1>11, <1>12, <1>13, <1>14, <1>15,
     <1>16, <1>17, <1>18, <1>19, <1>20, <1>21, <1>22 DEF Next

------------------------------------------------------------------------------
(***************************************************************************)
(* The invariant of the loop, and what follows from it.                    *)
(***************************************************************************)

LEMMA MenuInvariant == Spec => []MenuInv
<1>1. Init => MenuInv
  <2> SUFFICES ASSUME Init PROVE MenuInv
    OBVIOUS
  <2>1. /\ menu \in Menus /\ visible = << >> /\ selected = 1 /\ top = 1
        /\ searching = FALSE /\ query = << >> /\ shown = FALSE /\ area \in Viewports
        /\ answer = [status |-> "none", item |-> 0]
    BY DEF Init, NoAnswer
  <2>2. Len(menu.items) \in Nat \ {0}
    BY <2>1, ItemsAreNumbered
  <2>3. 1 \in 1..Len(menu.items)
    BY <2>2
  <2>4. << >> \in Seq(Items(menu)) /\ << >> \in Seq(Printable) /\ Len(<< >>) <= SEARCH_CAP
    BY SearchCapAssumption
  <2>5. answer.status = "none" /\ answer.item = 0
    BY <2>1
  <2>6. TypeOK
    BY <2>1, <2>3, <2>4, <2>5 DEF TypeOK
  <2> QED
    BY <2>1, <2>6 DEF MenuInv, SelectionOnScreen
<1>2. MenuInv /\ [Next]_vars => MenuInv'
  <2> SUFFICES ASSUME MenuInv, [Next]_vars PROVE MenuInv'
    OBVIOUS
  <2>1. CASE Next
    BY <2>1, StepsAre, ShowKeeps, MovesKeep, SearchesKeep, AnswersKeep, ResizeKeeps
  <2>2. CASE UNCHANGED vars
    <3>1. UNCHANGED <<menu, visible, selected, top, searching, query, shown, area, answer>>
      BY <2>2 DEF vars, modelvars
    <3>2. /\ Items(menu)' = Items(menu) /\ Rows' = Rows /\ SelectableRows' = SelectableRows
          /\ Found(query)' = Found(query) /\ \A i : Selectable(i)' = Selectable(i)
      BY <3>1 DEF Items, Rows, SelectableRows, Selectable, Found, IsRule
    <3>3. ListedFor(query)' = ListedFor(query)
      BY <3>1, <3>2 DEF ListedFor, AllItems, InOrder, Items
    <3>4. TypeOK' /\ SelectionOnScreen'
      BY <3>1, <3>2 DEF MenuInv, TypeOK, SelectionOnScreen
    <3>5. shown' => Loop'
      BY <3>1, <3>2, <3>3 DEF MenuInv, Loop
    <3> QED
      BY <3>4, <3>5 DEF MenuInv
  <2> QED
    BY <2>1, <2>2
<1> QED
  BY <1>1, <1>2, PTL DEF Spec

(* Whatever is typed, clicked or resized, rows, selection, viewport and answer
   are of their types: the selected row and the first one on the screen are
   never past the list of items. *)
THEOREM MenuTypeCorrect == Spec => []TypeOK
<1>1. MenuInv => TypeOK
  BY DEF MenuInv
<1> QED
  BY <1>1, MenuInvariant, PTL

(* The loop waits with the selected row on the screen, for every list, query and
   size of the viewport (menu_state_apply_filter, ensure_selection_visible). *)
THEOREM SelectionStaysOnScreen == Spec => []SelectionOnScreen
<1>1. MenuInv => SelectionOnScreen
  BY DEF MenuInv
<1> QED
  BY <1>1, MenuInvariant, PTL

LEMMA JoinedIs ==
  ASSUME NEW S, NEW x \in Seq(S), NEW y \in Seq(S)
  PROVE  /\ x \o y \in Seq(S) /\ Len(x \o y) = Len(x) + Len(y)
         /\ \A i \in 1..Len(x) : (x \o y)[i] = x[i]
         /\ \A i \in 1..Len(y) : (x \o y)[Len(x) + i] = y[i]
OBVIOUS

LEMMA ThreeJoined ==
  ASSUME NEW S, NEW x \in Seq(S), NEW y \in Seq(S), NEW z \in Seq(S)
  PROVE  /\ (x \o y) \o z \in Seq(S)
         /\ Len((x \o y) \o z) = Len(x) + Len(y) + Len(z)
         /\ \A i \in 1..Len(x) : ((x \o y) \o z)[i] = x[i]
         /\ \A i \in 1..Len(y) : ((x \o y) \o z)[Len(x) + i] = y[i]
         /\ \A i \in 1..Len(z) : ((x \o y) \o z)[Len(x) + Len(y) + i] = z[i]
<1> DEFINE a == Len(x)
           w == Len(y)
           m == Len(z)
<1>1. /\ x \o y \in Seq(S) /\ Len(x \o y) = Len(x) + Len(y)
      /\ \A i \in 1..Len(x) : (x \o y)[i] = x[i]
      /\ \A i \in 1..Len(y) : (x \o y)[Len(x) + i] = y[i]
  BY JoinedIs
<1>2. PICK q \in Seq(S) : q = x \o y
  BY <1>1
<1>3. a \in Nat /\ w \in Nat /\ m \in Nat
  OBVIOUS
<1>4. /\ q \o z \in Seq(S) /\ Len(q \o z) = Len(q) + Len(z)
      /\ \A i \in 1..Len(q) : (q \o z)[i] = q[i]
      /\ \A i \in 1..Len(z) : (q \o z)[Len(q) + i] = z[i]
  BY JoinedIs
<1>5. /\ Len(q) = a + w
      /\ \A i \in 1..a : q[i] = x[i]
      /\ \A i \in 1..w : q[a + i] = y[i]
  BY <1>1, <1>2
<1> HIDE DEF a, w, m
<1>6. \A i \in 1..a : i \in 1..a + w
  BY <1>3
<1>7. ASSUME NEW i \in 1..w PROVE (q \o z)[a + i] = y[i]
  <2>1. a + i \in 1..a + w
    BY <1>3
  <2> QED
    BY <1>4, <1>5, <2>1, Zenon
<1>8. \A i \in 1..a : (q \o z)[i] = x[i]
  BY <1>4, <1>6, <1>5, Zenon
<1>9. /\ q \o z \in Seq(S) /\ Len(q \o z) = a + w + m
      /\ \A i \in 1..m : (q \o z)[a + w + i] = z[i]
  BY <1>4, <1>5 DEF m
<1> QED
  BY <1>2, <1>7, <1>8, <1>9, Zenon DEF a, w, m

(* A word is found in a text when the text is something, the word, and something. *)
LEMMA ContainsIs ==
  ASSUME NEW S, NEW text \in Seq(S), NEW word \in Seq(S), word # << >>
  PROVE  Contains(text, word) <=>
           \E a, b \in 0..Len(text) :
             text = SubSeq(text, 1, a) \o word \o SubSeq(text, b + 1, Len(text))
<1> DEFINE n == Len(text)
           w == Len(word)
<1>0. n \in Nat /\ w \in Nat \ {0} /\ text \in [1..n -> S] /\ word \in [1..w -> S]
  OBVIOUS
<1>1. \A a \in 0..n : SubSeq(text, 1, a) \in Seq(S) /\ Len(SubSeq(text, 1, a)) = a
                      /\ \A i \in 1..a : SubSeq(text, 1, a)[i] = text[i]
  <2> SUFFICES ASSUME NEW a \in 0..n
               PROVE  /\ SubSeq(text, 1, a) \in Seq(S) /\ Len(SubSeq(text, 1, a)) = a
                      /\ \A i \in 1..a : SubSeq(text, 1, a)[i] = text[i]
    OBVIOUS
  <2> HIDE DEF n, w
  <2>1. \A i \in 1..a : text[i] \in S
    BY <1>0
  <2>2. /\ SubSeq(text, 1, a) \in Seq(S)
        /\ Len(SubSeq(text, 1, a)) = IF 1 <= a THEN a - 1 + 1 ELSE 0
        /\ \A i \in 1..a - 1 + 1 : SubSeq(text, 1, a)[i] = text[1 + i - 1]
    <3>1. a \in Int /\ 1 \in Int
      BY <1>0
    <3> QED
      BY <2>1, <3>1, SubSeqProperties
  <2>3. a - 1 + 1 = a /\ \A i \in 1..a : 1 + i - 1 = i
    BY <1>0
  <2>4. (IF 1 <= a THEN a - 1 + 1 ELSE 0) = a
    BY <1>0
  <2> QED
    BY <2>2, <2>3, <2>4
<1>2. \A b \in 0..n : SubSeq(text, b + 1, n) \in Seq(S)
                      /\ Len(SubSeq(text, b + 1, n)) = n - b
                      /\ \A i \in 1..n - b : SubSeq(text, b + 1, n)[i] = text[b + i]
  <2> SUFFICES ASSUME NEW b \in 0..n
               PROVE  /\ SubSeq(text, b + 1, n) \in Seq(S)
                      /\ Len(SubSeq(text, b + 1, n)) = n - b
                      /\ \A i \in 1..n - b : SubSeq(text, b + 1, n)[i] = text[b + i]
    OBVIOUS
  <2> HIDE DEF n, w
  <2>1. \A i \in b + 1..n : text[i] \in S
    BY <1>0
  <2>2. PICK c \in Int : c = b + 1
    BY <1>0
  <2>3. /\ SubSeq(text, c, n) \in Seq(S)
        /\ Len(SubSeq(text, c, n)) = IF c <= n THEN n - c + 1 ELSE 0
        /\ \A i \in 1..n - c + 1 : SubSeq(text, c, n)[i] = text[c + i - 1]
    <3>1. n \in Int
      BY <1>0
    <3> QED
      BY <2>1, <2>2, <3>1, SubSeqProperties
  <2>4. n - c + 1 = n - b /\ \A i \in 1..n - b : c + i - 1 = b + i
    BY <1>0, <2>2
  <2>5. (IF c <= n THEN n - c + 1 ELSE 0) = n - b
    BY <1>0, <2>2
  <2> QED
    BY <2>2, <2>3, <2>4, <2>5
<1> DEFINE joined(a, b) == SubSeq(text, 1, a) \o word \o SubSeq(text, b + 1, n)
<1>3. ASSUME NEW a \in 0..n, NEW b \in 0..n
      PROVE  /\ joined(a, b) \in Seq(S) /\ Len(joined(a, b)) = a + w + (n - b)
             /\ \A i \in 1..a : joined(a, b)[i] = text[i]
             /\ \A i \in 1..w : joined(a, b)[a + i] = word[i]
             /\ \A i \in 1..n - b : joined(a, b)[a + w + i] = text[b + i]
  <2>1. PICK x \in Seq(S) : x = SubSeq(text, 1, a) /\ Len(x) = a
                                 /\ \A i \in 1..a : x[i] = text[i]
    BY <1>1
  <2>2. PICK z \in Seq(S) : z = SubSeq(text, b + 1, n) /\ Len(z) = n - b
                                 /\ \A i \in 1..n - b : z[i] = text[b + i]
    BY <1>2
  <2>3. joined(a, b) = (x \o word) \o z
    BY <2>1, <2>2
  <2> HIDE DEF n
  <2>4. w = Len(word)
    OBVIOUS
  <2> HIDE DEF w
  <2>5. PICK m \in Nat : m = n - b
    BY <1>0
  <2>6. PICK v \in Seq(S) : v = word
    OBVIOUS
  <2>7. /\ (x \o v) \o z \in Seq(S)
        /\ Len((x \o v) \o z) = Len(x) + Len(v) + Len(z)
        /\ \A i \in 1..Len(x) : ((x \o v) \o z)[i] = x[i]
        /\ \A i \in 1..Len(v) : ((x \o v) \o z)[Len(x) + i] = v[i]
        /\ \A i \in 1..Len(z) : ((x \o v) \o z)[Len(x) + Len(v) + i] = z[i]
    BY ThreeJoined
  <2>8. Len(x) = a /\ Len(v) = w /\ Len(z) = m /\ joined(a, b) = (x \o v) \o z
    BY <2>1, <2>2, <2>3, <2>4, <2>5, <2>6
  <2> HIDE DEF joined
  <2>9. /\ joined(a, b) \in Seq(S) /\ Len(joined(a, b)) = a + w + m
        /\ \A i \in 1..a : joined(a, b)[i] = x[i]
        /\ \A i \in 1..w : joined(a, b)[a + i] = v[i]
        /\ \A i \in 1..m : joined(a, b)[a + w + i] = z[i]
    BY <2>7, <2>8
  <2> QED
    BY <2>1, <2>2, <2>5, <2>6, <2>9, Zenon
<1> HIDE DEF joined
<1>4. Contains(text, word) <=>
        \E p \in 1..n : \A k \in 1..w : p + k - 1 <= n /\ text[p + k - 1] = word[k]
  BY DEF Contains
<1>5. ASSUME NEW p \in 1..n,
             \A k \in 1..w : p + k - 1 <= n /\ text[p + k - 1] = word[k]
      PROVE  \E a, b \in 0..n : text = joined(a, b)
  <2> HIDE DEF n, w
  <2>1. w \in 1..w
    BY <1>0
  <2>2. p - 1 \in 0..n /\ p - 1 + w \in 0..n
    <3>1. p + w - 1 <= n
      BY <1>5, <2>1
    <3> QED
      BY <1>0, <3>1
  <2>3. PICK a \in 0..n, b \in 0..n : a = p - 1 /\ b = p - 1 + w
    BY <2>2
  <2>4. joined(a, b) \in Seq(S) /\ Len(joined(a, b)) = a + w + (n - b)
    BY <1>3
  <2>5. Len(joined(a, b)) = n
    BY <1>0, <2>3, <2>4
  <2>6. ASSUME NEW i \in 1..n PROVE text[i] = joined(a, b)[i]
    <3>1. CASE i <= a
      <4>1. i \in 1..a
        BY <1>0, <3>1
      <4> QED
        BY <1>3, <4>1
    <3>2. CASE a < i /\ i <= a + w
      <4>1. PICK k \in 1..w : k = i - a
        BY <1>0, <3>2
      <4>2. a + k = i /\ p + k - 1 = i
        BY <1>0, <2>3, <4>1
      <4>3. joined(a, b)[a + k] = word[k]
        BY <1>3
      <4>4. text[p + k - 1] = word[k]
        BY <1>5
      <4> QED
        BY <4>2, <4>3, <4>4
    <3>3. CASE a + w < i
      <4>1. PICK k \in 1..n - b : k = i - (a + w)
        BY <1>0, <2>3, <3>3
      <4>2. a + w + k = i /\ b + k = i
        BY <1>0, <2>3, <4>1
      <4>3. joined(a, b)[a + w + k] = text[b + k]
        BY <1>3, Zenon
      <4> QED
        BY <4>2, <4>3
    <3> QED
      BY <1>0, <3>1, <3>2, <3>3
  <2>7. text = joined(a, b)
    <3>1. joined(a, b) \in [1..n -> S]
      BY <2>4, <2>5
    <3> QED
      BY <1>0, <2>6, <3>1
  <2> QED
    BY <2>7
<1>6. ASSUME NEW a \in 0..n, NEW b \in 0..n, text = joined(a, b)
      PROVE  \E p \in 1..n : \A k \in 1..w : p + k - 1 <= n /\ text[p + k - 1] = word[k]
  <2>1. n = a + w + (n - b)
    BY <1>3, <1>6
  <2> HIDE DEF n, w
  <2>2. PICK p \in 1..n : p = a + 1
    BY <1>0, <2>1
  <2>3. ASSUME NEW k \in 1..w PROVE p + k - 1 <= n /\ text[p + k - 1] = word[k]
    <3>1. p + k - 1 = a + k /\ a + k <= n
      BY <1>0, <2>1, <2>2
    <3>2. joined(a, b)[a + k] = word[k]
      BY <1>3
    <3> QED
      BY <1>6, <3>1, <3>2
  <2> QED
    BY <2>3
<1> HIDE DEF n, w
<1>7. Contains(text, word) <=> \E a, b \in 0..n : text = joined(a, b)
  BY <1>4, <1>5, <1>6
<1> QED
  BY <1>7 DEF n, joined

LEMMA WantedIsFound ==
  ASSUME TypeOK, query # << >>, NEW i \in Items(menu)
  PROVE  Wanted(i) <=> i \in Found(query)
<1> DEFINE S == STRING \cup Printable
<1>1. menu.items[i].text \in Seq(S)
  <2>1. menu.items[i].text \in Seq(STRING)
    BY MenusAssumption DEF TypeOK, Items
  <2> QED
    BY <2>1
<1>2. query \in Seq(S)
  BY DEF TypeOK
<1> DEFINE text == menu.items[i].text
           split == \E a, b \in 0..Len(text) :
                      text = SubSeq(text, 1, a) \o query \o SubSeq(text, b + 1, Len(text))
<1>3. Contains(text, query) <=> split
  <2> HIDE DEF text, S
  <2>1. text \in Seq(S)
    BY <1>1 DEF text
  <2> QED
    BY <1>2, <2>1, ContainsIs, Zenon
<1>4. Wanted(i) <=> query = << >> \/ (~IsRule(i) /\ split)
  BY Zenon DEF Wanted
<1>5. i \in Found(query) <=> ~IsRule(i) /\ Contains(text, query)
  BY Zenon DEF Found
<1> HIDE DEF split, text
<1> QED
  BY <1>3, <1>4, <1>5

(* At every key the rows are the items the query on the screen is found in, in
   the items' order: opening, typing, rubbing out and leaving a search never
   keep rows of an earlier query (menu_state_apply_filter). *)
THEOREM RowsAreTheWanted == Spec => []VisibleAreTheWanted
<1>1. MenuInv => VisibleAreTheWanted
  <2> SUFFICES ASSUME MenuInv, shown PROVE VisibleAreTheWanted
    BY DEF VisibleAreTheWanted
  <2>1. TypeOK /\ Loop
    BY DEF MenuInv
  <2>2. visible = ListedFor(query) /\ (query # << >> => searching)
    BY <2>1 DEF Loop
  <2>3. /\ \A r, s \in 1..Len(visible) : r < s => visible[r] < visible[s]
        /\ {visible[r] : r \in 1..Len(visible)} =
             IF query = << >> THEN Items(menu) ELSE Found(query)
    BY <2>1, <2>2, RowsAreItems DEF TypeOK
  <2>4. {i \in Items(menu) : Wanted(i)} =
          IF query = << >> THEN Items(menu) ELSE Found(query)
    <3>1. CASE query = << >>
      BY <3>1, Zenon DEF Wanted
    <3>2. CASE query # << >>
      <4>1. Found(query) \subseteq Items(menu)
        BY DEF Found
      <4> QED
        BY <2>1, <3>2, <4>1, WantedIsFound, Zenon
    <3> QED
      BY <3>1, <3>2
  <2> QED
    BY <2>2, <2>3, <2>4 DEF VisibleAreTheWanted, Rows
<1> QED
  BY <1>1, MenuInvariant, PTL

(* The labels on the screen are 1, 2, 3... without a gap, and the digit of a label
   jumps to its row (tui_menu_state_number_for_row, row_for_number). *)
THEOREM LabelsAreInverse == Spec => []NumbersAreInverse
<1>1. MenuInv => NumbersAreInverse
  <2> SUFFICES ASSUME MenuInv, shown PROVE NumbersAreInverse
    BY DEF NumbersAreInverse
  <2> DEFINE labelled == {r \in Rows : ~IsRule(visible[r])}
             c == Cardinality(labelled)
  <2>1. Rows = 1..Len(visible) /\ Len(visible) \in Nat
    BY LoopTypes DEF MenuInv
  <2>2. labelled \in SUBSET Nat /\ IsFiniteSet(labelled)
    <3>1. IsFiniteSet(Rows)
      BY <2>1, FS_Interval
    <3>2. labelled \in SUBSET Rows
      OBVIOUS
    <3>3. Rows \in SUBSET Nat
      BY <2>1
    <3>4. IsFiniteSet(labelled)
      BY <3>1, <3>2, FS_Subset, Zenon
    <3> QED
      BY <3>2, <3>3, <3>4
  <2>3. ASSUME NEW v \in Rows
        PROVE  {u \in 1..v : ~IsRule(visible[u])} = {j \in labelled : j <= v}
    <3>1. \A u : u \in 1..v <=> u \in Rows /\ u <= v
      BY <2>1
    <3> QED
      BY <3>1, Zenon
  <2>4. \A r \in labelled : NumberForRow(r) = Rank(labelled, r)
    <3> SUFFICES ASSUME NEW r \in labelled PROVE NumberForRow(r) = Rank(labelled, r)
      OBVIOUS
    <3>1. r \in Rows /\ ~IsRule(visible[r])
      OBVIOUS
    <3>2. NumberForRow(r) = Cardinality({v \in 1..r : ~IsRule(visible[v])})
      BY <3>1, Zenon DEF NumberForRow
    <3> QED
      BY <2>3, <3>1, <3>2, Zenon DEF Rank
  <2> DEFINE at(n) == {v \in labelled : Rank(labelled, v) = n}
  <2>5. ASSUME NEW n \in Nat
        PROVE  RowForNumber(n) =
                 IF n <= 0 \/ at(n) = {} THEN 0 ELSE SmallestOf(at(n))
    <3> DEFINE rows == {v \in Rows : ~IsRule(visible[v]) /\
                          Cardinality({u \in 1..v : ~IsRule(visible[u])}) = n}
    <3>1. rows = at(n)
      <4>1. \A v \in Rows : Cardinality({u \in 1..v : ~IsRule(visible[u])})
                              = Rank(labelled, v)
        BY <2>3, Zenon DEF Rank
      <4> QED
        BY <4>1, Zenon
    <3>2. RowForNumber(n) = IF n <= 0 \/ rows = {} THEN 0 ELSE SmallestOf(rows)
      BY Zenon DEF RowForNumber
    <3> QED
      BY <3>1, <3>2, Zenon
  <2> HIDE DEF labelled, c
  <2>6. /\ \A i \in labelled : Rank(labelled, i) \in 1..c
        /\ \A i, k \in labelled : i < k => Rank(labelled, i) < Rank(labelled, k)
        /\ \A n \in 1..c : \E i \in labelled : Rank(labelled, i) = n
    BY <2>2, RanksAreNumbers DEF c
  <2>7. c \in Nat
    BY <2>2, FS_CardinalityType DEF c
  <2>8. ASSUME NEW n \in Nat, n > 0, at(n) # {}
        PROVE  RowForNumber(n) \in labelled /\ Rank(labelled, RowForNumber(n)) = n
    <3>1. at(n) \in SUBSET Nat
      BY <2>2
    <3>2. SmallestOf(at(n)) \in at(n)
      <4> HIDE DEF at
      <4> QED
        BY <2>8, <3>1, SmallestIs
    <3>3. RowForNumber(n) = SmallestOf(at(n))
      <4> HIDE DEF at
      <4> QED
        BY <2>5, <2>8
    <3> QED
      BY <3>2, <3>3
  <2>9. {NumberForRow(r) : r \in labelled} = 1..c
    BY <2>4, <2>6
  <2>10. ASSUME NEW r \in labelled PROVE RowForNumber(NumberForRow(r)) = r
    <3>1. PICK n \in Nat : n = Rank(labelled, r) /\ n > 0
      BY <2>6, <2>7
    <3>2. RowForNumber(n) \in labelled /\ Rank(labelled, RowForNumber(n)) = n
      <4>1. r \in at(n)
        BY <3>1
      <4> QED
        BY <2>8, <3>1, <4>1
    <3>3. RowForNumber(n) \in Nat /\ r \in Nat
      BY <2>2, <3>2
    <3>4. ~(RowForNumber(n) < r) /\ ~(r < RowForNumber(n))
      BY <2>6, <3>1, <3>2
    <3>5. RowForNumber(n) = r
      BY <3>3, <3>4
    <3> QED
      BY <2>4, <3>1, <3>5
  <2>11. ASSUME NEW n \in 0..Len(visible) + 1, RowForNumber(n) # 0
         PROVE  NumberForRow(RowForNumber(n)) = n
    <3>1. n \in Nat
      BY <2>1
    <3>2. n > 0 /\ at(n) # {}
      <4> HIDE DEF at
      <4> QED
        BY <2>5, <2>11, <3>1
    <3> QED
      BY <2>4, <2>8, <3>1, <3>2
  <2> QED
    BY <2>9, <2>10, <2>11, Zenon DEF NumbersAreInverse, labelled, c
<1> QED
  BY <1>1, MenuInvariant, PTL

(* While a list stands, keys, clicks and the wheel move the selection only to items
   that can be chosen: rules and disabled items are skipped. *)
THEOREM SelectionLandsOnChoices == Spec => MovesLandOnChoices
<1> DEFINE Lands == shown /\ shown' /\ visible' = visible /\ selected' # selected
                    => Selectable(visible[selected'])
<1>1. MenuInv /\ [Next]_vars => [Lands]_vars
  <2> SUFFICES ASSUME MenuInv, Next, shown, shown', visible' = visible,
                      selected' # selected
               PROVE  Selectable(visible[selected'])
    OBVIOUS
  <2>0. TypeOK /\ Loop
    BY DEF MenuInv
  <2>1. CASE Moves
    BY <2>1 DEF Moves, MoveTo, SelectableRows
  <2>2. CASE Searches
    <3>1. PICK active \in BOOLEAN, word \in Seq(Printable) :
            (word # << >> => active) /\ Search(active, word)
      BY <2>2 DEF Searches
    <3>2. menu' = menu
      BY <2>2 DEF Searches, Continue
    <3>3. \/ selected' = selected
          \/ selected' \in SelectableRows'
          \/ word # << >> /\ SelectableRows' = {} /\ selected' = 1
      BY <2>0, <3>1, <3>2, SearchSelects
    <3>4. SelectableRows' = SelectableRows
      BY <3>2 DEF SelectableRows, Rows, Selectable
    <3>5. SelectableRows' = {} => selected = 1
      BY <2>0, <3>4 DEF Loop
    <3> QED
      BY <3>3, <3>4, <3>5 DEF SelectableRows
  <2>3. CASE Show \/ Answers \/ Resize
    BY <2>3 DEF Show, Answers, Leave, Resize
  <2> QED
    BY <2>1, <2>2, <2>3, StepsAre
<1>2. MovesLandOnChoices <=> [][Lands]_vars
  BY DEF MovesLandOnChoices
<1> QED
  BY <1>1, <1>2, MenuInvariant, PTL DEF Spec

(* The menu answers only with an item that was a row when the user confirmed it and
   can be chosen, also the item of a mnemonic and of a row of a search. *)
THEOREM AnswersAreOnOffer == Spec => AnswersWereOnOffer
<1> DEFINE OnOffer == shown /\ answer'.status = "ok"
                      => \E r \in SelectableRows : visible[r] = answer'.item
<1>1. MenuInv /\ [Next]_vars => [OnOffer]_vars
  <2> SUFFICES ASSUME MenuInv, Next, shown, answer'.status = "ok"
               PROVE  \E r \in SelectableRows : visible[r] = answer'.item
    OBVIOUS
  <2>1. CASE Answers
    BY <2>1 DEF Answers, Leave, Answer
  <2>2. CASE Moves \/ Searches \/ Resize
    <3>1. answer' = answer
      BY <2>2 DEF Moves, MoveTo, Searches, Resize, Continue
    <3> QED
      BY <3>1 DEF MenuInv, Loop, NoAnswer
  <2>3. CASE Show
    BY <2>3 DEF Show
  <2> QED
    BY <2>1, <2>2, <2>3, StepsAre
<1>2. AnswersWereOnOffer <=> [][OnOffer]_vars
  BY DEF AnswersWereOnOffer
<1> QED
  BY <1>1, <1>2, MenuInvariant, PTL DEF Spec

------------------------------------------------------------------------------
(***************************************************************************)
(* Going round: a move repeated once for every row.                        *)
(***************************************************************************)

(* How far row s is from row q in direction d; q itself is once round. *)
Distance(q, s, d) ==
  LET way == IF d = 1 THEN s - q ELSE q - s
  IN IF way > 0 THEN way ELSE way + Len(visible)

(* Of the rows S, row x is the next one beyond row q. *)
Nearest(x, q, S, d) == x \in S /\ \A s \in S : Distance(q, x, d) <= Distance(q, s, d)

LEMMA DistanceIs ==
  ASSUME Len(visible) \in Nat, NEW q \in Rows, NEW s \in Rows, NEW d \in {-1, 1}
  PROVE  Distance(q, s, d) \in 1..Len(visible)
  BY DEF Distance, Rows

(* What comes next is on the way to all the others. *)
LEMMA NearestIsOnTheWay ==
  ASSUME Len(visible) \in Nat, NEW q \in Rows, NEW x \in Rows, NEW s \in Rows, NEW d \in {-1, 1},
         x # s, Distance(q, x, d) <= Distance(q, s, d)
  PROVE  Distance(x, s, d) < Distance(q, s, d)
  BY DEF Distance, Rows

(* A walk of n steps that come nearer until they are there gets there. *)
LEMMA WalkArrives ==
  ASSUME NEW n \in Nat, NEW left \in [0..n -> 1..n], NEW there \in SUBSET (1..n),
         \A k \in 1..n : k \in there \/ left[k] < left[k - 1]
  PROVE  there # {}
<1> DEFINE late == {k \in 0..n : left[k] > n - k}
<1>1. SUFFICES ASSUME there = {} PROVE FALSE
  OBVIOUS
<1>2. n \in late
  OBVIOUS
<1>3. PICK m \in late : \A k \in late : m <= k
  <2>1. late \in SUBSET Nat
    OBVIOUS
  <2> HIDE DEF late
  <2> QED
    BY <1>2, <2>1, MinimumExists
<1>4. m # 0
  OBVIOUS
<1>5. m - 1 \in 0..n /\ m \in 1..n /\ ~(m <= m - 1)
  BY <1>4
<1>6. left[m - 1] <= n - (m - 1)
  BY <1>3, <1>5
<1>7. left[m] < left[m - 1]
  BY <1>1, <1>5
<1> QED
  BY <1>3, <1>5, <1>6, <1>7

(* The rows f walks along: each is the next one of S beyond the last. *)
Follows(f, S, d) ==
  /\ f \in [0..Len(visible) -> Rows]
  /\ \A k \in 1..Len(visible) : Nearest(f[k], f[k - 1], S, d)

VisitedBy(f) == {f[k] : k \in 1..Len(visible)}

(* Always going on to the next of some rows visits them all, and no other. *)
LEMMA GoesRound ==
  ASSUME Len(visible) \in Nat, NEW S, S \subseteq Rows, NEW d \in {-1, 1}, NEW f,
         Follows(f, S, d)
  PROVE  VisitedBy(f) = S
<1> USE DEF Follows
<1>1. PICK n \in Nat : n = Len(visible)
  OBVIOUS
<1>2. ASSUME NEW s \in S PROVE \E k \in 1..n : f[k] = s
  <2>1. PICK left \in [0..n -> 1..n] : \A k \in 0..n : left[k] = Distance(f[k], s, d)
    <3>1. \A k \in 0..n : Distance(f[k], s, d) \in 1..n
      BY <1>1, DistanceIs
    <3>2. PICK g : g = [k \in 0..n |-> Distance(f[k], s, d)]
      OBVIOUS
    <3>3. g \in [0..n -> 1..n] /\ \A k \in 0..n : g[k] = Distance(f[k], s, d)
      BY <3>1, <3>2
    <3> QED
      BY <3>3, Zenon
  <2>2. ASSUME NEW k \in 1..n, f[k] # s PROVE left[k] < left[k - 1]
    <3>1. k \in 0..n /\ k - 1 \in 0..n
      OBVIOUS
    <3>2. f[k] \in Rows /\ f[k - 1] \in Rows /\ s \in Rows
      BY <1>1, <3>1
    <3>3. Distance(f[k - 1], f[k], d) <= Distance(f[k - 1], s, d)
      BY <1>1 DEF Nearest
    <3>4. Distance(f[k], s, d) < Distance(f[k - 1], s, d)
      BY <2>2, <3>2, <3>3, NearestIsOnTheWay
    <3> QED
      BY <2>1, <3>1, <3>4
  <2>3. PICK there \in SUBSET (1..n) : there = {k \in 1..n : f[k] = s}
    OBVIOUS
  <2>4. \A k \in 1..n : k \in there \/ left[k] < left[k - 1]
    BY <2>2, <2>3
  <2>5. there # {}
    BY <2>4, WalkArrives
  <2> QED
    BY <2>3, <2>5
<1>3. \A k \in 1..n : f[k] \in S
  BY <1>1 DEF Nearest
<1> QED
  BY <1>1, <1>2, <1>3 DEF VisitedBy

LEMMA Remainders ==
  ASSUME NEW n \in Nat \ {0}, NEW x \in 0..n-1
  PROVE  x % n = x /\ (x + n) % n = x /\ (x - n) % n = x
  OBVIOUS

LEMMA StepIsNearest ==
  ASSUME Len(visible) \in Nat, NEW q \in Rows, NEW d \in {-1, 1}, SelectableRows # {}
  PROVE  Nearest(StepFrom(q, d), q, SelectableRows, d)
<1> DEFINE n == Len(visible)
           Ahead(i) == ((q - 1 + i * d) % n) + 1
           stops == {i \in 1..n : Ahead(i) \in SelectableRows}
<1>1. SelectableRows \in SUBSET Rows /\ n \in Nat \ {0} /\ q \in 1..n
  BY DEF SelectableRows, Rows
<1>2. ASSUME NEW i \in 1..n PROVE Ahead(i) \in Rows /\ Distance(q, Ahead(i), d) = i
  <2>1. CASE d = 1
    BY <1>1, <2>1 DEF Distance, Rows
  <2>2. CASE d = -1
    BY <1>1, <2>2 DEF Distance, Rows
  <2> QED
    BY <2>1, <2>2
<1>3. ASSUME NEW s \in Rows
      PROVE  Distance(q, s, d) \in 1..n /\ Ahead(Distance(q, s, d)) = s
  <2> DEFINE i == Distance(q, s, d)
  <2>1. i \in 1..n /\ s \in 1..n
    BY <1>1, DistanceIs DEF Rows
  <2>2. IF d = 1 THEN q + i = s \/ q + i = s + n ELSE q - i = s \/ q - i = s - n
    BY <1>1, <2>1 DEF Distance
  <2> HIDE DEF i, n
  <2>3. n \in Nat \ {0} /\ s - 1 \in 0..n-1 /\ q \in Nat
    BY <1>1, <2>1
  <2>4. q - 1 + i * d \in {s - 1, (s - 1) + n, (s - 1) - n}
    <3>1. CASE d = 1
      BY <2>1, <2>2, <2>3, <3>1
    <3>2. CASE d = -1
      BY <2>1, <2>2, <2>3, <3>2
    <3> QED
      BY <3>1, <3>2
  <2>5. (q - 1 + i * d) % n = s - 1
    BY <2>3, <2>4, Remainders
  <2>6. Ahead(i) = s
    BY <2>1, <2>5
  <2> QED
    BY <2>1, <2>6 DEF i
<1> DEFINE m == SmallestOf(stops)
<1>4. StepFrom(q, d) = IF stops = {} THEN q ELSE Ahead(m)
  BY DEF StepFrom
<1>5. \A s \in SelectableRows : Distance(q, s, d) \in stops
  BY <1>1, <1>3
<1>6. m \in stops /\ \A i \in stops : m <= i
  <2>1. stops \in SUBSET Nat /\ stops # {}
    BY <1>5
  <2> HIDE DEF stops
  <2> QED
    BY <2>1, SmallestIs
<1>7. Ahead(m) \in SelectableRows /\ Distance(q, Ahead(m), d) = m
  BY <1>2, <1>6
<1> HIDE DEF m, stops, Ahead
<1> QED
  BY <1>4, <1>5, <1>6, <1>7 DEF Nearest

(* A move of rows T to rows T, and the walk of n moves from r. *)
Moving(move, T) == move \in [T -> T]

Walk(f, move, r, n) == \A k \in 0..n : f[k] = IF k = 0 THEN r ELSE move[f[k - 1]]

(* A move can be repeated. *)
LEMMA WalkExists ==
  ASSUME NEW T, NEW move, Moving(move, T), NEW r \in T, NEW n \in Nat
  PROVE  \E f \in [0..n -> T] : Walk(f, move, r, n)
<1> USE DEF Moving, Walk
<1> DEFINE Is(f, m) == /\ f \in [0..m -> T]
                       /\ \A k \in 0..m : f[k] = IF k = 0 THEN r ELSE move[f[k - 1]]
           bad == {m \in Nat : ~\E f : Is(f, m)}
<1>1. SUFFICES ASSUME bad # {} PROVE FALSE
  OBVIOUS
<1>2. PICK m \in bad : \A k \in bad : m <= k
  <2>1. bad \in SUBSET Nat
    OBVIOUS
  <2> HIDE DEF bad
  <2> QED
    BY <1>1, <2>1, MinimumExists
<1>3. m \in Nat /\ ~\E f : Is(f, m)
  OBVIOUS
<1>4. CASE m = 0
  <2>1. Is([k \in 0..0 |-> r], 0)
    OBVIOUS
  <2> QED
    BY <1>3, <1>4, <2>1
<1>5. CASE m # 0
  <2>1. m - 1 \in Nat /\ ~(m <= m - 1)
    BY <1>3, <1>5
  <2>2. m - 1 \notin bad
    BY <1>2, <2>1
  <2>3. PICK g : Is(g, m - 1)
    BY <2>1, <2>2
  <2> DEFINE f == [k \in 0..m |-> IF k = m THEN move[g[m - 1]] ELSE g[k]]
  <2>4. g[m - 1] \in T /\ \A k \in 0..m : k # m => k \in 0..m-1 /\ g[k] \in T
    BY <1>3, <2>1, <2>3
  <2>5. f \in [0..m -> T]
    BY <2>4
  <2>6. \A k \in 0..m : f[k] = IF k = 0 THEN r ELSE move[f[k - 1]]
    <3> SUFFICES ASSUME NEW k \in 0..m
                 PROVE  f[k] = IF k = 0 THEN r ELSE move[f[k - 1]]
      OBVIOUS
    <3>1. CASE k = m
      <4>1. k - 1 \in 0..m /\ k - 1 # m /\ k # 0
        BY <1>3, <1>5, <3>1
      <4> QED
        BY <3>1, <4>1
    <3>2. CASE k # m
      <4>1. k \in 0..m-1 /\ f[k] = g[k]
        BY <2>4, <3>2
      <4>2. g[k] = IF k = 0 THEN r ELSE move[g[k - 1]]
        BY <2>3, <4>1
      <4>3. k # 0 => k - 1 \in 0..m /\ k - 1 # m
        BY <4>1, <1>3
      <4> QED
        BY <4>1, <4>2, <4>3
    <3> QED
      BY <3>1, <3>2
  <2> HIDE DEF f
  <2> QED
    BY <1>3, <2>5, <2>6
<1> QED
  BY <1>4, <1>5

(* A set of numbers that contains 0 and what follows each. *)
LEMMA Upwards ==
  ASSUME NEW n \in Nat, NEW S \in SUBSET (0..n), 0 \in S, \A k \in 1..n : k - 1 \in S => k \in S
  PROVE  S = 0..n
<1> DEFINE bad == (0..n) \ S
<1>1. SUFFICES ASSUME bad # {} PROVE FALSE
  OBVIOUS
<1>2. PICK m \in bad : \A k \in bad : m <= k
  <2>1. bad \in SUBSET Nat
    OBVIOUS
  <2> HIDE DEF bad
  <2> QED
    BY <1>1, <2>1, MinimumExists
<1>3. m \in 1..n /\ m - 1 \in 0..n /\ ~(m <= m - 1)
  OBVIOUS
<1> QED
  BY <1>2, <1>3

(* Either arrow, pressed once for each row, visits every row to be chosen. *)
LEMMA ArrowsGoRound ==
  ASSUME Len(visible) \in Nat, selected \in Rows, NEW d \in {-1, 1}
  PROVE  Visited(LAMBDA r : StepFrom(r, d), selected, Len(visible))
           = IF SelectableRows = {} THEN {selected} ELSE SelectableRows
<1>1. PICK n \in Nat : n = Len(visible)
  OBVIOUS
<1>2. Rows = 1..n /\ n # 0 /\ SelectableRows \in SUBSET Rows
  BY <1>1 DEF Rows, SelectableRows
<1> DEFINE Is(h) == h = [k \in 0..n |-> IF k = 0 THEN selected ELSE StepFrom(h[k - 1], d)]
           walk == CHOOSE h : Is(h)
<1>3. \A q \in Rows : StepFrom(q, d) \in Rows
  BY <1>1, <1>2, StepLands
<1>4. Is(walk)
  <2>1. PICK move : move = [q \in Rows |-> StepFrom(q, d)]
    OBVIOUS
  <2>2. move \in [Rows -> Rows] /\ \A q \in Rows : move[q] = StepFrom(q, d)
    BY <1>3, <2>1
  <2>3. PICK f \in [0..n -> Rows] : Walk(f, move, selected, n)
    <3>1. Moving(move, Rows)
      BY <2>2 DEF Moving
    <3> QED
      BY <3>1, WalkExists
  <2>4. \A k \in 0..n : f[k] = IF k = 0 THEN selected ELSE StepFrom(f[k - 1], d)
    <3>1. \A k \in 0..n : k # 0 => k - 1 \in 0..n
      OBVIOUS
    <3> QED
      BY <2>2, <2>3, <3>1 DEF Walk
  <2>5. Is(f)
    BY <2>4
  <2> HIDE DEF Is
  <2> QED
    BY <2>5, Zenon
<1>5. Visited(LAMBDA r : StepFrom(r, d), selected, Len(visible)) = {walk[k] : k \in 1..n}
  BY <1>1, Zenon DEF Visited
<1>6. PICK at : at = walk
  OBVIOUS
<1>7. Is(at) /\ Visited(LAMBDA r : StepFrom(r, d), selected, Len(visible)) = {at[k] : k \in 1..n}
  <2> HIDE DEF walk
  <2> QED
    BY <1>4, <1>5, <1>6
<1> HIDE DEF walk
<1>8. at[0] = selected /\ \A k \in 1..n : at[k] = StepFrom(at[k - 1], d)
  BY <1>7
<1>9. at \in [0..n -> Rows]
  <2>1. PICK S \in SUBSET (0..n) : S = {k \in 0..n : at[k] \in Rows}
    OBVIOUS
  <2>2. 0 \in S /\ \A k \in 1..n : k - 1 \in S => k \in S
    BY <1>3, <1>8, <2>1
  <2>3. S = 0..n
    BY <2>2, Upwards
  <2> QED
    BY <1>7, <2>1, <2>3
<1>10. CASE SelectableRows = {}
  <2>1. PICK S \in SUBSET (0..n) : S = {k \in 0..n : at[k] = selected}
    OBVIOUS
  <2>2. \A q \in Rows : StepFrom(q, d) = q
    BY <1>1, <1>10, StepLands
  <2>3. 0 \in S /\ \A k \in 1..n : k - 1 \in S => k \in S
    BY <1>8, <2>1, <2>2
  <2>4. S = 0..n
    BY <2>3, Upwards
  <2>5. \A k \in 1..n : at[k] = selected
    BY <2>1, <2>4
  <2>6. 1 \in 1..n
    BY <1>2
  <2>7. {at[k] : k \in 1..n} = {selected}
    BY <2>5, <2>6
  <2> QED
    BY <1>7, <1>10, <2>7
<1>11. CASE SelectableRows # {}
  <2>1. ASSUME NEW k \in 1..n PROVE Nearest(at[k], at[k - 1], SelectableRows, d)
    <3>1. at[k - 1] \in Rows
      BY <1>9
    <3> QED
      BY <1>1, <1>8, <1>11, <3>1, StepIsNearest
  <2>2. Follows(at, SelectableRows, d)
    BY <1>1, <1>9, <2>1 DEF Follows
  <2>3. VisitedBy(at) = SelectableRows
    BY <1>2, <2>2, GoesRound
  <2> QED
    BY <1>1, <1>7, <1>11, <2>3 DEF VisitedBy
<1> QED
  BY <1>10, <1>11

LEMMA MnemonicIsNearest ==
  ASSUME Len(visible) \in Nat, NEW ch, NEW q \in Rows, MnemonicRows(ch) # {}
  PROVE  Nearest(NextMnemonicRow(ch, q), q, MnemonicRows(ch), 1)
<1> DEFINE later == {r \in MnemonicRows(ch) : r > q}
           x == NextMnemonicRow(ch, q)
<1>1. MnemonicRows(ch) \in SUBSET Rows /\ Rows = 1..Len(visible)
  BY DEF MnemonicRows, SelectableRows, Rows
<1>2. MnemonicRows(ch) \in SUBSET Nat /\ later \in SUBSET Nat
  BY <1>1
<1>3. x = IF later # {} THEN SmallestOf(later) ELSE SmallestOf(MnemonicRows(ch))
  BY DEF NextMnemonicRow
<1> HIDE DEF x
<1>4. CASE later # {}
  <2>1. x \in later /\ \A s \in later : x <= s
    <3> HIDE DEF later
    <3> QED
      BY <1>2, <1>3, <1>4, SmallestIs
  <2>2. x \in MnemonicRows(ch) /\ x > q
    BY <2>1
  <2>3. ASSUME NEW s \in MnemonicRows(ch) PROVE Distance(q, x, 1) <= Distance(q, s, 1)
    <3>1. s > q => x <= s
      BY <2>1
    <3>2. x \in 1..Len(visible) /\ s \in 1..Len(visible) /\ q \in 1..Len(visible)
      BY <1>1, <2>2
    <3> HIDE DEF later
    <3> QED
      BY <2>2, <3>1, <3>2 DEF Distance
  <2> QED
    BY <2>2, <2>3 DEF Nearest, x
<1>5. CASE later = {}
  <2>1. x \in MnemonicRows(ch) /\ \A s \in MnemonicRows(ch) : x <= s
    BY <1>2, <1>3, <1>5, SmallestIs
  <2>2. ASSUME NEW s \in MnemonicRows(ch) PROVE Distance(q, x, 1) <= Distance(q, s, 1)
    <3>1. ~(s > q) /\ ~(x > q) /\ x <= s
      BY <1>5, <2>1
    <3>2. x \in 1..Len(visible) /\ s \in 1..Len(visible) /\ q \in 1..Len(visible)
      BY <1>1, <2>1
    <3> HIDE DEF later
    <3> QED
      BY <3>1, <3>2 DEF Distance
  <2> QED
    BY <2>1, <2>2 DEF Nearest, x
<1> QED
  BY <1>4, <1>5

(* So does a mnemonic, pressed once for each row, with the rows that have it. *)
LEMMA MnemonicGoesRound ==
  ASSUME Len(visible) \in Nat, selected \in Rows, NEW ch, MnemonicRows(ch) # {}
  PROVE  Visited(LAMBDA r : NextMnemonicRow(ch, r), selected, Len(visible)) = MnemonicRows(ch)
<1>1. PICK n \in Nat : n = Len(visible)
  OBVIOUS
<1>2. Rows = 1..n /\ n # 0 /\ MnemonicRows(ch) \subseteq Rows
  BY <1>1 DEF Rows, SelectableRows, MnemonicRows
<1> DEFINE Is(h) == h = [k \in 0..n |-> IF k = 0 THEN selected ELSE NextMnemonicRow(ch, h[k - 1])]
           walk == CHOOSE h : Is(h)
<1>3. ASSUME NEW q \in Rows
      PROVE  /\ Nearest(NextMnemonicRow(ch, q), q, MnemonicRows(ch), 1)
             /\ NextMnemonicRow(ch, q) \in Rows
  <2>1. Nearest(NextMnemonicRow(ch, q), q, MnemonicRows(ch), 1)
    BY MnemonicIsNearest
  <2> QED
    BY <1>2, <2>1 DEF Nearest
<1>4. Is(walk)
  <2>1. PICK move : move = [q \in Rows |-> NextMnemonicRow(ch, q)]
    OBVIOUS
  <2>2. move \in [Rows -> Rows] /\ \A q \in Rows : move[q] = NextMnemonicRow(ch, q)
    BY <1>3, <2>1
  <2>3. PICK f \in [0..n -> Rows] : Walk(f, move, selected, n)
    <3>1. Moving(move, Rows)
      BY <2>2 DEF Moving
    <3> QED
      BY <3>1, WalkExists
  <2>4. \A k \in 0..n : f[k] = IF k = 0 THEN selected ELSE NextMnemonicRow(ch, f[k - 1])
    <3>1. \A k \in 0..n : k # 0 => k - 1 \in 0..n
      OBVIOUS
    <3> QED
      BY <2>2, <2>3, <3>1 DEF Walk
  <2>5. Is(f)
    BY <2>4
  <2> HIDE DEF Is
  <2> QED
    BY <2>5, Zenon
<1>5. Visited(LAMBDA r : NextMnemonicRow(ch, r), selected, Len(visible))
        = {walk[k] : k \in 1..n}
  BY <1>1, Zenon DEF Visited
<1>6. PICK at : at = walk
  OBVIOUS
<1>7. /\ Is(at)
      /\ Visited(LAMBDA r : NextMnemonicRow(ch, r), selected, Len(visible))
           = {at[k] : k \in 1..n}
  <2> HIDE DEF walk
  <2> QED
    BY <1>4, <1>5, <1>6
<1> HIDE DEF walk
<1>8. at[0] = selected /\ \A k \in 1..n : at[k] = NextMnemonicRow(ch, at[k - 1])
  BY <1>7
<1>9. at \in [0..n -> Rows]
  <2>1. PICK S \in SUBSET (0..n) : S = {k \in 0..n : at[k] \in Rows}
    OBVIOUS
  <2>2. 0 \in S /\ \A k \in 1..n : k - 1 \in S => k \in S
    BY <1>3, <1>8, <2>1
  <2>3. S = 0..n
    BY <2>2, Upwards
  <2> QED
    BY <1>7, <2>1, <2>3
<1>10. ASSUME NEW k \in 1..n PROVE Nearest(at[k], at[k - 1], MnemonicRows(ch), 1)
  <2>1. at[k - 1] \in Rows
    BY <1>9
  <2> QED
    BY <1>3, <1>8, <2>1
<1>11. Follows(at, MnemonicRows(ch), 1)
  BY <1>1, <1>9, <1>10 DEF Follows
<1>12. VisitedBy(at) = MnemonicRows(ch)
  BY <1>2, <1>11, GoesRound
<1> QED
  BY <1>1, <1>7, <1>12 DEF VisitedBy

(* A mnemonic that several items share goes round all of them, from any row,
   whatever the menu: outside a search every item with it has a row
   (tui_menu_state_mnemonic_jump). *)
THEOREM MnemonicsGoRound == Spec => []MnemonicsReachEveryMatch
<1>1. MenuInv => MnemonicsReachEveryMatch
  <2> SUFFICES ASSUME MenuInv, shown, ~searching,
                      NEW ch \in Letters \cup DigitKeys, Cardinality(MnemonicItems(ch)) > 1
               PROVE  Visited(LAMBDA r : NextMnemonicRow(ch, r), selected, Len(visible))
                        = {r \in Rows : visible[r] \in MnemonicItems(ch)}
    BY Zenon DEF MnemonicsReachEveryMatch
  <2>1. TypeOK /\ Loop /\ query = << >>
    BY DEF MenuInv, Loop
  <2>2. \A i \in Items(menu) : i \in Rows /\ visible[i] = i
    BY <2>1, AllItemsListed
  <2>3. /\ Len(visible) \in Nat /\ Rows = 1..Len(visible)
        /\ \A r \in Rows : visible[r] \in Items(menu)
    BY <2>1, LoopTypes
  <2>4. MnemonicRows(ch) = {r \in Rows : visible[r] \in MnemonicItems(ch)}
    BY <2>3, Zenon DEF MnemonicRows, MnemonicItems, SelectableRows
  <2>5. MnemonicItems(ch) # {}
    BY FS_EmptySet
  <2>6. MnemonicRows(ch) # {}
    BY <2>2, <2>4, <2>5 DEF MnemonicItems
  <2>7. selected \in Rows
    <3>1. Rows # {}
      BY <2>6 DEF MnemonicRows, SelectableRows
    <3> QED
      BY <2>3, <3>1 DEF MenuInv, SelectionOnScreen
  <2> QED
    BY <2>3, <2>4, <2>6, <2>7, MnemonicGoesRound
<1> QED
  BY <1>1, MenuInvariant, PTL

(* Row x lies beyond row q in direction d. *)
Beyond(x, q, d) == IF d = 1 THEN x > q ELSE x < q

(* A page goes row by row as long as there is a row to go to. *)
LEMMA PageStepGoesOn ==
  ASSUME Len(visible) \in Nat, NEW q \in SelectableRows, NEW d \in {-1, 1}
  PROVE  /\ PageStep(q, d) \in SelectableRows
         /\ PageStep(q, d) = q \/ Beyond(PageStep(q, d), q, d)
         /\ (\E s \in SelectableRows : Beyond(s, q, d)) => Beyond(PageStep(q, d), q, d)
<1> DEFINE x == StepFrom(q, d)
<1>1. SelectableRows \in SUBSET Rows /\ Rows = 1..Len(visible) /\ q \in 1..Len(visible)
  BY DEF SelectableRows, Rows
<1>2. x \in SelectableRows /\ \A s \in SelectableRows : Distance(q, x, d) <= Distance(q, s, d)
  BY <1>1, StepIsNearest DEF Nearest
<1>3. PageStep(q, d) = IF d * (x - q) > 0 THEN x ELSE q
  BY DEF PageStep
<1> HIDE DEF x
<1>4. x \in 1..Len(visible)
  BY <1>1, <1>2
<1>5. d * (x - q) > 0 <=> Beyond(x, q, d)
  BY <1>1, <1>4 DEF Beyond
<1>6. ASSUME NEW s \in SelectableRows, Beyond(s, q, d) PROVE Beyond(x, q, d)
  <2>1. s \in 1..Len(visible) /\ Distance(q, x, d) <= Distance(q, s, d)
    BY <1>1, <1>2
  <2> QED
    BY <1>1, <1>4, <1>6, <2>1 DEF Beyond, Distance
<1> QED
  BY <1>2, <1>3, <1>5, <1>6

(* A page from a choice ends on one, further on unless there is none. *)
LEMMA PageGoesOn ==
  ASSUME Len(visible) \in Nat, NEW q \in SelectableRows, NEW d \in {-1, 1},
         NEW size \in Nat \ {0}
  PROVE  /\ PageFrom(q, d, size) \in SelectableRows
         /\ PageFrom(q, d, size) = q \/ Beyond(PageFrom(q, d, size), q, d)
         /\ (\E s \in SelectableRows : Beyond(s, q, d)) => Beyond(PageFrom(q, d, size), q, d)
<1> DEFINE walk == CHOOSE f : f = [k \in 0..size |->
                                     IF k = 0 THEN q ELSE PageStep(f[k - 1], d)]
<1>1. IsPage(walk, q, d, size)
  <2>1. walk = CHOOSE f : IsPage(f, q, d, size)
    BY DEF IsPage
  <2>2. \E f : IsPage(f, q, d, size)
    BY PageExists
  <2> HIDE DEF walk
  <2> QED
    BY <2>1, <2>2, Zenon
<1>2. PageFrom(q, d, size) = walk[size]
  BY Zenon DEF PageFrom, PageStep
<1>3. PICK after : after = walk
  OBVIOUS
<1> HIDE DEF walk
<1>4. PageFrom(q, d, size) = after[size]
  BY <1>2, <1>3
<1>5. after[0] = q /\ \A k \in 1..size : after[k] = PageStep(after[k - 1], d)
  BY <1>1, <1>3 DEF IsPage
<1>6. SelectableRows \in SUBSET Nat
  BY DEF SelectableRows, Rows
<1> DEFINE first == PageStep(q, d)
           Keeps(x) == x \in SelectableRows /\ (x = first \/ Beyond(x, first, d))
<1>7. ASSUME NEW x, Keeps(x) PROVE Keeps(PageStep(x, d))
  <2>1. /\ PageStep(x, d) \in SelectableRows
        /\ PageStep(x, d) = x \/ Beyond(PageStep(x, d), x, d)
    BY <1>7, PageStepGoesOn
  <2>2. x \in Nat /\ PageStep(x, d) \in Nat /\ first \in Nat
    BY <1>6, <1>7, <2>1, PageStepGoesOn
  <2> HIDE DEF first
  <2> QED
    BY <1>7, <2>1, <2>2 DEF Beyond
<1>8. Keeps(first)
  BY PageStepGoesOn
<1>9. PICK S \in SUBSET (0..size) : S = {k \in 0..size : k # 0 => Keeps(after[k])}
  OBVIOUS
<1>10. ASSUME NEW k \in 1..size, k - 1 \in S PROVE k \in S
  <2>1. after[k] = PageStep(after[k - 1], d)
    BY <1>5
  <2>2. CASE k = 1
    BY <1>5, <1>8, <1>9, <2>1, <2>2
  <2>3. CASE k # 1
    <3>1. Keeps(after[k - 1])
      BY <1>9, <1>10, <2>3
    <3>2. Keeps(after[k])
      BY <1>7, <2>1, <3>1
    <3> HIDE DEF Keeps
    <3> QED
      BY <1>9, <3>2
  <2> QED
    BY <2>2, <2>3
<1>11. S = 0..size
  <2>1. 0 \in S
    BY <1>9
  <2> QED
    BY <1>10, <2>1, Upwards
<1>12. Keeps(after[size])
  <2> HIDE DEF Keeps
  <2> QED
    BY <1>9, <1>11
<1>13. /\ first \in SelectableRows
       /\ first = q \/ Beyond(first, q, d)
       /\ (\E s \in SelectableRows : Beyond(s, q, d)) => Beyond(first, q, d)
  BY PageStepGoesOn
<1>14. first \in Nat /\ q \in Nat /\ after[size] \in Nat
  BY <1>6, <1>12, <1>13
<1>15. /\ after[size] = q \/ Beyond(after[size], q, d)
       /\ Beyond(first, q, d) => Beyond(after[size], q, d)
  <2>1. after[size] = first \/ Beyond(after[size], first, d)
    BY <1>12
  <2> HIDE DEF first, Keeps
  <2> QED
    BY <1>13, <1>14, <2>1 DEF Beyond
<1> QED
  BY <1>4, <1>12, <1>13, <1>15

(* Paging from a choice comes to the last one in its direction, and stays. *)
LEMMA PagesArrive ==
  ASSUME Len(visible) \in Nat, selected \in SelectableRows, NEW d \in {-1, 1},
         area \in Nat \ {0}, NEW e \in SelectableRows,
         \A s \in SelectableRows : ~Beyond(s, e, d)
  PROVE  /\ e \in Visited(LAMBDA r : PageFrom(r, d, area), selected, Len(visible))
         /\ PageFrom(e, d, area) = e
<1>1. PICK n \in Nat : n = Len(visible)
  OBVIOUS
<1>2. SelectableRows \in SUBSET (1..n) /\ e \in 1..n
  BY <1>1 DEF Rows, SelectableRows
<1>3. ASSUME NEW q \in SelectableRows
      PROVE  /\ PageFrom(q, d, area) \in SelectableRows
             /\ q = e => PageFrom(q, d, area) = e
             /\ q # e => Beyond(PageFrom(q, d, area), q, d)
  <2>1. /\ PageFrom(q, d, area) \in SelectableRows
        /\ PageFrom(q, d, area) = q \/ Beyond(PageFrom(q, d, area), q, d)
        /\ (\E s \in SelectableRows : Beyond(s, q, d)) => Beyond(PageFrom(q, d, area), q, d)
    BY PageGoesOn
  <2>2. q = e => PageFrom(q, d, area) = e
    BY <2>1
  <2>3. q # e => Beyond(e, q, d)
    BY <1>2 DEF Beyond
  <2> QED
    BY <2>1, <2>2, <2>3
<1> DEFINE Is(h) == h = [k \in 0..n |-> IF k = 0 THEN selected ELSE PageFrom(h[k - 1], d, area)]
           walk == CHOOSE h : Is(h)
<1>4. Is(walk)
  <2>1. PICK move : move = [q \in SelectableRows |-> PageFrom(q, d, area)]
    OBVIOUS
  <2>2. /\ move \in [SelectableRows -> SelectableRows]
        /\ \A q \in SelectableRows : move[q] = PageFrom(q, d, area)
    BY <1>3, <2>1
  <2>3. PICK f \in [0..n -> SelectableRows] : Walk(f, move, selected, n)
    <3>1. Moving(move, SelectableRows)
      BY <2>2 DEF Moving
    <3> QED
      BY <3>1, WalkExists
  <2>4. \A k \in 0..n : f[k] = IF k = 0 THEN selected ELSE PageFrom(f[k - 1], d, area)
    <3>1. \A k \in 0..n : k # 0 => k - 1 \in 0..n
      OBVIOUS
    <3> QED
      BY <2>2, <2>3, <3>1 DEF Walk
  <2>5. Is(f)
    BY <2>4
  <2> HIDE DEF Is
  <2> QED
    BY <2>5, Zenon
<1>5. Visited(LAMBDA r : PageFrom(r, d, area), selected, Len(visible)) = {walk[k] : k \in 1..n}
  BY <1>1, Zenon DEF Visited
<1>6. PICK at : at = walk
  OBVIOUS
<1>7. /\ Is(at)
      /\ Visited(LAMBDA r : PageFrom(r, d, area), selected, Len(visible)) = {at[k] : k \in 1..n}
  <2> HIDE DEF walk
  <2> QED
    BY <1>4, <1>5, <1>6
<1> HIDE DEF walk
<1>8. at[0] = selected /\ \A k \in 1..n : at[k] = PageFrom(at[k - 1], d, area)
  BY <1>7
<1>9. \A k \in 0..n : at[k] \in SelectableRows
  <2>1. PICK S \in SUBSET (0..n) : S = {k \in 0..n : at[k] \in SelectableRows}
    OBVIOUS
  <2>2. 0 \in S /\ \A k \in 1..n : k - 1 \in S => k \in S
    BY <1>3, <1>8, <2>1
  <2>3. S = 0..n
    BY <2>2, Upwards
  <2> QED
    BY <2>1, <2>3
<1> HIDE DEF Is
(* The rows left to go through, the one under the selection included. *)
<1>10. PICK left : left = [k \in 0..n |-> IF d = 1 THEN n + 1 - at[k] ELSE at[k]]
  OBVIOUS
<1>11. left \in [0..n -> 1..n]
  <2>1. ASSUME NEW k \in 0..n PROVE left[k] \in 1..n
    <3>1. at[k] \in 1..n
      BY <1>2, <1>9
    <3> QED
      BY <1>10, <3>1
  <2> QED
    BY <1>10, <2>1
<1>12. PICK there \in SUBSET (1..n) : there = {k \in 1..n : at[k] = e}
  OBVIOUS
<1>13. ASSUME NEW k \in 1..n, k \notin there PROVE left[k] < left[k - 1]
  <2>1. k \in 0..n /\ k - 1 \in 0..n /\ at[k] # e
    BY <1>12, <1>13
  <2>2. at[k - 1] \in SelectableRows /\ at[k] = PageFrom(at[k - 1], d, area)
    BY <1>8, <1>9, <2>1
  <2>3. Beyond(at[k], at[k - 1], d)
    BY <1>3, <2>1, <2>2
  <2>4. at[k] \in 1..n /\ at[k - 1] \in 1..n
    BY <1>2, <1>9, <2>1
  <2> QED
    BY <1>10, <2>1, <2>3, <2>4 DEF Beyond
<1>14. there # {}
  BY <1>11, <1>13, WalkArrives
<1>15. e \in {at[k] : k \in 1..n}
  BY <1>12, <1>14
<1> QED
  BY <1>3, <1>7, <1>15

(* For any list and any height of the viewport, outside a search: from any
   selection either arrow goes round every choice and nothing else, and paging
   comes to the last choice, or the first, and stays there
   (tui_menu_state_step and page).  The wheel goes round in a search as well. *)
THEOREM KeysGoRound == Spec => []KeysReachEveryChoice
<1>1. MenuInv => KeysReachEveryChoice
  <2> SUFFICES ASSUME MenuInv, shown, visible # << >> PROVE KeysReachEveryChoice
    BY Zenon DEF KeysReachEveryChoice
  <2>1. /\ Len(visible) \in Nat /\ selected \in Rows /\ area \in Nat \ {0}
        /\ SelectableRows \in SUBSET Nat /\ SelectableRows \in SUBSET (1..Len(visible))
    BY LoopTypes DEF MenuInv, SelectionOnScreen
  <2>2. \A d \in {-1, 1} :
          Visited(LAMBDA r : StepFrom(r, d), selected, Len(visible))
            = IF SelectableRows = {} THEN {selected} ELSE SelectableRows
    BY <2>1, ArrowsGoRound
  <2>3. ASSUME selected \in SelectableRows
        PROVE  /\ End \in Visited(LAMBDA r : PageFrom(r, 1, area), selected, Len(visible))
               /\ PageFrom(End, 1, area) = End
    <3>1. End \in SelectableRows /\ \A s \in SelectableRows : End >= s
      BY <2>1, <2>3, LargestIs DEF End
    <3>2. \A s \in SelectableRows : ~Beyond(s, End, 1)
      BY <2>1, <3>1 DEF Beyond
    <3> QED
      BY <2>1, <2>3, <3>1, <3>2, PagesArrive
  <2>4. ASSUME selected \in SelectableRows
        PROVE  /\ Home \in Visited(LAMBDA r : PageFrom(r, -1, area), selected, Len(visible))
               /\ PageFrom(Home, -1, area) = Home
    <3>1. Home \in SelectableRows /\ \A s \in SelectableRows : Home <= s
      BY <2>1, <2>4, SmallestIs DEF Home
    <3>2. \A s \in SelectableRows : ~Beyond(s, Home, -1)
      BY <2>1, <3>1 DEF Beyond
    <3> QED
      BY <2>1, <2>4, <3>1, <3>2, PagesArrive
  <2> QED
    BY <2>2, <2>3, <2>4, Zenon DEF KeysReachEveryChoice
<1> QED
  BY <1>1, MenuInvariant, PTL
==============================================================================
