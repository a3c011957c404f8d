----------------------------- MODULE Rendering -----------------------------
(***************************************************************************)
(* Texts on their way out: one subject, a text in a layout, a component of *)
(* src/components with what it is given, or a string on its way into or    *)
(* out of JSON, and what comes of it.                                      *)
(***************************************************************************)
EXTENDS Components, JsonStrings

CONSTANT Subjects

VARIABLES subject, drawn

Undrawn == [done |-> FALSE, ok |-> FALSE, text |-> << >>]
Done(result) == [done |-> TRUE, ok |-> result.ok, text |-> result.text]
Shown(text) == [done |-> TRUE, ok |-> TRUE, text |-> text]

Joined(lines) ==
  FlattenSeq([k \in DOMAIN lines |->
                (IF k > 1 THEN <<Newline>> ELSE << >>) \o lines[k]])

Escaped(units) ==
  <<Quote>> \o FlattenSeq([k \in DOMAIN units |-> Unicode(units[k])])
    \o <<Quote>>

Rendered(s) ==
  CASE s.kind = "wrap" -> Shown(Joined(Wrap(s.text, s.width, s.first, s.next)))
    [] s.kind = "run" -> Shown(WrapFrom(s.text, s.width, s.start, s.indent))
    [] s.kind = "help" -> Shown(HelpRows(s.rows, ContextWidth(s.width)))
    [] s.kind = "table" -> Shown(Table(s.table, s.width))
    [] s.kind = "list" -> Shown(List(s.items, s.marker, s.width, 0))
    [] s.kind = "note" -> Shown(Note(s.title, s.text, s.width, 0))
    [] s.kind = "progress" ->
         Shown(Progress(s.text, s.current, s.total, s.value, s.percent, s.width, 0))
    [] s.kind = "rule" -> Shown(Rule(s.text, s.width, 0))
    [] s.kind = "heading" -> Shown(Heading(s.text, s.underline))
    [] s.kind = "pairs" -> Shown(KeyValue(s.pairs, s.separator))
    [] s.kind = "string" -> Shown(WriteString(s.text))
    [] s.kind = "units" -> Done(ReadString(Escaped(s.units)))

NoSubject == [kind |-> "none"]

Draw ==
  /\ ~drawn.done
  /\ \E s \in Subjects : subject' = s /\ drawn' = Rendered(s)

RenderingInit == subject = NoSubject /\ drawn = Undrawn

RenderingSpec == RenderingInit /\ [][Draw]_<<subject, drawn>>

(* What goes into JSON are bytes without a 0, what comes out of it was written
   as \u escapes of four digits each. *)
SubjectsAreStrings ==
  \A s \in Subjects :
    /\ s.kind = "string" => s.text \in Seq(1..255)
    /\ s.kind = "units" => s.units \in Seq({n \in Nat : n <= 65535})

------------------------------------------------------------------------------
Pieces(text) ==
  LET ends == {0, Len(text) + 1} \cup {k \in DOMAIN text : text[k] = Newline}
      edge(k) == CHOOSE e \in ends : Cardinality({f \in ends : f < e}) = k
  IN [k \in 1..Cardinality(ends)-1 |-> SubSeq(text, edge(k - 1) + 1, edge(k) - 1)]

(* What has columns; what is no mark; what comes after the first columns. *)
Ink(text) == SelectSeq(text, LAMBDA c : c >= 0)
Bodies(text) == SelectSeq(text, LAMBDA c : c \notin Marks)
Uncut(line, columns) == SubSeq(line, Len(Truncate(line, columns)) + 1, Len(line))

FirstWord(line) ==
  LET words == Words(line)
  IN IF words = << >> THEN << >> ELSE SubSeq(line, words[1].from, words[1].to)

(* A style is begun before it is ended, and open over no end of a line. *)
StyleClosed(line) ==
  LET marks == SelectSeq(line, LAMBDA c : c \in {Begin, End})
  IN marks = << >> \/ (marks[Len(marks)] = End /\ marks[1] = Begin)

(* The blanks a line of the text begins with stay before its first word, and a
   line of blanks stays as it is (text_layout.c:233). *)
Indentation(line, text) ==
  /\ line # << >> /\ line[1] = Space /\ Len(Words(line)) <= 1
  /\ \E k \in DOMAIN Pieces(text) : IsPrefix(line, Pieces(text)[k])

(* Wider than its columns is only a word that is by itself, or one behind an
   indentation of the text. *)
Fits(line, columns, text) ==
  \/ Width(line) <= columns
  \/ line = FirstWord(line)
  \/ Indentation(line, text)

(* No line is ended while the next word would still fit, where the text has
   single blanks only. *)
SingleBlanks(text) == \A k \in 1..Len(text)-1 : text[k] # Space \/ text[k + 1] # Space
NotEarly(lines, columns) ==
  \A k \in 1..Len(lines)-1 : Width(lines[k]) + 1 + Width(FirstWord(lines[k + 1])) > columns

Inks(texts) == FlattenSeq([k \in DOMAIN texts |-> Ink(texts[k])])

WrapFits(s, text, lines) ==
  LET room(k) == Larger(s.width - (IF k = 1 THEN s.first ELSE s.next), 1)
  IN /\ \A k \in DOMAIN lines : Fits(lines[k], room(k), s.text)
     /\ Ink(text) = Ink(s.text)
     /\ SingleBlanks(s.text) /\ Len(Pieces(s.text)) = 1 /\ s.first = s.next =>
          NotEarly(lines, room(1))

(* Between the words of a run there is one blank, and none before the first. *)
RunFits(s, text, lines) ==
  LET before(k) == IF k = 1 THEN 0 ELSE s.indent
      taken(k)  == IF k = 1 THEN s.start ELSE s.indent
  IN /\ \A k \in DOMAIN lines :
          /\ StyleClosed(lines[k])
          /\ Fits(Uncut(Bodies(lines[k]), before(k)), s.width - taken(k), << >>)
     /\ Ink(text) = Ink(s.text)

(* A row of help: its description fits behind the column of the labels, and a
   label that does not fit into that column has a line of its own, as long as
   it is (cli_help_render.c). *)
HelpFits(s, text, lines) ==
  LET width == ContextWidth(s.width)
      column == LabelColumn(s.rows, width)
      alone(line) ==
        \E k \in DOMAIN s.rows : /\ Width(s.rows[k].label) + 1 > column
                                 /\ line = Repeat(Space, Left) \o s.rows[k].label
  IN /\ \A k \in DOMAIN lines :
          LET line == Bodies(lines[k])
          IN /\ StyleClosed(lines[k])
             /\ alone(line) \/ Fits(Uncut(line, Left + column), width - Left - column, << >>)
     /\ Ink(text) = FlattenSeq([k \in DOMAIN s.rows |->
                                   Ink(s.rows[k].label) \o Ink(s.rows[k].description)])

(* The rows of a table, which ends with one, are as wide as each other and no
   wider than it may be; a column is no wider than it may be either, but that
   the first takes what rounding leaves, less than a column for each
   (cs_table.c:119, cs_table.h:29). *)
TableFits(s, text, lines) ==
  LET widths == TableWidths(s.table, s.width)
      limit(c) == s.table.columns[c].max_width
  IN /\ \A k \in 1..Len(lines)-1 :
          /\ Width(lines[k]) = Width(lines[1])
          /\ Width(lines[k]) <= Budget(s.table, s.width)
          /\ StyleClosed(lines[k])
     /\ \A c \in DOMAIN widths :
          limit(c) > 0 =>
            widths[c] <= limit(c) + (IF c = 1 THEN Len(widths) - 1 ELSE 0)

(* Each item begins behind its marker, and its other lines below the first. *)
ListFits(s, text, lines) ==
  LET columns == Width(s.marker)
      line(k) == Bodies(lines[k])
      first == {k \in 1..Len(lines)-1 : IsPrefix(s.marker, line(k))}
  IN /\ Cardinality(first) = Len(s.items)
     /\ \A k \in 1..Len(lines)-1 :
          /\ k \notin first => IsPrefix(Repeat(Space, columns), line(k))
          /\ \E n \in DOMAIN s.items :
               Fits(Uncut(line(k), columns), ListWidth(s.width, s.marker), s.items[n])
     /\ Ink(text) = FlattenSeq([k \in DOMAIN s.items |-> Ink(s.marker) \o Ink(s.items[k])])

(* The body of a note fits behind its gutter; the title is as long as it is,
   whatever the width (cs_note.c:79, cs_note.h:30). *)
NoteFits(s, text, lines) ==
  LET titles == IF s.title = << >> THEN 0 ELSE 1
      line(k) == Uncut(Bodies(lines[k]), 2)
  IN /\ titles = 1 => line(1) = s.title
     /\ \A k \in titles+1..Len(lines)-1 : Fits(line(k), Larger(s.width - 2, 1), s.text)
     /\ Inks([k \in 1..Len(lines)-1 |-> Tail(Bodies(lines[k]))]) = Ink(s.title) \o Ink(s.text)

(* A rule is as wide as it should be, or its label alone where that leaves no
   room for a glyph and may itself be wider (cs_rule.c:35). *)
RuleFits(s, text, lines) ==
  LET crowded == s.text # << >> /\ Width(s.text) + 2 >= WidthOr(s.width, 0)
  IN IF crowded THEN Bodies(lines[1]) = s.text
     ELSE Width(lines[1]) = WidthOr(s.width, 0)

(* What is drawn stays in the columns it was given.  Wider are: a word that is
   wider by itself; a word behind an indentation of the text, or a line of
   blanks; what leaves no choice, as a column of text, or of bar, is always
   drawn; and what the code never cuts, the title of a note, a label of a rule
   or of help without room.  No line ends early, no style runs over the end of
   one, and but for the cells of a table and the label of a bar, which are cut,
   nothing that has columns is lost or moved. *)
LinesFit ==
  drawn.ok =>
    LET s == subject
        text == drawn.text
        lines == Pieces(text)
    IN CASE s.kind = "wrap" -> WrapFits(s, text, lines)
         [] s.kind = "run" -> RunFits(s, text, lines)
         [] s.kind = "help" -> HelpFits(s, text, lines)
         [] s.kind = "table" -> TableFits(s, text, lines)
         [] s.kind = "list" -> ListFits(s, text, lines)
         [] s.kind = "note" -> NoteFits(s, text, lines)
         [] s.kind = "rule" -> RuleFits(s, text, lines)
         [] s.kind = "progress" ->
              Width(lines[1]) = Larger(WidthOr(s.width, 0),
                                       IF s.percent THEN PercentColumns + 1 ELSE 1)
         [] s.kind = "heading" ->
              \A k \in 1..Len(lines)-1 : Width(lines[k]) = Width(s.text)
         [] s.kind = "pairs" ->
              \A k \in 1..Len(lines)-1 :
                Width(lines[k]) - Width(s.pairs[k].value)
                  = Width(lines[1]) - Width(s.pairs[1].value)
         [] OTHER -> TRUE

------------------------------------------------------------------------------
(* The first bytes of a sequence of one to four, what its places count, and the
   least it may be worth. *)
LeadFrom == <<0, 192, 224, 240>>
LeadTo   == <<127, 223, 239, 247>>
Place    == <<1, 64, 4096, 262144>>
LeastOf  == <<1, 128, 2048, 65536>>

ByPlace(bytes) ==
  LET n == Len(bytes)
      at(k) == IF k <= n THEN (bytes[k] - 128) * Place[n - k + 1] ELSE 0
  IN (bytes[1] - LeadFrom[n]) * Place[n] + at(2) + at(3) + at(4)

(* The code point a sequence of bytes is worth, by place value; -1 where it is
   not the shortest form of one, or a surrogate, or too large. *)
Worth(bytes) ==
  LET n == Len(bytes)
      cp == ByPlace(bytes)
  IN IF /\ bytes[1] \in LeadFrom[n]..LeadTo[n] /\ \A k \in 2..n : bytes[k] \in 128..191
        /\ LeastOf[n] <= cp /\ cp <= 1114111 /\ cp \notin 55296..57343
     THEN cp ELSE -1

(* The code points of a text, the replacement character for a byte that
   belongs to none. *)
CodePoints(text) ==
  LET from[k \in 1..Len(text)+4] ==
        IF k > Len(text) THEN << >>
        ELSE LET fits == {n \in 1..4 : /\ k + n - 1 <= Len(text)
                                       /\ Worth(SubSeq(text, k, k + n - 1)) >= 0}
             IN IF fits = {} THEN <<Replacement>> \o from[k + 1]
                ELSE LET n == CHOOSE m \in fits : TRUE
                     IN <<Worth(SubSeq(text, k, k + n - 1))>> \o from[k + n]
  IN from[1]

(* The code point of a pair of units. *)
OfPair(high, low) == 65536 + (high % 1024) * 1024 + (low % 1024)

(* What UTF-16 means by units, or that it means nothing; a 0 cannot be kept. *)
Utf16(units) ==
  LET high(k) == k \in DOMAIN units /\ units[k] \in High
      low(k)  == k \in DOMAIN units /\ units[k] \in Low
      from[k \in 1..Len(units)+2] ==
        IF k > Len(units) THEN << >>
        ELSE IF high(k) THEN <<OfPair(units[k], units[k + 1])>> \o from[k + 2]
        ELSE <<units[k]>> \o from[k + 1]
      paired == \A k \in DOMAIN units :
                  /\ units[k] # 0
                  /\ high(k) => low(k + 1)
                  /\ low(k) => high(k - 1)
  IN IF paired THEN Shown(from[1]) ELSE Undrawn

(* A text written as JSON and read back is the same text, what is no UTF-8 in
   it replaced; \u escapes are read as the UTF-16 they are, and refused when
   they are none. *)
StringsSurvive ==
  /\ subject.kind = "string" /\ drawn.ok =>
       LET back == ReadString(drawn.text)
       IN back.ok /\ CodePoints(back.text) = CodePoints(subject.text)
  /\ subject.kind = "units" /\ drawn.done =>
       IF Utf16(subject.units).ok
         THEN drawn.ok /\ CodePoints(drawn.text) = Utf16(subject.units).text
         ELSE ~drawn.ok
==============================================================================
