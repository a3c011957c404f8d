----------------------------- MODULE TextLayout -----------------------------
(***************************************************************************)
(* Text in columns: src/ui/text_layout.c, the wrapping of styled text      *)
(* (cli/style/cli_layout.c) and the rows of the help pages over it         *)
(* (cli_help_render.c).                                                    *)
(*                                                                         *)
(* A character is the number of columns it takes, 0 for a combining mark,  *)
(* 1, or 2 for a wide one; blanks, ends of lines, and the points where a    *)
(* style begins and ends are marks of their own.  How bytes are decoded is  *)
(* left out.                                                               *)
(***************************************************************************)
EXTENDS Integers, Sequences, SequencesExt

Space == -1
Newline == -2
Begin == -3   \* a style, a colour or an attribute is switched on
End == -4     \* all are switched off

Marks == {Newline, Begin, End}

Larger(a, b) == IF a > b THEN a ELSE b
Smaller(a, b) == IF a < b THEN a ELSE b

Repeat(c, n) == [k \in 1..Larger(n, 0) |-> c]

(* app_text_cp_columns; a newline counts as the control character it is. *)
ColumnsOf(c) == IF c = Space THEN 1 ELSE IF c \in Marks THEN 0 ELSE c

(* app_text_width_utf8_n *)
Width(text) ==
  LET columns[k \in 0..Len(text)] ==
        IF k = 0 THEN 0 ELSE columns[k - 1] + ColumnsOf(text[k])
  IN columns[Len(text)]

(* app_text_truncate_utf8_columns: as many characters as fit, the marks on
   the last one included. *)
Truncate(text, max_columns) ==
  IF max_columns <= 0 THEN << >>
  ELSE LET fits == {k \in 0..Len(text) : Width(SubSeq(text, 1, k)) <= max_columns}
       IN SubSeq(text, 1, CHOOSE k \in fits : \A m \in fits : m <= k)

------------------------------------------------------------------------------
(* The words of a text: where each begins and ends and how many blanks are
   before it, since the word or the end of line before. *)
IsBreak(text, k) == k \notin DOMAIN text \/ text[k] \in {Space, Newline}

WordEnds(text, from) ==
  CHOOSE k \in from..Len(text) :
    /\ IsBreak(text, k + 1)
    /\ \A m \in from..k : ~IsBreak(text, m)

Blanks(text, from) ==
  CHOOSE n \in 0..from-1 :
    /\ \A k \in from-n..from-1 : text[k] = Space
    /\ from - n - 1 = 0 \/ text[from - n - 1] # Space

Words(text) ==
  LET starts == {k \in DOMAIN text : ~IsBreak(text, k) /\ IsBreak(text, k - 1)}
  IN [k \in 1..Cardinality(starts) |->
        LET from == CHOOSE s \in starts : Cardinality({t \in starts : t <= s}) = k
        IN [from |-> from, to |-> WordEnds(text, from), blanks |-> Blanks(text, from)]]

(* The column the line would reach is compared before the blanks are added:
   a mutant of Overflows. *)
OverflowsWithoutBlanks(line, blanks, columns, available) ==
  line.started /\ line.cols + columns > available

Overflows(line, blanks, columns, available) ==
  line.started /\ line.cols + blanks + columns > available

(* app_text_wrap_utf8 over one line of the text.  A line is emitted as the
   piece of the text it shows; the blanks before its first word belong to it
   only where the text itself begins a line. *)
Closed == [started |-> FALSE, from |-> 0, to |-> 0, cols |-> 0]

WrapLine(text, width, first_indent, next_indent) ==
  LET words == Words(text)
      fresh(w, blanks) ==
        [started |-> TRUE, from |-> words[w].from - blanks, to |-> words[w].to,
         cols |-> blanks + Width(SubSeq(text, words[w].from, words[w].to))]
      after[w \in 0..Len(words)] ==
        IF w = 0 THEN [lines |-> << >>, line |-> Closed, indent |-> first_indent]
        ELSE LET before  == after[w - 1]
                 line    == before.line
                 columns == Width(SubSeq(text, words[w].from, words[w].to))
                 available == IF width > before.indent THEN width - before.indent ELSE 1
             IN IF Overflows(line, words[w].blanks, columns, available)
                  THEN [lines |-> Append(before.lines, line), line |-> fresh(w, 0),
                        indent |-> next_indent]
                ELSE IF ~line.started
                  THEN [before EXCEPT !.line = fresh(w, words[w].blanks)]
                ELSE [before EXCEPT
                        !.line.to = words[w].to,
                        !.line.cols = line.cols + words[w].blanks + columns]
      last == after[Len(words)]
  IN IF last.line.started THEN Append(last.lines, last.line)
     ELSE <<[Closed EXCEPT !.from = 1, !.to = Len(text), !.cols = Width(text)]>>

(* app_text_wrap_utf8: each line of the text by itself, the first with an
   indent of its own. *)
Wrap(text, width, first_indent, next_indent) ==
  LET ends == {0, Len(text) + 1} \cup {k \in DOMAIN text : text[k] = Newline}
      count == Cardinality(ends) - 1
      edge(k) == CHOOSE e \in ends : Cardinality({f \in ends : f < e}) = k
      source(k) == SubSeq(text, edge(k - 1) + 1, edge(k) - 1)
      shown(k) ==
        LET lines == WrapLine(source(k), width,
                              Larger(IF k = 1 THEN first_indent ELSE next_indent, 0),
                              Larger(next_indent, 0))
        IN [n \in DOMAIN lines |-> SubSeq(source(k), lines[n].from, lines[n].to)]
  IN IF width <= 0 THEN << << >> >>
     ELSE FlattenSeq([k \in 1..count |-> shown(k)])

------------------------------------------------------------------------------
(* app_cli_wrap_from: one style run on each line, the indent outside it; no
   line is ended before its first word. *)

BreakLine(indent) == <<End, Newline>> \o Repeat(Space, indent)

WrapFrom(text, width, start_col, cont_indent) ==
  LET words == Words(text)
      word(w) == SubSeq(text, words[w].from, words[w].to)
      after[w \in 0..Len(words)] ==
        IF w = 0 THEN [out |-> << >>, col |-> start_col]
        ELSE LET before == after[w - 1]
                 columns == Width(word(w))
             IN IF w = 1
                  THEN [out |-> <<Begin>> \o word(w), col |-> before.col + columns]
                ELSE IF before.col + 1 + columns > width
                  THEN [out |-> before.out \o BreakLine(cont_indent) \o <<Begin>> \o word(w),
                        col |-> cont_indent + columns]
                ELSE [out |-> before.out \o <<Space>> \o word(w),
                      col |-> before.col + 1 + columns]
      close == IF words = << >> THEN << >> ELSE <<End>>
  IN after[Len(words)].out \o close \o <<Newline>>

(* app_cli_render_ctx_init: the width it lays out for, 80 if none is known. *)
CONSTANTS APP_CLI_WIDTH_MIN, APP_CLI_WIDTH_MAX   \* 40 and 120

ContextWidth(columns) ==
  Smaller(Larger(IF columns = 0 THEN 80 ELSE columns, APP_CLI_WIDTH_MIN),
          APP_CLI_WIDTH_MAX)

(* help_render_rows: the column the descriptions begin in; 18 and 42 are the
   code's. *)
CONSTANTS LabelMin, LabelMax

LabelColumn(rows, width) ==
  LET widest == CHOOSE n \in {0} \cup {Width(rows[k].label) : k \in DOMAIN rows} :
                  \A k \in DOMAIN rows : Width(rows[k].label) <= n
  IN Smaller(Smaller(Larger(widest + 2, LabelMin), LabelMax), width \div 2)

Left == 2

(* help_render_row: a label too long for its column has a line of its own. *)
HelpRow(row, width, label_col) ==
  LET columns == Width(row.label)
      gap == IF columns + 1 > label_col
               THEN <<Newline>> \o Repeat(Space, Left + label_col)
               ELSE Repeat(Space, label_col - columns)
  IN Repeat(Space, Left) \o <<Begin>> \o row.label \o <<End>> \o gap
       \o WrapFrom(row.description, width, Left + label_col, Left + label_col)

HelpRows(rows, width) ==
  FlattenSeq([k \in DOMAIN rows |-> HelpRow(rows[k], width, LabelColumn(rows, width))])
==============================================================================
