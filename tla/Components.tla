----------------------------- MODULE Components -----------------------------
(***************************************************************************)
(* The components that draw on a surface, src/components, over a stream    *)
(* surface (src/surface/surface.c): a component returns what it writes.    *)
(* Roles, attributes and glyphs are told apart by their columns only.      *)
(***************************************************************************)
EXTENDS TextLayout

Rows(s, Draw(_)) == FlattenSeq([k \in DOMAIN s |-> Draw(s[k])])

(* cs_surface_set_role, what is written under it, cs_surface_reset *)
Styled(text) == <<Begin>> \o text \o <<End>>

(* The width asked for, or the surface's, 80 columns when neither is known. *)
WidthOr(width, surface) ==
  IF width # 0 THEN width ELSE IF surface # 0 THEN surface ELSE 80

------------------------------------------------------------------------------
(* cs_table_render.  A table is columns, each with a header and a limit or 0,
   rows of cells, whether the header is shown, a width and a gap. *)
Column(table, c) ==
  [k \in 1..Len(table.rows) |-> table.rows[k][c]]
    \o (IF table.header THEN <<table.columns[c].header>> ELSE << >>)

NaturalWidth(table, c) ==
  LET cells == {Width(Column(table, c)[k]) : k \in DOMAIN Column(table, c)}
      widest == CHOOSE n \in cells \cup {1} : \A m \in cells \cup {1} : m <= n
      limit == table.columns[c].max_width
  IN IF limit > 0 THEN Smaller(widest, limit) ELSE widest

Total(widths) ==
  LET sum[k \in 0..Len(widths)] == IF k = 0 THEN 0 ELSE sum[k - 1] + widths[k]
  IN sum[Len(widths)]

(* What the smallest columns were rounded up by is taken from the widest, the
   first of them, until it is at the floor too. *)
Reclaim(widths, floor, over) ==
  LET after[n \in 0..Larger(over, 0)] ==
        IF n = 0 THEN widths
        ELSE LET w == after[n - 1]
                 widest == CHOOSE c \in DOMAIN w :
                             \A d \in DOMAIN w : w[d] < w[c] \/ (w[d] = w[c] /\ c <= d)
             IN IF w[widest] <= floor THEN w ELSE [w EXCEPT ![widest] = @ - 1]
  IN after[Larger(over, 0)]

(* In proportion, the smallest rounded up to a column if all can have one;
   what rounding leaves goes to the first. *)
Shrink(widths, budget) ==
  LET sum == Total(widths)
      floor == IF Len(widths) <= budget THEN 1 ELSE 0
      scaled == [c \in DOMAIN widths |-> Larger((widths[c] * budget) \div sum, floor)]
      left == budget - Total(scaled)
  IN IF sum <= budget THEN widths
     ELSE IF left > 0 THEN [scaled EXCEPT ![1] = @ + left]
     ELSE Reclaim(scaled, floor, -left)

(* The gap the columns have: none when the gaps alone fill the budget. *)
Budget(table, surface) == WidthOr(table.width, surface)
Gap(table, surface) ==
  IF (Len(table.columns) - 1) * Width(table.gap) >= Budget(table, surface)
    THEN << >> ELSE table.gap

TableWidths(table, surface) ==
  Shrink([c \in DOMAIN table.columns |-> NaturalWidth(table, c)],
         Larger(Budget(table, surface)
                  - (Len(table.columns) - 1) * Width(Gap(table, surface)), 0))

(* cs_table_write_cell *)
WriteCell(text, col_width, right) ==
  LET shown == Truncate(text, col_width)
      pad == Repeat(Space, col_width - Width(shown))
  IN IF right THEN pad \o Styled(shown) ELSE Styled(shown) \o pad

Table(table, surface) ==
  LET widths == TableWidths(table, surface)
      gap == Gap(table, surface)
      line(cells, attributes) ==
        FlattenSeq([c \in DOMAIN widths |->
            (IF c > 1 THEN gap ELSE << >>) \o attributes
              \o WriteCell(cells[c], widths[c], table.columns[c].right)])
          \o <<Newline>>
      rule == Repeat(1, Total(widths) + (Len(widths) - 1) * Width(gap))
      header == line([c \in DOMAIN widths |-> table.columns[c].header], <<Begin>>)
                  \o Styled(rule) \o <<Newline>>
  IN IF table.columns = << >> THEN << >>
     ELSE (IF table.header THEN header ELSE << >>)
            \o Rows(table.rows, LAMBDA cells : line(cells, << >>))

------------------------------------------------------------------------------
(* cs_list_render: the first line of an item after its marker, the others
   below the first. *)

ListWidth(width, marker) == Larger(width - Width(marker), 1)

Item(text, marker, width) ==
  LET lines == Wrap(text, ListWidth(width, marker), 0, 0)
  IN Styled(marker)
       \o FlattenSeq([k \in DOMAIN lines |->
            (IF k > 1 THEN Repeat(Space, Width(marker)) ELSE << >>)
              \o Styled(lines[k]) \o <<Newline>>])

List(items, marker, width, surface) ==
  Rows(items, LAMBDA text : Item(text, marker, WidthOr(width, surface)))

(* cs_note_render: a gutter before every line, the title as long as it is. *)
Gutter == Styled(<<1>>) \o <<Space>>

Note(title, body, width, surface) ==
  LET lines == Wrap(body, Larger(WidthOr(width, surface) - 2, 1), 0, 0)
  IN (IF title = << >> THEN << >>
      ELSE Gutter \o Styled(title) \o <<Newline>>)
     \o (IF body = << >> THEN << >>
         ELSE Rows(lines, LAMBDA line : Gutter \o Styled(line) \o <<Newline>>))

(* The fraction shown: current out of total, or a value given as a fraction
   itself where there is no total, an infinity or NaN being one by 0.  It is cut
   at both ends, and NaN shows as nothing done. *)
NaN == <<0, 0>>
Fraction(current, total, value) ==
  LET f == IF total > 0 THEN <<current, total>> ELSE value
  IN IF f = NaN \/ f[1] < 0 THEN <<0, 1>>
     ELSE IF f[1] > f[2] THEN <<1, 1>>
     ELSE f

(* cs_progress_render: five columns of percent, the label cut to leave a column
   of bar. *)
PercentColumns == 5
Progress(label, current, total, value, show_percent, width, surface) ==
  LET columns == WidthOr(width, surface)
      percent == IF show_percent THEN PercentColumns ELSE 0
      part == Fraction(current, total, value)
      shown == Truncate(label, columns - percent - 1 - 2)
      used == IF Width(shown) > 0 THEN Width(shown) + 2 ELSE 0
      bar == Larger(columns - used - percent, 1)
      filled == Smaller((2 * part[1] * bar + part[2]) \div (2 * part[2]), bar)
  IN (IF used > 0 THEN Styled(shown) \o Repeat(Space, 2) ELSE << >>)
       \o Styled(Repeat(1, filled)) \o Styled(Repeat(1, bar - filled))
       \o (IF show_percent THEN Styled(Repeat(1, percent)) ELSE << >>)
       \o <<Newline>>

(* cs_rule_render: the label in the middle, if it leaves room for a glyph. *)
Rule(label, width, surface) ==
  LET columns == WidthOr(width, surface)
      label_cols == Width(label) + 2
      remaining == columns - label_cols
  IN (IF label = << >> THEN Styled(Repeat(1, columns))
      ELSE IF label_cols >= columns THEN Styled(label)
      ELSE Styled(Repeat(1, remaining \div 2))
             \o Styled(<<Space>> \o label \o <<Space>>)
             \o Styled(Repeat(1, remaining - remaining \div 2)))
     \o <<Newline>>

(* cs_heading_render and cs_keyvalue_render know no width: a heading is
   underlined to its own, values stand in one column. *)
Heading(text, underline) ==
  Styled(text) \o <<Newline>>
    \o (IF underline /\ Width(text) > 0 THEN Rule(<< >>, Width(text), 0) ELSE << >>)

KeyValue(pairs, separator) ==
  LET widest == CHOOSE n \in {0} \cup {Width(pairs[k].key) : k \in DOMAIN pairs} :
                  \A k \in DOMAIN pairs : Width(pairs[k].key) <= n
  IN Rows(pairs, LAMBDA p : Styled(p.key) \o Repeat(Space, widest - Width(p.key))
                              \o separator \o Styled(p.value) \o <<Newline>>)
==============================================================================
