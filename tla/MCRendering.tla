----------------------------- MODULE MCRendering -----------------------------
(***************************************************************************)
(* Rendering for TLC: the texts, widgets and JSON strings to go through.   *)
(***************************************************************************)
EXTENDS Rendering

Chars == {Space, 0, 1, 2}
Upto(S, n) == UNION {[1..k -> S] : k \in 0..n}

Layouts ==
  {[kind |-> "wrap", text |-> t, width |-> w, first |-> i[1], next |-> i[2]] :
     t \in Upto(Chars \cup {Newline}, 4), w \in {1, 3, 5},
     i \in {<<0, 0>>, <<1, 0>>, <<0, 2>>}}
    \cup {[kind |-> "run", text |-> t, width |-> w, start |-> i, indent |-> i] :
            t \in Upto(Chars, 4), w \in {2, 4, 6}, i \in {0, 2}}
    \cup {[kind |-> "help", width |-> w,
           rows |-> <<[label |-> l, description |-> d],
                      [label |-> <<1>>, description |-> <<1, Space, 2>>]>>] :
            w \in {0, 4, 9, 20}, l \in {<<1>>, <<1, 1, 1>>, <<2, 1, 2, 1, 1>>},
            d \in {<< >>, <<1>>, <<1, 1, Space, 2>>, <<1, Space, 1, 1, 1, Space, 1, 1>>,
                   <<2, 2, 2, 2, 2, 2, Space, 1>>}}

Cells == {<< >>, <<1>>, <<2, 1>>, <<1, 1, 1>>, <<2, 2>>}
Headed(header, limit, right) == [header |-> header, max_width |-> limit, right |-> right]
Grid(columns, rows, header, width, gap) ==
  [kind |-> "table", width |-> 9,
   table |-> [columns |-> columns, rows |-> rows, header |-> header, width |-> width,
              gap |-> gap]]
Grids ==
  {Grid(<<Headed(t, m, FALSE), Headed(<<1, 1>>, 0, TRUE)>>, <<<<a, b>>>>, h, w, g) :
     t \in {<< >>, <<1, 2, 1>>}, m \in {0, 2}, a \in Cells, b \in Cells, h \in BOOLEAN,
     w \in {1, 3, 5, 7}, g \in {<< >>, <<Space>>, <<Space, 1, Space>>}}
    \cup {Grid(<<Headed(<<1>>, 0, FALSE), Headed(<<1>>, 0, TRUE), Headed(<<1>>, 3, TRUE)>>,
               <<<<a, b, c>>, <<b, a, c>>>>, TRUE, w, <<Space>>) :
            a \in Cells, b \in Cells, c \in Cells, w \in 0..8}

Widgets ==
  {[kind |-> "list", items |-> <<t, <<1>>>>, marker |-> m, width |-> w] :
     t \in Upto(Chars, 4), m \in {<<1, Space>>, <<1, 1, Space>>}, w \in {2, 5}}
    \cup {[kind |-> "note", title |-> x, text |-> t, width |-> w] :
            t \in Upto(Chars, 3) \ {<< >>}, x \in {<< >>, <<1, 2>>}, w \in {1, 3, 5}}
    \cup {[kind |-> "progress", text |-> t, current |-> c[1], total |-> c[2],
           value |-> c[3], percent |-> p, width |-> w] :
            t \in Upto({1, 2}, 3), p \in BOOLEAN, w \in {1, 2, 5, 6, 8, 9, 12},
            c \in (-1..4) \X (1..3) \X {NaN}
                  \cup {1} \X {-1, 0} \X {NaN, <<1, 0>>, <<-1, 0>>, <<-1, 2>>, <<1, 3>>, <<3, 2>>}}
    \cup {[kind |-> "rule", text |-> t, width |-> w] : t \in Upto({1, 2, Space}, 3), w \in 1..7}
    \cup {[kind |-> "heading", text |-> t, underline |-> u] :
            t \in Upto({1, 2}, 3), u \in BOOLEAN}
    \cup {[kind |-> "pairs", pairs |-> <<[key |-> a, value |-> b], [key |-> b, value |-> a]>>,
           separator |-> <<Space>>] : a \in Upto({1, 2}, 3), b \in Upto({1, 2}, 2)}

(* The bytes and units at either side of every limit of the two encodings. *)
Bytes == {34, 92, 31, 65, 127, 128, 159, 160, 191, 193, 194, 224, 225, 237, 239, 240}
Units == {0, 65, 127, 128, 2047, 2048, 55295, 55296, 56319, 56320, 57343, 57344, 65535}
JsonTexts ==
  {[kind |-> "string", text |-> t] :
     t \in Upto(Bytes, 3) \cup {<<a, b, c, d>> : a \in {240, 241, 243, 244, 245},
                                b \in {143, 144, 191, 65}, c \in {128, 191, 65},
                                d \in {128, 191, 34}}}
    \cup {[kind |-> "units", units |-> t] :
            t \in Upto(Units, 2) \cup Upto({65, 55296, 56319, 56320, 57343}, 3)}

MCSubjects == Layouts \cup Grids \cup Widgets \cup JsonTexts

ASSUME StringsAssumption == SubjectsAreStrings
==============================================================================
