------------------------------ MODULE MCRegistry ------------------------------
(***************************************************************************)
(* Registries of three components for TLC: every chain, diamond, cycle and *)
(* loop of theirs, a dependency on nothing known, a file shared by two, one *)
(* that is not safe, and a name used twice.                                *)
(***************************************************************************)
EXTENDS Registry

Entry(n, ds, fs) == [name |-> n, dependencies |-> ds, files |-> fs]

Lists == {<< >>, <<"a">>, <<"b">>, <<"c">>, <<"b", "c">>, <<"c", "b">>}

Three(da, db, dc) ==
  <<Entry("a", da, <<"fa">>), Entry("b", db, <<"fb">>), Entry("c", dc, <<"fc">>)>>

MCRegistries ==
  {Three(da, db, dc) : da \in Lists, db \in Lists, dc \in Lists}
    \cup {Three(<<"b">>, <<"c">>, <<"ghost">>), Three(<<"c", "ghost">>, << >>, << >>),
          << >>,
          <<Entry("a", <<"b", "c">>, <<"fa">>), Entry("b", << >>, <<"fb", "fc">>),
            Entry("c", << >>, <<"fc">>)>>,
          <<Entry("a", <<"b">>, <<"fa">>), Entry("b", << >>, <<"fb", "outside">>)>>,
          <<Entry("a", <<"b">>, <<"fa">>), Entry("b", << >>, <<"fb">>),
            Entry("a", <<"ghost">>, <<"fc">>)>>}
==============================================================================
