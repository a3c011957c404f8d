---------------------------- MODULE MCJsonReaders ----------------------------
(***************************************************************************)
(* A grammar for the readers' documents, written without a cursor or a     *)
(* stack, and documents for TLC: all small ones, and all that differ from  *)
(* one of these in a token.                                                *)
(***************************************************************************)
EXTENDS JsonReaders, FiniteSets

(* Brackets open before the n-th token of s. *)
Level(s, n) ==
  Cardinality({j \in 1..n-1 : s[j] \in {"{", "["}})
    - Cardinality({j \in 1..n-1 : s[j] \in {"}", "]"}})

(* What there is of s between its outermost commas, as a sequence. *)
RECURSIVE ListItems(_)
ListItems(s) ==
  LET commas == {n \in 1..Len(s) : s[n] = "," /\ Level(s, n) = 0}
  IN IF commas = {} THEN <<s>>
     ELSE LET n == CHOOSE n \in commas : \A m \in commas : n <= m
          IN <<SubSeq(s, 1, n - 1)>> \o ListItems(SubSeq(s, n + 1, Len(s)))

Enclosed(s, open, close) == Len(s) >= 2 /\ s[1] = open /\ s[Len(s)] = close
Inside(s) == SubSeq(s, 2, Len(s) - 1)

(* Every item of a list, which may be empty. *)
Every(s, P(_)) ==
  Inside(s) = << >> \/ LET ps == ListItems(Inside(s)) IN \A k \in DOMAIN ps : P(ps[k])

Pair(s, strings) == Len(s) >= 3 /\ s[1] \in strings /\ s[2] = ":"
PairValue(s) == SubSeq(s, 3, Len(s))

(* A value with at most depth containers in one another. *)
RECURSIVE IsValue(_, _, _)
IsValue(s, strings, depth) ==
  \/ Len(s) = 1 /\ s[1] \in strings \cup Scalars
  \/ /\ depth > 0
     /\ \/ /\ Enclosed(s, "[", "]")
           /\ Every(s, LAMBDA v : IsValue(v, strings, depth - 1))
        \/ /\ Enclosed(s, "{", "}")
           /\ Every(s, LAMBDA m : Pair(m, strings)
                                   /\ IsValue(PairValue(m), strings, depth - 1))

IsFlags(s) ==
  Enclosed(s, "{", "}") /\ Every(s, LAMBDA m : m = <<"flag", ":", "bool">>)
IsArgs(s) ==
  Enclosed(s, "[", "]") /\ Every(s, LAMBDA v : Len(v) = 1 /\ v[1] \in Strings)
Arguments(s) == IF Inside(s) = << >> THEN {} ELSE DOMAIN ListItems(Inside(s))

(* What a config file may say under a key. *)
ConfigMember(m) ==
  LET strings == Strings \ {"escaped"}
  IN /\ Pair(m, strings \ {"long"})
     /\ IF m[1] = "flag" THEN PairValue(m) = <<"bool">>
        ELSE IsValue(PairValue(m), strings, NestingLimit)

(* What a request may say under a key. *)
RequestMember(m) ==
  /\ Pair(m, Strings)
  /\ CASE m[1] = "command" -> Len(m) = 3 /\ m[3] \in Strings
       [] m[1] = "args"    -> IsArgs(PairValue(m))
       [] m[1] = "flags"   -> IsFlags(PairValue(m))
       [] OTHER            -> IsValue(PairValue(m), Strings, NestingLimit)

IsConfig(s) == s = << >> \/ (Enclosed(s, "{", "}") /\ Every(s, ConfigMember))

IsRequest(s) ==
  /\ Enclosed(s, "{", "}") /\ Inside(s) # << >> /\ Every(s, RequestMember)
  /\ LET ps == ListItems(Inside(s))
         commands == SelectSeq(ps, LAMBDA m : m[1] = "command")
     IN /\ commands # << >> /\ commands[Len(commands)][3] # ""
        /\ Cardinality(UNION {{k} \X Arguments(PairValue(ps[k])) :
                                 k \in {k \in DOMAIN ps : ps[k][1] = "args"}})
             <= MAX_ARGS

------------------------------------------------------------------------------
(* Each reader accepts the documents of its grammar and no others, whatever
   they are nested in and follow: no token is skipped or taken twice, a comma
   is always followed by something, and what a reader discards is read as
   strictly as what it keeps. *)
AcceptsItsGrammar ==
  outcome \notin {"none", "MEMORY"} =>
    (outcome = "ok" <=> IF reader = "config" THEN IsConfig(doc) ELSE IsRequest(doc))

------------------------------------------------------------------------------
Atoms == {<<"text">>, <<"bool">>, <<"scalar">>, <<"escaped">>}
Wrapped(v) == {<<"[">> \o v \o <<"]">>, <<"{", "text", ":">> \o v \o <<"}">>}
Nested == UNION {Wrapped(v) : v \in {<<"text">>, <<"bool">>}} \cup {<<"[", "]">>, <<"{", "}">>}
NestedTwice == UNION {Wrapped(v) : v \in Nested}
NestedTooOften == UNION {Wrapped(v) : v \in NestedTwice}
ArgumentLists == {<<"[", "text", "]">>, <<"[", "text", ",", "text", "]">>,
              <<"[", "text", ",", "", ",", "text", "]">>}
FlagLists == {<<"{", "flag", ":", "bool", "}">>, <<"{", "text", ":", "bool", "}">>,
              <<"{", "flag", ":", "bool", ",", "flag", ":", "bool", "}">>}

Values == Atoms \cup Nested \cup NestedTwice \cup NestedTooOften \cup ArgumentLists
            \cup FlagLists \cup {<<"">>}

Member(key, v) == <<key, ":">> \o v
Document(members) == <<"{">> \o members \o <<"}">>
Also(m, n) == m \o <<",">> \o n

Single == {Member(key, v) : key \in Strings, v \in Values}
Notable ==
  {Member("command", <<"text">>), Member("command", <<"">>),
   Member("args", <<"[", "text", ",", "text", "]">>), Member("args", <<"[", "]">>),
   Member("args", <<"[", "text", "]">>), Member("flags", <<"{", "}">>),
   Member("flags", <<"{", "flag", ":", "bool", "}">>),
   Member("flag", <<"bool">>), Member("text", <<"[", "{", "}", ",", "bool", "]">>)}

Small ==
  {<< >>, <<"{", "}">>} \cup {Document(m) : m \in Single}
    \cup {Document(Also(m, n)) : m, n \in Notable}
    \cup {Document(Also(Also(Member("command", <<"text">>), m), n)) : m, n \in Notable}

Replacements == {"{", "}", "[", "]", ",", ":", "text", "bool", "junk"}
Damaged(s) ==
  {[s EXCEPT ![n] = t] : n \in 1..Len(s), t \in Replacements}
    \cup {SubSeq(s, 1, n) \o SubSeq(s, n + 2, Len(s)) : n \in 0..Len(s)-1}
    \cup {SubSeq(s, 1, n) \o <<t>> \o SubSeq(s, n + 1, Len(s)) :
            n \in 0..Len(s), t \in Replacements}

MCDocuments ==
  Small \cup UNION {Damaged(Document(Also(m, n))) : m, n \in Notable}
==============================================================================
