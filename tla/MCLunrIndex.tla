----------------------------- MODULE MCLunrIndex -----------------------------
(***************************************************************************)
(* A few short documents whose terms share beginnings and endings, and     *)
(* queries written out from clauses, with some that are malformed.         *)
(***************************************************************************)
EXTENDS LunrIndex

MCAlphabet == <<"(", "*", "-", ":", "a", "b", "s", "t">>

T == <<"t">>
B == <<"b">>
MCFields == <<T, B>>

d1 == <<"a">>
d2 == <<"b", "/", "a">>
d3 == <<"c">>
MCDocRefs == {d1, d2, d3}

\* "ab b", "(abs) ba.bs"; "abs-as", "( bab ab"; "", "bas bab ab b"
MCText ==
  d1 :> (T :> <<"a", "b", " ", "b">> @@ B :> <<"(", "a", "b", "s", ")", " ", "b", "a", ".", "b", "s">>)
  @@ d2 :> (T :> <<"a", "b", "s", "-", "a", "s">> @@ B :> <<"(", " ", "b", "a", "b", " ", "a", "b">>)
  @@ d3 :> (T :> <<>> @@ B :> <<"b", "a", "s", " ", "b", "a", "b", " ", "a", "b", " ", "b">>)

MCTokenSeparators == {" ", "-", "."}
MCQuerySeparators == {" ", "-"}
MCNonWord == {"(", ")"}
MCStopWords == {<<"a", "s">>, <<"b", "a">>}

Terms == {<<"b">>, <<"a", "b">>, <<"b", "a", "b">>, <<"a", "b", "s">>, <<"b", "a", "s">>, <<"a", "s">>}
Patterns == {<<"*">>, <<"a", "*">>, <<"*", "b">>, <<"b", "*", "b">>, <<"*", "a", "*">>}
Special == {<<"a", "-", "b">>, <<":", "b">>}

Clause(fields, term, boost, edits) ==
  [fields |-> fields, term |-> term, boost |-> boost,
   usePipeline |-> "*" \notin Range(term), editDistance |-> edits]

Clauses ==
  {Clause(f, t, b, e) : f \in {MCFields, <<B>>}, t \in Terms, b \in {1, 2}, e \in -1..2}
  \cup {Clause(f, t, 1, -1) : f \in {MCFields, <<T>>}, t \in Patterns \cup Special}

Others == {Clause(MCFields, <<"b">>, 3, -1), Clause(<<T>>, <<"a", "b">>, 1, -1), Clause(MCFields, <<"b", "*">>, 2, -1)}

\* how a clause is written; what is the default need not be
Digit(n) == CASE n = 0 -> "0" [] n = 1 -> "1" [] n = 2 -> "2" [] n = 3 -> "3"
Escaped(term) ==
  FlattenSeq([i \in DOMAIN term |->
    IF term[i] \in {"-", ":", "~", "^", " "} THEN <<"\\", term[i]>> ELSE <<term[i]>>])
Written(c) ==
  (IF c.fields = MCFields THEN <<>> ELSE c.fields[1] \o <<":">>)
  \o Escaped(c.term)
  \o (IF c.editDistance = -1 THEN <<>> ELSE <<"~", Digit(c.editDistance)>>)
  \o (IF c.boost = 1 THEN <<>> ELSE <<"^", Digit(c.boost)>>)

MCQueries ==
  {[text |-> Written(c), clauses |-> <<c>>, malformed |-> FALSE] : c \in Clauses}
  \cup {[text |-> Written(c) \o <<" ">> \o Written(o), clauses |-> <<c, o>>, malformed |-> FALSE] :
          c \in {c \in Clauses : c.boost = 1 /\ c.editDistance < 1}, o \in Others}
  \cup {[text |-> text, clauses |-> <<>>, malformed |-> FALSE] : text \in {<<>>, <<" ", "-">>}}
  \cup {[text |-> text, clauses |-> <<>>, malformed |-> TRUE] :
          text \in {<<"a", "~">>, <<"a", "^", "b">>, <<"s", ":", "a">>, <<"t", ":">>, <<"~", "1">>,
                    <<"t", ":", "b", ":", "a">>, <<"^", "2", "a">>, <<"t", ":", "~", "1">>, <<":", "a">>}}
=============================================================================
