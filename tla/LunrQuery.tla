------------------------------- MODULE LunrQuery -------------------------------
(***************************************************************************)
(* The query language of docs/styles/lunr.js: QueryLexer cuts a string     *)
(* into lexemes, QueryParser makes clauses of them. Both are machines      *)
(* whose state functions return the next one; here a step maps the machine *)
(* to the machine, and its field "state" names the function that is next.  *)
(*                                                                         *)
(* A query is a sequence of characters, all of them in lower case. The     *)
(* positions are those of the code, which count from 0.                    *)
(***************************************************************************)
EXTENDS Integers, SequencesExt, FiniteSetsExt

CONSTANTS
  Fields,          \* the fields of the index, in order; a name is a sequence of characters
  QuerySeparators  \* lunr.QueryLexer.termSeparator

Digits == <<"0", "1", "2", "3", "4", "5", "6", "7", "8", "9">>

----------------------------------------------------------------------------
(***************************************************************************)
(* The lexer. It sees one character at a time and may step back over it.   *)
(***************************************************************************)
NewLexer(str) ==
  [str |-> str, pos |-> 0, start |-> 0, escapes |-> <<>>, lexemes |-> <<>>, state |-> "lexText"]

More(lexer) == lexer.pos < Len(lexer.str)

CharAt(lexer, pos) == lexer.str[pos + 1]

\* JavaScript's slice: from the first position up to, not including, the last
Slice(str, first, last) == SubSeq(str, first + 1, Min({last, Len(str)}))

\* what was read since start, without the escape characters
SliceString(lexer) ==
  LET s == FoldLeft(LAMBDA t, e : [from |-> e + 1, out |-> t.out \o Slice(lexer.str, t.from, e)],
                    [from |-> lexer.start, out |-> <<>>], lexer.escapes)
  IN  s.out \o Slice(lexer.str, s.from, lexer.pos)

Emit(lexer, type) ==
  [lexer EXCEPT !.lexemes = Append(@, [type |-> type, str |-> SliceString(lexer)]),
                !.start = lexer.pos, !.escapes = <<>>]

Width(lexer) == lexer.pos - lexer.start

Backup(lexer) == [lexer EXCEPT !.pos = @ - 1]

\* skips what was read, or one character if nothing was
Ignore(lexer) ==
  LET pos == IF Width(lexer) = 0 THEN lexer.pos + 1 ELSE lexer.pos
  IN  [lexer EXCEPT !.pos = pos, !.start = pos]

EmitIfAny(lexer) == IF Width(lexer) > 0 THEN Emit(lexer, "TERM") ELSE lexer

AcceptDigitRun(lexer) ==
  LET ends == {p \in lexer.pos..Len(lexer.str) :
                 p = Len(lexer.str) \/ ~Contains(Digits, CharAt(lexer, p))}
  IN  IF More(lexer) THEN [lexer EXCEPT !.pos = Min(ends)] ELSE lexer

Goto(machine, state) == [machine EXCEPT !.state = state]

\* one turn of the loop of lexText
LexText(lexer) ==
  IF ~More(lexer) THEN Goto(lexer, "lexEOS") ELSE
    LET char == CharAt(lexer, lexer.pos)
        read == [lexer EXCEPT !.pos = @ + 1]
    IN  CASE char = "\\" -> [lexer EXCEPT !.escapes = Append(@, lexer.pos), !.pos = @ + 2]
          [] char = ":" -> Goto(read, "lexField")
          [] char = "~" -> Goto(EmitIfAny(lexer), "lexEditDistance")
          [] char = "^" -> Goto(EmitIfAny(lexer), "lexBoost")
          [] char \in QuerySeparators -> Goto(read, "lexTerm")
          [] OTHER -> read

LexField(lexer) == Goto(Ignore(Emit(Backup(lexer), "FIELD")), "lexText")

\* mutant: the separator is not given back
LexTerm_KeepsSeparator(lexer) ==
  LET lexed == Ignore(IF Width(lexer) > 1 THEN Emit(lexer, "TERM") ELSE lexer)
  IN  Goto(lexed, IF More(lexed) THEN "lexText" ELSE "none")

LexTerm(lexer) ==
  LET lexed == Ignore(IF Width(lexer) > 1 THEN Emit(Backup(lexer), "TERM") ELSE lexer)
  IN  Goto(lexed, IF More(lexed) THEN "lexText" ELSE "none")

LexNumber(lexer, type) == Goto(Emit(AcceptDigitRun(Ignore(lexer)), type), "lexText")

RECURSIVE RunLexer(_)
RunLexer(lexer) ==
  CASE lexer.state = "lexText" -> RunLexer(LexText(lexer))
    [] lexer.state = "lexField" -> RunLexer(LexField(lexer))
    [] lexer.state = "lexTerm" -> RunLexer(LexTerm(lexer))
    [] lexer.state = "lexEditDistance" -> RunLexer(LexNumber(lexer, "EDIT_DISTANCE"))
    [] lexer.state = "lexBoost" -> RunLexer(LexNumber(lexer, "BOOST"))
    [] lexer.state = "lexEOS" -> EmitIfAny(lexer).lexemes
    [] lexer.state = "none" -> lexer.lexemes

----------------------------------------------------------------------------
(***************************************************************************)
(* The parser. The clause under construction starts with the defaults that *)
(* Query.clause fills in; an edit distance of -1 says that it has none.    *)
(***************************************************************************)
NewClause ==
  [fields |-> Fields, term |-> <<>>, boost |-> 1, usePipeline |-> TRUE, editDistance |-> -1]

NewParser(str) ==
  [lexemes |-> RunLexer(NewLexer(str)), clauses |-> <<>>, currentClause |-> NewClause,
   state |-> "parseFieldOrTerm"]

NextIs(parser, type) == parser.lexemes # <<>> /\ Head(parser.lexemes).type = type

Consume(parser) == [parser EXCEPT !.lexemes = Tail(@)]

NextClause(parser) ==
  [parser EXCEPT !.clauses = Append(@, parser.currentClause), !.currentClause = NewClause]

QueryParseError(parser) == Goto(parser, "error")

ParseFieldOrTerm(parser) ==
  CASE parser.lexemes = <<>> -> Goto(parser, "none")
    [] NextIs(parser, "FIELD") -> Goto(parser, "parseField")
    [] NextIs(parser, "TERM") -> Goto(parser, "parseTerm")
    [] OTHER -> QueryParseError(parser)

\* only a field of the index, followed by a term
ParseField(parser) ==
  LET field == Head(parser.lexemes).str
      parsed == [Consume(parser) EXCEPT !.currentClause.fields = <<field>>]
  IN  IF Contains(Fields, field) /\ NextIs(parsed, "TERM")
      THEN Goto(parsed, "parseTerm")
      ELSE QueryParseError(parser)

\* the switch that ends parseTerm, parseEditDistance and parseBoost
AfterPart(parser) ==
  CASE parser.lexemes = <<>> -> Goto(NextClause(parser), "none")
    [] NextIs(parser, "TERM") -> Goto(NextClause(parser), "parseTerm")
    [] NextIs(parser, "FIELD") -> Goto(NextClause(parser), "parseField")
    [] NextIs(parser, "EDIT_DISTANCE") -> Goto(parser, "parseEditDistance")
    [] NextIs(parser, "BOOST") -> Goto(parser, "parseBoost")

\* a term with a wildcard is not sent through the pipeline
ParseTerm(parser) ==
  LET str == Head(parser.lexemes).str
  IN  AfterPart([Consume(parser) EXCEPT !.currentClause.term = str,
                                        !.currentClause.usePipeline = @ /\ ~Contains(str, "*")])

ParseInt(str) ==
  FoldLeft(LAMBDA n, d : 10 * n + (CHOOSE i \in DOMAIN Digits : Digits[i] = d) - 1, 0, str)

ParseEditDistance(parser) ==
  LET str == Head(parser.lexemes).str
  IN  IF str = <<>> THEN QueryParseError(parser)
      ELSE AfterPart([Consume(parser) EXCEPT !.currentClause.editDistance = ParseInt(str)])

ParseBoost(parser) ==
  LET str == Head(parser.lexemes).str
  IN  IF str = <<>> THEN QueryParseError(parser)
      ELSE AfterPart([Consume(parser) EXCEPT !.currentClause.boost = ParseInt(str)])

\* the clauses that were parsed, or the state "error"
RECURSIVE RunParser(_)
RunParser(parser) ==
  CASE parser.state = "parseFieldOrTerm" -> RunParser(ParseFieldOrTerm(parser))
    [] parser.state = "parseField" -> RunParser(ParseField(parser))
    [] parser.state = "parseTerm" -> RunParser(ParseTerm(parser))
    [] parser.state = "parseEditDistance" -> RunParser(ParseEditDistance(parser))
    [] parser.state = "parseBoost" -> RunParser(ParseBoost(parser))
    [] OTHER -> [state |-> parser.state, clauses |-> parser.clauses]

Parse(str) == RunParser(NewParser(str))
===============================================================================
