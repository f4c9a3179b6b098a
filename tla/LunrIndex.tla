------------------------------ MODULE LunrIndex ------------------------------
(***************************************************************************)
(* The search index of docs/styles/lunr.js, as docs/styles/search-worker.js*)
(* configures it: documents are added to a Builder one at a time, build    *)
(* makes an Index of it, the index answers query strings, and it can be    *)
(* written as JSON and loaded again, in the same process or in another.    *)
(*                                                                         *)
(* Texts, words, names of fields and references are sequences of           *)
(* characters. What a term weighs in a field is a product of real numbers; *)
(* here it weighs as often as it occurs. The order of the results, which   *)
(* those weights decide, is left out with them.                            *)
(***************************************************************************)
EXTENDS LunrTokenSet, LunrQuery

CONSTANTS
  DocRefs,          \* references (href) of the documents
  Text,             \* what a document has in a field
  MaxDocuments,     \* bound: how many documents are added
  TokenSeparators,  \* lunr.tokenizer.separator
  NonWord,          \* the characters that \W of a regular expression matches
  StopWords,        \* search-stopwords.json
  Queries,          \* queries: a text, and the clauses that it was written to mean
  None              \* no index, no query, ... yet

VARIABLES builder, index, json, query, outcome

vars == <<builder, index, json, query, outcome>>

ASSUME IndexAssumption ==
  /\ MaxDocuments \in Nat
  /\ \A name \in Range(Fields) : "/" \notin Range(name)
  /\ \A q \in Queries : \A i \in DOMAIN q.clauses : q.clauses[i].term # <<>>

----------------------------------------------------------------------------
(***************************************************************************)
(* Names of the entries that documents have per field: the field, a slash, *)
(* and the reference, which may hold slashes of its own.                   *)
(***************************************************************************)
FieldRef(docRef, fieldName) == fieldName \o <<"/">> \o docRef

FromRef(s) ==
  LET n == Min({i \in DOMAIN s : s[i] = "/"})
  IN  [fieldName |-> SubSeq(s, 1, n - 1), docRef |-> SubSeq(s, n + 1, Len(s))]

----------------------------------------------------------------------------
(***************************************************************************)
(* Words: the tokenizer and the functions of the pipelines. A function     *)
(* maps a token to a sequence of tokens. That the trimmer leaves nothing   *)
(* of a token does not drop it: an empty token is not the empty string.    *)
(***************************************************************************)
Tokenizer(text) ==
  LET Cut(s, sliceEnd) ==
        IF sliceEnd <= Len(text) /\ text[sliceEnd] \notin TokenSeparators THEN s
        ELSE [sliceStart |-> sliceEnd + 1,
              tokens |-> IF sliceEnd > s.sliceStart
                         THEN Append(s.tokens, SubSeq(text, s.sliceStart, sliceEnd - 1))
                         ELSE s.tokens]
  IN  FoldLeft(Cut, [sliceStart |-> 1, tokens |-> <<>>], [i \in 1..(Len(text) + 1) |-> i]).tokens

Trimmer(token) ==
  LET kept == {i \in DOMAIN token : token[i] \notin NonWord}
  IN  IF kept = {} THEN <<>> ELSE SubSeq(token, Min(kept), Max(kept))

\* Step 1a; no other step changes a word without e, g, i, l, o, u, y and z.
Stemmer(token) ==
  IF Len(token) >= 3 /\ Last(token) = "s" /\ token[Len(token) - 1] # "s" THEN Front(token) ELSE token

StopWordFilter(token) == IF token \in StopWords THEN <<>> ELSE <<token>>

Apply(fn, token) ==
  CASE fn = "trimmer" -> <<Trimmer(token)>>
    [] fn = "stemmer" -> <<Stemmer(token)>>
    [] fn = "docfxStopWordFilter" -> StopWordFilter(token)

PipelineRun(stack, tokens) ==
  FoldLeft(LAMBDA memo, fn : FlattenSeq([i \in DOMAIN memo |-> Apply(fn, memo[i])]), tokens, stack)

PipelineAdd(stack, fns) == stack \o fns

PipelineRemove(stack, fn) == SelectSeq(stack, LAMBDA f : f # fn)

\* the functions that every process has registered
BuiltIn == {"trimmer", "stopWordFilter", "stemmer"}

\* a serialized pipeline names its functions, and is loaded where all are known
PipelineLoads(serialised, registered) == Range(serialised) \subseteq registered

----------------------------------------------------------------------------
(***************************************************************************)
(* Vectors: pairs of a term's index and its weight, in the order of the    *)
(* indexes. positionForIndex halves a slice until one element is left.     *)
(***************************************************************************)
RECURSIVE Pivot(_, _, _, _)
Pivot(vector, idx, start, end) ==
  LET pivotPoint == start + (end - start) \div 2
      pivotIndex == vector[pivotPoint + 1][1]
  IN  CASE end - start <= 1 \/ pivotIndex = idx -> pivotPoint
        [] pivotIndex < idx -> Pivot(vector, idx, pivotPoint, end)
        [] OTHER -> Pivot(vector, idx, start, pivotPoint)

\* mutant: always the position of the pivot, also where it is smaller
PositionForIndex_AtPivot(vector, idx) ==
  IF vector = <<>> THEN 0 ELSE Pivot(vector, idx, 0, Len(vector))

PositionForIndex(vector, idx) ==
  IF vector = <<>> THEN 0 ELSE
    LET pivotPoint == Pivot(vector, idx, 0, Len(vector))
    IN  IF vector[pivotPoint + 1][1] < idx THEN pivotPoint + 1 ELSE pivotPoint

\* the element that has the index, or the place where it belongs
Position(vector, insertIdx) == PositionForIndex(vector, insertIdx) + 1
HasElement(vector, insertIdx) ==
  LET position == Position(vector, insertIdx)
  IN  position \in DOMAIN vector /\ vector[position][1] = insertIdx

\* the only function that is passed to upsert, but for the one that throws, adds
Upsert(vector, insertIdx, val) ==
  LET position == Position(vector, insertIdx)
  IN  IF HasElement(vector, insertIdx) THEN [vector EXCEPT ![position][2] = @ + val]
      ELSE InsertAt(vector, position, <<insertIdx, val>>)

\* a second weight for an index is thrown
VectorInsert(vector, insertIdx, val) ==
  IF HasElement(vector, insertIdx) THEN "duplicate index" ELSE Upsert(vector, insertIdx, val)

RECURSIVE Dot(_, _)
Dot(a, b) ==
  IF a = <<>> \/ b = <<>> THEN 0
  ELSE CASE a[1][1] < b[1][1] -> Dot(Tail(a), b)
         [] a[1][1] > b[1][1] -> Dot(a, Tail(b))
         [] OTHER -> a[1][2] * b[1][2] + Dot(Tail(a), Tail(b))

----------------------------------------------------------------------------
(***************************************************************************)
(* The builder. A posting has the index of its term and, by field, the     *)
(* documents that have the term there. Frequencies keep the order in which *)
(* the terms came, which is the order Object.keys returns them in.         *)
(***************************************************************************)
EmptyBuilder ==
  [invertedIndex |-> <<>>, fieldTermFrequencies |-> <<>>, fieldLengths |-> <<>>,
   documentCount |-> 0, termIndex |-> 0, pipeline |-> <<>>, searchPipeline |-> <<>>]

NewPosting(termIndex) == [index |-> termIndex, docs |-> [name \in Range(Fields) |-> {}]]

Count(frequencies, term) ==
  LET at == SelectInSeq(frequencies, LAMBDA f : f[1] = term)
  IN  IF at = 0 THEN Append(frequencies, <<term, 1>>) ELSE [frequencies EXCEPT ![at][2] = @ + 1]

AddTerm(b, docRef, fieldName, term) ==
  LET known == term \in DOMAIN b.invertedIndex
      posting == IF known THEN b.invertedIndex[term] ELSE NewPosting(b.termIndex)
  IN  [b EXCEPT !.fieldTermFrequencies[FieldRef(docRef, fieldName)] = Count(@, term),
                !.termIndex = IF known THEN @ ELSE @ + 1,
                !.invertedIndex = (term :> [posting EXCEPT !.docs[fieldName] = @ \cup {docRef}]) @@ @]

AddField(b, docRef, fieldName) ==
  LET terms == PipelineRun(b.pipeline, Tokenizer(Text[docRef][fieldName]))
      fieldRef == FieldRef(docRef, fieldName)
      entered == [b EXCEPT !.fieldTermFrequencies = (fieldRef :> <<>>) @@ @,
                           !.fieldLengths = (fieldRef :> Len(terms)) @@ @]
  IN  FoldLeft(LAMBDA c, term : AddTerm(c, docRef, fieldName, term), entered, terms)

CreateFieldVectors(b) ==
  [fieldRef \in DOMAIN b.fieldTermFrequencies |->
     FoldLeft(LAMBDA vector, f : VectorInsert(vector, b.invertedIndex[f[1]].index, f[2]),
              <<>>, b.fieldTermFrequencies[fieldRef])]

CreateTokenSet(b) == FromArray(InOrder(DOMAIN b.invertedIndex))

----------------------------------------------------------------------------
(***************************************************************************)
(* Index.query: every clause is expanded to terms of the index, and every  *)
(* term looked up in every field of the clause.                            *)
(***************************************************************************)
FromClause(clause, term) ==
  IF clause.editDistance >= 0 THEN FromFuzzyString(term, clause.editDistance) ELSE FromString(term)

ClauseTerms(i, clause) ==
  IF clause.usePipeline THEN PipelineRun(i.pipeline, <<clause.term>>) ELSE <<clause.term>>

ExpandedTerms(i, clause) ==
  FlattenSeq([t \in DOMAIN ClauseTerms(i, clause) |->
    ToArray(Intersect(i.tokenSet, FromClause(clause, ClauseTerms(i, clause)[t])))])

\* MatchData, of terms without metadata: the pairs of a term and a field
Combine(matchData, term, fieldName) == matchData \cup {<<term, fieldName>>}

LookUpField(i, s, clause, term, fieldName) ==
  LET posting == i.invertedIndex[term]
      refs == {FieldRef(docRef, fieldName) : docRef \in posting.docs[fieldName]}
      Entry(f, key, empty) == IF key \in DOMAIN f THEN f[key] ELSE empty
  IN  [queryVectors |->
         (fieldName :> Upsert(Entry(s.queryVectors, fieldName, <<>>), posting.index,
                              clause.boost)) @@ s.queryVectors,
       matchingFields |->
         [ref \in refs |-> Combine(Entry(s.matchingFields, ref, {}), term, fieldName)] @@ s.matchingFields]

LookUpClause(i, s, clause) ==
  FoldLeft(LAMBDA t, term :
             FoldLeft(LAMBDA u, fieldName : LookUpField(i, u, clause, term, fieldName), t, clause.fields),
           s, ExpandedTerms(i, clause))

\* The results: what was found in the fields of a document, and the score of each
Results(i, s) ==
  LET RefsOf(docRef) == {ref \in DOMAIN s.matchingFields : FromRef(ref).docRef = docRef}
  IN  [docRef \in {FromRef(ref).docRef : ref \in DOMAIN s.matchingFields} |->
         [matchData |-> UNION {s.matchingFields[ref] : ref \in RefsOf(docRef)},
          score |-> [name \in {FromRef(ref).fieldName : ref \in RefsOf(docRef)} |->
                       Dot(s.queryVectors[name], i.fieldVectors[FieldRef(docRef, name)])]]]

Answer(i, text) ==
  LET parsed == Parse(text)
      found == FoldLeft(LAMBDA s, clause : LookUpClause(i, s, clause),
                        [queryVectors |-> <<>>, matchingFields |-> <<>>], parsed.clauses)
  IN  IF parsed.state = "error" THEN [error |-> TRUE, clauses |-> <<>>, results |-> <<>>]
      ELSE [error |-> FALSE, clauses |-> parsed.clauses, results |-> Results(i, found)]

----------------------------------------------------------------------------
(***************************************************************************)
(* The index in its process.                                               *)
(***************************************************************************)

\* lunr() and the configuration of the worker, up to the first add
Init ==
  /\ LET standard == PipelineAdd(<<>>, <<"trimmer", "stopWordFilter", "stemmer">>)
     IN  builder = [EmptyBuilder EXCEPT !.pipeline = PipelineRemove(standard, "stopWordFilter"),
                                        !.searchPipeline = PipelineAdd(@, <<"stemmer">>)]
  /\ index = None /\ json = None /\ query = None /\ outcome = None

Documents == {FromRef(fieldRef).docRef : fieldRef \in DOMAIN builder.fieldLengths}

Add(docRef) ==
  /\ index = None /\ json = None
  /\ docRef \notin Documents /\ builder.documentCount < MaxDocuments
  /\ builder' = FoldLeft(LAMBDA b, name : AddField(b, docRef, name),
                         [builder EXCEPT !.documentCount = @ + 1], Fields)
  /\ UNCHANGED <<index, json, query, outcome>>

\* The filter of stop words comes last, when all documents are in.
Build ==
  /\ index = None /\ json = None /\ builder.documentCount > 0
  /\ builder' = [builder EXCEPT !.pipeline = PipelineAdd(@, <<"docfxStopWordFilter">>),
                                !.searchPipeline = PipelineAdd(@, <<"docfxStopWordFilter">>)]
  /\ index' = [invertedIndex |-> builder.invertedIndex, fieldVectors |-> CreateFieldVectors(builder),
               tokenSet |-> CreateTokenSet(builder), pipeline |-> builder'.searchPipeline]
  /\ UNCHANGED <<json, query, outcome>>

\* bound: one query per index
Search(q) ==
  /\ index # None /\ query = None
  /\ query' = q /\ outcome' = Answer(index, q.text)
  /\ UNCHANGED <<builder, index, json>>

\* the process ends, and leaves the index as JSON
ToJSON ==
  /\ index # None /\ json = None
  /\ json' = [invertedIndex |->
                 [i \in DOMAIN InOrder(DOMAIN index.invertedIndex) |->
                    LET term == InOrder(DOMAIN index.invertedIndex)[i] IN <<term, index.invertedIndex[term]>>],
               fieldVectors |-> index.fieldVectors,
               pipeline |-> index.pipeline]
  /\ index' = None /\ query' = None /\ outcome' = None
  /\ UNCHANGED builder

\* A process that knows some functions loads it; an unknown function is thrown.
Load(registered) ==
  /\ json # None /\ index = None
  /\ PipelineLoads(json.pipeline, registered)
  /\ index' = [invertedIndex |->
                 [term \in {e[1] : e \in Range(json.invertedIndex)} |->
                    (CHOOSE e \in Range(json.invertedIndex) : e[1] = term)[2]],
               fieldVectors |-> json.fieldVectors,
               tokenSet |-> FromArray([i \in DOMAIN json.invertedIndex |-> json.invertedIndex[i][1]]),
               pipeline |-> json.pipeline]
  /\ UNCHANGED <<builder, json, query, outcome>>

Next ==
  \/ \E docRef \in DocRefs : Add(docRef)
  \/ Build
  \/ \E q \in Queries : Search(q)
  \/ ToJSON
  \/ \E registered \in {BuiltIn, BuiltIn \cup {"docfxStopWordFilter"}} : Load(registered)

Spec == Init /\ [][Next]_vars

----------------------------------------------------------------------------
(***************************************************************************)
(* What the documents say: a word of a text is a longest part without      *)
(* separators, and its term is the stem of the word without punctuation.   *)
(***************************************************************************)
WordsOf(text) ==
  LET Bare(i, j) == \A n \in i..j : text[n] \notin TokenSeparators
  IN  {<<i, j>> \in (DOMAIN text) \X (DOMAIN text) :
         /\ i <= j /\ Bare(i, j)
         /\ i = 1 \/ ~Bare(i - 1, i - 1)
         /\ j = Len(text) \/ ~Bare(j + 1, j + 1)}

TermAt(text, word) == Stemmer(Trimmer(SubSeq(text, word[1], word[2])))

TermsOf(docRef, name) == {TermAt(Text[docRef][name], word) : word \in WordsOf(Text[docRef][name])}

Occurrences(docRef, name, term) ==
  Cardinality({word \in WordsOf(Text[docRef][name]) : TermAt(Text[docRef][name], word) = term})

AllTerms == UNION {TermsOf(docRef, name) : docRef \in Documents, name \in Range(Fields)}

----------------------------------------------------------------------------
(***************************************************************************)
(* The token set is the smallest automaton of exactly the terms of the     *)
(* documents, whether built or loaded: no term is lost or made up where    *)
(* words share a prefix or an ending, and no two of its nodes have the     *)
(* same endings.                                                           *)
(***************************************************************************)
TokenSetExact ==
  index # None =>
    LET graph == index.tokenSet
        words == ToArray(graph)
        NodeOf(path) == FoldLeft(LAMBDA node, char : Target(graph, node, char), 1, path)
        nodes == {NodeOf(path) : path \in UNION {Prefixes(w) : w \in Range(words)}}
    IN  /\ words = InOrder(AllTerms)
        /\ \A m, n \in nodes : WordsFrom(graph, m, <<>>) = WordsFrom(graph, n, <<>>) => m = n

(***************************************************************************)
(* A query is parsed to the clauses it was written from, separators and    *)
(* special characters in its terms escaped; and it is an error if it was   *)
(* written from none.                                                      *)
(***************************************************************************)
ParsedAsWritten ==
  query # None =>
    /\ outcome.error = query.malformed
    /\ ~query.malformed => outcome.clauses = query.clauses

----------------------------------------------------------------------------
(***************************************************************************)
(* What a query stands for.                                                *)
(***************************************************************************)
\* A wildcard stands for any number of characters, none too, as the comment of
\* lunr.TokenSet.fromString has it (lunr.js:1385) and the code does.  That of
\* lunr.Index.query (lunr.js:1677) says "one or more": there "b*" would not find
\* "b".
RECURSIVE Like(_, _)
Like(pattern, word) ==
  IF pattern = <<>> THEN word = <<>>
  ELSE IF Head(pattern) = "*"
       THEN Like(Tail(pattern), word) \/ (word # <<>> /\ Like(pattern, Tail(word)))
       ELSE word # <<>> /\ Head(word) = Head(pattern) /\ Like(Tail(pattern), Tail(word))

\* the words that one insertion, deletion, substitution or transposition makes
OneEdit(w) ==
  LET chars == Range(Alphabet)
  IN  {RemoveAt(w, i) : i \in DOMAIN w}
      \cup {ReplaceAt(w, i, c) : i \in DOMAIN w, c \in chars}
      \cup {InsertAt(w, i, c) : i \in 1..(Len(w) + 1), c \in chars}
      \cup {[w EXCEPT ![i] = w[i + 1], ![i + 1] = w[i]] : i \in 1..(Len(w) - 1)}

\* Whether one of the words, or one that so many edits make of them, is term
RECURSIVE WithinEdits(_, _, _)
WithinEdits(words, term, edits) ==
  term \in words \/ (edits > 0 /\ WithinEdits(UNION {OneEdit(w) : w \in words}, term, edits - 1))

Word(clause) == IF clause.usePipeline THEN Stemmer(clause.term) ELSE clause.term

\* terms that the clause may find, and those of them that it must
May(clause, term) ==
  /\ term # <<>> /\ ~(clause.usePipeline /\ Word(clause) \in StopWords)
  /\ IF clause.editDistance <= 0 THEN Like(Word(clause), term)
     ELSE WithinEdits({Word(clause)}, term, clause.editDistance)

Must(clause, term) ==
  /\ May(clause, term)
  /\ clause.editDistance > 0 =>
       /\ WithinEdits({Word(clause)}, term, 1)
       /\ \A char \in Range(Alphabet) : term # Append(Word(clause), char)

Found(docRef, Matches(_, _)) ==
  {<<term, name>> \in AllTerms \X Range(Fields) :
     /\ term \in TermsOf(docRef, name)
     /\ \E i \in DOMAIN query.clauses :
          Contains(query.clauses[i].fields, name) /\ Matches(query.clauses[i], term)}

(***************************************************************************)
(* A query finds in every document exactly the terms that its clauses      *)
(* stand for: equal words, words that match the wildcards (which may stand *)
(* for no character at all, against the words of lunr.js:1677), and with   *)
(* an edit distance no word that is further away and every word one edit   *)
(* away but for a character that was appended. A word whose stem is a stop *)
(* word stands for none. Documents that have none of the terms are not     *)
(* found.                                                                  *)
(***************************************************************************)
SearchExact ==
  (query # None /\ ~query.malformed) =>
    \A docRef \in Documents :
      LET found == IF docRef \in DOMAIN outcome.results THEN outcome.results[docRef].matchData ELSE {}
      IN  /\ Found(docRef, Must) \subseteq found /\ found \subseteq Found(docRef, May)
          /\ docRef \in DOMAIN outcome.results => found # {}

(***************************************************************************)
(* The score of a document in a field is what the clauses add up to: for   *)
(* each of them, and each term it stands for, the boost times the weight   *)
(* of the term, also where clauses share a term.                           *)
(***************************************************************************)
ScoresExact ==
  (query # None /\ ~query.malformed /\ \A i \in DOMAIN query.clauses : query.clauses[i].editDistance <= 0) =>
    \A docRef \in DOMAIN outcome.results :
      \A name \in DOMAIN outcome.results[docRef].score :
        outcome.results[docRef].score[name] =
          MapThenSumSet(
            LAMBDA e : query.clauses[e[1]].boost * Occurrences(docRef, name, e[2]),
            {<<i, term>> \in (DOMAIN query.clauses) \X TermsOf(docRef, name) :
               Contains(query.clauses[i].fields, name) /\ May(query.clauses[i], term)})
=============================================================================
