----------------------------- MODULE LunrTokenSet -----------------------------
(***************************************************************************)
(* The token sets of docs/styles/lunr.js: automata over the characters of  *)
(* words. An index keeps all its terms in one; a clause of a query becomes *)
(* another, and their intersection yields the terms the clause stands for. *)
(*                                                                         *)
(* An automaton is a sequence of nodes, numbered as lunr numbers them from *)
(* _nextId on; node 1 is the root. Words are sequences of characters, and  *)
(* "*" on an edge of a clause stands for any character.                    *)
(***************************************************************************)
EXTENDS Integers, SequencesExt, FiniteSetsExt, TLC

CONSTANT
  Alphabet  \* the characters of words, in the order JavaScript compares them

Node == [final |-> FALSE, edges |-> <<>>]

Target(graph, node, char) == graph[node].edges[char]

\* the edge that is there, or one to a new node
WithEdge(graph, node, char) ==
  IF char \in DOMAIN graph[node].edges
  THEN graph
  ELSE Append([graph EXCEPT ![node].edges = (char :> Len(graph) + 1) @@ @], Node)

MarkFinal(graph, node) == [graph EXCEPT ![node].final = TRUE]

(***************************************************************************)
(* fromFuzzyString: a trie of all the words that a number of edits make of *)
(* str. A frame of its stack is a node that was reached, what is left of   *)
(* the word there and the edits that remain.                               *)
(***************************************************************************)
Frame(node, str, edits) == [node |-> node, str |-> str, edits |-> edits]

Edit(char, rest, edits) == [char |-> char, rest |-> rest, edits |-> edits]

\* The edges a frame follows: no edit, deletion, substitution, insertion and
\* transposition, in the order of the code.
EditsOf(frame) ==
  LET w == frame.str
      left == frame.edits - 1
      When(condition, edit) == IF condition THEN <<edit>> ELSE <<>>
  IN  When(w # <<>>, Edit(w[1], Tail(w), frame.edits))
      \o IF frame.edits = 0 THEN <<>> ELSE
           When(Len(w) > 1, Edit(w[2], SubSeq(w, 3, Len(w)), left))
           \o When(w # <<>>, Edit("*", Tail(w), left))
           \o <<Edit("*", w, left)>>
           \o When(Len(w) > 1, Edit(w[2], <<w[1]>> \o SubSeq(w, 3, Len(w)), left))

\* An edge that uses up the word ends in a final node and is not followed.
Follow(s, frame, edit) ==
  LET graph == WithEdge(s.graph, frame.node, edit.char)
      next == Target(graph, frame.node, edit.char)
  IN  IF edit.rest = <<>>
      THEN [s EXCEPT !.graph = MarkFinal(graph, next)]
      ELSE [graph |-> graph, stack |-> Append(s.stack, Frame(next, edit.rest, edit.edits))]

\* deletion of the last character
DropsLast(graph, frame) ==
  IF frame.edits > 0 /\ Len(frame.str) = 1 THEN MarkFinal(graph, frame.node) ELSE graph

RECURSIVE ExpandEdits(_)
ExpandEdits(s) ==
  IF s.stack = <<>> THEN s.graph ELSE
    LET frame == Last(s.stack)
        popped == [graph |-> DropsLast(s.graph, frame), stack |-> Front(s.stack)]
    IN  ExpandEdits(FoldLeft(LAMBDA t, edit : Follow(t, frame, edit), popped, EditsOf(frame)))

FromFuzzyString(str, editDistance) ==
  ExpandEdits([graph |-> <<Node>>, stack |-> <<Frame(1, str, editDistance)>>])

(***************************************************************************)
(* fromString: a chain of the characters, where "*" is a loop on the node  *)
(* it stands behind. Once one was seen, every later node leads back to the *)
(* root with any character.                                                *)
(***************************************************************************)
FromString(str) ==
  LET Step(s, i) ==
        IF str[i] = "*"
        THEN [s EXCEPT !.wildcardFound = TRUE,
                       !.graph[s.node] = [final |-> i = Len(str), edges |-> ("*" :> s.node) @@ @.edges]]
        ELSE LET next == Len(s.graph) + 1
                 node == [final |-> i = Len(str),
                          edges |-> IF s.wildcardFound THEN "*" :> 1 ELSE <<>>]
             IN  [s EXCEPT !.node = next,
                           !.graph = Append([@ EXCEPT ![s.node].edges = (str[i] :> next) @@ @], node)]
      start == [graph |-> <<Node>>, node |-> 1, wildcardFound |-> FALSE]
  IN  FoldLeft(Step, start, [i \in DOMAIN str |-> i]).graph

(***************************************************************************)
(* intersect: a walks its own edges, b may follow any of them with "*".    *)
(* The output is a trie whose nodes become final if any pair of nodes that *)
(* leads there is.                                                         *)
(***************************************************************************)
Meets(qEdge, nEdge) == nEdge = qEdge \/ qEdge = "*"

\* mutant: what another pair of nodes found is overwritten
Meet_ForgetsFinal(a, b, s, frame, qEdge, nEdge) ==
  LET node == Target(a, frame.node, nEdge)
      qNode == Target(b, frame.qNode, qEdge)
      graph == WithEdge(s.output, frame.output, nEdge)
      next == Target(graph, frame.output, nEdge)
  IN  [output |-> [graph EXCEPT ![next].final = a[node].final /\ b[qNode].final],
       stack |-> Append(s.stack, [qNode |-> qNode, output |-> next, node |-> node])]

Meet(a, b, s, frame, qEdge, nEdge) ==
  LET node == Target(a, frame.node, nEdge)
      qNode == Target(b, frame.qNode, qEdge)
      graph == WithEdge(s.output, frame.output, nEdge)
      next == Target(graph, frame.output, nEdge)
  IN  [output |-> IF a[node].final /\ b[qNode].final THEN MarkFinal(graph, next) ELSE graph,
       stack |-> Append(s.stack, [qNode |-> qNode, output |-> next, node |-> node])]

RECURSIVE MeetAll(_, _, _)
MeetAll(a, b, s) ==
  IF s.stack = <<>> THEN s.output ELSE
    LET frame == Last(s.stack)
        common == {e \in (DOMAIN b[frame.qNode].edges) \X (DOMAIN a[frame.node].edges) : Meets(e[1], e[2])}
        popped == [s EXCEPT !.stack = Front(@)]
    IN  MeetAll(a, b, FoldSet(LAMBDA e, t : Meet(a, b, t, frame, e[1], e[2]), popped, common))

Intersect(a, b) ==
  MeetAll(a, b, [output |-> <<Node>>, stack |-> <<[qNode |-> 1, output |-> 1, node |-> 1]>>])

(***************************************************************************)
(* toArray: the words, one for every path from the root to a final node.   *)
(***************************************************************************)
RECURSIVE WordsFrom(_, _, _)
WordsFrom(graph, node, prefix) ==
  LET edges == graph[node].edges
      onward == SelectSeq(Alphabet, LAMBDA c : c \in DOMAIN edges)
  IN  (IF graph[node].final THEN <<prefix>> ELSE <<>>)
      \o FlattenSeq([i \in DOMAIN onward |->
           WordsFrom(graph, edges[onward[i]], Append(prefix, onward[i]))])

ToArray(graph) == WordsFrom(graph, 1, <<>>)

(***************************************************************************)
(* The Builder makes the minimal automaton of words that come in order:    *)
(* the nodes of the last word wait in uncheckedNodes until the next word   *)
(* shows that they are complete, and are then replaced by a node with the  *)
(* same key that is there already.                                         *)
(***************************************************************************)
Rank(char) == CHOOSE i \in DOMAIN Alphabet : Alphabet[i] = char

CommonPrefix(v, w) ==
  Max({n \in 0..Len(v) : n <= Len(w) /\ SubSeq(v, 1, n) = SubSeq(w, 1, n)})

Precedes(v, w) ==
  LET n == CommonPrefix(v, w) + 1
  IN  n <= Len(w) /\ (n > Len(v) \/ Rank(v[n]) < Rank(w[n]))

InOrder(words) ==
  [i \in 1..Cardinality(words) |->
     CHOOSE w \in words : Cardinality({v \in words : Precedes(v, w)}) = i - 1]

NewBuilder ==
  [graph |-> <<Node>>, previousWord |-> <<>>, uncheckedNodes |-> <<>>,
   minimizedNodes |-> <<>>, thrown |-> FALSE]

\* mutant: nodes are merged by their edges alone
Key_IgnoresFinal(graph, node) ==
  LET edges == graph[node].edges
      labels == SelectSeq(Alphabet, LAMBDA c : c \in DOMAIN edges)
  IN  FoldLeft(LAMBDA key, label : key \o label \o ToString(edges[label]), "", labels)

\* toString: finality, and the labels in order with the ids they lead to
Key(graph, node) ==
  LET edges == graph[node].edges
      labels == SelectSeq(Alphabet, LAMBDA c : c \in DOMAIN edges)
  IN  FoldLeft(LAMBDA key, label : key \o label \o ToString(edges[label]),
               IF graph[node].final THEN "1" ELSE "0", labels)

MinimizeLast(b) ==
  LET last == Last(b.uncheckedNodes)
      key == Key(b.graph, last.child)
      popped == [b EXCEPT !.uncheckedNodes = Front(@)]
  IN  IF key \in DOMAIN b.minimizedNodes
      THEN [popped EXCEPT !.graph[last.parent].edges[last.char] = b.minimizedNodes[key]]
      ELSE [popped EXCEPT !.minimizedNodes = (key :> last.child) @@ @]

Minimize(b, downTo) ==
  FoldLeft(LAMBDA c, i : MinimizeLast(c), b, [i \in 1..(Len(b.uncheckedNodes) - downTo) |-> i])

\* one more node for a character of the word
Extend(b, char) ==
  LET parent == IF b.uncheckedNodes = <<>> THEN 1 ELSE Last(b.uncheckedNodes).child
      child == Len(b.graph) + 1
  IN  [b EXCEPT !.graph = Append([@ EXCEPT ![parent].edges = (char :> child) @@ @], Node),
                !.uncheckedNodes = Append(@, [parent |-> parent, char |-> char, child |-> child])]

Insert(b, word) ==
  IF Precedes(word, b.previousWord) THEN [b EXCEPT !.thrown = TRUE] ELSE
    LET shared == CommonPrefix(word, b.previousWord)
        extended == FoldLeft(Extend, Minimize(b, shared), SubSeq(word, shared + 1, Len(word)))
        node == IF extended.uncheckedNodes = <<>> THEN 1 ELSE Last(extended.uncheckedNodes).child
    IN  [extended EXCEPT !.graph = MarkFinal(@, node), !.previousWord = word]

Finish(b) == Minimize(b, 0)

FromArray(words) == Finish(FoldLeft(Insert, NewBuilder, words)).graph
===============================================================================
