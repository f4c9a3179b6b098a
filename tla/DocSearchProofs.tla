--------------------------- MODULE DocSearchProofs ---------------------------
(***************************************************************************)
(* The search page shows what was asked last, for any queries and any      *)
(* number of keys, handlers and messages on their way.  An answer names    *)
(* its query only for the properties; what makes it the right one is that  *)
(* questions and answers stay in the order of the keys they are from.      *)
(***************************************************************************)
EXTENDS DocSearch, SequenceTheorems, TLAPS

Files == {"stop words", "data", "no data"}
Questions == [q : Queries, key : Nat]
Ready == [e |-> "index-ready"]
Messages == [e : {"query-ready"}, q : Queries, key : Nat] \cup {Ready}

Typed ==
  /\ loaded \in Seq(Files) /\ lunrIndex \in BOOLEAN /\ console \subseteq Questions
  /\ toWorker \in Seq(Questions) /\ toPage \in Seq(Messages)
  /\ handlers \in Nat /\ indexReady \in BOOLEAN
  /\ keys \in Nat /\ query \in Queries \cup {None}
  /\ view \in {"contents", "results"} /\ items \in Results \cup {None}

\* The i-th message to the page is an answer.
AnswerAt(i) == i \in 1..Len(toPage) /\ toPage[i].e = "query-ready"

\* From what is shown, by way of the answers and the questions, to the last key:
\* no key comes before an earlier one.
InOrder ==
  /\ \A i \in 1..Len(toWorker) : toWorker[i].key <= keys
  /\ \A i, j \in 1..Len(toWorker) : i <= j => toWorker[i].key <= toWorker[j].key
  /\ \A i \in 1..Len(toPage) : AnswerAt(i) =>
       /\ toPage[i].key <= keys
       /\ \A j \in 1..Len(toWorker) : toPage[i].key <= toWorker[j].key
       /\ \A j \in 1..Len(toPage) : i <= j /\ AnswerAt(j) => toPage[i].key <= toPage[j].key
  /\ items # None =>
       /\ items.key <= keys
       /\ \A j \in 1..Len(toWorker) : items.key <= toWorker[j].key
       /\ \A j \in 1..Len(toPage) : AnswerAt(j) => items.key <= toPage[j].key

\* What is from the last key is about its query.
OfTheQuery ==
  /\ \A i \in 1..Len(toWorker) : toWorker[i].key = keys => toWorker[i].q = query
  /\ \A i \in 1..Len(toPage) :
       AnswerAt(i) /\ toPage[i].key = keys => toPage[i].q = query
  /\ items # None /\ items.key = keys =>
       items.q = query /\ items.links \in {query, None}

\* A query that is searched for has not been lost.
NotLost ==
  view = "results" =>
    /\ heading = query /\ query \in Long
    /\ OnItsWay \/ ThrownOn(keys) \/ (items # None /\ items.key = keys)

\* Nothing is asked before the data have come; after that there is an index if
\* the stop words had come before.
AskedInTime ==
  /\ lunrIndex = (Came("stop words") /\ Came("data"))
  /\ ~Came("data") /\ ~Came("no data") =>
       toWorker = <<>> /\ toPage = <<>> /\ ~indexReady /\ console = {}
  /\ NoneTooEarly

IInv == Typed /\ InOrder /\ OfTheQuery /\ NotLost /\ AskedInTime

-----------------------------------------------------------------------------
(***************************************************************************)
(* A message is added at the end of a queue.                               *)
(***************************************************************************)
LEMMA Appended ==
  ASSUME NEW S, NEW s \in Seq(S), NEW a \in S
  PROVE  /\ Append(s, a) \in Seq(S)
         /\ Len(s) \in Nat /\ Len(Append(s, a)) = Len(s) + 1
         /\ \A i \in 1..Len(s) : Append(s, a)[i] = s[i]
         /\ Append(s, a)[Len(s) + 1] = a
<1>1. Append(s, a) \in Seq(S) /\ Len(s) \in Nat /\ Len(Append(s, a)) = Len(s) + 1
  OBVIOUS
<1>2. \A i \in 1..Len(s) : Append(s, a)[i] = s[i]
  OBVIOUS
<1>3. Append(s, a)[Len(s) + 1] = a
  OBVIOUS
<1> QED
  BY <1>1, <1>2, <1>3

(***************************************************************************)
(* An index that is not the last one is among those before.                *)
(***************************************************************************)
LEMMA LowerIndex ==
  ASSUME NEW m \in Nat, NEW i \in 1..(m + 1), i # m + 1
  PROVE  i \in 1..m
OBVIOUS

(***************************************************************************)
(* An index remains one when there are more.                               *)
(***************************************************************************)
LEMMA HigherIndex ==
  ASSUME NEW m \in Nat, NEW i \in 1..m
  PROVE  i \in 1..(m + 1)
OBVIOUS

(***************************************************************************)
(* A message is taken from the head of a queue.                            *)
(***************************************************************************)
LEMMA Taken ==
  ASSUME NEW S, NEW s \in Seq(S), s # <<>>
  PROVE  /\ Head(s) = s[1] /\ Head(s) \in S
         /\ Len(s) \in Nat \ {0} /\ 1 \in 1..Len(s)
         /\ Tail(s) \in Seq(S) /\ Len(Tail(s)) = Len(s) - 1
         /\ \A i \in 1..(Len(s) - 1) : Tail(s)[i] = s[i + 1]
<1>1. Head(s) \in S /\ Tail(s) \in Seq(S) /\ Len(Tail(s)) = Len(s) - 1
      /\ \A i \in 1..Len(Tail(s)) : Tail(s)[i] = s[i + 1]
  BY HeadTailProperties
<1>2. Len(s) \in Nat \ {0} /\ Head(s) = s[1]
  BY EmptySeq
<1> QED
  BY <1>1, <1>2

(***************************************************************************)
(* The same message is added n times.                                      *)
(***************************************************************************)
LEMMA Repeated ==
  ASSUME NEW S, NEW s \in Seq(S), NEW a \in S, NEW n \in Nat
  PROVE  /\ s \o [h \in 1..n |-> a] \in Seq(S)
         /\ Len(s) \in Nat /\ Len(s \o [h \in 1..n |-> a]) = Len(s) + n
         /\ \A i \in 1..Len(s) : (s \o [h \in 1..n |-> a])[i] = s[i]
         /\ \A i \in (Len(s) + 1)..(Len(s) + n) : (s \o [h \in 1..n |-> a])[i] = a
<1> DEFINE r == [h \in 1..n |-> a]
<1>1. r \in [1..n -> S]
  OBVIOUS
<1>2. r \in Seq(S) /\ Len(r) = n /\ \A h \in 1..n : r[h] = a
  <2>1. r \in Seq(S)
    BY <1>1, SeqDef
  <2>2. DOMAIN r = 1..n
    OBVIOUS
  <2>3. DOMAIN r = 1..Len(r) /\ Len(r) \in Nat
    BY <2>1, LenProperties
  <2>4. Len(r) = n
    BY <2>2, <2>3
  <2> QED
    BY <2>1, <2>4
<1>3. Len(s) \in Nat
  BY LenProperties
<1> HIDE DEF r
<1>4. /\ s \o r \in Seq(S) /\ Len(s \o r) = Len(s) + Len(r)
      /\ \A i \in 1..(Len(s) + Len(r)) : (s \o r)[i] = IF i <= Len(s) THEN s[i] ELSE r[i - Len(s)]
  BY <1>2, ConcatProperties
<1>5. \A i \in 1..Len(s) : (s \o r)[i] = s[i]
  BY <1>2, <1>3, <1>4
<1>6. ASSUME NEW i \in (Len(s) + 1)..(Len(s) + n) PROVE (s \o r)[i] = a
  <2>1. i \in 1..(Len(s) + n) /\ ~(i <= Len(s)) /\ i - Len(s) \in 1..n
    BY <1>3
  <2> QED
    BY <1>2, <1>4, <2>1
<1> QED
  BY <1>2, <1>3, <1>4, <1>5, <1>6 DEF r

(***************************************************************************)
(* What has come is what had come before, and the file that comes now.     *)
(***************************************************************************)
LEMMA CameThen ==
  ASSUME loaded \in Seq(Files), NEW file \in Files, loaded' = Append(loaded, file)
  PROVE  /\ loaded' \in Seq(Files)
         /\ \A f : Came(f)' <=> Came(f) \/ f = file
         /\ loaded' # <<>>
         /\ Head(loaded') = IF loaded = <<>> THEN file ELSE Head(loaded)
<1>1. /\ loaded' \in Seq(Files)
      /\ Len(loaded) \in Nat /\ Len(loaded') = Len(loaded) + 1
      /\ \A i \in 1..Len(loaded) : loaded'[i] = loaded[i]
      /\ loaded'[Len(loaded) + 1] = file
  BY Appended
<1>2. 1..Len(loaded') = (1..Len(loaded)) \cup {Len(loaded) + 1}
  BY <1>1
<1>3. \A f : Came(f)' <=> Came(f) \/ f = file
  BY <1>1, <1>2 DEF Came, Contains
<1>4. loaded' # <<>> /\ Head(loaded') = loaded'[1]
  BY <1>1, EmptySeq
<1>5. Head(loaded') = IF loaded = <<>> THEN file ELSE Head(loaded)
  <2>1. CASE loaded = <<>>
    <3>1. Len(loaded) = 0
      BY <2>1
    <3> QED
      BY <1>1, <1>4, <2>1, <3>1
  <2>2. CASE loaded # <<>>
    <3>1. Head(loaded) = loaded[1] /\ 1 \in 1..Len(loaded)
      BY <2>2, Taken
    <3> QED
      BY <1>1, <1>4, <2>2, <3>1
  <2> QED
    BY <2>1, <2>2
<1> QED
  BY <1>1, <1>3, <1>4, <1>5

(***************************************************************************)
(* A question is taken: it is answered if there is an index and the query  *)
(* can be parsed, and thrown on otherwise.                                 *)
(***************************************************************************)
LEMMA WorkerTakes ==
  ASSUME Typed, WorkerOnMessage
  PROVE  /\ Len(toWorker) \in Nat \ {0} /\ Len(toPage) \in Nat
         /\ toWorker[1] \in Questions
         /\ toWorker' \in Seq(Questions) /\ Len(toWorker') = Len(toWorker) - 1
         /\ \A i \in 1..(Len(toWorker) - 1) : toWorker'[i] = toWorker[i + 1]
         /\ toPage' \in Seq(Messages)
         /\ \A i \in 1..Len(toPage) : toPage'[i] = toPage[i]
         /\ \/ /\ lunrIndex /\ toWorker[1].q \notin Unparsable
               /\ Len(toPage') = Len(toPage) + 1 /\ console' = console
               /\ toPage'[Len(toPage) + 1] =
                    [e |-> "query-ready", q |-> toWorker[1].q, key |-> toWorker[1].key]
            \/ /\ ~(lunrIndex /\ toWorker[1].q \notin Unparsable)
               /\ toPage' = toPage /\ console' = console \cup {toWorker[1]}
         /\ UNCHANGED <<loaded, lunrIndex, page>>
<1>1. toWorker \in Seq(Questions) /\ toWorker # <<>> /\ toPage \in Seq(Messages)
  BY DEF Typed, WorkerOnMessage
<1>2. /\ Head(toWorker) = toWorker[1] /\ toWorker[1] \in Questions
      /\ Len(toWorker) \in Nat \ {0}
      /\ Tail(toWorker) \in Seq(Questions) /\ Len(Tail(toWorker)) = Len(toWorker) - 1
      /\ \A i \in 1..(Len(toWorker) - 1) : Tail(toWorker)[i] = toWorker[i + 1]
  BY <1>1, Taken
<1> DEFINE answer == [e |-> "query-ready", q |-> toWorker[1].q, key |-> toWorker[1].key]
<1>3. answer \in Messages
  BY <1>2 DEF Questions, Messages
<1>4. /\ toWorker' = Tail(toWorker) /\ UNCHANGED <<loaded, lunrIndex, page>>
      /\ IF lunrIndex /\ toWorker[1].q \notin Unparsable
         THEN toPage' = Append(toPage, answer) /\ console' = console
         ELSE console' = console \cup {toWorker[1]} /\ toPage' = toPage
  BY <1>2 DEF WorkerOnMessage
<1> HIDE DEF answer
<1>5. /\ Len(toPage) \in Nat
      /\ Append(toPage, answer) \in Seq(Messages)
      /\ Len(Append(toPage, answer)) = Len(toPage) + 1
      /\ \A i \in 1..Len(toPage) : Append(toPage, answer)[i] = toPage[i]
      /\ Append(toPage, answer)[Len(toPage) + 1] = answer
  BY <1>1, <1>3, Appended
<1> QED
  BY <1>1, <1>2, <1>4, <1>5 DEF answer

(***************************************************************************)
(* A message is taken from the queue of the page.                          *)
(***************************************************************************)
LEMMA PageTakes ==
  ASSUME Typed, toPage # <<>>, toPage' = Tail(toPage)
  PROVE  /\ Len(toPage) \in Nat \ {0}
         /\ Head(toPage) = toPage[1] /\ toPage[1] \in Messages
         /\ toPage' \in Seq(Messages) /\ Len(toPage') = Len(toPage) - 1
         /\ \A i \in 1..(Len(toPage) - 1) : toPage'[i] = toPage[i + 1]
BY Taken DEF Typed

(***************************************************************************)
(* The news of the data is added to the queue of the page.                 *)
(***************************************************************************)
LEMMA NewsAdded ==
  ASSUME Typed, toPage' = Append(toPage, Ready)
  PROVE  /\ Len(toPage) \in Nat
         /\ toPage' \in Seq(Messages) /\ Len(toPage') = Len(toPage) + 1
         /\ \A i \in 1..Len(toPage) : toPage'[i] = toPage[i]
         /\ toPage'[Len(toPage) + 1] = Ready
BY Appended DEF Typed, Messages

\* The page asks n times for the query that is now the last.
Asks(n) ==
  /\ Len(toWorker) \in Nat
  /\ toWorker' \in Seq(Questions) /\ Len(toWorker') = Len(toWorker) + n
  /\ \A i \in 1..Len(toWorker) : toWorker'[i] = toWorker[i]
  /\ \A i \in (Len(toWorker) + 1)..(Len(toWorker) + n) :
       toWorker'[i] = [q |-> query', key |-> keys']

(***************************************************************************)
(* A key that is released asks once for each handler, once the index is    *)
(* ready, and not at all before or for a short query.                      *)
(***************************************************************************)
LEMMA KeyAsks ==
  ASSUME Typed, NEW q \in Queries, KeyUp(q)
  PROVE  /\ keys' = keys + 1 /\ query' = q /\ indexReady' = indexReady
         /\ IF q \in Long THEN view' = "results" /\ heading' = q ELSE view' = "contents"
         /\ \E n \in Nat : Asks(n) /\ (n # 0 <=> q \in Long /\ indexReady)
<1>1. toWorker \in Seq(Questions) /\ handlers \in Nat \ {0} /\ keys \in Nat
  BY DEF Typed, KeyUp
<1>2. /\ keys' = keys + 1 /\ query' = q /\ indexReady' = indexReady
      /\ IF q \in Long THEN view' = "results" /\ heading' = q ELSE view' = "contents"
  BY DEF KeyUp
<1>3. Len(toWorker) \in Nat
  BY <1>1, LenProperties
<1>4. CASE q \in Long /\ indexReady
  <2>1. [q |-> query', key |-> keys'] \in Questions
    BY <1>1, <1>2 DEF Questions
  <2>2. toWorker' = toWorker \o [h \in 1..handlers |-> [q |-> query', key |-> keys']]
    BY <1>2, <1>4 DEF KeyUp
  <2>3. Asks(handlers)
    BY <1>1, <2>1, <2>2, Repeated DEF Asks
  <2> QED
    BY <1>1, <1>2, <1>4, <2>3
<1>5. CASE ~(q \in Long /\ indexReady)
  <2>1. toWorker' = toWorker
    BY <1>5 DEF KeyUp
  <2>2. Asks(0)
    BY <1>1, <1>3, <2>1 DEF Asks
  <2> QED
    BY <1>2, <1>5, <2>2
<1> QED
  BY <1>4, <1>5

(***************************************************************************)
(* The page hears that the index is ready, and asks for the query that is  *)
(* in the box, if it is long enough.                                       *)
(***************************************************************************)
LEMMA ReadyAsks ==
  ASSUME Typed, IndexReady
  PROVE  /\ keys' = keys /\ query' = query /\ indexReady'
         /\ \E n \in Nat : Asks(n) /\ (n # 0 <=> query \in Long)
<1>1. toWorker \in Seq(Questions) /\ keys \in Nat
  BY DEF Typed
<1>2. keys' = keys /\ query' = query /\ indexReady'
  BY DEF IndexReady
<1>3. Len(toWorker) \in Nat
  BY <1>1, LenProperties
<1>4. CASE query \in Long
  <2> DEFINE question == [q |-> query', key |-> keys']
  <2>1. question \in Questions
    BY <1>1, <1>2, <1>4, SearchAssumption DEF Questions
  <2>2. toWorker' = Append(toWorker, question)
    BY <1>2, <1>4 DEF IndexReady
  <2> HIDE DEF question
  <2>3. /\ toWorker' \in Seq(Questions) /\ Len(toWorker') = Len(toWorker) + 1
        /\ \A i \in 1..Len(toWorker) : toWorker'[i] = toWorker[i]
        /\ toWorker'[Len(toWorker) + 1] = question
    BY <1>1, <2>1, <2>2, Appended
  <2>4. \A i \in (Len(toWorker) + 1)..(Len(toWorker) + 1) : toWorker'[i] = question
    BY <1>3, <2>3
  <2>5. Asks(1)
    BY <1>3, <2>3, <2>4 DEF Asks, question
  <2> QED
    BY <1>2, <1>4, <2>5
<1>5. CASE query \notin Long
  <2>1. toWorker' = toWorker
    BY <1>5 DEF IndexReady
  <2>2. Asks(0)
    BY <1>1, <1>3, <2>1 DEF Asks
  <2> QED
    BY <1>2, <1>5, <2>2
<1> QED
  BY <1>4, <1>5

(***************************************************************************)
(* The page shows an answer: whose it is, and the links of this moment.    *)
(***************************************************************************)
LEMMA Shown ==
  ASSUME Typed, HandleSearchResults
  PROVE  /\ AnswerAt(1) /\ toPage[1].key \in Nat
         /\ items' \in Results /\ items' # None
         /\ items'.key = toPage[1].key /\ items'.q = toPage[1].q
         /\ items'.links \in {query, None}
         /\ UNCHANGED <<worker, toWorker, navbar, handlers, indexReady, query, keys, view, heading>>
<1>1. /\ toPage # <<>> /\ toPage' = Tail(toPage) /\ Head(toPage).e = "query-ready"
      /\ UNCHANGED <<worker, toWorker, navbar, handlers, indexReady, query, keys, view, heading>>
  BY DEF HandleSearchResults
<1>2. /\ Len(toPage) \in Nat \ {0} /\ Head(toPage) = toPage[1] /\ toPage[1] \in Messages
  BY <1>1, PageTakes
<1>3. toPage[1].e = "query-ready" /\ toPage[1].q \in Queries /\ toPage[1].key \in Nat
  BY <1>1, <1>2 DEF Messages, Ready
<1>4. query \in Queries \cup {None}
  BY DEF Typed
<1>5. \/ items' = [q |-> toPage[1].q, key |-> toPage[1].key, page |-> 0, links |-> None]
      \/ items' = [q |-> toPage[1].q, key |-> toPage[1].key, page |-> 1, links |-> query]
  BY <1>2 DEF HandleSearchResults, ShowPage
<1>6. items' \in Results
  BY <1>3, <1>4, <1>5 DEF Results
<1> QED
  BY <1>1, <1>2, <1>3, <1>5, <1>6, NoneAssumption DEF AnswerAt

(***************************************************************************)
(* A page that is turned is of the same results, with the links of this    *)
(* moment.                                                                 *)
(***************************************************************************)
LEMMA Turned ==
  ASSUME Typed, NEW number \in 1..2, OnPageClick(number)
  PROVE  /\ items \in Results /\ items # None /\ items' \in Results /\ items' # None
         /\ items'.key = items.key /\ items'.q = items.q /\ items'.links = query
         /\ UNCHANGED <<worker, toWorker, toPage, navbar, handlers, indexReady, query, keys, view, heading>>
<1>1. /\ items # None /\ items' = [q |-> items.q, key |-> items.key, page |-> number, links |-> query]
      /\ UNCHANGED <<worker, toWorker, toPage, navbar, handlers, indexReady, query, keys, view, heading>>
  BY DEF OnPageClick, ShowPage
<1>2. items \in Results /\ query \in Queries \cup {None}
  BY <1>1 DEF Typed
<1>3. items' \in Results
  BY <1>1, <1>2 DEF Results
<1> QED
  BY <1>1, <1>2, <1>3, NoneAssumption

\* The steps that leave the queues, the last key and the results alone.
Elsewhere ==
  UNCHANGED <<toWorker, toPage, console, indexReady, query, keys, view, heading, items>>

(***************************************************************************)
(* Stop words and navigation bar are among them.                           *)
(***************************************************************************)
LEMMA ElsewhereSteps ==
  ASSUME StopWordsLoad \/ (\E hasList \in BOOLEAN : NavbarLoad(hasList)) \/ UNCHANGED vars
  PROVE  Elsewhere
BY DEF Elsewhere, StopWordsLoad, NavbarLoad, vars, worker, page

-----------------------------------------------------------------------------
(***************************************************************************)
(* The types.                                                              *)
(***************************************************************************)
LEMMA TypedStep ==
  ASSUME Typed, [Next]_vars
  PROVE  Typed'
<1>1. CASE StopWordsLoad
  <2>1. loaded' \in Seq(Files)
    BY <1>1, CameThen DEF Typed, StopWordsLoad, Files
  <2>2. lunrIndex' \in BOOLEAN
    BY <1>1 DEF StopWordsLoad, BuildIndex
  <2> QED
    BY <1>1, <2>1, <2>2 DEF Typed, StopWordsLoad, page
<1>2. ASSUME NEW file \in {"data", "no data"}, SearchDataLoad(file) PROVE Typed'
  <2>1. loaded' \in Seq(Files)
    BY <1>2, CameThen DEF Typed, SearchDataLoad, Files
  <2>2. lunrIndex' \in BOOLEAN
    BY <1>2 DEF SearchDataLoad, BuildIndex
  <2>3. toPage' \in Seq(Messages)
    BY <1>2, NewsAdded DEF SearchDataLoad, Ready
  <2> QED
    BY <1>2, <2>1, <2>2, <2>3 DEF Typed, SearchDataLoad, page
<1>3. CASE WorkerOnMessage
  <2>1. /\ toWorker[1] \in Questions
        /\ toWorker' \in Seq(Questions) /\ toPage' \in Seq(Messages)
        /\ console' \in {console, console \cup {toWorker[1]}}
        /\ UNCHANGED <<loaded, lunrIndex, page>>
    BY <1>3, WorkerTakes
  <2> QED
    BY <2>1 DEF Typed, page
<1>4. ASSUME NEW hasList \in BOOLEAN, NavbarLoad(hasList) PROVE Typed'
  BY <1>4 DEF Typed, NavbarLoad, worker
<1>5. ASSUME NEW q \in Queries, KeyUp(q) PROVE Typed'
  <2>1. /\ keys' = keys + 1 /\ query' = q /\ view' \in {"contents", "results"}
        /\ toWorker' \in Seq(Questions)
    BY <1>5, KeyAsks DEF Asks
  <2> QED
    BY <1>5, <2>1 DEF Typed, KeyUp, worker
<1>6. CASE IndexReady
  <2>1. toWorker' \in Seq(Questions) /\ toPage' \in Seq(Messages)
    BY <1>6, ReadyAsks, PageTakes DEF Asks, IndexReady
  <2> QED
    BY <1>6, <2>1 DEF Typed, IndexReady, worker
<1>7. CASE HandleSearchResults
  <2>1. toPage' \in Seq(Messages)
    BY <1>7, PageTakes DEF HandleSearchResults
  <2> QED
    BY <1>7, <2>1, Shown DEF Typed, worker
<1>8. ASSUME NEW number \in 1..2, OnPageClick(number) PROVE Typed'
  BY <1>8, Turned DEF Typed, worker
<1>9. CASE UNCHANGED vars
  BY <1>9 DEF Typed, vars, worker, page
<1> QED
  BY <1>1, <1>2, <1>3, <1>4, <1>5, <1>6, <1>7, <1>8, <1>9 DEF Next

(***************************************************************************)
(* Every message and the results are from a key.                           *)
(***************************************************************************)
LEMMA QueuesTyped ==
  ASSUME Typed
  PROVE  /\ Len(toWorker) \in Nat /\ Len(toPage) \in Nat /\ keys \in Nat
         /\ \A i \in 1..Len(toWorker) : toWorker[i].key \in Nat
         /\ \A i \in 1..Len(toPage) : AnswerAt(i) => toPage[i].key \in Nat
         /\ items # None => items.key \in Nat
<1>1. \A i \in 1..Len(toWorker) : toWorker[i] \in Questions
  BY ElementOfSeq DEF Typed
<1>2. \A i \in 1..Len(toPage) : toPage[i] \in Messages
  BY ElementOfSeq DEF Typed
<1>3. Len(toWorker) \in Nat /\ Len(toPage) \in Nat
  BY LenProperties DEF Typed
<1>4. \A i \in 1..Len(toPage) : AnswerAt(i) => toPage[i].key \in Nat
  BY <1>2 DEF AnswerAt, Messages, Ready
<1> QED
  BY <1>1, <1>3, <1>4 DEF Typed, Questions, Results

(***************************************************************************)
(* The order of the keys survives every step: questions are added last,    *)
(* moved from the head of one queue to the end of the other, and shown     *)
(* from its head.                                                          *)
(***************************************************************************)
LEMMA InOrderStep ==
  ASSUME Typed, InOrder, [Next]_vars
  PROVE  InOrder'
<1>0. /\ Len(toWorker) \in Nat /\ Len(toPage) \in Nat /\ keys \in Nat
      /\ \A i \in 1..Len(toWorker) : toWorker[i].key \in Nat
      /\ \A i \in 1..Len(toPage) : AnswerAt(i) => toPage[i].key \in Nat
      /\ items # None => items.key \in Nat
  BY QueuesTyped
<1>1. CASE Elsewhere
  BY <1>1 DEF InOrder, AnswerAt, Elsewhere
<1>2. ASSUME NEW file \in {"data", "no data"}, SearchDataLoad(file) PROVE InOrder'
  <2>1. toPage' = Append(toPage, Ready) /\ UNCHANGED <<toWorker, keys, items>>
    BY <1>2 DEF SearchDataLoad, Ready, page
  <2>2. /\ Len(toPage') = Len(toPage) + 1
        /\ \A i \in 1..Len(toPage) : toPage'[i] = toPage[i]
        /\ toPage'[Len(toPage) + 1].e = "index-ready"
    <3>1. /\ Len(toPage') = Len(toPage) + 1 /\ toPage'[Len(toPage) + 1] = Ready
          /\ \A i \in 1..Len(toPage) : toPage'[i] = toPage[i]
      BY <2>1, NewsAdded
    <3>2. Ready.e = "index-ready"
      BY DEF Ready
    <3> QED
      BY <3>1, <3>2
  <2>3. ASSUME NEW i, AnswerAt(i)' PROVE AnswerAt(i) /\ toPage'[i] = toPage[i]
    <3>1. i \in 1..(Len(toPage) + 1) /\ toPage'[i].e = "query-ready"
      BY <2>2, <2>3 DEF AnswerAt
    <3>2. i # Len(toPage) + 1
      BY <2>2, <3>1
    <3>3. i \in 1..Len(toPage)
      <4>1. Len(toPage) \in Nat /\ i \in 1..(Len(toPage) + 1)
        BY <1>0, <2>2, <3>1
      <4> QED
        BY <3>2, <4>1, LowerIndex
    <3> QED
      BY <2>2, <3>1, <3>3 DEF AnswerAt
  <2>4. ASSUME NEW i \in 1..Len(toPage'), AnswerAt(i)'
        PROVE  /\ i \in 1..Len(toPage) /\ toPage'[i].key <= keys'
               /\ \A j \in 1..Len(toWorker') : toPage'[i].key <= toWorker'[j].key
               /\ items # None => items.key <= toPage'[i].key
    BY <2>1, <2>3, <2>4 DEF InOrder, AnswerAt
  <2>5. ASSUME NEW i \in 1..Len(toPage'), AnswerAt(i)',
               NEW j \in 1..Len(toPage'), AnswerAt(j)', i <= j
        PROVE  toPage'[i].key <= toPage'[j].key
    <3>1. AnswerAt(i) /\ toPage'[i] = toPage[i] /\ i \in 1..Len(toPage)
      BY <2>3, <2>4, <2>5
    <3>2. AnswerAt(j) /\ toPage'[j] = toPage[j] /\ j \in 1..Len(toPage)
      BY <2>3, <2>4, <2>5
    <3> QED
      BY <2>5, <3>1, <3>2 DEF InOrder
  <2> QED
    BY <2>1, <2>4, <2>5 DEF InOrder
<1>3. CASE WorkerOnMessage
  <2> DEFINE n == Len(toPage)
  <2>1. /\ Len(toWorker) # 0 /\ Len(toWorker') = Len(toWorker) - 1
        /\ \A i \in 1..(Len(toWorker) - 1) : toWorker'[i] = toWorker[i + 1]
        /\ \A i \in 1..n : toPage'[i] = toPage[i]
        /\ \/ Len(toPage') = n + 1 /\ toPage'[n + 1].key = toWorker[1].key
           \/ toPage' = toPage
        /\ UNCHANGED <<keys, items>>
    BY <1>3, WorkerTakes DEF page
  <2>2. ASSUME NEW i \in 1..Len(toWorker')
        PROVE  i + 1 \in 1..Len(toWorker) /\ toWorker'[i] = toWorker[i + 1]
    BY <1>0, <2>1
  <2>3. ASSUME NEW i, AnswerAt(i)'
        PROVE  \/ AnswerAt(i) /\ toPage'[i] = toPage[i]
               \/ i = n + 1 /\ toPage'[i].key = toWorker[1].key
    BY <1>0, <2>1, <2>3 DEF AnswerAt
  <2>4. 1 \in 1..Len(toWorker)
    BY <1>0, <2>1
  <2>5. \A i \in 1..Len(toWorker') : toWorker'[i].key <= keys'
    BY <2>1, <2>2 DEF InOrder
  <2>6. ASSUME NEW i \in 1..Len(toWorker'), NEW j \in 1..Len(toWorker'), i <= j
        PROVE  toWorker'[i].key <= toWorker'[j].key
    BY <1>0, <2>2, <2>6 DEF InOrder
  <2>7. ASSUME NEW i \in 1..Len(toPage'), AnswerAt(i)'
        PROVE  /\ toPage'[i].key <= keys'
               /\ \A j \in 1..Len(toWorker') : toPage'[i].key <= toWorker'[j].key
    <3>1. CASE AnswerAt(i) /\ toPage'[i] = toPage[i]
      BY <1>0, <2>1, <2>2, <3>1 DEF InOrder, AnswerAt
    <3>2. CASE i = n + 1 /\ toPage'[i].key = toWorker[1].key
      <4>1. toWorker[1].key <= keys
        BY <2>4 DEF InOrder
      <4>2. ASSUME NEW j \in 1..Len(toWorker') PROVE toWorker[1].key <= toWorker[j + 1].key
        BY <1>0, <2>2, <2>4 DEF InOrder
      <4> QED
        BY <2>1, <2>2, <3>2, <4>1, <4>2
    <3> QED
      BY <2>3, <2>7, <3>1, <3>2
  <2>8. ASSUME NEW i \in 1..Len(toPage'), AnswerAt(i)',
               NEW j \in 1..Len(toPage'), AnswerAt(j)', i <= j
        PROVE  toPage'[i].key <= toPage'[j].key
    <3>1. CASE AnswerAt(i) /\ toPage'[i] = toPage[i] /\ AnswerAt(j) /\ toPage'[j] = toPage[j]
      BY <2>8, <3>1 DEF InOrder, AnswerAt
    <3>2. CASE AnswerAt(i) /\ toPage'[i] = toPage[i] /\ j = n + 1 /\ toPage'[j].key = toWorker[1].key
      BY <2>4, <3>2 DEF InOrder, AnswerAt
    <3>3. CASE i = n + 1 /\ toPage'[i].key = toWorker[1].key /\ toPage'[j].key = toWorker[1].key
      BY <1>0, <2>4, <3>3
    <3>4. i = n + 1 => j = n + 1
      BY <1>0, <2>1, <2>8
    <3> QED
      <4>1. \/ AnswerAt(i) /\ toPage'[i] = toPage[i]
            \/ i = n + 1 /\ toPage'[i].key = toWorker[1].key
        BY <2>3, <2>8
      <4>2. \/ AnswerAt(j) /\ toPage'[j] = toPage[j]
            \/ j = n + 1 /\ toPage'[j].key = toWorker[1].key
        BY <2>3, <2>8
      <4> QED
        BY <3>1, <3>2, <3>3, <3>4, <4>1, <4>2
  <2>9. ASSUME items' # None
        PROVE  /\ items'.key <= keys'
               /\ \A j \in 1..Len(toWorker') : items'.key <= toWorker'[j].key
               /\ \A j \in 1..Len(toPage') : AnswerAt(j)' => items'.key <= toPage'[j].key
    BY <1>0, <2>1, <2>2, <2>3, <2>4, <2>9 DEF InOrder, AnswerAt
  <2> QED
    BY <2>5, <2>6, <2>7, <2>8, <2>9 DEF InOrder
<1>4. ASSUME NEW n \in Nat, Asks(n), keys' \in {keys, keys + 1}, items' = items,
             \A i : AnswerAt(i)' => i \in Nat
                      /\ \/ AnswerAt(i) /\ toPage'[i] = toPage[i] /\ toPage' = toPage
                         \/ /\ AnswerAt(i + 1) /\ toPage'[i] = toPage[i + 1]
                            /\ toPage' # toPage
      PROVE  InOrder'
  <2> DEFINE m == Len(toWorker)
  <2>1. ASSUME NEW i \in 1..Len(toWorker')
        PROVE  \/ i \in 1..m /\ toWorker'[i] = toWorker[i]
               \/ i > m /\ toWorker'[i].key = keys'
    <3>1. i \in 1..(m + n)
      BY <1>4 DEF Asks
    <3>2. CASE i \in 1..m
      BY <1>4, <3>2 DEF Asks
    <3>3. CASE i \notin 1..m
      <4>1. i \in (m + 1)..(m + n)
        BY <1>0, <3>1, <3>3
      <4> QED
        BY <1>0, <1>4, <4>1 DEF Asks
    <3> QED
      BY <3>2, <3>3
  <2>2. keys' \in Nat /\ keys <= keys'
    BY <1>0, <1>4
  <2>3. \A i \in 1..Len(toWorker') : toWorker'[i].key <= keys'
    BY <1>0, <2>1, <2>2 DEF InOrder
  <2>4. ASSUME NEW i \in 1..Len(toWorker'), NEW j \in 1..Len(toWorker'), i <= j
        PROVE  toWorker'[i].key <= toWorker'[j].key
    <3>1. CASE j > m /\ toWorker'[j].key = keys'
      BY <2>3, <3>1
    <3>2. CASE j \in 1..m /\ toWorker'[j] = toWorker[j]
      <4>1. i \in 1..m
        BY <1>0, <2>4, <3>2
      <4>2. toWorker'[i] = toWorker[i]
        BY <1>0, <2>1, <4>1
      <4> QED
        BY <2>4, <3>2, <4>1, <4>2 DEF InOrder
    <3> QED
      BY <2>1, <3>1, <3>2
  <2>5. ASSUME NEW k \in Nat, k <= keys, \A j \in 1..m : k <= toWorker[j].key
        PROVE  k <= keys' /\ \A j \in 1..Len(toWorker') : k <= toWorker'[j].key
    BY <1>0, <2>1, <2>2, <2>5
  <2>6. ASSUME NEW i \in 1..Len(toPage'), AnswerAt(i)'
        PROVE  /\ toPage'[i].key <= keys'
               /\ \A j \in 1..Len(toWorker') : toPage'[i].key <= toWorker'[j].key
    <3>1. PICK k : AnswerAt(k) /\ toPage'[i] = toPage[k]
      BY <1>4, <2>6
    <3>2. /\ toPage[k].key \in Nat /\ toPage[k].key <= keys
          /\ \A j \in 1..m : toPage[k].key <= toWorker[j].key
      BY <1>0, <3>1 DEF InOrder, AnswerAt
    <3> QED
      BY <2>5, <3>1, <3>2
  <2>7. ASSUME NEW i \in 1..Len(toPage'), AnswerAt(i)',
               NEW j \in 1..Len(toPage'), AnswerAt(j)', i <= j
        PROVE  toPage'[i].key <= toPage'[j].key
    <3>1. PICK k \in Nat, l \in Nat :
            /\ AnswerAt(k) /\ toPage'[i] = toPage[k]
            /\ AnswerAt(l) /\ toPage'[j] = toPage[l] /\ k <= l
      <4>1. CASE toPage' = toPage
        BY <1>4, <2>7, <4>1
      <4>2. CASE toPage' # toPage
        <5>1. /\ AnswerAt(i + 1) /\ toPage'[i] = toPage[i + 1] /\ i + 1 \in Nat
              /\ AnswerAt(j + 1) /\ toPage'[j] = toPage[j + 1] /\ j + 1 \in Nat
          BY <1>4, <2>7, <4>2
        <5>2. i + 1 <= j + 1
          BY <1>4, <2>7
        <5> QED
          BY <5>1, <5>2
      <4> QED
        BY <4>1, <4>2
    <3> QED
      BY <3>1 DEF InOrder, AnswerAt
  <2>8. ASSUME items' # None
        PROVE  /\ items'.key <= keys'
               /\ \A j \in 1..Len(toWorker') : items'.key <= toWorker'[j].key
               /\ \A j \in 1..Len(toPage') : AnswerAt(j)' => items'.key <= toPage'[j].key
    <3>1. /\ items.key \in Nat /\ items.key <= keys
          /\ \A j \in 1..m : items.key <= toWorker[j].key
          /\ \A j : AnswerAt(j) => items.key <= toPage[j].key
      BY <1>0, <1>4, <2>8 DEF InOrder, AnswerAt
    <3>2. \A j \in 1..Len(toPage') : AnswerAt(j)' => items.key <= toPage'[j].key
      BY <1>4, <3>1
    <3> QED
      BY <1>4, <2>5, <3>1, <3>2
  <2> QED
    BY <2>3, <2>4, <2>6, <2>7, <2>8 DEF InOrder
<1>5. ASSUME toPage # <<>>, toPage' = Tail(toPage), NEW i, AnswerAt(i)'
      PROVE  i \in Nat /\ AnswerAt(i + 1) /\ toPage'[i] = toPage[i + 1] /\ toPage' # toPage
  <2>1. /\ Len(toPage) \in Nat \ {0} /\ Len(toPage') = Len(toPage) - 1
        /\ \A k \in 1..(Len(toPage) - 1) : toPage'[k] = toPage[k + 1]
    BY <1>5, PageTakes
  <2>2. i \in 1..(Len(toPage) - 1) /\ toPage'[i].e = "query-ready"
    BY <1>5, <2>1 DEF AnswerAt
  <2>3. i \in Nat /\ i + 1 \in 1..Len(toPage) /\ Len(toPage') # Len(toPage)
    BY <2>1, <2>2
  <2> QED
    BY <2>1, <2>2, <2>3 DEF AnswerAt
<1>6. ASSUME NEW q \in Queries, KeyUp(q) PROVE InOrder'
  <2>1. keys' = keys + 1 /\ items' = items /\ toPage' = toPage
    BY <1>6 DEF KeyUp
  <2>2. PICK n \in Nat : Asks(n)
    BY <1>6, KeyAsks
  <2>3. \A i : AnswerAt(i)' => i \in Nat /\ AnswerAt(i) /\ toPage'[i] = toPage[i]
    BY <1>0, <2>1 DEF AnswerAt
  <2> QED
    BY <1>4, <2>1, <2>2, <2>3
<1>7. CASE IndexReady
  <2>1. keys' = keys /\ items' = items /\ toPage # <<>> /\ toPage' = Tail(toPage)
    BY <1>7 DEF IndexReady
  <2>2. PICK n \in Nat : Asks(n)
    BY <1>7, ReadyAsks
  <2> QED
    BY <1>4, <1>5, <2>1, <2>2
<1>8. CASE HandleSearchResults
  <2>1. /\ AnswerAt(1) /\ items'.key = toPage[1].key
        /\ toPage # <<>> /\ toPage' = Tail(toPage) /\ UNCHANGED <<toWorker, keys>>
    BY <1>8, Shown DEF HandleSearchResults
  <2>2. /\ toPage[1].key <= keys
        /\ \A j \in 1..Len(toWorker) : toPage[1].key <= toWorker[j].key
        /\ \A j \in 1..Len(toPage) : 1 <= j /\ AnswerAt(j) => toPage[1].key <= toPage[j].key
    BY <2>1 DEF InOrder, AnswerAt
  <2>3. ASSUME NEW i, AnswerAt(i)'
        PROVE  /\ i \in Nat /\ i + 1 \in 1..Len(toPage) /\ 1 <= i + 1
               /\ AnswerAt(i + 1) /\ toPage'[i] = toPage[i + 1]
    <3>1. i \in Nat /\ AnswerAt(i + 1) /\ toPage'[i] = toPage[i + 1]
      BY <1>5, <2>1, <2>3
    <3> QED
      BY <3>1 DEF AnswerAt
  <2>4. ASSUME NEW i \in 1..Len(toPage'), AnswerAt(i)',
               NEW j \in 1..Len(toPage'), AnswerAt(j)', i <= j
        PROVE  toPage'[i].key <= toPage'[j].key
    <3>1. i + 1 <= j + 1
      BY <2>3, <2>4
    <3>2. AnswerAt(i + 1) /\ i + 1 \in 1..Len(toPage) /\ toPage'[i] = toPage[i + 1]
      BY <2>3, <2>4
    <3>3. AnswerAt(j + 1) /\ j + 1 \in 1..Len(toPage) /\ toPage'[j] = toPage[j + 1]
      BY <2>3, <2>4
    <3> QED
      BY <3>1, <3>2, <3>3 DEF InOrder
  <2>5. ASSUME NEW i \in 1..Len(toPage'), AnswerAt(i)'
        PROVE  /\ toPage'[i].key <= keys'
               /\ \A j \in 1..Len(toWorker') : toPage'[i].key <= toWorker'[j].key
    BY <2>1, <2>3, <2>5 DEF InOrder
  <2>6. \A j \in 1..Len(toPage') : AnswerAt(j)' => items'.key <= toPage'[j].key
    BY <2>1, <2>2, <2>3
  <2> QED
    BY <2>1, <2>2, <2>4, <2>5, <2>6 DEF InOrder
<1>9. ASSUME NEW number \in 1..2, OnPageClick(number) PROVE InOrder'
  <2>1. items # None /\ items'.key = items.key /\ UNCHANGED <<toWorker, toPage, keys>>
    BY <1>9, Turned
  <2> QED
    BY <2>1 DEF InOrder, AnswerAt
<1> QED
  BY <1>1, <1>2, <1>3, <1>6, <1>7, <1>8, <1>9, ElsewhereSteps DEF Next

(***************************************************************************)
(* The answers to the page after a step: those that were there, one place  *)
(* nearer to the head if one was taken; or the one the worker has added.   *)
(***************************************************************************)
LEMMA AnswersThen ==
  ASSUME Typed, [Next]_vars, NEW i, AnswerAt(i)'
  PROVE  \/ AnswerAt(i) /\ toPage'[i] = toPage[i]
         \/ i \in Nat /\ AnswerAt(i + 1) /\ toPage'[i] = toPage[i + 1]
         \/ /\ WorkerOnMessage
            /\ toPage'[i].q = toWorker[1].q /\ toPage'[i].key = toWorker[1].key
<1>0. Len(toPage) \in Nat
  BY QueuesTyped
<1>1. CASE toPage' = toPage
  BY <1>1 DEF AnswerAt
<1>2. CASE toPage' = Append(toPage, Ready)
  <2>1. /\ Len(toPage') = Len(toPage) + 1 /\ toPage'[Len(toPage) + 1] = Ready
        /\ \A k \in 1..Len(toPage) : toPage'[k] = toPage[k]
    BY <1>2, NewsAdded
  <2>2. i \in 1..(Len(toPage) + 1) /\ toPage'[i].e = "query-ready"
    BY <2>1 DEF AnswerAt
  <2>3. i # Len(toPage) + 1
    BY <2>1, <2>2 DEF Ready
  <2>4. i \in 1..Len(toPage)
    BY <1>0, <2>2, <2>3, LowerIndex
  <2> QED
    BY <2>1, <2>2, <2>4 DEF AnswerAt
<1>3. CASE toPage # <<>> /\ toPage' = Tail(toPage)
  <2>1. /\ Len(toPage') = Len(toPage) - 1
        /\ \A k \in 1..(Len(toPage) - 1) : toPage'[k] = toPage[k + 1]
    BY <1>3, PageTakes
  <2>2. i \in 1..(Len(toPage) - 1) /\ toPage'[i].e = "query-ready"
    BY <2>1 DEF AnswerAt
  <2>3. i \in Nat /\ i + 1 \in 1..Len(toPage)
    BY <1>0, <2>2
  <2> QED
    BY <2>1, <2>2, <2>3 DEF AnswerAt
<1>4. CASE WorkerOnMessage
  <2>1. /\ \A k \in 1..Len(toPage) : toPage'[k] = toPage[k]
        /\ \/ /\ Len(toPage') = Len(toPage) + 1
              /\ toPage'[Len(toPage) + 1] =
                   [e |-> "query-ready", q |-> toWorker[1].q, key |-> toWorker[1].key]
           \/ toPage' = toPage
    BY <1>4, WorkerTakes
  <2>2. CASE toPage' = toPage
    BY <1>1, <2>2
  <2>3. CASE toPage' # toPage
    <3>1. i \in 1..(Len(toPage) + 1) /\ toPage'[i].e = "query-ready"
      BY <2>1, <2>3 DEF AnswerAt
    <3>2. CASE i = Len(toPage) + 1
      BY <1>4, <2>1, <2>3, <3>2
    <3>3. CASE i # Len(toPage) + 1
      <4>1. i \in 1..Len(toPage)
        BY <1>0, <3>1, <3>3, LowerIndex
      <4> QED
        BY <2>1, <3>1, <4>1 DEF AnswerAt
    <3> QED
      BY <3>2, <3>3
  <2> QED
    BY <2>2, <2>3
<1>5. \/ toPage' = toPage \/ toPage' = Append(toPage, Ready)
      \/ (toPage # <<>> /\ toPage' = Tail(toPage)) \/ WorkerOnMessage
  BY DEF Next, StopWordsLoad, SearchDataLoad, NavbarLoad, KeyUp, IndexReady,
         HandleSearchResults, OnPageClick, vars, Ready
<1> QED
  BY <1>1, <1>2, <1>3, <1>4, <1>5

(***************************************************************************)
(* The questions to the worker after a step: those that were there, one    *)
(* place nearer to the head if one was taken; or new ones, of the last key.*)
(***************************************************************************)
LEMMA QuestionsThen ==
  ASSUME Typed, [Next]_vars, NEW i \in 1..Len(toWorker')
  PROVE  \/ i \in 1..Len(toWorker) /\ toWorker'[i] = toWorker[i]
         \/ i + 1 \in 1..Len(toWorker) /\ toWorker'[i] = toWorker[i + 1]
         \/ toWorker'[i] = [q |-> query', key |-> keys']
<1>0. Len(toWorker) \in Nat
  BY QueuesTyped
<1>1. CASE toWorker' = toWorker
  BY <1>1
<1>2. CASE WorkerOnMessage
  <2>1. /\ Len(toWorker') = Len(toWorker) - 1
        /\ \A k \in 1..(Len(toWorker) - 1) : toWorker'[k] = toWorker[k + 1]
    BY <1>2, WorkerTakes
  <2>2. i \in 1..(Len(toWorker) - 1)
    BY <2>1
  <2>3. i + 1 \in 1..Len(toWorker)
    BY <1>0, <2>2
  <2> QED
    BY <2>1, <2>2, <2>3
<1>3. ASSUME NEW n \in Nat, Asks(n)
      PROVE  \/ i \in 1..Len(toWorker) /\ toWorker'[i] = toWorker[i]
             \/ toWorker'[i] = [q |-> query', key |-> keys']
  <2>1. i \in 1..(Len(toWorker) + n)
    BY <1>3 DEF Asks
  <2>2. i \in 1..Len(toWorker) \/ i \in (Len(toWorker) + 1)..(Len(toWorker) + n)
    BY <1>0, <2>1
  <2> QED
    BY <1>3, <2>2 DEF Asks
<1>4. \/ toWorker' = toWorker \/ WorkerOnMessage
      \/ IndexReady \/ \E q \in Queries : KeyUp(q)
  BY DEF Next, StopWordsLoad, SearchDataLoad, NavbarLoad,
         HandleSearchResults, OnPageClick, vars, page
<1> QED
  BY <1>1, <1>2, <1>3, <1>4, KeyAsks, ReadyAsks

(***************************************************************************)
(* A new key is later than all that is on its way; what is asked anew is   *)
(* its query; and links are always those of the query in the box.          *)
(***************************************************************************)
LEMMA OfTheQueryStep ==
  ASSUME Typed, InOrder, OfTheQuery, [Next]_vars
  PROVE  OfTheQuery'
<1>0. /\ Len(toWorker) \in Nat /\ Len(toPage) \in Nat /\ keys \in Nat
      /\ \A i \in 1..Len(toWorker) : toWorker[i].key \in Nat /\ toWorker[i].key <= keys
      /\ \A i : AnswerAt(i) => toPage[i].key \in Nat /\ toPage[i].key <= keys
      /\ items # None => items.key \in Nat /\ items.key <= keys
  BY QueuesTyped DEF InOrder, AnswerAt
<1>1. \/ keys' = keys /\ query' = query
      \/ keys' = keys + 1 /\ items' = items
  BY DEF Next, StopWordsLoad, SearchDataLoad, WorkerOnMessage, NavbarLoad, KeyUp,
         IndexReady, HandleSearchResults, OnPageClick, vars, page
<1>2. ASSUME NEW i \in 1..Len(toWorker), toWorker[i].key = keys'
      PROVE  toWorker[i].q = query'
  BY <1>0, <1>1, <1>2 DEF OfTheQuery
<1>3. ASSUME NEW i, AnswerAt(i), toPage[i].key = keys'
      PROVE  toPage[i].q = query'
  BY <1>0, <1>1, <1>3 DEF OfTheQuery, AnswerAt
<1>4. ASSUME NEW i \in 1..Len(toWorker'), toWorker'[i].key = keys'
      PROVE  toWorker'[i].q = query'
  BY <1>2, <1>4, QuestionsThen
<1>5. ASSUME NEW i \in 1..Len(toPage'), AnswerAt(i)', toPage'[i].key = keys'
      PROVE  toPage'[i].q = query'
  <2>1. WorkerOnMessage => 1 \in 1..Len(toWorker)
    BY WorkerTakes
  <2> QED
    BY <1>2, <1>3, <1>5, <2>1, AnswersThen
<1>6. ASSUME items' # None, items'.key = keys'
      PROVE  items'.q = query' /\ items'.links \in {query', None}
  <2>1. CASE HandleSearchResults
    <3>1. /\ AnswerAt(1) /\ items'.key = toPage[1].key /\ items'.q = toPage[1].q
          /\ items'.links \in {query, None} /\ query' = query
      BY <2>1, Shown
    <3> QED
      BY <1>3, <1>6, <3>1
  <2>2. CASE \E number \in 1..2 : OnPageClick(number)
    <3>1. /\ items # None /\ items'.key = items.key /\ items'.q = items.q
          /\ items'.links = query /\ query' = query /\ keys' = keys
      BY <2>2, Turned
    <3> QED
      BY <1>6, <3>1 DEF OfTheQuery
  <2>3. CASE items' = items
    BY <1>0, <1>1, <1>6, <2>3 DEF OfTheQuery
  <2>4. \/ items' = items \/ HandleSearchResults
        \/ \E number \in 1..2 : OnPageClick(number)
    BY DEF Next, StopWordsLoad, SearchDataLoad, WorkerOnMessage, NavbarLoad, KeyUp,
           IndexReady, vars, page
  <2> QED
    BY <2>1, <2>2, <2>3, <2>4
<1> QED
  BY <1>4, <1>5, <1>6 DEF OfTheQuery

(***************************************************************************)
(* A query that is searched for waits for the index, then is asked, and    *)
(* then answered or thrown on; an answer that is shown is not followed by  *)
(* one to an earlier key.                                                  *)
(***************************************************************************)
LEMMA NotLostStep ==
  ASSUME Typed, Typed', InOrder, NotLost, [Next]_vars
  PROVE  NotLost'
<1>0. /\ Len(toWorker) \in Nat /\ Len(toPage) \in Nat /\ keys \in Nat
      /\ DOMAIN toWorker = 1..Len(toWorker) /\ DOMAIN toPage = 1..Len(toPage)
      /\ DOMAIN toWorker' = 1..Len(toWorker') /\ DOMAIN toPage' = 1..Len(toPage')
  BY LenProperties DEF Typed
<1> DEFINE Asked == \E i \in 1..Len(toWorker) : toWorker[i].key = keys
           Replied == \E i \in 1..Len(toPage) : toPage[i].e = "query-ready" /\ toPage[i].key = keys
           Seen == items # None /\ items.key = keys
<1>1. /\ OnItsWay <=> ~indexReady \/ Asked \/ Replied
      /\ OnItsWay' <=> ~indexReady' \/ Asked' \/ Replied'
  BY <1>0 DEF OnItsWay
<1>2. /\ NotLost <=> (view = "results" => /\ heading = query /\ query \in Long
                                          /\ ~indexReady \/ Asked \/ Replied \/ ThrownOn(keys) \/ Seen)
      /\ NotLost' <=> (view' = "results" => /\ heading' = query' /\ query' \in Long
                                            /\ ~indexReady' \/ Asked' \/ Replied' \/ ThrownOn(keys)' \/ Seen')
  BY <1>1 DEF NotLost
<1>3. CASE Elsewhere
  BY <1>3 DEF Elsewhere, NotLost, OnItsWay, ThrownOn
<1>4. ASSUME NEW file \in {"data", "no data"}, SearchDataLoad(file) PROVE NotLost'
  <2>1. toPage' = Append(toPage, Ready)
        /\ UNCHANGED <<console, toWorker, indexReady, query, keys, view, heading, items>>
    BY <1>4 DEF SearchDataLoad, Ready, page
  <2>2. Len(toPage') = Len(toPage) + 1 /\ \A i \in 1..Len(toPage) : toPage'[i] = toPage[i]
    BY <2>1, NewsAdded
  <2>3. Replied => Replied'
    <3> SUFFICES ASSUME NEW i \in 1..Len(toPage), toPage[i].e = "query-ready", toPage[i].key = keys
                 PROVE  Replied'
      OBVIOUS
    <3>1. i \in 1..Len(toPage')
      BY <1>0, <2>2, HigherIndex
    <3> QED
      BY <2>1, <2>2, <3>1
  <2>4. /\ Asked => Asked'
        /\ ThrownOn(keys) => ThrownOn(keys)'
        /\ Seen => Seen'
    BY <2>1 DEF ThrownOn
  <2> HIDE DEF Asked, Replied, Seen
  <2> QED
    BY <1>2, <2>1, <2>3, <2>4
<1>5. CASE WorkerOnMessage
  <2>1. /\ Len(toWorker) # 0 /\ Len(toWorker') = Len(toWorker) - 1
        /\ \A i \in 1..(Len(toWorker) - 1) : toWorker'[i] = toWorker[i + 1]
        /\ \A i \in 1..Len(toPage) : toPage'[i] = toPage[i]
        /\ \/ /\ Len(toPage') = Len(toPage) + 1 /\ console' = console
              /\ toPage'[Len(toPage) + 1] =
                    [e |-> "query-ready", q |-> toWorker[1].q, key |-> toWorker[1].key]
           \/ toPage' = toPage /\ console' = console \cup {toWorker[1]}
        /\ UNCHANGED <<indexReady, query, keys, view, heading, items>>
    BY <1>5, WorkerTakes DEF page
  <2>2. Replied => Replied'
    <3> SUFFICES ASSUME NEW i \in 1..Len(toPage), toPage[i].e = "query-ready", toPage[i].key = keys
                 PROVE  Replied'
      OBVIOUS
    <3>1. i \in 1..Len(toPage')
      BY <1>0, <2>1, HigherIndex
    <3> QED
      BY <2>1, <3>1
  <2>3. Asked => Asked' \/ Replied' \/ ThrownOn(keys)'
    <3> SUFFICES ASSUME NEW i \in 1..Len(toWorker), toWorker[i].key = keys
                 PROVE  Asked' \/ Replied' \/ ThrownOn(keys)'
      OBVIOUS
    <3>1. CASE i = 1
      <4>1. CASE Len(toPage') = Len(toPage) + 1
        <5>1. Len(toPage) + 1 \in 1..Len(toPage')
          BY <1>0, <4>1
        <5>2. toPage' # toPage
          BY <1>0, <4>1
        <5>3. /\ toPage'[Len(toPage) + 1].e = "query-ready"
              /\ toPage'[Len(toPage) + 1].key = keys'
          BY <2>1, <3>1, <5>2
        <5> QED
          BY <5>1, <5>3
      <4>2. CASE Len(toPage') # Len(toPage) + 1
        BY <2>1, <3>1, <4>2 DEF ThrownOn
      <4> QED
        BY <4>1, <4>2
    <3>2. CASE i # 1
      <4>1. i - 1 \in 1..(Len(toWorker) - 1) /\ (i - 1) + 1 = i
        BY <1>0, <3>2
      <4>2. i - 1 \in 1..Len(toWorker') /\ toWorker'[i - 1].key = keys'
        BY <2>1, <4>1
      <4> QED
        BY <4>2
    <3> QED
      BY <3>1, <3>2
  <2>4. /\ ThrownOn(keys) => ThrownOn(keys)'
        /\ Seen => Seen'
    BY <2>1 DEF ThrownOn
  <2> HIDE DEF Asked, Replied, Seen
  <2> QED
    BY <1>2, <2>1, <2>2, <2>3, <2>4
<1>6. ASSUME NEW n \in Nat, Asks(n), n # 0 PROVE Asked'
  <2>1. /\ Len(toWorker) + 1 \in (Len(toWorker) + 1)..(Len(toWorker) + n)
        /\ Len(toWorker) + 1 \in 1..(Len(toWorker) + n)
    BY <1>0, <1>6
  <2> QED
    BY <1>6, <2>1 DEF Asks
<1>7. ASSUME NEW q \in Queries, KeyUp(q) PROVE NotLost'
  <2>1. /\ query' = q /\ indexReady' = indexReady
        /\ IF q \in Long THEN view' = "results" /\ heading' = q ELSE view' = "contents"
        /\ \E n \in Nat : Asks(n) /\ (n # 0 <=> q \in Long /\ indexReady)
    BY <1>7, KeyAsks
  <2>2. q \in Long /\ indexReady => Asked'
    BY <1>6, <2>1
  <2> HIDE DEF Asked, Replied, Seen
  <2> QED
    BY <1>2, <2>1, <2>2
<1>8. CASE IndexReady
  <2>1. UNCHANGED <<query, keys, view, heading>>
    BY <1>8 DEF IndexReady
  <2>2. query \in Long => Asked'
    BY <1>6, <1>8, ReadyAsks
  <2> HIDE DEF Asked, Replied, Seen
  <2> QED
    BY <1>2, <2>1, <2>2
<1>9. CASE HandleSearchResults
  <2>1. /\ AnswerAt(1) /\ toPage[1].key \in Nat
        /\ items' # None /\ items'.key = toPage[1].key
        /\ UNCHANGED <<worker, toWorker, indexReady, query, keys, view, heading>>
    BY <1>9, Shown
  <2>2. /\ Len(toPage') = Len(toPage) - 1
        /\ \A i \in 1..(Len(toPage) - 1) : toPage'[i] = toPage[i + 1]
    BY <1>9, PageTakes DEF HandleSearchResults
  <2>3. Seen => Seen'
    <3>1. items # None => items.key <= toPage[1].key /\ toPage[1].key <= keys
      BY <2>1 DEF InOrder, AnswerAt
    <3> QED
      BY <1>0, <2>1, <3>1
  <2>4. Replied => Replied' \/ Seen'
    <3> SUFFICES ASSUME NEW i \in 1..Len(toPage), toPage[i].e = "query-ready", toPage[i].key = keys
                 PROVE  Replied' \/ Seen'
      OBVIOUS
    <3>1. CASE i = 1
      BY <2>1, <3>1
    <3>2. CASE i # 1
      <4>1. i - 1 \in 1..(Len(toPage) - 1) /\ (i - 1) + 1 = i
        BY <1>0, <3>2
      <4>2. i - 1 \in 1..Len(toPage') /\ toPage'[i - 1] = toPage[i]
        BY <2>2, <4>1
      <4> QED
        BY <2>1, <4>2
    <3> QED
      BY <3>1, <3>2
  <2>5. /\ Asked => Asked'
        /\ ThrownOn(keys) => ThrownOn(keys)'
    BY <2>1 DEF ThrownOn, worker
  <2> HIDE DEF Asked, Replied, Seen
  <2> QED
    BY <1>2, <2>1, <2>3, <2>4, <2>5
<1>10. ASSUME NEW number \in 1..2, OnPageClick(number) PROVE NotLost'
  <2>1. /\ items # None /\ items' # None /\ items'.key = items.key
        /\ UNCHANGED <<worker, toWorker, toPage, indexReady, query, keys, view, heading>>
    BY <1>10, Turned
  <2> QED
    BY <2>1 DEF NotLost, OnItsWay, ThrownOn, worker
<1> QED
  BY <1>3, <1>4, <1>5, <1>7, <1>8, <1>9, <1>10, ElsewhereSteps DEF Next

(***************************************************************************)
(* What makes a query too early: it is asked when the data have come, and  *)
(* then the index is there, if the stop words were.                        *)
(***************************************************************************)
LEMMA AskedInTimeStep ==
  ASSUME Typed, AskedInTime, [Next]_vars
  PROVE  AskedInTime'
<1>1. ASSUME NEW file \in Files, loaded' = Append(loaded, file), BuildIndex(loaded')
      PROVE  /\ lunrIndex' = (Came("stop words")' /\ Came("data")')
             /\ \A f : Came(f)' <=> Came(f) \/ f = file
             /\ Head(loaded') = IF loaded = <<>> THEN file ELSE Head(loaded)
  BY <1>1, CameThen DEF BuildIndex, Came, Typed
<1>2. CASE StopWordsLoad
  <2>1. /\ \A f : Came(f)' <=> Came(f) \/ f = "stop words"
        /\ lunrIndex' = (Came("stop words")' /\ Came("data")')
        /\ Head(loaded') = IF loaded = <<>> THEN "stop words" ELSE Head(loaded)
    BY <1>1, <1>2 DEF StopWordsLoad, Files
  <2>2. UNCHANGED <<console, toWorker, toPage, indexReady>> /\ ~Came("stop words")
    BY <1>2 DEF StopWordsLoad, page
  <2>3. loaded = <<>> => ~Came("data")
    <3>1. Len(<<>>) = 0
      OBVIOUS
    <3> QED
      BY <3>1 DEF Came, Contains
  <2>4. NoneTooEarly'
    BY <2>1, <2>2, <2>3 DEF AskedInTime, NoneTooEarly
  <2>5. ~Came("data")' /\ ~Came("no data")' =>
          toWorker' = <<>> /\ toPage' = <<>> /\ ~indexReady' /\ console' = {}
    BY <2>1, <2>2 DEF AskedInTime
  <2> QED
    BY <2>1, <2>4, <2>5 DEF AskedInTime
<1>3. ASSUME NEW file \in {"data", "no data"}, SearchDataLoad(file) PROVE AskedInTime'
  <2>1. /\ \A f : Came(f)' <=> Came(f) \/ f = file
        /\ lunrIndex' = (Came("stop words")' /\ Came("data")')
    BY <1>1, <1>3 DEF SearchDataLoad, Files
  <2>2. ~Came("data") /\ ~Came("no data") /\ console' = console
    BY <1>3 DEF SearchDataLoad
  <2>3. console' = {}
    BY <2>2 DEF AskedInTime
  <2>4. NoneTooEarly'
    BY <2>3 DEF NoneTooEarly
  <2>5. Came("data")' \/ Came("no data")'
    BY <2>1
  <2> QED
    BY <2>1, <2>4, <2>5 DEF AskedInTime
<1>4. CASE WorkerOnMessage
  <2>1. /\ toWorker # <<>> /\ UNCHANGED <<loaded, lunrIndex>>
        /\ \/ console' = console
           \/ /\ ~(lunrIndex /\ toWorker[1].q \notin Unparsable)
              /\ console' = console \cup {toWorker[1]}
    BY <1>4, WorkerTakes DEF WorkerOnMessage
  <2>2. \A f : Came(f)' <=> Came(f)
    BY <2>1 DEF Came
  <2>3. NoneTooEarly'
    <3> SUFFICES ASSUME loaded # <<>>, Head(loaded) = "stop words", Came("data"),
                        NEW asked \in console'
                 PROVE  asked.q \in Unparsable
      BY <2>1, <2>2 DEF NoneTooEarly
    <3>1. Came("stop words")
      <4>1. Head(loaded) = loaded[1] /\ 1 \in 1..Len(loaded)
        BY Taken DEF Typed
      <4> QED
        BY <4>1 DEF Came, Contains
    <3>2. lunrIndex
      BY <3>1 DEF AskedInTime
    <3>3. CASE asked \in console
      BY <3>3 DEF AskedInTime, NoneTooEarly
    <3>4. CASE asked = toWorker[1] /\ toWorker[1].q \in Unparsable
      BY <3>4
    <3> QED
      BY <2>1, <3>2, <3>3, <3>4
  <2> QED
    BY <2>1, <2>2, <2>3 DEF AskedInTime
<1>5. ASSUME UNCHANGED worker,
             ~Came("data") /\ ~Came("no data") =>
               toWorker' = <<>> /\ toPage' = <<>> /\ ~indexReady'
      PROVE  AskedInTime'
  <2>1. \A f : Came(f)' <=> Came(f)
    BY <1>5 DEF Came, worker
  <2>2. NoneTooEarly'
    BY <1>5, <2>1 DEF AskedInTime, NoneTooEarly, worker
  <2> QED
    BY <1>5, <2>1, <2>2 DEF AskedInTime, worker
<1>6. ASSUME NEW q \in Queries, KeyUp(q) PROVE AskedInTime'
  <2>1. UNCHANGED worker /\ toPage' = toPage /\ indexReady' = indexReady
        /\ (~indexReady => toWorker' = toWorker)
    BY <1>6 DEF KeyUp
  <2> QED
    BY <1>5, <2>1 DEF AskedInTime
<1>7. CASE IndexReady \/ HandleSearchResults
  <2>1. UNCHANGED worker /\ toPage # <<>>
    BY <1>7 DEF IndexReady, HandleSearchResults
  <2> QED
    BY <1>5, <2>1 DEF AskedInTime
<1>8. CASE \/ \E hasList \in BOOLEAN : NavbarLoad(hasList)
           \/ \E number \in 1..2 : OnPageClick(number)
           \/ UNCHANGED vars
  <2>1. UNCHANGED worker /\ UNCHANGED <<toWorker, toPage, indexReady>>
    BY <1>8 DEF NavbarLoad, OnPageClick, vars, page
  <2> QED
    BY <1>5, <2>1 DEF AskedInTime
<1> QED
  BY <1>2, <1>3, <1>4, <1>6, <1>7, <1>8 DEF Next

-----------------------------------------------------------------------------
(***************************************************************************)
(* The invariant holds when the page opens.                                *)
(***************************************************************************)
LEMMA InitIInv == Init => IInv
<1> SUFFICES ASSUME Init PROVE IInv
  OBVIOUS
<1>1. /\ Len(toWorker) = 0 /\ Len(toPage) = 0 /\ Len(loaded) = 0
      /\ toWorker = <<>> /\ toPage = <<>> /\ loaded = <<>>
      /\ lunrIndex = FALSE /\ console = {} /\ indexReady = FALSE /\ query = None
      /\ keys = 0 /\ view = "contents" /\ items = None /\ handlers \in {0, 1}
  BY DEF Init
<1>2. Typed
  <2>1. loaded \in Seq(Files) /\ toWorker \in Seq(Questions) /\ toPage \in Seq(Messages)
    BY <1>1, EmptySeq
  <2>2. lunrIndex \in BOOLEAN /\ indexReady \in BOOLEAN /\ console \subseteq Questions
    BY <1>1
  <2>3. handlers \in Nat /\ keys \in Nat
    BY <1>1
  <2>4. /\ query \in Queries \cup {None} /\ items \in Results \cup {None}
        /\ view \in {"contents", "results"}
    BY <1>1
  <2> QED
    BY <2>1, <2>2, <2>3, <2>4 DEF Typed
<1>3. InOrder /\ OfTheQuery /\ NotLost
  BY <1>1 DEF InOrder, OfTheQuery, NotLost, AnswerAt
<1>4. AskedInTime
  <2>1. \A f : ~Came(f)
    BY <1>1 DEF Came, Contains
  <2> QED
    BY <1>1, <2>1 DEF AskedInTime, NoneTooEarly
<1> QED
  BY <1>2, <1>3, <1>4 DEF IInv

(***************************************************************************)
(* The invariant holds in every behaviour of page and worker.              *)
(***************************************************************************)
LEMMA Invariance == Spec => []IInv
<1>1. IInv /\ [Next]_vars => IInv'
  <2> SUFFICES ASSUME IInv, [Next]_vars PROVE IInv'
    OBVIOUS
  <2>1. Typed' /\ InOrder' /\ OfTheQuery' /\ AskedInTime'
    BY TypedStep, InOrderStep, OfTheQueryStep, AskedInTimeStep DEF IInv
  <2>2. NotLost'
    BY <2>1, NotLostStep DEF IInv
  <2> QED
    BY <2>1, <2>2 DEF IInv
<1> QED
  BY InitIInv, <1>1, PTL DEF Spec

(***************************************************************************)
(* For any queries, keys and handlers, and any delay of files and          *)
(* messages: what is on view is about the query in the box, unless its     *)
(* answer is on its way or the worker has thrown on it.                    *)
(***************************************************************************)
THEOREM LastQueryShown == Spec => []ResultsMatchQuery
<1>1. IInv => ResultsMatchQuery
  BY DEF IInv, NotLost, OfTheQuery, ResultsMatchQuery, Answered
<1> QED
  BY <1>1, Invariance, PTL

(***************************************************************************)
(* With the stop words first, the worker throws on unparsable queries      *)
(* only, however early the user starts to type.                            *)
(***************************************************************************)
THEOREM NoQueryTooEarly == Spec => []NoneTooEarly
<1>1. IInv => NoneTooEarly
  BY DEF IInv, AskedInTime
<1> QED
  BY <1>1, Invariance, PTL

(***************************************************************************)
(* No answer, however late, and no turning of a page replaces results by   *)
(* those of an earlier key.                                                *)
(***************************************************************************)
THEOREM ResultsNeverOlder == Spec => NeverGoesBack
<1>1. IInv /\ [Next]_vars => [items # None => items'.key >= items.key]_items
  <2> SUFFICES ASSUME IInv, [Next]_vars, items # None, items' # items
               PROVE  items'.key >= items.key
    OBVIOUS
  <2>1. Typed /\ InOrder /\ items.key \in Nat
    BY QueuesTyped DEF IInv
  <2>2. CASE HandleSearchResults
    <3>1. /\ AnswerAt(1) /\ toPage[1].key \in Nat /\ items'.key = toPage[1].key
      BY <2>1, <2>2, Shown
    <3>2. items.key <= toPage[1].key
      BY <2>1, <3>1 DEF InOrder, AnswerAt
    <3> QED
      BY <2>1, <3>1, <3>2
  <2>3. CASE \E number \in 1..2 : OnPageClick(number)
    BY <2>1, <2>3, Turned
  <2>4. HandleSearchResults \/ \E number \in 1..2 : OnPageClick(number)
    BY DEF Next, StopWordsLoad, SearchDataLoad, WorkerOnMessage, NavbarLoad, KeyUp,
           IndexReady, vars, page
  <2> QED
    BY <2>2, <2>3, <2>4
<1> QED
  BY <1>1, Invariance, PTL DEF Spec, NeverGoesBack
=============================================================================
