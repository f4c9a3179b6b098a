------------------------------ MODULE DocSearch ------------------------------
(***************************************************************************)
(* Search on a page of the documentation: enableSearch and renderNavbar of *)
(* docs/styles/docfx.js in the page, docs/styles/search-worker.js in a     *)
(* worker, two queues of messages between them, and three files that are   *)
(* requested: the navigation bar by the page, the stop words and the data  *)
(* of the index by the worker. What an index answers to a query is that of *)
(* LunrIndex; here a query is malformed or has so many pages of results.   *)
(***************************************************************************)
EXTENDS Integers, SequencesExt

CONSTANTS
  Queries,      \* texts that are typed
  Long,         \* those of three characters or more
  Unparsable,   \* those that the parser of lunr throws on
  Pages,        \* how many pages of results a query has
  MaxKeys,      \* bound: keys that are released
  MaxHandlers,  \* bound: handlers of the same key
  None

ASSUME SearchAssumption ==
  /\ Long \subseteq Queries /\ Unparsable \subseteq Queries
  /\ Pages \in [Queries -> Nat]
  /\ MaxKeys \in Nat /\ MaxHandlers \in Nat \ {0}

\* What the page can show: whose results, which page, and the query of the links.
Results == [q : Queries, key : Nat, page : Nat, links : Queries \cup {None}]
ASSUME NoneAssumption == None \notin Results

VARIABLES
  loaded,      \* worker: the files that have come, in order
  lunrIndex,   \* worker: whether there is an index
  toWorker,    \* questions: a query, and the number of the key it is from
  toPage,      \* answers, and the news that the index is ready
  console,     \* the questions that the worker threw on
  navbar,      \* page: "requested" or "there"
  handlers,    \* page: how many handlers the release of a key has
  indexReady,  \* page: the deferred object is resolved, queryReady is bound
  query,       \* page: the text of the search box at the last key
  keys,        \* how many keys were released
  view,        \* page: "contents" or "results"
  heading,     \* page: the query that the heading names
  items        \* page: the results on it, whose they are, and the query in their links

worker == <<loaded, lunrIndex, console>>
page == <<navbar, handlers, indexReady, query, keys, view, heading, items>>
vars == <<worker, page, toWorker, toPage>>

Init ==
  /\ loaded = <<>> /\ lunrIndex = FALSE /\ console = {}
  /\ toWorker = <<>> /\ toPage = <<>>
  /\ \/ navbar = "requested" /\ handlers = 0
     \/ navbar = "there" /\ handlers = 1
  /\ indexReady = FALSE /\ query = None /\ keys = 0
  /\ view = "contents" /\ heading = None /\ items = None

----------------------------------------------------------------------------
(***************************************************************************)
(* The worker. A request that fails is never heard of again, and index.json*)
(* may hold no document. The page is told that the index is ready when its *)
(* data are in, whether it could be built or not.                          *)
(***************************************************************************)
Came(file) == Contains(loaded, file)

\* mutant: the data do not build the index, only stop words that come after them
BuildIndex_OnStopWords(files) == lunrIndex' = (Contains(files, "data") /\ Last(files) = "stop words")

BuildIndex(files) == lunrIndex' = (Contains(files, "stop words") /\ Contains(files, "data"))

StopWordsLoad ==
  /\ ~Came("stop words")
  /\ loaded' = Append(loaded, "stop words")
  /\ BuildIndex(loaded')
  /\ UNCHANGED <<console, toWorker, toPage, page>>

SearchDataLoad(file) ==
  /\ ~Came("data") /\ ~Came("no data")
  /\ loaded' = Append(loaded, file)
  /\ BuildIndex(loaded')
  /\ toPage' = Append(toPage, [e |-> "index-ready"])
  /\ UNCHANGED <<console, toWorker, page>>

\* mutant: every question is searched for in a task of its own, a promise or a
\* timer that the worker starts, and the tasks end in any order
WorkerOnMessage_InTasks ==
  \E i \in DOMAIN toWorker :
    /\ toWorker' = RemoveAt(toWorker, i)
    /\ IF lunrIndex /\ toWorker[i].q \notin Unparsable
       THEN /\ toPage' = Append(toPage, [e |-> "query-ready", q |-> toWorker[i].q,
                                         key |-> toWorker[i].key])
            /\ UNCHANGED console
       ELSE /\ console' = console \cup {toWorker[i]}
            /\ UNCHANGED toPage
    /\ UNCHANGED <<loaded, lunrIndex, page>>

\* without an index, or with a query that it cannot parse, nothing is posted
WorkerOnMessage ==
  /\ toWorker # <<>>
  /\ toWorker' = Tail(toWorker)
  /\ LET asked == Head(toWorker)
     IN  IF lunrIndex /\ asked.q \notin Unparsable
         THEN /\ toPage' = Append(toPage, [e |-> "query-ready", q |-> asked.q, key |-> asked.key])
              /\ UNCHANGED console
         ELSE /\ console' = console \cup {asked}
              /\ UNCHANGED toPage
  /\ UNCHANGED <<loaded, lunrIndex, page>>

----------------------------------------------------------------------------
(***************************************************************************)
(* The page.                                                               *)
(***************************************************************************)

\* The bar is shown when it has come, which binds the handler of keys; then it
\* is rendered again: that binds one more, or requests it again if it is empty.
NavbarLoad(hasList) ==
  /\ navbar = "requested" /\ handlers < MaxHandlers
  /\ handlers' = handlers + (IF hasList THEN 2 ELSE 1)
  /\ navbar' = IF hasList THEN "there" ELSE "requested"
  /\ UNCHANGED <<worker, toWorker, toPage, indexReady, query, keys, view, heading, items>>

\* mutant: nothing is asked while a question waits
KeyUp_Throttled(q) ==
  /\ handlers > 0 /\ keys < MaxKeys
  /\ query' = q /\ keys' = keys + 1
  /\ IF q \notin Long
     THEN view' = "contents" /\ UNCHANGED <<heading, toWorker>>
     ELSE /\ view' = "results" /\ heading' = q
          /\ toWorker' = IF indexReady /\ toWorker = <<>>
                         THEN toWorker \o [h \in 1..handlers |-> [q |-> q, key |-> keys']]
                         ELSE toWorker
  /\ UNCHANGED <<worker, toPage, navbar, handlers, indexReady, items>>

\* every handler asks anew
KeyUp(q) ==
  /\ handlers > 0 /\ keys < MaxKeys
  /\ query' = q /\ keys' = keys + 1
  /\ IF q \notin Long
     THEN view' = "contents" /\ UNCHANGED <<heading, toWorker>>
     ELSE /\ view' = "results" /\ heading' = q
          /\ toWorker' = IF indexReady
                         THEN toWorker \o [h \in 1..handlers |-> [q |-> q, key |-> keys']]
                         ELSE toWorker
  /\ UNCHANGED <<worker, toPage, navbar, handlers, indexReady, items>>

\* mutant: only keys ask
IndexReady_OnlyBinds ==
  /\ toPage # <<>> /\ Head(toPage).e = "index-ready"
  /\ toPage' = Tail(toPage)
  /\ indexReady' = TRUE
  /\ UNCHANGED <<worker, toWorker, navbar, handlers, query, keys, view, heading, items>>

\* a query that was typed too early is asked now
IndexReady ==
  /\ toPage # <<>> /\ Head(toPage).e = "index-ready"
  /\ toPage' = Tail(toPage)
  /\ indexReady' = TRUE
  /\ toWorker' = IF query \in Long THEN Append(toWorker, [q |-> query, key |-> keys]) ELSE toWorker
  /\ UNCHANGED <<worker, navbar, handlers, query, keys, view, heading, items>>

\* links, briefs and marks are those of the query now in the box
ShowPage(number, answer) ==
  [q |-> answer.q, key |-> answer.key, page |-> number, links |-> query]

HandleSearchResults ==
  /\ toPage # <<>> /\ Head(toPage).e = "query-ready"
  /\ toPage' = Tail(toPage)
  /\ items' = IF Pages[Head(toPage).q] = 0
              THEN [q |-> Head(toPage).q, key |-> Head(toPage).key, page |-> 0, links |-> None]
              ELSE ShowPage(1, Head(toPage))
  /\ UNCHANGED <<worker, toWorker, navbar, handlers, indexReady, query, keys, view, heading>>

OnPageClick(number) ==
  /\ view = "results" /\ items # None
  /\ number \in 1..Pages[items.q]
  /\ items' = ShowPage(number, items)
  /\ UNCHANGED <<worker, toWorker, toPage, navbar, handlers, indexReady, query, keys, view, heading>>

Next ==
  \/ StopWordsLoad
  \/ \E file \in {"data", "no data"} : SearchDataLoad(file)
  \/ WorkerOnMessage
  \/ \E hasList \in BOOLEAN : NavbarLoad(hasList)
  \/ \E q \in Queries : KeyUp(q)
  \/ IndexReady
  \/ HandleSearchResults
  \/ \E number \in 1..2 : OnPageClick(number)

\* The two event loops serve their messages; files and keys may never come.
Spec ==
  /\ Init /\ [][Next]_vars
  /\ WF_vars(WorkerOnMessage) /\ WF_vars(IndexReady \/ HandleSearchResults)

----------------------------------------------------------------------------
ThrownOn(n) == \E asked \in console : asked.key = n

(***************************************************************************)
(* The last key's query is on its way: the page waits for the index with   *)
(* it, or it is in one of the queues.                                      *)
(***************************************************************************)
OnItsWay ==
  \/ ~indexReady
  \/ \E i \in DOMAIN toWorker : toWorker[i].key = keys
  \/ \E i \in DOMAIN toPage : toPage[i].e = "query-ready" /\ toPage[i].key = keys

Answered ==
  /\ items # None /\ items.key = keys /\ items.q = query
  /\ heading = query /\ items.links \in {query, None}

(***************************************************************************)
(* Whenever results are on view and the query of the search box is neither *)
(* on its way nor one that the worker threw on, then the heading, the      *)
(* results and their links are all of this query, although the answer does *)
(* not say which query it was for and a page may be turned at any time.    *)
(***************************************************************************)
ResultsMatchQuery == view = "results" /\ ~OnItsWay /\ ~ThrownOn(keys) => Answered

(***************************************************************************)
(* If the stop words come before the data, then no query is asked too      *)
(* early: the worker throws on unparsable ones only. (In the other order,  *)
(* a query may be lost: the page is told that the index is ready, and it   *)
(* is not.)                                                                *)
(***************************************************************************)
NoneTooEarly ==
  loaded # <<>> /\ Head(loaded) = "stop words" /\ Came("data") =>
    \A asked \in console : asked.q \in Unparsable

(***************************************************************************)
(* Results never give way to those of an earlier key, however many answers *)
(* are on their way.                                                       *)
(***************************************************************************)
NeverGoesBack == [][items # None => items'.key >= items.key]_items

(***************************************************************************)
(* Once the data have come, the query of the last key is answered, or the  *)
(* worker throws on it, or another key is released: also a query that was  *)
(* typed before the index was ready.                                       *)
(***************************************************************************)
Settles ==
  \A n \in 1..MaxKeys :
    (keys = n /\ query \in Long /\ (Came("data") \/ Came("no data")))
      ~> (keys > n \/ ThrownOn(n) \/ Answered)
=============================================================================
