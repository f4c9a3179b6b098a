# Transient fault handling: the models

TLA+ models of `MilestoneTG.TransientFaultHandling` (the C# projects under
`src/src/`): the retry loops, the strategies that pace them, and the wrappers
that repeat HTTP requests, database commands and transactions through them; and of
the one program with a protocol of its own that the repository ships beside them,
the search of its documentation site (`src/docs/styles/`: the page, a worker, and
the search library lunr, which are third-party JavaScript of the site's theme).
Every module is translated from the code; `PROJECT.json` names the lines each
definition stands for. File names below are relative to `src/src/`, with the
common prefix `MilestoneTG.TransientFaultHandling` left out; `docfx.js`,
`search-worker.js` and `lunr.js` are those of `src/docs/styles/`. (The worker loads
`lunr.min.js`, the minified form of the same version, 2.1.2.)

## The system

| Component | State it keeps | Operations | Talks to |
|---|---|---|---|
| `RetryPolicy` (`RetryPolicy.cs`), synchronous loop | locals of a call: `retryCount`, `delay`, last error; shared by the calls: the strategy with its settable `FastFirstRetry`, and the subscribers of `Retrying` | `ExecuteAction`, event `Retrying` | calls the strategy's ShouldRetry handler, the detection strategy, and every subscriber before each retry |
| `AsyncExecution` (`AsyncExecution.cs`) | per call: `_retryCount`, `_previousTask`, `_fastFirstRetry`, the token | `ExecuteAsync`: a chain of continuations of the user's task and of the delay | same, from whatever thread runs the continuation; the token is cancelled by anybody at any time |
| Retry strategies (`FixedInterval…`, `Incremental…`, `ExponentialBackoffRetryStrategy.cs`) | immutable after their constructor; the handler is a closure | constructor guards, `GetShouldRetryHandler` | asked once per failure |
| `RetryDelegatingHandler` (`.Http`) | one event `internalRetrying` for all requests; per request a captured `responseMessage` | `SendAsync` | the policy's `Retrying` event fires the closures |
| `ReliableDbConnection` (`.Data`) | the underlying connection | `Open(Async)`, `ExecuteCommand(Async)`, `Close`, `Dispose` | nests the command, the failover, the connection and again the failover policy |
| `DbCommandExtensions` (`.Data`) | none of its own; the state of the command's connection | `Execute…WithRetry`, `EnsureValidConnection` | nests the connection policy in the command policy |
| `TransactionRetryScope` (`.Data`) | its current `TransactionScope` | constructor, `InvokeUnitOfWork`, `Complete`, `Dispose` | subscribes to the policy's `Retrying`, and never unsubscribes |
| `RetryManager` | a static default manager; per manager the default name and the strategy it stands for, written apart | `SetDefault`, `DefaultRetryStrategyName`, lookups by technology | any thread sets and asks, without a lock |
| `RetryPolicyOptions` | settings | read by a constructor of `RetryPolicy` | choose the strategy of a policy |
| Error detection strategies, `ThrottlingCondition` | none | `IsTransient`, decoding of codes | asked by the loops |
| NHibernate drivers | none of their own | adapters over `ReliableSqlConnection` | |
| Search page (`docfx.js`, `enableSearch` and `renderNavbar`) | the query of the search box, whether the index is ready, the results on view | handler of keys, of the worker's messages, of a page click | posts questions to the worker, requests the navigation bar, which binds its handlers |
| Search worker (`search-worker.js`) | the stop words, the data, the index | arrival of either file, `onmessage` | posts `index-ready` and `query-ready` to the page; builds and asks a lunr index |
| Search index (`lunr.js`) | builder: terms, frequencies and lengths by document; index: terms, vectors and a minimal automaton of the terms | `add`, `build`, `search`, `toJSON`, `load` | runs the pipelines the worker configures; lexes and parses queries |

What makes the code hard: the loops are short, but everything around them runs
in callbacks. A subscriber of `Retrying` runs between two attempts and may throw;
continuations run on other threads while a token is cancelled; one event or one
policy is shared by users who do not know of each other; budgets of nested loops
multiply; and a resource opened by one attempt must be given back by another. In
the documentation's search, keys, two files, questions and answers interleave
although no answer says which question it is for, and the index rests on dense
algorithms (an incremental minimal automaton, its intersection with a wildcard or
fuzzy pattern, a binary search) that are right only together.

What correctness means, by component:

* both loops: at most `RetryCount + 1` attempts, never giving up a transient
  failure earlier, one notice per retry, only the first retry immediate, and an
  end; for the asynchronous loop also that cancellation stops it and that the
  caller gets the last outcome;
* strategies: exactly the budget, intervals in their bounds and never shrinking;
* the handler: retried responses disposed, the returned one not, no closure left;
* connections and commands: no leak, the caller's connection kept, readers
  readable, bounded work, a fresh connection for a retry;
* scopes: failed work never commits, successful work does, nothing stays ambient, except
  where two threads have raced for one scope;
* the manager: nobody's manager is displaced, and no name parted from its strategy,
  except where two setters raced; a lookup that worked keeps working;
* the search page and its worker: the results on view are in the end those of the
  last query, never older than what was there, and no query is lost that was typed
  after both files had come;
* the index: its automaton holds exactly the terms of the documents, a query means
  what was written, and finds and scores exactly what its clauses stand for, also
  after it was written as JSON and loaded again.

## The modules

| Module | Models | State and actions |
|---|---|---|
| `RetryExecution` | what a policy promises to its caller, loop left out | `status`, `attempts`, `notices`, `ending`; `Begin`, `Finish`, `Retry`, `Withdraw` |
| `RetryLoop` | what both loops share: the strategy (`RetryCount`, `Delays`), and the two promises that mention neither loop | `attempts`, `slept`; the properties `AttemptBudget` and `NoHammering` |
| `RetryPolicy` | `ExecuteAction`, `RetryPolicy.cs:165-230` | one action per step of the loop: `FuncThrowsTransient` is the catch with the increment, the handler's answer and the check of the delay; `OnRetrying` and `SubscriberThrows` are the notice outside the `try`; `Pause`, `RetryAtOnce`, `DelayElapses` the wait. Refines `RetryExecution` |
| `AsyncExecution` | `AsyncExecution.cs:49-241` | `ProceedUnlessCancelled` / `StopBeforeAttempt` are the check of the token, `InvokeTaskFunc` and the `FuncReturns…` and `Invocation…` actions the `try`, `TaskEnds` the user's task, `ReturnUnfaulted`, `Consult`, `ReturnFailure`, `OnRetrying` the continuation, `Cancel` the owner of the token. Refines `RetryExecution` |
| `RetryStrategies` | the three strategies, `Guard.cs`, and the choice between them (`RetryPolicy.cs:30-127`) | `StrategyFor` is the switch over `RetryPolicyOptions`, `Construct` runs the guards, `NoHandler` is the null strategy of an unknown name, `ShouldRetry` answers one retry, with the jitter of `Random.Next`; time is in ticks, `Millisecond` of them to a millisecond, and `ToInt` is the cast of a `TotalMilliseconds` to `int`, which cuts off the fraction and overflows; `HandlerThrows` where the casts mangle the bounds of `Random.Next` |
| `RetryDelegatingHandler` | `SendAsync` | request by request: receive, inspect, register the closure, throw, and the policy's notice, which fires the closures one after the other (`RaiseRetrying`); a closure is three steps, since others share it: the check of the local (`FireClosure`), its disposal (`DisposeResponse`, which may find it null by then and throw) and the assignment of null (`ForgetResponse`); `Finally`, `ListDelegates`, `RemoveDelegates` are the three readings of the event in the `finally` |
| `ReliableDbConnection` | the connection wrapper | `Fail` unwinds to the innermost of the nested loops that deems the failure transient; `Dial`, `Reopen`, `Execute…`, `ConversionFails`, `Return`, `Throw` are the body of `ExecuteCommand`. Refines `ConnectionLease` |
| `DbCommandExtensions` | the extension methods | the same question for an implementation whose `hasOpenConnection` is a local of the attempt. Refines `ConnectionLease` |
| `ConnectionLease` | what a retrying command promises to the owner of its connection, loops left out | `open`, `owned`, `borrowed`, `reader`, `handed`; a call may `Take`, `GiveUp` and `Lose` while it works, and must `End` or `HandOver` |
| `TransactionRetryScope` | the scope | the `Retrying` handler, run for every scope subscribed to the policy, is two steps, between which other threads run: `Recycle` disposes what the field holds, `Renew` builds another `TransactionScope` and assigns it, over whatever another thread has put there meanwhile (`Orphaned`). `WorkQuits` is a unit of work that ends the loop with an empty `RetryLimitExceededException`; the stack of `TransactionScope`s of each thread (nested, refused out of order or on a foreign thread, doomed by an inner rollback) stands for System.Transactions and is external |
| `RetryManager` | `RetryManager.cs` and the `RetryManager…Extensions` of the providers | one action per access to a shared field: `SetDefault`, `CompareManagers`, `AssignDefault` are the two reads and the write of `SetDefault`; `SetName`, `SetStrategy`, `ClearName` the setter of the name; `LookUpConnection`, `FallBack` the two lookups of the connection strategy. `Unknown` names are refused before anything is written, and therefore change nothing |
| `ExecutionProofs` | theorems about `AsyncExecution`, which it extends, and `RetryPolicy`, its instance `Sync` | |
| `RetryStrategiesProofs`, `RetryDelegatingHandlerProofs`, `DbCommandExtensionsProofs`, `ReliableDbConnectionProofs`, `TransactionRetryScopeProofs`, `RetryManagerProofs`, `DocSearchProofs` | theorems about the module they extend | |
| `LunrTokenSet` | the token sets of `lunr.js:1160-1650`: automata as sequences of nodes | operators: `FromString`, `FromFuzzyString`, `Intersect`, `ToArray` and the incremental `Insert` and `Finish` of the builder, with its register of minimized nodes |
| `LunrQuery` | the lexer and the parser of queries, `lunr.js:2466-2924` | each state function of the code maps the machine to the machine and names the next one |
| `LunrIndex` | tokenizer, pipelines, vectors, builder and index of `lunr.js`, as `search-worker.js` configures them | `Add`, `Build`, `Search`, `ToJSON`, `Load`. A document or a query goes through the pipeline functions in their order |
| `DocSearch` | the page and the worker | one action per callback: `StopWordsLoad`, `SearchDataLoad` and `WorkerOnMessage` in the worker; `NavbarLoad`, `KeyUp`, `IndexReady`, `HandleSearchResults`, `OnPageClick` in the page; two queues of messages between them. What an index answers is `LunrIndex`'s subject: here a query is unparsable or has a number of pages |
| `MCRetryPolicy`, `MCAsyncExecution`, `MCRetryStrategies`, `MCTransactionRetryScope`, `MCLunrIndex`, `MCDocSearch` | the values of function-valued constants for TLC; in `MCTransactionRetryScope` one of the arrangements of scopes that differ in names only; in `MCLunrIndex` also the documents, and the queries together with the clauses they are written from | |

The definitions named `X_Something` are plausible mistakes in the definition `X`.
Put in its place, each makes TLC report the property that `PROJECT.json` pairs it
with, under the run's own configuration.

The `Lunr…` modules write recursion as `RECURSIVE` operators, since only TLC evaluates
them; the modules that are proved about have none.

Conventions. What a database, a server or a unit of work does is a choice between
success, failures the policy retries and failures it does not; no error code
appears. An attempt is named by its number, and so are the response, the task or
the error it produced. Variables marked *history* (`overlapping`, `within`, the
call counters, `slept`, `effects`, `quits`, `raced`, `outdated`, `overlapped`, `torn`, `served`)
record the past for the properties and guard nothing.

## The runs

| Run | Instance | What it shows |
|---|---|---|
| `retry_policy` | 2 calls on one policy, 3 retries, first answer of the strategy -1 or 1 | that the loop implements `RetryExecution`: its budget, no early surrender, one notice per retry, the end of every call; and pauses before all retries but the first, while `FastFirstRetry` is toggled at any moment |
| `async` | 1 call, 3 retries, cancelled anywhere | the same, and that cancellation stops attempts and notices and that the last outcome is the one delivered |
| `strategies` | 1724 settings around every guard, whole milliseconds and halves, enabled and disabled, `int` of 8 bits | budget as the options prescribe, exponential intervals within bounds up to the fraction of a millisecond the cast cuts off, no interval shorter than the one before |
| `handler` | 2 requests, in turn or at once, 2 retries | no closure survives its request; alone on the handler, a request has its retried responses disposed and gets the last one open |
| `connection` | 2 calls of any kind, one retry per policy | that the wrapper implements `ConnectionLease` (no leak, caller's connection kept, readers readable), work bounded by the product of the budgets, termination |
| `command` | 3 calls, 2 retries of each policy | that the extension methods implement the same lease within their own product of budgets, and that no retry runs on the connection its predecessor failed on |
| `scope` | 3 scopes on 2 threads and 2 policies, in any arrangement up to renaming, 1 retry | failed work never commits, also where two threads race for one field; without such a race successful work does, no transaction is stray, a scope with its own policy has all its retries; every use of a scope ends |
| `manager` | 2 threads, 2 managers, 2 strategies of one manager | a manager is displaced and a name parted from its strategy only in a race; lookups keep working, also after the name was cleared |
| `lunr` | 3 documents of two fields, one to three of them added in any order; every clause of 6 terms, 2 field lists, 2 boosts and 4 edit distances, wildcards, escapes, pairs of clauses, malformed queries | the automaton holds exactly the terms, a query parses to the clauses it was written from or is refused, and finds and scores what they stand for, on the index as built and as loaded from JSON |
| `doc_search` | 3 keys of 5 queries, every order of files, questions and answers, navigation bar there or late | results of the last query in the end, never older ones; a query lost only where the data came before the stop words, or `index.json` was empty; an answer, an error or another key for every query |

Two runs are expected to fail; each shows a disagreement between the code and
what its own comments say, and is a finding in `PROJECT.json`:

* `handler_interference`: `internalRetrying` belongs to the handler, so a retry of
  one request disposes the response another is about to return;
* `scope_reuse`: the handler of a scope is never removed, so the retries of a later
  scope on the policy recycle the old one too and are interrupted.

Others can be seen by changing one line, and are kept as notes of the models:
`Borrowed` in `ReliableDbConnection` without its conjunct `call.attached` (a command
without a connection is given, at `ReliableDbConnection.cs:322`, the one the owner has
open, and closes it in the end: `KeepsLease` fails); `Subscribed = FALSE` in
`Handler.cfg` (the default and the options constructor of the handler never subscribe:
`RetriedResponsesDisposed` fails); `FailedWorkNeverCommits`
without its exception `NestedOnOnePolicy` (a retry of a scope nested in another on
the same policy leaves the outer unit of work outside any transaction);
`NoStrayTransaction` without it (after that the retry of the outer scope renews,
first in line, a third scope of the policy that was done before, whose transaction is
then at the bottom of the stack and stays there);
`OwnPolicyRetries` without its first exception (a scope inside another
transaction cannot be renewed after it has aborted that transaction);
`SuccessIsDurable`, `NoStrayTransaction` and `OwnPolicyRetries` without their premise
`~raced` (of two retries that renew one scope on two threads,
`TransactionRetryScope.cs:264` and `:276`, the later assignment overwrites a
`TransactionScope` that was just begun; nobody can dispose it, it stays ambient on its
thread, and a later scope there joins it: it succeeds without a commit, or its retry
rolls it back and is interrupted); `FailedWorkNeverCommits` without `\ quits` (a unit of
work that throws `RetryLimitExceededException` without an inner exception ends
`ExecuteAction` like one that is done, `RetryPolicy.cs:184-197`, and the `using` block
completes what it wrote); and `BackoffWithinBounds` without its premise
`FitsInt` (the exponential interval is cast to `int` after it was capped,
`ExponentialBackoffRetryStrategy.cs:118`, so that with a cap beyond `int.MaxValue` it
overflows).

Further divergences that the models note or leave out:

* `ConversionFails` in `ReliableDbConnection`: a reader of `ExecuteCommandAsync` goes
  through `Convert.ChangeType` (line 435), which fails unless the type asked for is the
  provider's own class of readers, so that asking for an `IDataReader` never succeeds.
* `ExponentialBackoffRetryStrategy.cs:118` cuts an interval to whole milliseconds: a
  `MinBackoff` of 1.5 ms, which the guard accepts, answers 1 ms. `BackoffWithinBounds`
  allows for this fraction.
* Line 145 of `RetryDelegatingHandler.cs` reads the event again, which other requests may
  have cleared since line 143; the exception replaces the response. The model has this end
  (`nullReference`), and that of a closure whose local was nulled between its check and its
  disposal; no property claims that they do not happen.
* `lunr.js:1677` says that a wildcard matches "one or more unspecified characters". The
  comment at `lunr.js:1385` says "any number of any characters", and the code takes none
  for a number: `b*` finds `b`.
  `SearchExact` takes the latter (`Like` in `LunrIndex`).

* `AsyncExecution.cs:99`: a task function that throws
  `RetryLimitExceededException` without an inner exception leaves `task` null
  (`RetryLimitExceededException.cs:20` has such a constructor), and the line dereferences
  it. `InvocationThrowsRetryLimitExceeded` has this exit.
* `RetryPolicyOptions.FirstFastRetry` (`RetryPolicyOptions.cs:46-49`) is passed to no
  strategy, so that a first retry is immediate even where it is `false`.
* The name of an unknown class of strategy leaves the policy without one
  (`NoHandler`): its first call throws, not its constructor.
* The handler stays subscribed to its policy for ever, so that a factory that rotates
  handlers on one policy accumulates them; `_cachedBoolTask` (`AsyncExecution.cs:186`) may
  be created by two threads, which is harmless.
* A deadlock that MySQL reports is retried as a single command, although the server
  has rolled back the whole transaction.
* `lunr.js:1212-1219` says that insertions and deletions are edits of distance 1. A
  character appended to the word is never found, nor are two deletions in a row
  (`Must` in `LunrIndex` states what is found for certain).
* `lunr.js:2636-2638`: the separators of queries should be those of documents, but are
  captured (line 2647) when the library is loaded; `search-worker.js:9` then changes
  those of documents only, and `a.b` is indexed as two words and looked up as one.
* The trimmer is in the pipeline of documents only: `(a)` is indexed as `a`, and found
  by `a` alone.
* The filter of stop words runs behind the stemmer, on words that were not stemmed.
* `search-worker.js:53-54` passes a boost for each field, which this version of lunr
  ignores.
* `search-worker.js:33`: the page is told that the index is ready when the data are in. If
  the stop words are late, a query asked in between is lost (`NoneTooEarly` has this as
  its premise). Of an empty `index.json` no index is ever built, and every query is lost; the
  premise excludes this too ("no data").
* `docfx.js:405`: when the navigation bar comes late, the handler of keys is bound
  twice and every key asks twice; `doc_search` shows that the results are the same.
* Two nodes of the automaton with the same key but different edges would need edge
  labels that are digits (`lunr.js:1461`, no separator between label and id): the
  models' words hold none.

### Bounds

* Budgets of 1 to 3 retries: a first retry (possibly immediate), one in the
  middle and the last one differ; a fourth is like the third. The proofs remove
  the bound from the safety properties of every run but `lunr` (for scopes, where none are
  nested on one policy and no handlers have raced).
* Two calls or requests: every interference in the code is between a pair
  (one event, one strategy property). Three scopes: one that retries, one around it or
  on the other thread, and one that was done before and still has its handler. The
  initial states are the five arrangements that differ in more than names: two scopes share
  thread and policy and the third is like them, on another policy, on another thread, or
  both; or one scope shares its thread with the second and its policy with the third.
  Names of scopes, threads and policies matter nowhere.
* `MaxCalls` (2 or 3) bounds the calls on a connection: what a call finds is
  captured by the state of the connection, its reader and who is responsible, and
  two calls reach every combination of them.
* `IntMax = 127` scales the `int` of the exponential strategy; candidates lie below,
  at and above it. `Millisecond = 2` makes every odd setting one with half a millisecond
  (the proofs take any number of ticks). The arithmetic of doubles before the casts is
  taken as exact, and so is `TimeSpan.FromMilliseconds` of the incremental strategy, which
  on .NET Framework rounds to whole milliseconds (of two intervals the longer stays the
  longer, or they become equal).
* Delays are -1, 0 and small growing numbers: negative, none, and distinct enough
  to tell which pauses were made.
* `lunr`: words over `a`, `b`, `s` with a few special characters, whose terms share
  beginnings (`ab`, `abs`) and endings (`ab`, `bab`), so that the automaton both
  branches and merges; an empty field, a repeated word, a stop word before and after
  stemming; references with a slash. Vectors get up to 4 elements, enough for every
  branch of the binary search. `MaxDocuments = 3`, and one query per index, which does
  not change it.
* `doc_search`: `MaxKeys = 3` lets two answers be on their way when a third key comes (the
  proofs take any number, and of handlers too);
  `MaxHandlers = 3` stops the rebinding of an empty navigation bar. A query is too
  short, without results, with one page or two of them, or unparsable.

No symmetry set is used and no constraint cuts the state graphs.
`CHECK_DEADLOCK FALSE` stands where every call, request or scope may be over (or
the strategy has stopped), where an index has answered its query, and where the keys
of the user are spent, which is where these systems really stop. Where
it does not stand it says little: the synchronous policy can always toggle
`FastFirstRetry`, and never deadlocks for that reason; that its calls end is what
`KeepsPromise` shows.

### Fairness

Where termination is checked (the loops, the connection, the scopes): weak fairness
on the steps of what was started, and on nothing else: the user's function, the
server and the database return or throw, timers fire, continuations are scheduled, and a `using` block is left. Nobody is forced to
start a call, cancel a token, toggle `FastFirstRetry`, or close a connection. A user
function that never returns blocks the loops in the code as well; it is outside
what the library can promise. In `DocSearch` the event loops of the page and of the
worker serve their messages; no key is forced, and no file has to come.

## What is proved

`tlapm` checks these for every set of calls, requests or scopes and every natural
`RetryCount`; for the two loops also for every strategy (`Delays` maps retries to
any sets of integers, negative ones included).

* `ExecutionProofs`, the two loops. Of both: `AttemptsBounded`, `RetriesSpaced`,
  `TypeCorrect`, and `Refinement`, the safety part of `KeepsPromise`; those of the synchronous
  loop are named `Sync…`, and speak of the instance `Sync` of `RetryPolicy`, whose variables
  have the names of the asynchronous loop's, so that `AttemptBudget` and `NoHammering` are
  one formula about either.
  - `SyncGivesUpLast`, `SyncRetriesAnnounced` are of the synchronous loop. Its
    inductive invariant `SyncIInv` adds to the types how the counters move together
    (`attempts = retryCount + 1` and `notices = retryCount` while an attempt runs, one
    notice behind while it is being raised) and that a spent budget is what an
    "exhausted" result was given for. The budget alone is not inductive: it says
    nothing of `retryCount`, which is what the next retry is decided on.
  - `CancellationStops`, `LastOutcomeDelivered` are of the asynchronous one. Here `IInv` also
    says what `previousTask` may be at each step, and how many attempts and notices
    have passed since the token was cancelled at the step where it was. The refinement
    has one lemma per visible kind of step (`InvokeRefines`, `NoticeRefines`,
    `ReturnRefines`).
  - `RetriesSpaced` is `NoHammering`, with the invariant `Paused`: the pending `delay` is an
    answer to the pending retry, and every retry before it but the first was made after
    the pause answered to it.
* `RetryDelegatingHandlerProofs`: `ClosuresRemoved`. The key is `Listed`: a request
  that is about to remove has listed at least all the registrations it has left,
  since it registers no more and the others can only take away. `NothingLeftOpen` and
  `LastResponseReturned` add what is true of a request that never overlapped another, on
  a handler that subscribes (`ASSUME Subscribed`): `SoloInv` says which of its responses
  are disposed, which one the local holds, which closures will dispose the rest when the
  next notice comes, and, while a closure runs, between which of its three steps it is and
  that it is the request's own (`Runs`).
* `RetryStrategiesProofs`: `PrescribedBudget`, for any set of options. `CountCarriedOver`
  says that every branch of the switch keeps the count that was asked for; the
  invariant carries it through the retries. `BackoffBounded` and `BackoffMonotone` are
  about the intervals, with the invariant `Answered`: the last interval was an answer to
  the last retry, of a strategy whose numbers passed the guards. What is left is
  arithmetic. `Math.Pow(2, n)` is the recursive function `PowerOfTwo`, whose equation is
  proved from the tables of its first values and by induction (`NatSetInduction`, for sets
  of numbers); each power is twice the one before (`PowersOfTwo`), of two jitters of one
  delta neither is more than twice the other (`JitterRange`), rounding included, so that a
  doubling makes up for the worst jitter (`ExponentialGrows`), and a cast that fits keeps the
  order of what it cuts (`QuotientGrows`, `WholeTicksGrow`): an interval of whole
  milliseconds is at least the whole milliseconds of the minimum.
* `DbCommandExtensionsProofs`, `ReliableDbConnectionProofs`: `TypeCorrect` and
  `LeaseImplemented`, for any budgets and any number of calls. The invariant says why
  the two locals `hasOpenConnection` and `hasOpenedConnection` suffice: an open
  connection is the owner's or was opened here, and what was opened here was not
  borrowed. For the wrapper this has to hold wherever a failure unwinds to
  (`FailLeads`); for the extension methods the local starts anew with every attempt,
  so a failed attempt has to have closed its own. `LeaseSafe` draws the consequence, by way
  of the abstract specification (`LeaseSuffices`): nothing leaks, what was borrowed is still
  there, and a reader that was handed over can be read.
  `ExecutionsBounded`, `DialsBounded` and `BudgetsMultiply` bound the work by the product of
  the budgets. Each nested loop starts afresh in every round of the one around it, so
  no counter alone bounds anything; `Spent` weighs them: the rounds begun so far
  (`Before`, a number in a mixed radix) bound the executions, and with the rounds of the
  inner loops (`Inner`) the dials. `FreshConnectionForRetries` is inductive with `Fresh`: the
  connection that a failed attempt used is closed before the policy is asked.
* `TransactionRetryScopeProofs`: `FailedWorkStaysOut`, `NothingStaysAmbient`,
  `SuccessCommitted`, `OwnRetriesKept` and `TypeCorrect`, for any number of scopes, threads
  and policies. A retry recycles whatever was ever built on its policy, on the
  thread where it happens to run, so nothing can be said of one scope without saying
  what a whole stack looks like. `Blocks` does: the stack of a thread is divided into one
  block for each scope in use, in the order of their nesting; a block has the
  `TransactionScope`s of one policy, and its lowest is that of the scope in use, above
  it the renewed ones of scopes that were done or live elsewhere. The handlers of a
  retry therefore reach into the last block only, and the `Dispose` at the end of a `using`
  block, which takes everything above with it, clears that block and no other.
  `Stacks` says that a stack is in one transaction, its root's, and no transaction on
  two threads. `Written` follows the work: what a failed attempt wrote was rolled back or
  is `Doomed`, that is, the handler of its own scope is still to be called or the `using` block
  has still to end; and what the present attempt wrote, once that is over, is in the
  transaction of its thread, which is why completing and disposing a scope that is in
  no other one commits it. `Renewals` is about the two halves of a handler: between them
  its scope has no `TransactionScope` anywhere, and no other thread is in the same place,
  so the assignment overwrites nothing (`NothingOrphaned`). All of this fails for two scopes
  nested on one policy, which would share a block, and after two threads have renewed one
  scope at a time; the invariant is claimed where there was neither (`Calm`; once there
  was, there always will be, `StaysCalm`). `NoStrayTransaction` has both premises itself.
  `SuccessIsDurable` and `OwnPolicyRetries` have `~raced`, and `SuccessCommitted` and
  `OwnRetriesKept` add the other; `FailedWorkNeverCommits` has the nesting, and
  `FailedWorkStaysOut` adds `~raced`.
* `RetryManagerProofs`: `TypeCorrect`, `DisplacedOnlyInARace`, `LookupsAnswered`,
  `NameAndStrategyAgree`, for any number of threads. A thread past its check would displace nobody
  unless it is in `outdated`; a technology that was served is served for ever
  because a strategy, once set, is only ever replaced by another; a thread between
  the two writes of the setter is the only one there unless the pair is `torn`
  (`NameInv`).

* `DocSearchProofs`: `LastQueryShown`, `NoQueryTooEarly`, `ResultsNeverOlder`, for any
  queries and any numbers of pages, keys, handlers, questions and answers. An answer does not
  say which query it is for; it is the right one because the messages stay in the order
  of the keys. `InOrder` says so along the whole way of a query: no key comes before an
  earlier one from the results on view, through the answers, the questions, up to the
  last key. `OfTheQuery` says that whatever is from the last key is about the query in
  the box, `NotLost` that the query of results on view is on its way, thrown on or
  answered, and `AskedInTime` that nothing is asked before the data have come and that the
  index is there once both files are, which makes `NoneTooEarly` inductive. A handler
  bound twice asks twice with one key, hence an order that is not strict.

Assumptions: the named `ASSUME`s of the modules (budgets are natural numbers, null is
no manager, no name and no results), all evaluated by the runs.

Only model-checked:

* liveness under fairness (`Settles` of `doc_search` included), and the fairness part of
  `KeepsPromise` (beyond the prover);
* `SuccessIsDurable` and `OwnPolicyRetries` where scopes are nested on one policy: they hold
  on the instance, but the stack has no blocks then;
* `FailedWorkNeverCommits` after a race of two handlers, where the stack has none either;
* `lunr`: what recursive operators compute of words, automata and queries, which is
  induction over data.

## What is not modelled

* Lookups of `RetryManager` by name and the policies built from what they answer: no
  state of their own.
* The tables of transient error codes and `ThrottlingCondition`: stateless. The
  models let every failure be transient or not, so no property depends on them.
* `BeginTransaction`, `ChangeDatabase`, `Clone` and the session tracing of
  `ReliableDbConnection`; the NHibernate drivers; registration of the HTTP handler;
  `SqlCommandFactory`; resources.
* Of lunr: inverse document frequencies, the normalization of lengths and the order
  of the results they decide (products of reals; a weight here is a count, and a
  score the dot product before it is normalized); the stemmer beyond its step 1a;
  metadata of tokens; `Query.term` and the functions of pipelines that the worker never
  calls; a boost with a fraction or without a number.
* Of the site: the markup of results and the marking of words in them; `localSearch`, dead
  code since `new Worker` returns an object or throws; tables, tabs, navigation and
  affix, which render and have no protocol; the minified libraries
  (`docfx.vendor.js`, `lunr.min.js`).
* `Task` scheduling and synchronization contexts below the granularity of
  continuations; real time.

## Plan

Order of importance; the first twelve are done.

1. `RetryExecution`, `RetryPolicy`, `AsyncExecution` with their proofs.
2. `RetryStrategies`, with the options.
3. `RetryDelegatingHandler` with the proof of its clean-up.
4. `ReliableDbConnection`, `DbCommandExtensions`.
5. `TransactionRetryScope`.
6. `ConnectionLease`, refined by both connection modules, with the proofs.
7. `RetryManager`, with its proofs.
8. `DocSearch`, `LunrTokenSet`, `LunrQuery`, `LunrIndex`.
9. Proofs of the products of budgets, of the fresh connection of a retry, of the responses
   of an undisturbed request, of name and strategy.
10. Proofs of `FailedWorkNeverCommits` and the other safety properties of the scopes.
11. Proofs of the pauses between retries, and of the bounds and the growth of the intervals.
12. Proofs of the order and the agreement of queries, questions, answers and results in
    `DocSearch`.
13. Left: a retried command inside a transaction (NHibernate drivers), and the decoding
    of `ThrottlingCondition` against a reference definition.
