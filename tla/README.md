# A verification project for opencode-free-autogate

The repository is a local gateway, written in Go. It takes OpenAI- and
Anthropic-shaped requests, rewrites them, and sends them to an upstream through
whichever of many unreliable proxy exits answers first. Most of its logic is
about failure: which exit and which mirror to use, whom to blame when a request
fails, when to retry, and what the client may be sent meanwhile.

This directory holds TLA+ modules of that logic, TLC configurations that check
them on small instances, and theorems proved with TLAPS. `PROJECT.json` lists
the components, the runs, the hazards of the code, and the source lines of each
definition. Paths below are relative to `src/`.

## The parts of the system

| component | state it keeps | operations | how it interacts | modelled in |
|---|---|---|---|---|
| outage breaker (`outage.go`) | recent failures, end of the hold, the probe of the hold | record, Evaluate, TryProbe, NoteSuccess | every failing path reports to it and asks it before it charges an exit or a mirror | `OutageBreaker` |
| recovery probe (`recoveryprobe.go`) | none of its own | polls the breaker, probes the upstream while it is held | NoteSuccess | `AbsorbLoop` |
| absorb loop (`absorb.go`) | per request: attempts, kept response, set of tried exits | retries a stream until it is complete | dispatches, records truncations, backs off by the breaker's state | `AbsorbLoop` |
| model fallback (`modelfallback.go`, `supplierroute.go`) | per request: place in the chain | next model when one fails | empties the set of tried exits | `ModelCatalog`, `AbsorbLoop` |
| model list and health (`models.go`, `modelhealth.go`) | cached list, status per model | fetch, probe, show, redirect, filter the chain | mirrors, model fallback | `ModelCatalog` |
| keep-alive guard (`main.go` 470-700) | committed, done, two channels | early head and heartbeats | shares the `ResponseWriter` with the handler | `Serving` | guard: 2 calls of Finish, 5 heartbeats, 2 chunks; race: 2 requests, 2 races between them, 1 exit, benches of one tick | never two writers or two heads; the handler returns; implements `ClientPromise`. An exit is used once per request; leases are exact and come back; a bench has its source; races end |
| `M365Bridge` | 2 requests, one for a stream, 1 account, 2 tokens | one refresh at a time; picked tokens were fresh; a stream read to its end is marked; every request ends |
| `M365Bridge_StreamCut` | 1 request | **violated**: a stream's context ends with the call that starts it |
| `NodePool` | a node of a source and a configured one, a queue of 1, two checkers | what passed its first check gets its deep one; a dead node leaves the formal pool for good |
| `Routes` | 2 accounts, a chat and a list request; 2 links, 3 ports; 2 requests, 2 exits, 1 slot; 2 exits of one IP, 2 workers | the rotation is even; a valid refresh token is kept; a link given up stays out; slots keep their number; the anchor is asked once; an exit is checked by one worker at a time |
| `Answers` | histories of 4 messages cut to 3; 2 fallbacks; 3 mirrors; 2 streams; 2 cached answers; texts of 3 tokens; 5 log lines | a rewritten history alternates its roles; a result fits what the chain brought; what was judged dead stays so; no mirror starves; one stream in order, reported once; a chat's text is exact; no line goes uncounted |
| `AbsorbCache_KeyIgnores` | 2 requests | **violated**: a request is answered with what was made for another |
| `Answers_FalseEnd` | as `Answers` | **violated**: a stream that was cut is reported intact, because of a `"finish_reason":null` in its first chunk |
| `RequestHistory_TrimEmpties` | 4 messages cut to 3 | **violated**: the message of the user is cut off |

The violated runs each check one sentence of a comment; the findings in
`PROJECT.json` quote it.

**Why the bounds are enough.** The breaker's interesting cases need two of what its
thresholds count, one report in flight beside another, and time for a second hold
after the first. In the absorb loop, two attempts are needed to keep a response
and then end, two models to reset the tried set, and another reporter to trip the
breaker under a request that has read its verdict; the violated run takes a second
exit, so that "another exit" exists. In the guard each place of `run` meets each
place of the handler; more heartbeats repeat states. In the race, one exit shared
by two requests is where leases and marks interfere, and two races are a request
that is dispatched again or two side by side; `OncePerExit` is proved for any number
of exits, and the pruning of the tracker, which this run leaves out (`MayPrune`), is
in `LeaseBound`. In the bridge, two requests on one account
are a leader and a follower of one refresh, or a refresh beside a deletion and a
login; two tokens are an old one and its successor, and `OneFlight`, `PickedFresh` and
`StreamsMarked` extend what this run shows to any number.

In the node pool a queue of one is full while the second node arrives, and the
worker and the pass meet on one node. Of the accounts, one that is passed over and
one that is not suffice for the index to leave its list; a chat and a list request
refresh one account at once; two new tokens let an old answer arrive after a newer
one. Three ports are one more than two links need, so a rebuild can find ports
while the old ones are held, or not. Two fillers and one slot are where room is
looked at twice; two mirrors and two dispatches reach the anchor by both of its
ways, more than once. Two exits of one IP share a cache entry, a queue of one is full.

A history of four holds a user, a call, its result and one more, in any order, and a
limit of three cuts an even or an odd part of it. Two failures make a model dead,
and the chain has a fallback that is listed and one that is not. Three mirrors are
the most one dispatch picks. A stream of four events is cut before, within and
after its buffer of two, and asked for once more; among the streams are one whose
chunks all carry a marker, one of which some do, and one of tool calls only. A cache of two with three keys
evicts; an age of two ticks runs out before the clock of four stops. Three tokens
are a beginning, a rewrite and a tail. In the log, two lines a second and five in
all reach the flood limit, the window of two seconds and the file's end.

Constants `MaxLag`, `MaxEvents`, `StormEnd`, `MaxTime`, `MaxLeases`,
`MaxTruncations`, `MaxRaces`, `ProbesEnd`, `MaxBeats`, `MaxChunks`, `MaxLanes`,
`MaxTokens`, `MaxRefresh`, `MaxDispatches`, `HistoryLen`, `TextLen`, `LastTick`,
`Dispatches`, `LastSecond` and `MaxWrites` bound the models, not the code. `Models` and `MaxAttempts` of the
absorb loop, `QueueCap`, `RepQueueCap`, `CacheMax`, `SourceFails`, `SlotCount`, the numbers of
retries, `Threshold`, `HoldRetries`, `HoldMax`, `PayloadLimit`, `CacheBound`, `CacheTtl`,
`FloodPerSec`, `MaxFileSize` and the like are parameters of the code given small
values. Deadlock is not checked where a clock
stops at its bound or where all work may be done; termination is a property of its
own there.

## What the modules show beyond the runs

The steps of the modules also contain the following, which can be seen by stating
the sentence as an invariant or an action property and running TLC on an
instance like those above (with two exits for the race, and two accounts for the
rotation). Each contradicts a comment, or nothing but an expectation, and no other
code relies on it; the runs above are kept for what a client or an operator would
notice.

Breaker, absorb loop, mirrors and exits:

* The delay before a probe counts from the start of the hold, not from the last
  failure: a probe may follow a fresh failure at once (`outage.go:71`; the comments
  at 43 and 85 speak of quiet).
* A report that was stamped earlier and recorded later sets the end of the hold
  anew, counted from its own stamp, and so pulls it back (`outage.go:51`).
* A hold that begins in the very instant the last one ends keeps the spent
  probe (`outage.go:68` compares with `After`, 36-37 promise one probe each).
* The early end of the loop compares the number of tried exits across a model
  switch, which empties the set (`absorb.go:131`): a request may give up though new
  exits were used.
* A final 4xx loses to an older retryable response where exits are not marked
  as tried (`absorb.go:140` against 84).
* After a truncated stream the next attempt starts without backoff, in a hold
  as well (`absorb.go:175`, against `outage.go:20`).
* Retryable responses charge their mirror in a hold (`gateway.go:1679`, against
  `outage.go:19`).
* A truncated stream is booked under its mirror's host name, which no pick looks up
  (`gateway.go:2312`, `mirrors.go:129`).
* Failures shorten a bench that a quota response had set (`scoring.go:208`, against
  215-216), and only the first bench of an exit is followed by a probation
  (`scoring.go:310`, against 292).
* A race may end with an exit on probation untried that has become idle again
  (`gateway.go:2112`), and mirrors are charged for a race that sent nothing
  (`gateway.go:1664`).
* Two requests may both go out through an exit on probation: the check and the
  lease are different critical sections (`gateway.go:2015`, against
  `scoring.go:292`).

Nodes, links, reputation:

* Of two nodes with one exit IP, a dead one stays in the formal pool as long as its
  sibling's "ok" is shared with it (`deepprobe.go:213-227`; so `DeadLeaves` is checked
  for nodes with exits of their own). A pass may release a bench that was set
  after it collected its candidates (`deepprobe.go:111`).
* After a rebuild some slots of old ports may stay (`singbox.go:238-247`, against 243);
  the late check of a port that was given to another link evicts that one
  (`gateway.go:2233`); a node may become a configured one between `isManual` and its
  removal (`gateway.go:1028`).
* A slot that is dropped while a fill is under way is not refilled until the next
  one (`gateway.go:1181`).
* Two exits of one IP are checked side by side; the day off of a source whose quota is
  spent is shortened to half an hour by a later failure (`iprep.go:663-665`); `Request`
  looks into the cache by address, though it is kept by IP (306 against 371); two
  workers ask for a country closer to each other than the gap (687).

Models, requests and answers:

* A dead model is still shown under its short name (`models.go:192`, against 180 and
  `modelhealth.go:25`): `Shown` asks by the name that is shown, verdicts are kept under
  the upstream's. It is never probed again (`models.go:169`, `modelhealth.go:151`); nor is a
  configured fallback that is not listed ever probed. A chain may hold a model that
  has died since it was made (`modelfallback.go:96`).
* Tool calls that are made into text overwrite the text of their message
  (`messagenorm.go:50`); a merge of a message without text is not counted as a change;
  trimming repairs only the first of several orphaned results (`payloadguard.go:67`).
* Step 5 of the normalisation, which is to leave no result without its call
  (`messagenorm.go:10` and 17), never finds one: it looks at the first message only
  (179), and step 1 has just put a user in front of it. Step 6 makes calls into text
  and leaves their results.
* A stream of nothing but tool calls counts as truncated (`main.go:1105`), and `sawTools` is never
  set (`streamresume.go:18`); the rest of a line whose head went into the holdback is
  lost (`holdback.go:17`).
* A rotation of the log in the second of the last one overwrites its archive
  (`logkit.go:256`); a file that cannot be reopened ends the log file.

Suppliers:

* The accounts of Cline are written in place (`cline.go:545`): a crash in the midst
  loses them all. A refresh whose answer is lost loses its account; the loser of
  two refreshes marks the account expired (588-596). A stream that was cut is closed
  as if it were complete (1218-1229).
* After a rewrite of an answer with a common beginning, its tail is streamed behind
  what was sent before (`m365/chat_client.go:650`); a notice in pieces escapes
  detection (596-608); a final text shorter than what was streamed does not replace
  it (1170-1176).
* A conversation goes on with whichever account the rotation picks
  (`m365/engine.go:362`). The rotation is shared: two requests that step through it
  together may each meet the same unusable account twice and give up, though a
  usable one was there all the time (314-319).
* A refresh that fails after another one has succeeded marks the new account
  "expired"; `pickAccount` passes it over from then on, although its token is good,
  until that token itself nears its end (`m365/auth_cache.go:509-517`,
  `m365/engine.go:324`).
* A refresh that ends after its account was deleted inserts it again
  (`m365/auth_cache.go:532`, against `m365/engine.go:156`).

## Fairness

* Time passes, and a goroutine that waits for a mutex gets it: weak fairness of
  `Tick` and `Record`, and of the records of other requests (`RecordElsewhere`).
  `HoldExpires` needs no more: no request, no probe.
* A request's own steps are taken, and a dispatch and a stream end, because both
  run under the deadline of the total budget (`absorb.go` 113-121): weak fairness
  of `Local`, `InDispatch` and `InStream`. What a dispatch does until then is not
  fair: it may fail on exit after exit.
* In the guard, weak fairness of each goroutine, and strong fairness of taking the
  mutex in `Finish`: the mutex of Go hands over to a waiter it has starved for a
  millisecond, so a ticker cannot keep it for ever.
* In the race, weak fairness of a request's loop and of the end of each attempt,
  which has a deadline. Nothing is assumed of probes or other requests.
* In the bridge, weak fairness of the goroutine of a request (`Produce`, which
  includes the answer of the token endpoint, whose client has a timeout), of the
  handler that reads (`Consume`), and of the time limit of the context
  (`TimesOut`). The upstream need never send a frame, and clients need not go.
* In the node pool, weak fairness of the loops (`TakeQueued`, `PassStart`, taking the
  next of a pass), which run as long as the program does, and of each deep check
  (`Check`), whose calls have a time limit; quotas end and shared verdicts age. Nothing is
  assumed of sources, first checks or requests, nor that a node ever passes.

## What is proved

TLAPS checks the following for every value of the constants that satisfies the
named assumptions, each in the module that declares the constants:
`BreakerAssumption`, `IdleAssumption`, `AbsorbAssumption`, `GuardAssumption`,
`TrackerAssumption`, `RaceAssumption`, `PoolAssumption`, `StoreAssumption`,
`StreamsAssumption`, `ClineAssumption`, `BridgeAssumption`, `LayeredAssumption`,
`RepAssumption`, `NodeAssumption`, `HistoryAssumption`, `CatalogAssumption`,
`DeliveryAssumption`, `AbsorbCacheAssumption`, `FramesAssumption` and
`LogAssumption`. They say of which kind a parameter is, that limits are natural
numbers, that tables and pools are finite, and that "no node", "no account" and the
like are none of the nodes and accounts. TLC evaluates each on the runs.

Every invariant and every action property that a run checks is stated by a theorem;
what is left to TLC alone is liveness.

* `OutageBreakerProofs`. `TypeCorrect`, then `OneProbe`: the invariant says that
  inside a hold the number of grants is that of the spent probe
  (`probed` or none), because "at most one" alone does not survive `TryProbe`.
  `BoundedHold` needs that no report is stamped in the future. `EvidenceTogether`
  says what a judgement may weigh: a record drops what is a window older than its
  own stamp, but not what is newer, so that two failures a window or more apart could
  stay if a report waited that long; it is proved for `MaxLag < Window` (nobody waits 45 seconds for
  this mutex), with the invariant that what waits is at most `MaxLag` old and nothing
  that is kept is of the future. `Refinement` maps `Record` to `Evidence`, using that a report's stamp is at
  most now, and the other steps to theirs or to a stutter.
* `SseGuardProofs`. One inductive invariant ties the places of the two goroutines
  to `mu`, `done`, `committed` and `finished`: past `Finish`, `run` has stopped and
  `committed` says whether the head is out. `WritersExclude`, `TakeoverSafe` and
  `Refinement` follow.
* `AbsorbProofs`. `LoopImplementsBreaker` shows every step of the loop, of the
  recovery probe and of the other requests to be one of the breaker or to leave it
  alone, so `LoopKeepsPromise`: the requests keep `OutagePromise` among them.
  `OneLateCharge` uses the breaker's types from there: only a record can
  begin a hold (time passing cannot), a record that does forgets the charges, and
  inside a hold no verdict leads to a charge. `ResultOfAttempts` needs that a final
  response which is no answer has ended the loop and was kept, that a stream is
  being read only after a response that is one, and that a kept response is of an
  attempt that was made. `AbsorbTyped` needs that a failure leads back to one of the
  places that report failures (`Returns`), and that the exits are finite, so that no
  more were tried than there are.
* `DispatchRaceProofs` has the tracker first: `TypeCorrect` is itself the
  strengthening that `SourcedBench` and `LeaseBound` need. For `UsedOnce` the
  invariant follows an exit through the race: what was sent to or is out is marked
  as tried, what is tried is in no wave, and a candidate that is looked at is still
  to be done. `RacesSourceBenches` shows the race to use the tracker by the tracker's
  own steps, and takes its lemmas. `LeasesAreAttempts` counts: a lease is taken with
  an attempt and returned with it. It holds while no exit is pruned (`~MayPrune`)
  and for finitely many requests; with pruning the count may only be too small,
  which is `LeaseBound`.
* `M365Proofs`. `OneFlight` is inductive over the types once it is an
  equivalence: an entry names a caller exactly while that caller refreshes the
  account, and whoever waits, waits for one that has not closed `done` yet.
  `PickedFresh` needs more than it says: stale tokens were issued, stored tokens
  were issued, and what a leader has brought is not stale while it closes, because
  a late caller may still join it; then a new token is none that was stale before.
  `BridgeUsesStore` shows that every step of the bridge is one of the store or leaves
  it alone, so both theorems hold of the bridge. `StreamsMarked` rests on an
  invariant about the pipe: once the chat is over, its mark waits in the pipe or was
  read last, and only then is the pipe closed by its writer.
* `ClineProofs`. `RotationIsEven`: the picks since the choice last changed lie one
  behind the other on the circle of usable accounts, the last of them right behind
  the index, and are no more than the circle is long; so none occurs twice before all
  have (`PicksInTurn`). The index counts usable accounts only; `Rank` gives each its
  number among them, and the proof needs that a number belongs to one account.
  `RefreshTokenKept` (`TokensKept`): the pool's token is never newer than Cline's; what
  a request sends is not newer than the pool's; at most one answer for an account is
  newer than the pool's, and while it is under way the pool's is spent. `ClineTyped`
  adds that what is unsaved is the end of the list.
* `RoutesProofs`. `LinkStaysOut`: what is wanted beyond the manual links does not cool,
  and the configuration is read once, so a manual link stays one.
  `SlotsKeepTheirNumber`: there is one fill at a time, and it adds a slot only while
  there is room. `AnchorAskedOnce`: the anchor is marked before each use, and
  the mark is forgotten only with the model. `OneCheckAtATime`: what is in the queue
  or with a worker is pending, and what is pending is not put into the queue.
  `RoutesTyped` has the bounds in it that these components keep: ports belong to one
  link each, attempts stay within their retries, scores on their scale (a worker
  past the look-up knows its exit and its IP), and the cache is emptied before it
  outgrows its limit. `NodeTyped`: the queue keeps its length, and a checker has a
  node exactly while it is at work, because each settlement starts from a checker
  that has one.
* `AnswersProofs`, one part per component.
  * `RewrittenRolesAlternate` follows a history through its three stages: after `Enhance`
    every message that needs a reasoning has one and trimming takes messages away
    only; after `CallsAsText` and `UserFirst` the first is the user's, and of the
    messages that lead a run two that follow each other have different roles. The
    last is by the least place between two: the minimum of a set of numbers
    (`NatMin`) takes the place of an induction over the history.
  * `EveryMirrorHasItsTurn`: the picks a mirror has waited and the places the cursor is
    still away from it are together fewer than the mirrors, because each pick
    moves the cursor one place and a mirror that is ready under it is picked.
  * `LinesAccounted`: a line that may be repeated has a count of at least one, so each
    repetition adds one to what will be reported.
  * `StreamIsOne`: what was written, what is held or put before, and what is still to
    be read are runs of one stream, each before the next, and an unfinished line
    belongs between them (`InOrder`); a stream is asked for again only while nothing
    was written of the last, or to resume behind it. `OutcomeReported` (once; intact
    only if a marker was delivered; never truncated if the stream's own end and text
    were) needs that no stream is resumed after its end. It does not say that an
    intact stream has its end: `Answers_FalseEnd` shows that it need not.
  * `ResultFitsChain`: what is still to be tried of a chain was not sent yet, and while
    a request goes on, what it has sent came to nothing but rejections and failures,
    of which `best` knows whether there was a rejection (`ChainSound`).
  * `DeathIsFinal`: a probe pass under way consists of models that live (`CatalogInv`),
    because it is made of those and a probe leaves the pass with its verdict.
  * `AppendedAnswerStreamed`: as long as upstream appends, the streamed text is a beginning
    of the answer, so the common beginning of the two (`CommonPrefix`, defined as a
    greatest number) is all of it and what is added is the rest.
  * `AnswersTyped` puts their types together: each step is one of some component, and
    leaves the others alone.

Left to TLC: liveness under fairness (`HoldExpires`, `AbsorbTerminates`,
`HandlerReturns`, `RaceEnds`, `LeasesReturned`, `EveryRequestEnds`, `FreshChecked` and
`DeadLeaves`), which the prover does not reason about. Where a definition folds a
sequence or selects from it, it is stated by what it yields (a rank among the usable
accounts, a greatest number, a function from places), because what a recursion
computes for every length cannot be proved here; TLC evaluates these definitions on
every run.

No theorem is claimed for the violated properties, of course, nor for the order in
which heuristics prefer one exit to another.

## The plan

Done: the path every request takes (breaker, absorb loop, guard, tracker, race, mirrors,
layers), the pools behind it (nodes, advanced links, reputation), what lies between
a client and its answer (history, models, delivery, cache, log), and the suppliers
with accounts (Cline, M365 with its store, bridge and chat).

Next, in this order:

1. A refinement of a race: that it is one of the dispatches that `AbsorbLoop` allows.
2. The conversations of the M365 engine, over `M365Store`; the file of the pool of
   nodes and its restart.
3. `TransportPool` and `UsageStats`, each a mutex around a table.

## What is left out, and why

Rewriting of single chunks, parsing of links, pages and requests, formatting and
redaction keep no state that two actors share. Configuration is read once. The
windows display state and call operations that are modelled with their components;
they are built for Windows only. The transport pool and the usage counters are one
mutex around a table: what could go wrong there is a crash in the midst of writing
the usage file in place (`usage.go:118`), and a wake-up that is noticed only if the
clock advances during sleep. The outbound pool and the connection pool of M365 are
not called from outside their files; its login is a fixed sequence of exchanges.
The embedded sing-box and the protocols of Microsoft and Cline are other programs;
where the gateway reacts to them, their answers are open choices. Ordering by
latency and reputation is a heuristic: nothing is claimed of it. Memory and files
are taken to work, except where a module says otherwise.
