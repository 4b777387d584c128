# A formal model of the sheet API server

The repository serves `.tsvt` spreadsheets over HTTP: a *document plane* (documents read,
replaced, edited by op batches and deleted, every mutation conditioned on a revision), a *change
feed* (Server-Sent Events) and a *compute plane* (values of cells). These TLA+ modules model the
three planes, the remote client and the server around them, TLC checks them on small instances, and TLAPS
proves every safety property that holds, of all three planes, the client and the server, and that the store and the hub do what
their abstract specifications promise, for every instance. What stays with TLC is named at the end of section 5. Line numbers are those of the repository's files.

## 1. Inventory

| component | state it keeps | operations | what makes it correct |
|---|---|---|---|
| document port (`document/`) | none: an interface | `Get`, `Put`, `Apply`, `Delete`, `Validate`, `Expect` | each call is atomic; a mutation lands only on the state its precondition names; a refusal changes nothing and says why |
| embedded store (`store/`) | one mutex; the files under an `os.Root` | the four calls; `load` = validate, census, read, parse; `write` = mkdir, stage, rename | it implements the port, under failures of any filesystem call and a crash between any two; nothing over the cell budget is served; no write leaves a file that does not load |
| hub (`api/feed.go`, `replayfeed.go`, `session.go`) | per document: sequence number, journal, its byte count, the channels of subscribers; one mutex | `broadcast`, `subscribe`, `unsubscribe` | the journal is the newest stretch of the history within two bounds; a reader sees every event or is told to start over |
| event stream (`api/stream.go`) | position in replay and live channel | `serveFeed`, `streamLive`, framing | replay and live join without a gap; a closed channel ends the stream; a deletion does |
| mutating requests (`api/write.go`, `handler.go`) | none of their own; one goroutine per request | `put`, `post`/`apply`, `delete`, `announce` | each change is announced once, as it was made, in an order a reader can follow |
| replay cache (`api/replay.go`) | outcomes by Idempotency-Key, bounded; a mutex | `replayed`, `remember` | a retry gets its original answer and applies nothing |
| read requests (`api/read.go`, `media.go`, `problem.go`) | none; caches outside keep what they answer | representations, `!` references, `?rev=`, validators, the feed's entry | source and computed renderings are not confused; an answer is of one revision; a tag stands for one body |
| compute plane (`api/compute.go`) | none: functions of a grid | reference spans, fragments, deltas | a fragment is what its reference names and no larger than the grid; deltas keep a reader's values |
| remote adapter (`client/`) | none but a call's local variables | the port over HTTP: one exchange per call, two for `Apply` and `Put` | it answers as the embedded adapter does (`conformance/`), whoever writes in between; a lost answer is not a refusal |
| observability (`observe/`) | expvar maps, one registry mutex per process; a recorder per request | request records and counters | it forwards `Flush`; registration neither panics nor hangs; the counters are what clients were answered |
| server (`cmd/tsvsheet-api`) | none | flags, loopback check, assembly | a launch comes up or is refused |

The parts interact by calls. A request runs in its own goroutine through `ServeHTTP`, asks the
replay cache (its lock), calls the port (the store's lock), records its outcome (the cache's lock)
and broadcasts (the hub's lock). No lock is held across two of these, so all the interesting
interleavings lie between them. The hub talks to streams through buffered channels, of which the
stream drains one end while `broadcast` and `unsubscribe` may close the other. Only the files
survive a restart: hub and cache are in memory, and what clients and caches keep is not of the server's making
any more: resume points, tags, copies of values.

The hard behaviours, listed with their lines in `PROJECT.json` under "hazards": the order of
commits against the order of events; a cache that is asked before and told after the effect; a
subscriber that is dropped while it drains; resumption across a restart; the two-step write under
failures and crashes; the census and the read of a file somebody else may be changing; tags, pins and
computed values that are kept while the document, the clock and the deployment change; two servers that
register under one name.

## 2. The modules

| module | what it is | source |
|---|---|---|
| `Documents` | the shared vocabulary: names and the files they resolve to, documents, revisions, batches, requests, answers, and the contract of one call (`Effect`, `Reply`, `TrueReason`) | `document/document.go`, `document/errors.go` |
| `DocumentPort` | **abstract**: the port as an atomic object; a call is open, takes effect or is refused at one instant, and returns | `document.Port` |
| `Store` | the embedded adapter, one step per filesystem call | `store/store.go`, `store/fs.go` |
| `Feed` | **abstract**: events followed one by one, or a fetch | what `api/feed.go` and `api/replayfeed.go` promise a reader |
| `Hub` | journal, fan-out, subscriptions, streams and readers that lose connections | `api/feed.go`, `replayfeed.go`, `session.go`, `stream.go` |
| `Handler` | requests on one document: form checks, cache, port call, memory, announcement, and a reader of the feed | `api/write.go`, `replay.go`, `handler.go`, `read.go`, `stream.go` |
| `Client` | the remote adapter: calls made of HTTP exchanges with a server that others use | `client/client.go`, `transport.go`, `problem.go` |
| `Compute` | references, shapes, clipping, fragments and deltas, as operators on ragged grids | `api/compute.go` |
| `Frames` | an event as lines, and the lines as an event again | `api/stream.go` |
| `Reads` | what clients read of one document: negotiated representations and their tags, computed references, and the feed's frames followed by a reader that keeps the computed values | `api/read.go`, `media.go`, `handler.go`, `problem.go`, `stream.go` |
| `Server` | servers of one process: launch, metric registration, requests under the recorder, counters | `cmd/tsvsheet-api/main.go`, `observe/observe.go` |
| `MCStore`, `MCHub`, `MCHandler`, `MCClient`, `MCReads`, `MCServer` | the instances TLC checks | |
| `StoreProofs`, `HubProofs`, `HandlerProofs`, `ClientProofs`, `ComputeProofs`, `FramesProofs`, `ReadsProofs`, `ServerProofs` | theorems about the modules they are named for | |

`Store` is composed with `DocumentPort` by a refinement (`Port == INSTANCE ...`), `Hub` with `Feed`
likewise. `Handler` stands on the *abstract* sides of both: the port is its contract, one instant
per call, and the feed is a journal that is followed without gaps. What the two refinements show is
what lets it do so. `Client` stands on the same contract, one instant per exchange. `Reads` extends `Compute` and
`Frames` and takes the port as one instant too, and of the hub only what `Hub` shows: events in order from a resume
point on, or a reset.

**How the state corresponds.** In `Store`, `files[p]` is what is on disk at path `p`: bytes, nothing, or
`Torn` (a write that stopped short, which can only happen to a file that is written in place);
`staged[p]` is the same for `p`'s staging name; `mu` is `Store.mu`; `pc[t]` is the line a call has
reached; `plan[t]` holds the local variables a mutation carries from its check to its write.
`Found(t)` is what `load` returns. A call that fails or returns releases the lock in the same step,
because the unlock is deferred and nothing between the two is visible to others. `VetFile` and the
step after it are separate because they open the file twice. In `Hub`, `subs` is the set of readers
whose channel is registered: the hub removes a channel exactly when it closes it, so a stream with
`s \notin subs` is reading a closed channel, drains it and ends. `past + seq` numbers events over
restarts, which the code's `seq` does not. A connection is asked for (`FeedGet`, `read.go:51-58`) before it is subscribed: the
phase is `found` in between, or `refused` for good if the document was gone, since an `EventSource` does not retry after an error
status. `present` is what the port would answer; requests of others turn it, at any time, as their changes land before their events. The readers in `Early` may
fetch while they have no connection, as `replayfeed.go:15-17` expects, and `late` are those that subscribed, without a resume point,
with a copy that the journal had moved past by then. What a client keeps (`lastId`, `pos`, `stale`, `late`, `era`) survives `Restart`. In `Handler`, `step[w]` is where a request's goroutine stands;
`commits` and `landed` are history variables: the changes in the order they landed, and those made
under each key that the cache still has reason to know. The reader's `copy` and `lastId` are the client's and survive `Crash`;
`stream`, `joined` and `cursor` are its connection's and do not. `dated` says that `lastId` was given by an earlier process, and `misled` that
the reader was resumed by such an id and has neither fetched nor been told of a change since.

In `Client`, `stage[c]` is the exchange a call stands before, `before[c]` what `Apply` read first and `got[c]`
what an accepted mutation answered; `landed`, `seen`, `alone` and `faulted` are history: the change the call made,
what was served while it ran, whether anyone else wrote, and whether an exchange was lost or the
server failed on its own account.

In `Reads`, `held` is what the port serves and each document stands for its own revision; `clock` is
`Config.Clock`, `deploy` the flags of the current process. One client is observed (`role`): one that asks, with
`pc`, `ask`, `snap` and `ans` following a request through `ServeHTTP` and `kept` the answer some cache holds, or one
that follows, with `wire` the lines of the frame on its way and `copy` its cells. `pending` are changes that landed
and are still to be announced, in any order, as `Handler` shows they may be; each carries as `of` the number of its change, which
the journal keeps beside its event. The rest is history: `ordered` (values were announced in the order of their changes), `unsteady`
(the last change that a volatile document had part in), `sure` (no such change is among what a fetched copy rests on or still
has to come), `dated` (the resume point is of an earlier process) and `gone` (what follows the resume point has left the
journal, and what has left does not come back).
In `Server`, `stage[s]` is where a launch stands, `published` is expvar's registry (maps are named by who made them),
`recorded` the recorder's status and `wire` the one the client was sent.

**What is abstracted.** Documents, revisions, batches and byte strings are model values. The engine
(`go-tsvsheet`) is outside the repository and enters as constant functions with the laws the code uses:
serializing and parsing again gives the same document, revisions are injective, the fold and the
bounded parse respect the limits. `document.Validate` is membership of a set; what a name resolves to
(a symbolic link, a case-insensitive directory) is `Target`. Events carry what the bounds and the stream
look at. Headers are reduced to the `form` of a request: well-formed, of an unsupported type, without
precondition, malformed, too long, or with a batch that does not parse; an Accept header is the set of
types it names. A payload is a sequence of lines with the tokens that end them, of which `splitDataLines` heeds one (`Newline`) and a reader
two (`Return` as well): what follows a carriage return on its line is taken to be a line that names no field, bodies with two of them in a
row are left out (the blank line between would end the event early), and values are taken to hold no line end. Values are strings the engine computes, a constant of document, time and cap. Counters are kept by
status, not by method.

Slips (`CheckPutVerbatim`, `DecideUnlocked`, `TrimmedToFit`, ...) are operators that stand beside the
definition they would replace: each is a plausible bug, and each breaks the property named with it in
`PROJECT.json`, which shows the property can fail.

## 3. The runs

| run | instance | properties | result |
|---|---|---|---|
| `store_port` | 2 callers, a path and an alias of it, 5 byte strings (canonical, loose, corrupt, over budget), 17 requests of every kind and refusal, failures, crashes, one out-of-band edit, fairness | `TypeOK`, `DecisionStands`, `BudgetHeld`, `IsDocumentPort`, `StaysLoadable`, `Answered` | hold, 410 000 states |
| `hub_feed` | a reader that fetches before or after subscribing, a document that comes and goes, 5 events, 3 lost connections or restarts, fairness | `TypeOK`, `NoGap`, `RingIsTail`, `SkipsOnlyDatedOrLate`, `ResetOnlyWhenLost`, `CaughtUp` | hold, 471 000 states |
| `handler_feed` | 2 requests in any overlap, the compute plane, a crash, a reader that survives it | `AnnouncedOnce`, `ConvergesInOrder` | hold, 1 588 000 states |
| `handler_retry` | 2 workers, 2 keys, a cache of one outcome, distinct keys in flight, a crash, fairness | `TypedAndBounded`, `AppliedOnce`, `RetryHonoured`, `AllAnnounced` | hold, 79 000 states |
| `client_port` | 2 frontends, one change by a third party, exchanges lost either way | `TypeOK`, `SuccessIsTrue`, `RefusalIsTrue`, `Conforms` | hold, 1 008 000 states |
| `reads` | 3 documents (one ragged, one volatile), a batch with a carriage return, 24 requests, 3 deployments, 2 times, 2 changes, one restart or lost connection | `TypeOK`, `Negotiated`, `OneRevision`, `TagIdentifies`, `FragmentExact`, `ValuesTrack`, `EventsIntact` | hold, 1 915 000 states |
| `server` | 2 servers, prefixes shared or not, flags good or not, 2 requests, fairness | `TypeOK`, `NoPanic`, `MetricsMatchWire`, `FlushedArrives`, `StartsUp` | hold, 198 000 states |
| `client_apply` | 1 frontend, changes by others | `ApplyReportsItsTransition` | **violated** |
| `hub_restart` | one restart | `NeverSkips` | **violated** |
| `handler_order` | two requests at a time, a reader | `ReaderConverges` | **violated** |
| `handler_applied_twice` | overlapping retries | `AppliedOnce` | **violated** |
| `handler_stream` | a reader subscribing while the document is deleted | `StreamEnds` | **violated** |

What each property says:

* `DecisionStands`: between a mutation's check and its rename, the staged file is its whole text, and, as long as
  nobody has edited files behind the server, what it read is what is on disk. `IsDocumentPort`: every step of the store
  is one of the atomic port, or belongs to a call that such an edit has overtaken since its check. `BudgetHeld`:
  nothing over the cell budget is answered or written. `StaysLoadable`: no step of the store turns a document that
  loads into a file that does not. `Answered`: every call ends.
* `RingIsTail`: the journal is the newest stretch of what was broadcast, within both bounds (but for one
  oversized event), and its byte count is right. `ResetOnlyWhenLost`: a reader is told to start over only
  if something it missed is no longer there. `NoGap`: what a reader has, what it is being replayed and what
  lies in its channel join up to the newest event. `SkipsOnlyDatedOrLate`: each step of the hub is a step of `Feed` for
  every reader, except to a reader whose resume point is from before a restart (`Dated`) or whose copy was older than its
  subscription (`late`); `NeverSkips` is the same without the exceptions. `CaughtUp`: once publishing stops, a reader has everything, or it was
  refused because the document was gone when it came back, or it is one of these two.
* `AnnouncedOnce`: the state events of the journal are changes that landed, each at most once and as it
  happened. `AllAnnounced`: none is left out, unless the process dies. `TypedAndBounded`: the types, and the bound of the cache. `AppliedOnce`, `RetryHonoured`: one key, one
  batch, one answer. `ReaderConverges`: a reader that has taken every event has the document.
  `ConvergesInOrder`: it does whenever the events entered the journal in the order of their changes, also over a crash, unless
  it is `misled`.
  `StreamEnds`: a stream on a deleted document ends.
* `SuccessIsTrue`: what a remote call says it did it did, and what it shows was served while it ran.
  `RefusalIsTrue`: a refusal was true while it ran, and a refused batch or deletion did not land. `Conforms`:
  with the document to itself, a remote call answers as the embedded port would. `ApplyReportsItsTransition`:
  a batch is reported as the transition it caused, whoever else was writing.
* `Negotiated`: a form is served only to who accepts it, source never to who asked for values, and nothing
  servable is refused but for that. `OneRevision`: pin, tag and body of an answer are of one revision, whatever changes
  while it is made. `TagIdentifies`: under one `--max-cells`, a tag that a cache has kept, over edits, time and
  restarts, stands for the same body. `FragmentExact`: a computed reference shows each cell in its place, leaves out
  no cell that shows something and is no larger than the grid, reversed or far beyond it as it may be written.
  `EventsIntact`: a reader is handed the events in order, each once, wherever the connection is cut, and whole unless the
  payload holds a carriage return.
  `ValuesTrack`: fetched values with all deltas applied are the server's values, also of deltas older than the fetch,
  for documents without volatile cells, values announced in order and a resume point of this process.
  (*All* deltas: a reader that falls behind the journal is reset, and one whose resume point has left it cannot be taken for
  one that is owed only what is left.)
* `NoPanic`: no metric name is published twice. `MetricsMatchWire`: what expvar shows under a prefix is what the
  clients of all servers of that prefix were answered, but for latencies still to be added. `FlushedArrives`: what a
  stream writes goes out although its handler may never return. `StartsUp`: every launch comes up or is refused.

**Why the bounds are enough.** All of the store's sharing goes through one lock and one path at a time,
so two callers show every interleaving a third could; one path with an alias shows name resolution,
since calls on different paths touch different files. Two documents make a revision that comes back
(d1, d2, d1) possible, which is what unconditioned re-application needs. One out-of-band edit reaches a call
before the census, between census and read, and between its check and its landing. The hub's bounds are scaled down (`RingCap`, `SubCap`) so that
the journal is trimmed, a channel is saturated and a reader falls out of the window within the events
allowed; the payload sizes include one that exceeds the byte bound alone. A cache of one outcome is
full at the second key, and three changes are enough for a batch, another that undoes it and the first
again; two are enough for a reader's copy to be outrun by two writers. In `Client`, one change by a third party beside a
second frontend's own is enough for the document to leave and regain a revision between two exchanges.
Readers share nothing but the journal, and a broadcast looks at
each channel by itself, so one reader is enough in `Hub` and leaves room for a reader that is reset after a restart,
loses its connection again and resumes. In `Reads`, the grids are of different extents and one is ragged, references
lie inside, across and beyond them and are written both ways; two changes put a delta before and one after a fetch.
In `Server`, two servers meet at every step of the registration, and two requests between the two additions.
Before a crash, fewer changes are needed than after it (`MaxEarlier`): one gives a resume point, a copy and a change whose announcement is lost.
`MaxElsewhere`, `MaxEvents`, `MaxFaults`, `MaxCommits`, `MaxEarlier`, `MaxCrashes`, `MaxOob`, `MaxChanges`, `MaxClock` and
`MaxMillis` are the only bounds and stand in the guards of the actions they bound.

**Deadlock.** `Store` and `Client` never stop. `Hub`, `Handler`, `Reads` and `Server` rest when their bounds on events,
changes and requests are spent, and their configurations say so.

**Fairness.** In `Store`, a call that is running goes on (a goroutine that is not blocked is scheduled),
and a call that keeps asking for the lock gets it: `sync.Mutex` goes into starvation mode after a
millisecond and hands itself to the longest waiter, hence strong fairness of `Lock`. In `Hub`, a stream
that has something to write writes it, a reader whose connection is gone comes back (as `EventSource`
does unasked, until it is answered an error: `FeedGet` may refuse, and a refused reader is left so), a request that found the document is
subscribed, and a reader that was told to fetch does (strongly fair, since it may do so only while it has a stream and streams end); connections can be lost only `MaxFaults` times, as a
reader that is cut off for ever cannot catch up. In `Handler`, an accepted request runs to its response
and the stream goes on. In `Server`, a launch goes on, gets the registry's mutex if it keeps asking
(starvation mode again), a stream's handler flushes what it wrote and a returned request is counted. Nothing is
assumed about requests or out-of-band edits ever arriving. `Client` and `Reads`
have no fairness: its properties are safety, since an exchange that hangs is the caller's context's affair.

## 4. What the runs found

Five runs contradict what the code says of itself; `PROJECT.json` quotes the sentences.

* *Events out of order* (`handler_order`, `write.go:97-103`). The change is made under the store's lock and
  announced under the hub's. Two handlers can do the first in one order and the second in the other.
  A reader whose copy happens to match the older event's base folds it last and keeps a document
  that the server no longer has. The order is all that is missing: in `handler_feed`, every behaviour in
  which the events entered the journal in the order of their changes leaves the reader with the
  document (`ConvergesInOrder`), over deletions, recreations and reconnections.
* *The idempotency window* (`handler_applied_twice`, `replay.go:47`). The cache is asked before and told after
  the batch runs. A retry that overlaps its original is refused as stale, or, if another edit has
  restored the base, applied a second time. When no two requests of one key overlap
  (`handler_retry`) the cache keeps its promise, even as it overflows.
* *Resumption over a restart* (`hub_restart`, `replayfeed.go:23-24`). Numbering restarts from one, so an old
  resume point is rejected only until the new journal has grown past it. A reset does not end this: its frame
  carries no id (`stream.go:24`), so a reader that was reset and has fetched keeps the old resume point until an event
  arrives, and may be resumed by it on its next connection. `SkipsOnlyDatedOrLate` and `CaughtUp` show that
  apart from this a reader loses an event only by coming back to a deleted document, or by having fetched before it subscribed (below).
* *A stream for a document that is gone* (`handler_stream`, `read.go:54-58`). The existence check and the
  subscription are two steps; a deletion announced in between precedes the subscription, is not
  sent to a fresh reader, and so never ends its stream.

* *A batch that landed and was not believed* (`client_apply`, `client.go:77-88`). `Apply` reads, then posts on the
  caller's revision, and does not ask whether it read that revision. If another writer restores it in
  between, the server's change is right and the local fold is of another state: the caller is told that
  the server is unavailable, or, when both folds agree, is given a wrong `Old`. What the local fold was
  written for does hold: the `New` of a successful batch is never another batch's (`SuccessIsTrue`).

Three smaller differences between the adapters are kept out of `Conforms` by name: a zero precondition on
a refused path (precondition against missing), the empty revision, which makes a malformed `If-Match` (unavailable
against precondition), and `Put`, which reads back and so may show another writer's document, or report
its deletion as its own failure, when it is not alone. `Conforms` also says nothing once the server has failed on its own account (`faulted`), and that
includes a stored document that does not load: the server answers 500 and the client reports it as unavailable, where the embedded port names
the corruption. Two more differences are outside `Client` altogether: `url.JoinPath` decodes percent escapes (`transport.go:90`), so that a valid name
that holds one, such as `a%20b.tsvt`, addresses another document through the remote adapter than through the embedded one; and the limit on request bodies,
by which the server refuses a put or a batch that the embedded port would accept.

A reader without a resume point is owed no backlog: "it has just fetched the document" (`replayfeed.go:15-17`). What is published between that fetch and
the subscription is in neither; only a fetch made *after* the subscription stands covers it. `Hub` has readers of both kinds (`Early`), and
`SkipsOnlyDatedOrLate` and `CaughtUp` except those whose copy was really outrun. The readers of `Handler` and `Reads` fetch after
subscribing, and `ConvergesInOrder` and `ValuesTrack` hold for those.

`writeEvent` makes a data line of each line of a payload, "as the SSE format defines" (`stream.go:63-64`), and takes a newline for the only end of a
line (`stream.go:82`). The format has a carriage return end one too, so of a batch that holds one (`announce` sends the body as it came, `write.go:110-112`) a reader
loses what follows on that line. Without its condition on the payload, `EventsIntact` is violated in `reads`.

Met while modelling, and not contradicting any document of the repository: an interrupt is caught by `run` and heeded
by nobody (`main.go:75`, `:128`), so it no longer stops the server; a request whose handler panics is neither
logged nor counted (`observe.go:111-112`); a `deleted` frame has no data line, so `EventSource` moves its resume point and
shows its page nothing; the tag of a computed answer says nothing of `--max-cells` (`read.go:142`); deltas of a
volatile sheet leave out what time alone changed (`write.go:118`); a request for the feed is served the whole document's
feed whatever reference or pin it has (`read.go:22`); `text/csv, */*` is refused without the compute plane although the
source would be acceptable, as the rule of `read.go:62-64` has it.

## 5. The proofs

`StoreProofs` proves, for any sets of names, documents, revisions, requests and threads that satisfy
the named assumptions of `Documents` and `Store`:

* `Invariance`: `Spec => []Inv`, the inductive invariant described below.
* `TypeCorrect`: `Spec => []TypeOK`.
* `BudgetAlwaysHeld`: `Spec => []BudgetHeld`, whatever is done to the files from outside.
* `DocumentsStayLoadable`: `Spec => StaysLoadable`, an action property, under the same conditions.
* `DecisionsStand`: `Spec => []DecisionStands`.
* `ImplementsPort`: `Spec => IsDocumentPort`: the store implements the abstract port, for any number of edits from
  outside.

The argument is one inductive invariant, `Inv`: `TypeOK`; `Open(t)`, what a call at each step still knows of
its request (a planned mutation is not a get, an answered call has an answer); `Locked(t)`, that exactly the
steps of `Holding` own the lock, so two calls are never inside; `Planned(t)`, that what is to be written came
from the bounded parse or the fold and is within budget, and that a staged file is its whole text; and
`Bounded(t)`. None of the listed properties is inductive by itself: that a stored file loads depends on the
staged text being complete, which depends on nobody else staging meanwhile, which depends on the lock.
`DecisionsStand` needs one part more, `Stands(t)`, which is claimed only while `oob = 0`; `OobGrows` says that
once it is not it stays so. There is one
lemma per group of actions that change the state alike (`FinishKeeps`, `FailKeeps`, `AdvanceKeeps`,
`LandingKeeps`, ...), so the step theorem is a list of cases.

The refinement rests on `Stands` too: a mutation decides on what it loaded and takes effect at its rename or
removal, so the instant of its effect is a true instant of the contract only because what it loaded is still
there. The mapping shows what is on disk through `Loaded` and a call's status through its step. `Stutters`,
`Refuses` and `Succeeds` state when a step of the store is a stutter, a refusal or an effect of the port;
`RejectionIsTrue`, `LoadingIsTrue` and `CheckingIsTrue` show that every refusal names a reason that holds at
that instant, `LandingIsTrue` and `GetIsTrue` that every result is the contract's; `StepIsPortStep` collects
them. A call that an edit has overtaken, that is whose file is no longer what it loaded, is the one case the port
would not allow (a file edited between load and rename is overwritten), and `Overtaken` names it.

`ClientProofs` does the same for the remote adapter, from the assumptions of `Documents` and `Client` alone:

* `TypeCorrect`, `SuccessesAreTrue`, `RefusalsAreTrue` and `UndisturbedConforms`: `Spec => []TypeOK`,
  `[]SuccessIsTrue`, `[]RefusalIsTrue` and `[]Conforms`, for any number of frontends, documents and batches.

Its invariant says, per call, what the call still knows at each exchange: `Watches` (what is served now is
among what it has seen, and alone so if nobody else wrote), `Tracks` (nothing has landed before the mutation is
sent; afterwards what landed is the effect of the request, and the server's tag and status describe it),
`LandedStands` and `HasRead` (if alone, what landed is what is served, and what `Apply` read is what it
changed) and `Truthful`, the three properties of one call. That a success is true when *not* alone comes down to
one step of `VerifyKeeps`: two documents of one revision are the same document (`RevisionAssumption`). There
is one lemma for a call whose entries do not move (`BystanderKeeps`), one for an answer that changes nothing
(`AnswerKeeps`), one for a change that lands (`LandedEntries`, `OthersNotice`) and one per action.

`ServerProofs` proves `TypeCorrect` and `NeverPanics`, `Spec => []TypeOK` and `[]NoPanic`, for any servers, prefixes and
requests. `NoPanic` is not inductive: it needs `Alone`, that exactly the stages between `Lock` and `Unlock` own the
registry, and `StillMissing`, that a name a server missed is still missing when it publishes. Requests touch
nothing of this (`RequestsTouchNoLaunch`), so the cases that matter are the stages of a launch.

`MetricsAreTrue` is `Spec => []MetricsMatchWire`. Its invariant adds to these: `Handed` (under a name is a map that a server of its prefix made, and every server that is up counts
into the maps under its names, so into those of whoever came first), `Told` (what is recorded is what the client was
sent), `Tallies` (each published map is the sum over the requests that have come to be counted into it, statuses
by number and latencies by length) and `Untouched` (a map that is not published has counted nothing, or a publication
would show numbers of nobody's requests). `OneName` shows that no map is under two names, so an addition is seen
once (`AddsThere`). Sums are cardinalities of sets of pairs in the model, and `SpentGrows` does their arithmetic.

`HubProofs` proves, for any readers, payload sizes, caps and bounds:

* `TypeCorrect`, `JournalIsTail`, `StreamsHaveNoGap`: `Spec => []TypeOK`, `[]RingIsTail` and `[]NoGap`; `TypeOK` says of each
  channel that it never holds more than `SubCap`, since a broadcast closes a full one instead of waiting for room;
* `ResetsAreNeeded`: `Spec => ResetOnlyWhenLost`;
* `FollowsOrRefetches`: `Spec => SkipsOnlyDatedOrLate`: each step of the hub is a step of `Feed` or a stutter for every reader,
  but for a reader that is `Dated` or `late`. `hub_restart` refutes the same without the exceptions, so the first is needed.

`RingIsTail` is the part about the journal: the running byte count agrees with the payloads after any trimming because
the payload of a sequence is the sum of those of its two parts (`PayloadOfParts`). `NoGap` is not inductive. `Inv` adds,
per reader, `Runs` (what is still to be sent is a run of consecutive events that were published, up to the newest
while the hub knows the stream), `Knows` (a copy is of what was published and has what was received unless it is stale,
and a resume point is from this run of the server or dated) and `Joins` (what is to be sent begins no later than the
copy ends, unless the reader is `late` or dated). A dropped reader keeps its run and loses only its promise to reach the newest event. There is one lemma per
action and reader, and `OthersServed` for readers an action does not concern.

`HandlerProofs` proves, for any workers, keys, workload, cache size and bounds:

* `TypeCorrect`: `Spec => []TypedAndBounded`, the bound of the cache among it;
* `FeedTellsOnce` and `ReadersConverge`: `Spec => []AnnouncedOnce` and `[]ConvergesInOrder`;
* `AppliesOnce` and `RetriesAreHonoured`: `Spec => []AppliedOnce` and `[]RetryHonoured` under `Concurrency = "distinct"`, the
  hypothesis of `handler_retry`; without it the first is false, as `handler_applied_twice` shows.

`TypeCorrect` rests on `Sound`: the types with the shapes `TypedAndBounded` leaves out, and `Stands(w)`, that a request which has
changed the document still names its change in `commits`. `AnnouncedOnce` needs to know what is *not* announced
yet: `Owes(w)` says that a change before its announcement is in no event and belongs to one worker, `NothingLost`
that every change is in an event or in such a worker's hands. `ConvergesInOrder` needs `LastIsHeld`, that the last change left
what is held, and `Current`: with events in order, a reader that has been told of the last change has its
result, since what follows it in the journal is no change. This has two parts, because a reader outlives its connections and the server's
restarts with its copy and its resume point: `Followed` for what an open stream has come to, and `Resumable` for what the resume point
will be taken to mean when the reader comes back, which holds only if it is of this process. A resume by any other makes the reader `misled`, until
it fetches or is told of a change. For the cache, `Idempotent` says that one worker at most has a key
(`OneOfAKey`), that what landed under a key is known to the cache or about to be told it by that worker (`Known`), and that
a batch calls the port only if the cache does not know its key (`Answering`), which is what two overlapping requests break.

`ComputeProofs` is about the operators on grids of any extent and raggedness: that there is a widest row
(`WidestRowIsWidest`, by the least upper bound of the widths), what `Clipped` leaves of a span, and `DeltaTransforms`: applying
`CellsDelta(old, next)` to what `old` shows gives what `next` shows, cells that vanish or lie beyond the other grid included.
That is the step `ValuesTrack` takes with each event.

`FramesProofs` proves `FramesAreWhole`: of an event of any size, with an id or without, a reader makes the event it was written from,
but for a newline at the end of its payload and, if a line holds a carriage return, for what follows it there (`UpToReturn`). What a recursive function is worth at the end of a sequence is induction over
data, and the library's induction theorems cannot be used; but a set of numbers has a least element (`WFMin`, which takes
sets), and `UpTo` is induction for a *set*: `{n \in 0..N : ...}` is named in each proof and shown to contain 0 and each
successor. `Recursion` shows in the same way that a function with given base and step exists, so that `CHOOSE` in the
recursive definitions of `Frames` has something to choose. On these rest `ScannedIs` and `JoinedIs` (what the loops are after
each token), `SplitJoins` (the lines joined are the payload) and `EventOfIs` (what the lines read so far have made of
an event). This is why `Frames` defines its loops as recursive functions.

`ReadsProofs` proves, for any documents, deployments, engine values and requests:

* `NegotiatesFairly`: `Spec => []Negotiated`, which is inductive but for the types of `Placed`;
* `ServesOneRevision`, `TagsIdentifyBytes`, `FragmentsAreExact`: `Spec => []OneRevision`, `[]TagIdentifies` and
  `[]FragmentExact`;
* `TypesHold`, `EventsAreIntact` and `ValuesAreTracked`: `Spec => []TypeOK`, `EventsIntact` and `[]ValuesTrack`, about the reader that
  follows the feed.

The three about answers follow from `IInv`, of which none is a part. `Faithful` says what an answered representation is: the snapshot's source,
its grid at some time up to now, or a fragment of that, under the validator of its type. It survives the document changing
because it speaks of the snapshot, and time passing because "up to now" only grows; a restart ends the request.
`Cached` says what a cache can have kept: a document's source under its revision, or values under revision
and type only if the document is not volatile, so that any time gives the same. With both, equal tags are of one document
and one type, hence of one body. `FragmentShowsAll` does the geometry: a clipped side is never empty and never longer than
the grid, and what is clipped of it lies outside (`ClippedSide`).

For the reader of the feed the invariant is `FollowInv`, the conjunction of five, of which the last needs all the others:

* `Feeding`: what is pending and what the journal holds is of changes that were made, in the order of their numbers in `pending`, each event
  named and worded as `Announce` and `AnnounceComputed` have it; a computed event says the delta of two documents' values.
* `Streaming`: what is on the wire is the frame of the event numbered `sent`, or a reset's, or nothing, and the reader's resume point is the event before
  it, or it is being reset. Values hold no line end, so the payload of a computed event has no
  carriage return (`ComputedUnbroken`) and comes whole. With `FramesAreWhole` this gives what the reader is handed, and so `EventsIntact` and the type of
  `lastId`, which is what the lines of a frame made of it.
* `InOrder`: while `ordered`, events with values stand in the journal by the numbers of their changes, before all that are pending.
* `DeltasSettle`: a value that a delta announces, of a change later than the last unsteady one and not followed by a reset, is the
  document's value at that address, unless a later delta still alters it. So the last word on an address is right.
* `CopySettles`: for a reader that will be told of what follows (`Resumes`), with no reset to come, each address of its copy shows the
  document's value or is altered by a delta still to come (`Place` on).

`ValuesTrack` says that nothing to come means no difference, and is not inductive in any weaker form: a reader that fetches and then takes a
delta *older* than its fetch does move away from the document, and only the deltas after it bring it back. `DeltaSettles` is that
step, at one address: `DeltaTransforms` says what the copy shows then, and `DeltasSettle` that it is the last word or that a later one is
to come. A resume keeps the copy because what follows its resume point is all still in the journal (`Resumes`).

Looking for `CopySettles` showed `ValuesTrack` to be false of an earlier form of this model beyond the instance TLC had checked:
that model let a reader that had been told its resume point was gone be resumed from that point by a later connection, which
the hub never does, and looked only at the documents of what was to come, so that a volatile document between two that were not went
unseen. `gone` and `unsteady` state what the code has it be.

The assumptions of these modules are the named `ASSUME`s of the modules they extend, which TLC evaluates on its instances. The
constant functions standing for the engine (parse, text, fold, revision, computed values) are among them: `EngineAssumption` says
that computed values are rows of strings and that a reference consists of addresses or is refused.

**Only model-checked.** Liveness (`Answered`, `CaughtUp`, `AllAnnounced`, `FlushedArrives`, `StartsUp`) is beyond this prover.
Every invariant and action property that the passing runs check is a theorem. The properties that runs refute (`NeverSkips`, `ReaderConverges`,
`StreamEnds`, `ApplyReportsItsTransition`, `AppliedOnce` with keys that overlap) are false, and what is true instead is proved
or, for `StreamEnds`, not claimed.

## 6. Not modelled, and the plan

Not modelled: the text of an Accept header before it is a set of types; the rendering of a grid as TSV or CSV; the
JSON of a problem document; the request log, its levels and the byte count only it shows; the flag parser and the
resolution of `--max-cells` to engine limits; the directory tree below `Target`, and with it the documents whose paths
are another's staging name; the limit on request bodies, which only the remote adapter meets; packaging; and the engine
itself. These are conversions and configuration, of which no property here depends on more than the outcome. Power loss
is not modelled: the code does not sync, and what survives is the filesystem's affair. Methods other than those of
the sheet API are one refused method.

What would come next: `Handler` against `Feed`. That its journal is followed without gaps is what `HubProofs` shows of the
hub; a mapping between the two would replace the assumption, and the same for the journal of `Reads`. After that, the text of
Accept headers.
