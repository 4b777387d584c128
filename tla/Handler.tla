------------------------------- MODULE Handler -------------------------------
(***************************************************************************)
(* The HTTP binding of one document (api/handler.go, api/write.go,         *)
(* api/replay.go, api/read.go): mutating requests call the port, remember  *)
(* their outcome and announce it in separate unlocked steps, while a       *)
(* reader follows the feed.  The port is its contract, one instant per     *)
(* call (Documents); the feed is a journal followed without gaps (Feed).   *)
(***************************************************************************)
EXTENDS Documents, Naturals, Sequences, FiniteSets

CONSTANTS
  Worker,        \* goroutines serving mutating requests
  Key,           \* idempotency keys
  ReplayCap,     \* replayCap
  Compute,       \* whether the compute plane is served
  Workload,      \* the mutating requests clients send
  Concurrency,   \* "distinct" keys in flight, or "any"
  Following,     \* whether a reader follows the feed
  MaxCommits,    \* bound on changes that land after the last restart
  MaxEarlier,    \* bound on those between two restarts before it
  MaxCrashes     \* bound on restarts

Form == {"wellformed", "unsupported", "unconditioned", "malformed", "toolong", "badedits"}

(* A request to change the document, and the call it asks for. *)
HttpRequest ==
  [form : Form, key : Key \cup {Nothing}, call : {c \in Requests : c.op # "get"}]

ASSUME WorkloadAssumption == Workload \subseteq HttpRequest
ASSUME KeyAssumption == Nothing \notin Key
ASSUME HandlerAssumption ==
  /\ ReplayCap \in Nat \ {0} /\ Compute \in BOOLEAN /\ Following \in BOOLEAN
  /\ Concurrency \in {"distinct", "any"}
  /\ MaxCommits \in Nat /\ MaxEarlier \in 0..MaxCommits /\ MaxCrashes \in Nat

VARIABLES
  held,      \* what the port serves
  seen,      \* replayCache.seen: outcomes by key
  step,      \* where each worker's request stands
  req,       \* its request
  resp,      \* the response it will write
  done,      \* the change it made: what it was, what it is, and its place in commits
  journal,   \* the events broadcast since the process started
  stream,    \* where the reader's connection stands
  joined,    \* the events broadcast when it connected, replayed to it as far as owed
  cursor,    \* the event its connection has come to
  lastId,    \* the id of the last event it received, 0 for none
  dated,     \* whether that was of an earlier process
  misled,    \* whether it was resumed by such an id and has not been set right since
  copy,      \* the document as the reader has it; Nothing until it fetches
  commits,   \* the changes that landed since the process started, in order
  landed,    \* per key, the batches landed under it that the cache has not forgotten
  crashes

reader == <<lastId, dated, misled, copy>>
feed == <<stream, joined, cursor, reader>>
work == <<step, req, resp, done>>
vars == <<held, seen, work, journal, feed, commits, landed, crashes>>

NoChange == [old |-> Nothing, new |-> Nothing, of |-> 0]
NoResponse == [status |-> 0, etag |-> Nothing]

Init ==
  /\ held \in Resident \cup {"missing"}
  /\ seen = <<>>
  /\ step = [w \in Worker |-> "idle"]
  /\ req = [w \in Worker |-> Nothing]
  /\ resp = [w \in Worker |-> NoResponse]
  /\ done = [w \in Worker |-> NoChange]
  /\ journal = <<>>
  /\ stream = "away" /\ joined = 0 /\ cursor = 0
  /\ lastId = 0 /\ dated = FALSE /\ misled = FALSE /\ copy = Nothing
  /\ commits = <<>>
  /\ landed = [k \in Key |-> <<>>]
  /\ crashes = 0

Goto(w, label) == step' = [step EXCEPT ![w] = label]
Op(w) == req[w].call.op

(* Who may be served together: the bound that tells the runs apart. *)
Admitted(r) ==
  Concurrency = "distinct" /\ r.key # Nothing =>
    \A w \in Worker : step[w] # "idle" => req[w].key # r.key

Accept(w) ==
  /\ step[w] = "idle"
  /\ \E r \in Workload : Admitted(r) /\ req' = [req EXCEPT ![w] = r]
  /\ Goto(w, "accepted")
  /\ UNCHANGED <<held, seen, resp, done, journal, feed, commits, landed, crashes>>

Answered(w, status, etag) ==
  /\ resp' = [resp EXCEPT ![w] = [status |-> status, etag |-> etag]]
  /\ Goto(w, "replying")
  /\ UNCHANGED <<held, seen, req, done, journal, feed, commits, landed, crashes>>

Pass(w, label) ==
  /\ Goto(w, label)
  /\ UNCHANGED <<held, seen, req, resp, done, journal, feed, commits, landed, crashes>>

(* What a request is refused for before its batch is looked at. *)
FormStatus ==
  [unsupported |-> 415, unconditioned |-> 428, malformed |-> 400, toolong |-> 413]

RefuseForm(w) ==
  /\ step[w] = "accepted"
  /\ req[w].form \in DOMAIN FormStatus
  /\ Answered(w, FormStatus[req[w].form], Nothing)

(* post asks the cache under its lock, and acts on the answer after it;   *)
(* bytes that are no batch are not those of one.                          *)
Replayed(w) ==
  /\ step[w] = "accepted"
  /\ req[w].form \notin DOMAIN FormStatus
  /\ Op(w) = "apply" /\ req[w].key \in DOMAIN seen
  /\ LET prior == seen[req[w].key] IN
       IF req[w].form = "badedits" \/ prior.body # req[w].call.batch
       THEN Answered(w, 422, Nothing)
       ELSE Answered(w, 204, prior.rev)

NotReplayed(w) ==
  /\ step[w] = "accepted"
  /\ req[w].form \notin DOMAIN FormStatus
  /\ ~(Op(w) = "apply" /\ req[w].key \in DOMAIN seen)
  /\ Pass(w, "calling")

RefuseEdits(w) ==
  /\ step[w] = "calling"
  /\ Op(w) = "apply" /\ req[w].form = "badedits"
  /\ Answered(w, 400, Nothing)

(* errorMap: the status of a port's refusal; what it does not list is 500. *)
ErrorStatus(why) ==
  CASE why = "missing" -> 404
    [] why = "precondition" -> 412
    [] why = "exists" -> 409
    [] why = "toolarge" -> 413
    [] why \in {"syntax", "base", "refused"} -> 422
    [] OTHER -> 500

(* The change lands; remembering and announcing it are still to come. *)
CallLands(w) ==
  /\ step[w] = "calling"
  /\ req[w].form # "badedits"
  /\ Len(commits) < IF crashes = MaxCrashes THEN MaxCommits ELSE MaxEarlier
  /\ \E h2 \in Resident \cup {"missing"} :
       /\ Effect(req[w].call, held, h2)
       /\ held' = h2
       /\ commits' = Append(commits, [old |-> held, new |-> h2])
       /\ done' = [done EXCEPT ![w] = [old |-> held, new |-> h2, of |-> Len(commits) + 1]]
       /\ landed' =
            IF Op(w) # "apply" \/ req[w].key = Nothing THEN landed
            ELSE [landed EXCEPT ![req[w].key] = Append(@, [new |-> h2, body |-> req[w].call.batch])]
  /\ Goto(w, IF Op(w) = "apply" /\ req[w].key # Nothing THEN "remembering" ELSE "announcing")
  /\ UNCHANGED <<seen, req, resp, journal, feed, crashes>>

CallRefused(w) ==
  /\ step[w] = "calling"
  /\ req[w].form # "badedits"
  /\ \E why \in Reason :
       TrueReason(req[w].call, held, why) /\ Answered(w, ErrorStatus(why), Nothing)

(* Slip: the cache holds one outcome more than its bound. *)
RememberOneMore(w) ==
  /\ step[w] = "remembering"
  /\ seen' = [k \in DOMAIN seen \cup {req[w].key} |->
                IF k = req[w].key
                THEN [rev |-> Revision[done[w].new], body |-> req[w].call.batch] ELSE seen[k]]
  /\ Goto(w, "announcing")
  /\ UNCHANGED <<held, req, resp, done, journal, feed, commits, landed, crashes>>

(* Slip: a full cache takes no more outcomes. *)
RememberUnlessFull(w) ==
  LET outcome == [rev |-> Revision[done[w].new], body |-> req[w].call.batch]
      full == Cardinality(DOMAIN seen) >= ReplayCap
  IN /\ step[w] = "remembering"
     /\ seen' = IF full THEN seen
                 ELSE [k \in DOMAIN seen \cup {req[w].key} |->
                        IF k = req[w].key THEN outcome ELSE seen[k]]
     /\ Goto(w, "announcing")
     /\ UNCHANGED <<held, req, resp, done, journal, feed, commits, landed, crashes>>

(* Slip: the revision remembered is the one the batch was based on. *)
RememberBase(w) ==
  /\ step[w] = "remembering"
  /\ seen' = [k \in {req[w].key} |->
                [rev |-> Revision[done[w].old], body |-> req[w].call.batch]]
  /\ landed' = [k \in Key |-> IF k \in DOMAIN seen \ {req[w].key} THEN <<>> ELSE landed[k]]
  /\ Goto(w, "announcing")
  /\ UNCHANGED <<held, req, resp, done, journal, feed, commits, crashes>>

(* remember: a full cache is emptied before the outcome is added. *)
Remember(w) ==
  LET full == Cardinality(DOMAIN seen) >= ReplayCap
      kept == IF full THEN {} ELSE DOMAIN seen
      outcome == [rev |-> Revision[done[w].new], body |-> req[w].call.batch]
  IN /\ step[w] = "remembering"
     /\ seen' = [k \in kept \cup {req[w].key} |-> IF k = req[w].key THEN outcome ELSE seen[k]]
     /\ landed' = [k \in Key |-> IF k \in DOMAIN seen \ (kept \cup {req[w].key})
                                 THEN <<>> ELSE landed[k]]
     /\ Goto(w, "announcing")
     /\ UNCHANGED <<held, req, resp, done, journal, feed, commits, crashes>>

(* The event each operation broadcasts once its change has landed. *)
EventName == [apply |-> "changed", put |-> "reset", delete |-> "deleted"]

(* Slips: the event is built from what the port serves by now, or with base *)
(* and result exchanged.                                                    *)
BroadcastReadBack(w, name) ==
  journal' = Append(journal, [name |-> name, old |-> done[w].old, new |-> held, of |-> done[w].of])
BroadcastSwapped(w, name) ==
  journal' = Append(journal, [name |-> name, old |-> done[w].new, new |-> done[w].old, of |-> done[w].of])

Broadcast(w, name) ==
  journal' = Append(journal, [name |-> name, old |-> done[w].old, new |-> done[w].new, of |-> done[w].of])

Success(w) ==
  CASE Op(w) = "put" -> [status |-> IF done[w].old = "missing" THEN 201 ELSE 200,
                         etag |-> Revision[done[w].new]]
    [] Op(w) = "apply" -> [status |-> 204, etag |-> Revision[done[w].new]]
    [] Op(w) = "delete" -> [status |-> 204, etag |-> Nothing]

(* Slip: a replaced document is not announced. *)
AnnounceEditsOnly(w) ==
  /\ step[w] = "announcing"
  /\ IF Op(w) = "put" THEN UNCHANGED journal ELSE Broadcast(w, EventName[Op(w)])
  /\ resp' = [resp EXCEPT ![w] = Success(w)]
  /\ Goto(w, IF Op(w) = "apply" /\ Compute THEN "computing" ELSE "replying")
  /\ UNCHANGED <<held, seen, req, done, feed, commits, landed, crashes>>

Announce(w) ==
  /\ step[w] = "announcing"
  /\ Broadcast(w, EventName[Op(w)])
  /\ resp' = [resp EXCEPT ![w] = Success(w)]
  /\ Goto(w, IF Op(w) = "apply" /\ Compute THEN "computing" ELSE "replying")
  /\ UNCHANGED <<held, seen, req, done, feed, commits, landed, crashes>>

(* The recomputed cells follow, unless none changed. *)
AnnounceComputed(w) ==
  /\ step[w] = "computing"
  /\ Broadcast(w, "computed") \/ UNCHANGED journal
  /\ Goto(w, "replying")
  /\ UNCHANGED <<held, seen, req, resp, done, feed, commits, landed, crashes>>

(* The response is written, or lost with the connection: the same here. *)
Respond(w) ==
  /\ step[w] = "replying"
  /\ Goto(w, "idle")
  /\ req' = [req EXCEPT ![w] = Nothing]
  /\ resp' = [resp EXCEPT ![w] = NoResponse]
  /\ done' = [done EXCEPT ![w] = NoChange]
  /\ UNCHANGED <<held, seen, journal, feed, commits, landed, crashes>>

ReaderOnly == UNCHANGED <<held, seen, work, journal, commits, landed, crashes>>

Hangup == stream' = "away" /\ joined' = 0 /\ cursor' = 0

(* feed: the document must exist, and is subscribed to after that is known. *)
FeedGet ==
  /\ Following /\ stream = "away" /\ held # "missing"
  /\ stream' = "found"
  /\ UNCHANGED <<joined, cursor, reader>> /\ ReaderOnly

(* A reader without a resume point joins at the end and fetches.  Another  *)
(* resumes, whichever process numbered its resume point, or is reset if    *)
(* that is beyond the journal or no longer in it (Hub says when).          *)
FeedSubscribe ==
  /\ stream = "found"
  /\ joined' = Len(journal)
  /\ \/ /\ lastId = 0
        /\ stream' = "open" /\ cursor' = Len(journal) /\ copy' = Nothing /\ UNCHANGED misled
     \/ /\ lastId \in 1..Len(journal)
        /\ stream' = "open" /\ cursor' = lastId /\ misled' = (misled \/ dated) /\ UNCHANGED copy
     \/ /\ lastId > 0
        /\ stream' = "reset" /\ cursor' = Len(journal) /\ UNCHANGED <<copy, misled>>
  /\ UNCHANGED <<lastId, dated>> /\ ReaderOnly

(* The reset frame, which carries no id. *)
FeedReset ==
  /\ stream = "reset"
  /\ stream' = "open" /\ copy' = Nothing
  /\ UNCHANGED <<joined, cursor, lastId, dated, misled>> /\ ReaderOnly

FeedFetch ==
  /\ stream = "open" /\ copy = Nothing
  /\ copy' = held /\ misled' = FALSE
  /\ UNCHANGED <<stream, joined, cursor, lastId, dated>> /\ ReaderOnly

(* The reader folds a batch that is based on its copy and otherwise        *)
(* fetches the document, as it does for a replaced one.  A deletion ends   *)
(* the stream it is live on, not one it is replayed to.                    *)
FeedEvent ==
  /\ stream = "open" /\ copy # Nothing /\ cursor < Len(journal)
  /\ LET event == journal[cursor + 1] IN
       /\ lastId' = cursor + 1 /\ dated' = FALSE
       /\ misled' = (misled /\ event.name = "computed")
       /\ copy' = CASE event.name = "computed" -> copy
                    [] event.name = "deleted" -> "missing"
                    [] event.name = "changed" /\ event.old = copy -> event.new
                    [] OTHER -> held
       /\ IF event.name = "deleted" /\ cursor >= joined
          THEN Hangup
          ELSE cursor' = cursor + 1 /\ UNCHANGED <<stream, joined>>
  /\ ReaderOnly

(* The connection is lost; the reader keeps what it has. *)
FeedLost ==
  /\ stream # "away"
  /\ Hangup
  /\ UNCHANGED reader /\ ReaderOnly

FeedStep == FeedGet \/ FeedSubscribe \/ FeedReset \/ FeedFetch \/ FeedEvent

(* Requests, connections, cache and journal are lost; the document is not, *)
(* nor what the reader has, of which the resume point means nothing now.   *)
Crash ==
  /\ crashes < MaxCrashes
  /\ crashes' = crashes + 1
  /\ seen' = <<>> /\ landed' = [k \in Key |-> <<>>]
  /\ step' = [w \in Worker |-> "idle"]
  /\ req' = [w \in Worker |-> Nothing]
  /\ resp' = [w \in Worker |-> NoResponse]
  /\ done' = [w \in Worker |-> NoChange]
  /\ journal' = <<>> /\ commits' = <<>>
  /\ Hangup
  /\ dated' = (lastId > 0)
  /\ UNCHANGED <<held, lastId, misled, copy>>

Serve(w) ==
  \/ RefuseForm(w) \/ Replayed(w) \/ NotReplayed(w) \/ RefuseEdits(w)
  \/ CallLands(w) \/ CallRefused(w) \/ Remember(w)
  \/ Announce(w) \/ AnnounceComputed(w) \/ Respond(w)

Next ==
  \/ \E w \in Worker : Accept(w) \/ Serve(w)
  \/ FeedStep \/ FeedLost
  \/ Crash

Spec == Init /\ [][Next]_vars

(* A request once accepted runs to its response, and a stream keeps going. *)
FairSpec == Spec /\ WF_vars(FeedStep) /\ \A w \in Worker : WF_vars(Serve(w))
------------------------------------------------------------------------------
Change == [old : Doc \cup {"missing"}, new : Doc \cup {"missing"}]

(* Every variable holds a value of its kind, the cache within its bound    *)
(* (replay.go:31-32, :89-91).                                              *)
TypedAndBounded ==
  /\ held \in Doc \cup {"missing"}
  /\ DOMAIN seen \subseteq Key /\ Cardinality(DOMAIN seen) <= ReplayCap
  /\ \A k \in DOMAIN seen : seen[k] \in [rev : Rev, body : Batch]
  /\ step \in [Worker -> {"idle", "accepted", "calling", "remembering", "announcing",
                          "computing", "replying"}]
  /\ req \in [Worker -> HttpRequest \cup {Nothing}]
  /\ \A w \in Worker : resp[w].etag \in Rev \cup {Nothing}
  /\ \A w \in Worker : done[w].of \in 0..Len(commits)
  /\ \A i \in DOMAIN commits : commits[i] \in Change
  /\ stream \in {"away", "found", "reset", "open"}
  /\ joined \in 0..Len(journal) /\ cursor \in 0..Len(journal)
  /\ dated \in BOOLEAN /\ misled \in BOOLEAN
  /\ lastId \in Nat /\ (dated \/ lastId <= Len(journal))
  /\ copy \in Doc \cup {"missing", Nothing}

StateEvents == {i \in DOMAIN journal : journal[i].name # "computed"}

(* The feed tells of each change that landed at most once, as it happened, *)
(* of nothing else, and of recomputed cells only after the change that     *)
(* moved them (write.go:97-103, :108-121).                                 *)
AnnouncedOnce ==
  /\ \A i \in DOMAIN journal :
       /\ journal[i].of \in DOMAIN commits
       /\ commits[journal[i].of] = [old |-> journal[i].old, new |-> journal[i].new]
  /\ \A i, j \in StateEvents : journal[i].of = journal[j].of => i = j
  /\ \A i \in DOMAIN journal \ StateEvents :
       \E j \in StateEvents : j < i /\ journal[j].of = journal[i].of

(* Every change that landed is announced unless the process dies first.    *)
AllAnnounced ==
  \A n \in 1..MaxCommits :
    Len(commits) = n ~> \/ {journal[i].of : i \in StateEvents} = DOMAIN commits
                        \/ Len(commits) # n

(* A key lands its batch once for as long as the cache holds its outcome,  *)
(* however often it is sent and whatever batch it is sent with             *)
(* (replay.go:22-25).                                                      *)
AppliedOnce == \A k \in Key : Len(landed[k]) <= 1

(* Once a keyed batch has landed, every answer to it is the original one:  *)
(* the retry is never refused for the revision it itself replaced          *)
(* (replay.go:22-25).                                                      *)
RetryHonoured ==
  \A w \in Worker :
    /\ step[w] = "replying" /\ Op(w) = "apply" /\ req[w].key # Nothing
    /\ req[w].form = "wellformed" /\ landed[req[w].key] # <<>>
    /\ landed[req[w].key][1].body = req[w].call.batch
    => resp[w] = [status |-> 204, etag |-> Revision[landed[req[w].key][1].new]]

Quiet == \A w \in Worker : step[w] = "idle"

(* A reader that takes every event, folding what is based on its copy and  *)
(* fetching otherwise, ends up with the document: the feed replays the     *)
(* batches that made it (project.go:4-5).                                  *)
ReaderConverges ==
  Quiet /\ stream = "open" /\ copy # Nothing /\ cursor = Len(journal) => copy = held

(* It does if the changes are announced in the order they landed, whenever *)
(* it joined, fetched, lost its connection and came back, restarts of the  *)
(* server included, unless it was resumed by an id of before a restart and *)
(* told of no change since (write.go:97-103, :34, :134; read.go:54-59;     *)
(* replayfeed.go:23-33).                                                   *)
InOrder == \A i, j \in StateEvents : i < j => journal[i].of < journal[j].of
ConvergesInOrder == InOrder /\ ~misled => ReaderConverges

(* A stream does not outlive its document (stream.go:13-14).               *)
StreamEnds ==
  [](stream = "open" /\ held = "missing" => <>(stream # "open" \/ held # "missing"))
=============================================================================
