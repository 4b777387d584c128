-------------------------------- MODULE Reads --------------------------------
(***************************************************************************)
(* What clients read of one document (api/read.go, api/media.go,           *)
(* api/handler.go, api/problem.go): the source, computed grids and         *)
(* references under content negotiation, with the headers caches go by;    *)
(* and the feed's frames, followed by a reader that keeps the computed     *)
(* values.  Meanwhile the document changes, time passes, and the server    *)
(* restarts, perhaps deployed otherwise.  One client is observed: it asks  *)
(* or it follows.                                                          *)
(***************************************************************************)
EXTENDS Compute, Frames, SequencesExt

CONSTANTS
  Doc,          \* parsed documents; each stands for its revision too
  Volatile,     \* those whose values depend on the time
  Deployment,   \* the flags the server may run with: [plane : BOOLEAN, cap : Cap]
  MaxClock,     \* bound on time
  Computed,     \* [Doc -> [0..MaxClock -> [cap -> grid]]]: the engine's values
  Body,         \* [Doc -> texts of the batches that make it, as sequences of tokens]
  Asks,         \* the requests the client makes
  Role,         \* which clients are observed
  MaxChanges,   \* bound on changes of the document
  MaxFaults,    \* bound on restarts and lost connections together
  Nothing

ASSUME ReadsAssumption ==
  /\ Volatile \subseteq Doc /\ MaxClock \in Nat /\ MaxChanges \in Nat /\ MaxFaults \in Nat
  /\ Role \subseteq {"asks", "follows"}
  /\ \A d \in Doc \ Volatile : \A c, e \in 0..MaxClock : Computed[d][c] = Computed[d][e]
  /\ \A d \in Doc : \A b \in Body[d] :
       /\ b \in Seq({b[i] : i \in DOMAIN b})
       /\ \A i \in DOMAIN b \ {1} : <<b[i - 1], b[i]>> # <<Return, Return>>

(* What the port may answer in place of a document. *)
Unservable == {"missing", "corrupt", "toolarge"}

(* What problems are named after (problem.go). *)
Slugs == {"bad-request", "document-too-large", "internal", "not-acceptable", "not-found"}

ASSUME SentinelsAssumption ==
  /\ Nothing \notin Doc \cup Slugs /\ Doc \cap Unservable = {}
  /\ \A end \in {Newline, Return} :
       end \notin ({"base", "rev"} \X Doc) \cup ({"cell"} \X (Nat \X Nat) \X (STRING \cup {Empty}))

(* Under every deployment the engine makes a grid of a document, rows of   *)
(* values, and whatever it does not refuse of a reference is an address.   *)
ASSUME EngineAssumption ==
  /\ \A d \in Doc, time \in 0..MaxClock, f \in Deployment :
       Computed[d][time][f.cap] \in Seq(Seq(STRING))
  /\ \A a \in Asks : a.ref # Nothing =>
       a.ref \in Seq(Address \cup {BadRef}) /\ a.ref # <<>>

VARIABLES
  role,       \* what the observed client does
  held,       \* what the port serves
  clock,      \* Config.Clock
  deploy,     \* the flags the server runs with
  changes,    \* changes so far
  faults,     \* restarts and lost connections so far
  unsteady,   \* the number of the last change from or to a volatile document
  pc,         \* where the client's request stands
  ask,        \* the request
  snap,       \* the snapshot it is answered from
  ans,        \* the answer
  kept,       \* an answer with a tag that a cache kept, and what it answered
  pending,    \* changes landed and not fully announced, oldest first
  log,        \* the events broadcast since the server started
  conn,       \* where the follower's stream stands
  head,       \* the revision its subscription found
  joined,     \* the events broadcast when it subscribed
  sent,       \* the events written to it, replayed or live
  wire,       \* the lines of the frame on its way
  lastId,     \* the reader's last event id
  dated,      \* whether it is from before the last restart
  gone,       \* whether what follows it has left the journal
  got,        \* the event it was last handed on this connection
  copy,       \* the shown cells as the reader has them, Nothing until it fetches
  sure,       \* whether since then no volatile document passed, and no event unseen
  ordered     \* whether values and resets were announced in the changes' order

world == <<role, held, clock, deploy, changes, faults, unsteady>>
asking == <<pc, ask, snap, ans, kept>>
feed == <<pending, log, ordered>>
stream == <<conn, head, joined, sent, wire>>
reader == <<lastId, dated, gone, got, copy, sure>>
vars == <<world, asking, feed, stream, reader>>

GridOf(d, time) == Computed[d][time][deploy.cap]

NoAnswer == [status |-> 0, slug |-> Nothing, type |-> Nothing, tag |-> Nothing,
             cache |-> Nothing, body |-> Nothing]

Init ==
  /\ role \in Role
  /\ held \in Doc \cup {"missing"}
  /\ clock = 0 /\ changes = 0 /\ faults = 0 /\ unsteady = 0
  /\ deploy \in Deployment
  /\ pc = "idle" /\ ask = Nothing /\ snap = Nothing /\ ans = NoAnswer /\ kept = Nothing
  /\ pending = <<>> /\ log = <<>> /\ ordered = TRUE
  /\ conn = "away" /\ head = Nothing /\ joined = 0 /\ sent = 0
  /\ wire = <<>>
  /\ lastId = 0 /\ dated = FALSE /\ gone = FALSE /\ got = Nothing /\ copy = Nothing
  /\ sure = FALSE
------------------------------------------------------------------------------
(* Changes of the document, and what is broadcast of them. *)

Steady(d) == d \notin Volatile

Lands(kind, new) ==
  /\ changes < MaxChanges
  /\ changes' = changes + 1
  /\ held' = new
  /\ pending' = IF role = "follows"
                THEN Append(pending, [kind |-> kind, old |-> held, new |-> new, of |-> changes'])
                ELSE pending
  /\ unsteady' = IF Steady(held) /\ Steady(new) THEN unsteady ELSE changes'
  /\ sure' = (sure /\ Steady(held) /\ Steady(new))
  /\ UNCHANGED <<role, clock, deploy, faults, asking, log, ordered, stream,
                 lastId, dated, gone, got, copy>>

Post == held \in Doc /\ \E new \in Doc : Lands("changed", new)
Put == held \in Doc \cup {"missing"} /\ \E new \in Doc : Lands("reset", new)
Delete == held \in Doc /\ Lands("deleted", "missing")

(* A file may stop being servable behind the server's back. *)
OutOfBand ==
  /\ role = "asks"
  /\ \E found \in Unservable \ {held} : Lands("nothing", found)

Publish(name, data, change) ==
  log' = Append(log, [id |-> Len(log) + 1, name |-> name, data |-> data,
                      old |-> change.old, new |-> change.new, of |-> change.of])

BatchesOf(change) == IF change.kind = "changed" THEN Body[change.new] ELSE {<<>>}

(* The payload of the event a change is announced by (write.go:34, :111,   *)
(* :134): a batch is broadcast as it was sent.                             *)
Payload(change, body) ==
  CASE change.kind = "changed" ->
         <<<<"base", change.old>>, Newline, <<"rev", change.new>>, Newline>> \o body
    [] change.kind = "reset" -> <<<<"rev", change.new>>>>
    [] change.kind = "deleted" -> <<>>

Dropped(i) == SubSeq(pending, 1, i - 1) \o SubSeq(pending, i + 1, Len(pending))

(* Any of the requests whose change has landed may be the next to announce. *)
Announce(i) ==
  LET change == pending[i] IN
  /\ change.kind \in {"changed", "reset", "deleted"}
  /\ \E body \in BatchesOf(change) : Publish(change.kind, Payload(change, body), change)
  /\ pending' = IF change.kind = "changed" /\ deploy.plane
                THEN [pending EXCEPT ![i].kind = "computed"]
                ELSE Dropped(i)
  /\ ordered' = (ordered /\ (i = 1 \/ change.kind = "changed"))
  /\ UNCHANGED <<world, asking, stream, reader>>

(* The revision, then a cell a line (cellsDelta, in no particular order). *)
DeltaText(change, delta) ==
  LET cells == SetToSeq(DOMAIN delta)
      line(i) == IF i = 0 THEN <<"rev", change.new>> ELSE <<"cell", cells[i], delta[cells[i]]>>
  IN [k \in 1..(2 * (Len(cells) + 1)) |-> IF k % 2 = 0 THEN Newline ELSE line(k \div 2)]

(* The two grids are computed one after the other, and time may pass. *)
AnnounceComputed(i) ==
  LET change == pending[i] IN
  /\ change.kind = "computed"
  /\ \E later \in {clock, Lesser(clock + 1, MaxClock)} :
       LET delta == CellsDelta(GridOf(change.old, clock), GridOf(change.new, later)) IN
       /\ IF DOMAIN delta = {} THEN UNCHANGED log
                               ELSE Publish("computed", DeltaText(change, delta), change)
       /\ clock' = later
  /\ pending' = Dropped(i)
  /\ ordered' = (ordered /\ i = 1)
  /\ UNCHANGED <<role, held, deploy, changes, faults, unsteady, asking, stream, reader>>

Tick ==
  /\ clock < MaxClock
  /\ clock' = clock + 1
  /\ UNCHANGED <<role, held, deploy, changes, faults, unsteady, asking, feed, stream, reader>>

(* The stream is over, with all that belonged to the subscription. *)
Hangup ==
  /\ conn' = "away" /\ head' = Nothing /\ joined' = 0 /\ sent' = 0
  /\ wire' = <<>> /\ got' = Nothing

(* Requests and events are lost; caches and readers keep what they have. *)
Restart ==
  /\ faults < MaxFaults
  /\ faults' = faults + 1
  /\ deploy' \in Deployment
  /\ pc' = "idle" /\ ask' = Nothing /\ snap' = Nothing /\ ans' = NoAnswer
  /\ pending' = <<>> /\ log' = <<>> /\ ordered' = TRUE
  /\ Hangup
  /\ sure' = FALSE /\ dated' = (lastId > 0) /\ gone' = FALSE
  /\ UNCHANGED <<role, held, clock, changes, unsteady, kept, lastId, copy>>
------------------------------------------------------------------------------
(* Requests (handler.go:61-98, read.go). *)

Has(type) == type \in ask.accept
HasAny(types) == ask.accept \cap types # {}
Wildcard == ask.accept = {} \/ Has("any")
GridTypes == {"sheet", "tsv", "csv"}
Reading == ask.method \in {"GET", "HEAD"}

Ask ==
  /\ role = "asks" /\ pc = "idle"
  /\ ask' \in Asks
  /\ pc' = "asked"
  /\ UNCHANGED <<world, snap, ans, kept, feed, stream, reader>>

AskOnly == UNCHANGED <<world, ask, kept, feed, stream, reader>>

Answer(a) == pc' = "answered" /\ ans' = a /\ AskOnly

Problem(status, slug) ==
  [NoAnswer EXCEPT !.status = status, !.slug = slug, !.type = "problem"]

(* Slip: an error the map does not list is answered with nothing. *)
ErrorProblemListed(why) ==
  CASE why = "missing" -> Problem(404, "not-found")
    [] why = "toolarge" -> Problem(413, "document-too-large")
    [] OTHER -> NoAnswer

(* errorMap: a port's refusal as status and slug. *)
ErrorProblem(why) ==
  CASE why = "missing" -> Problem(404, "not-found")
    [] why = "toolarge" -> Problem(413, "document-too-large")
    [] OTHER -> Problem(500, "internal")

(* What is answered without looking at the document; a mutating method     *)
(* goes on to the steps of Handler.                                        *)
Route ==
  /\ pc = "asked"
  /\ \/ ~ask.named /\ Answer(Problem(404, "not-found"))
     \/ /\ ask.named /\ ask.ref # Nothing /\ ~Reading
        /\ Answer(Problem(405, "bad-request"))
     \/ /\ ask.named /\ ask.ref = Nothing /\ ask.method = "OPTIONS"
        /\ Answer([NoAnswer EXCEPT !.status = 204])
     \/ /\ ask.named /\ ask.ref = Nothing /\ ask.method = "PATCH"
        /\ Answer(Problem(405, "bad-request"))
  /\ UNCHANGED snap

ToRead == pc = "asked" /\ ask.named /\ Reading

(* The feed answers whatever is asked with it, reference and pin included. *)
AnswerFeed ==
  /\ ToRead /\ Has("stream")
  /\ Answer(IF held \in Doc
            THEN [NoAnswer EXCEPT !.status = 200, !.type = "stream", !.cache = "no-store"]
            ELSE ErrorProblem(held))
  /\ UNCHANGED snap

(* Slip: the pin is read and not compared. *)
PinnedToHead(d) == TRUE

Pinned(d) == ask.rev \in {Nothing, d}

Load ==
  /\ ToRead /\ ~Has("stream")
  /\ IF held \in Doc /\ Pinned(held)
     THEN pc' = "loaded" /\ snap' = held /\ UNCHANGED ans /\ AskOnly
     ELSE /\ Answer(IF held \in Doc THEN Problem(404, "not-found") ELSE ErrorProblem(held))
          /\ UNCHANGED snap

LoadFails ==
  /\ ToRead
  /\ Answer(ErrorProblem("read"))
  /\ UNCHANGED snap

(* Slip: values that will change are tagged too. *)
ValidatorAlways(type) ==
  IF type = "doc" THEN [tag |-> <<snap>>, cache |-> "no-cache"]
                  ELSE [tag |-> <<snap, type>>, cache |-> "no-cache"]

(* setValidator. *)
Validator(type) ==
  IF type = "doc" THEN [tag |-> <<snap>>, cache |-> "no-cache"]
  ELSE IF snap \in Volatile THEN [tag |-> Nothing, cache |-> "no-store"]
  ELSE [tag |-> <<snap, type>>, cache |-> "no-cache"]

Represent(type, body) ==
  Answer([NoAnswer EXCEPT !.status = 200, !.type = type, !.body = body,
                          !.tag = Validator(type).tag, !.cache = Validator(type).cache])

(* A whole representation; HEAD elides it. *)
Full(type, body) ==
  Represent(type, IF ask.method = "HEAD" THEN Nothing ELSE body)

(* Slip: a wildcard is answered with the source whatever it stands beside. *)
WantsSourceByWildcard == Has("doc") \/ Wildcard

WantsSource == Has("doc") \/ (Wildcard /\ ~HasAny(GridTypes))

FirstGridType ==
  CASE Has("sheet") -> "sheet"
    [] ~Has("sheet") /\ Has("tsv") -> "tsv"
    [] OTHER -> "csv"

AnswerDocument ==
  /\ pc = "loaded" /\ ask.ref = Nothing
  /\ \/ WantsSource /\ Full("doc", snap)
     \/ /\ ~WantsSource /\ (~HasAny(GridTypes) \/ ~deploy.plane)
        /\ Answer(Problem(406, "not-acceptable"))
     \/ /\ ~WantsSource /\ HasAny(GridTypes) /\ deploy.plane
        /\ Full(FirstGridType, GridOf(snap, clock))
  /\ UNCHANGED snap

AnswerRef ==
  LET span == ParseRef(ask.ref) IN
  /\ pc = "loaded" /\ ask.ref # Nothing
  /\ IF ~deploy.plane THEN Answer(Problem(406, "not-acceptable"))
     ELSE IF span = BadRef THEN Answer(Problem(404, "not-found"))
     ELSE IF ~Wildcard /\ ~Has(ShapeOf(span)) THEN Answer(Problem(406, "not-acceptable"))
     ELSE Represent(ShapeOf(span), RenderSpan(GridOf(snap, clock), span))
  /\ UNCHANGED snap

(* The client has its answer; a cache on the way may keep it, unless told  *)
(* not to.                                                                 *)
Done ==
  /\ pc = "answered"
  /\ pc' = "idle" /\ ask' = Nothing /\ snap' = Nothing /\ ans' = NoAnswer
  /\ \/ UNCHANGED kept
     \/ /\ ans.tag # Nothing /\ ans.body # Nothing
        /\ kept' = [ref |-> ask.ref, tag |-> ans.tag, type |-> ans.type,
                    body |-> ans.body, cap |-> deploy.cap]
  /\ UNCHANGED <<world, feed, stream, reader>>
------------------------------------------------------------------------------
(* The feed's stream and its reader (read.go:51-60, stream.go). *)

FollowOnly == UNCHANGED <<world, asking, feed>>

FeedGet ==
  /\ role = "follows" /\ conn = "away" /\ held \in Doc
  /\ conn' = "found" /\ head' = held
  /\ UNCHANGED <<joined, sent, wire, reader>> /\ FollowOnly

(* Subscribed: live only without a resume point, else what is owed or a    *)
(* reset (Hub says when which; what has left the journal is not owed       *)
(* again).  A resume point from before a restart may be taken for one of   *)
(* now, and then what is missing is not sent.                              *)
FeedSubscribe ==
  /\ conn = "found"
  /\ conn' = "open" /\ head' = Nothing /\ joined' = Len(log)
  /\ \/ /\ lastId = 0 /\ sent' = Len(log) /\ wire' = <<>> /\ copy' = Nothing
        /\ UNCHANGED <<gone, sure>>
     \/ /\ lastId \in 1..Len(log) /\ ~gone /\ sent' = lastId /\ wire' = <<>>
        /\ sure' = (sure /\ ~dated)
        /\ UNCHANGED <<gone, copy>>
     \/ /\ lastId > 0 /\ sent' = Len(log) /\ gone' = (lastId <= Len(log))
        /\ wire' = WriteEvent([id |-> 0, name |-> "reset", data |-> <<<<"rev", head>>>>])
        /\ UNCHANGED <<copy, sure>>
  /\ UNCHANGED <<lastId, dated, got>> /\ FollowOnly

Send ==
  /\ conn = "open" /\ wire = <<>> /\ sent < Len(log)
  /\ sent' = sent + 1
  /\ wire' = WriteEvent(log[sent + 1])
  /\ UNCHANGED <<conn, head, joined, reader>> /\ FollowOnly

(* The cells a computed event's lines name. *)
DeltaOf(lines) ==
  LET cells == {lines[i][1] : i \in {j \in DOMAIN lines : lines[j] # <<>> /\ lines[j][1][1] = "cell"}}
  IN [at \in {cell[2] : cell \in cells} |-> (CHOOSE cell \in cells : cell[2] = at)[3]]

Ends(event) == event.name = "deleted"

Received == EventOf(lastId, wire)

(* The blank line hands the reader the event, unless it has no data, and   *)
(* moves its resume point; after a live deletion the server hangs up.      *)
Receive ==
  /\ wire # <<>>
  /\ lastId' = Received.id
  /\ dated' = (dated /\ wire[1].field # "id") /\ gone' = (gone /\ wire[1].field # "id")
  /\ copy' = CASE Received.data # <<>> /\ Received.name = "reset" -> Nothing
              [] Received.name = "computed" /\ copy # Nothing ->
                   Patched(copy, DeltaOf(Received.data))
              [] OTHER -> copy
  /\ IF sent > joined /\ Ends(log[sent])
     THEN Hangup
     ELSE /\ wire' = <<>>
          /\ got' = IF Received.data = <<>> THEN got ELSE Received
          /\ UNCHANGED <<conn, head, joined, sent>>
  /\ UNCHANGED sure /\ FollowOnly

(* The connection is lost, and with it what was on its way: the part of a  *)
(* frame that did arrive is discarded for want of its blank line.          *)
Cut ==
  /\ conn # "away" /\ faults < MaxFaults
  /\ faults' = faults + 1
  /\ Hangup
  /\ UNCHANGED <<role, held, clock, deploy, changes, unsteady, asking, feed,
                 lastId, dated, gone, copy, sure>>

(* The events whose frames have passed, and what is still to come. *)
Heard == IF wire = <<>> THEN sent ELSE sent - 1

Coming == {log[j] : j \in {i \in DOMAIN log : i > Heard}} \cup {pending[i] : i \in DOMAIN pending}

(* The reader fetches the computed sheet, its stream being open. *)
Fetch ==
  /\ copy = Nothing /\ conn = "open" /\ held \in Doc /\ deploy.plane
  /\ copy' = Shown(GridOf(held, clock))
  /\ sure' = (Steady(held) /\ \A e \in Coming : e.of > unsteady)
  /\ UNCHANGED <<lastId, dated, gone, got, stream>> /\ FollowOnly

Change == Post \/ Put \/ Delete \/ OutOfBand
Announcing == \E i \in DOMAIN pending : Announce(i) \/ AnnounceComputed(i)
Asking == Ask \/ Route \/ AnswerFeed \/ Load \/ LoadFails \/ AnswerDocument \/ AnswerRef \/ Done
Following == FeedGet \/ FeedSubscribe \/ Send \/ Receive \/ Cut \/ Fetch

Next == Change \/ Announcing \/ Tick \/ Restart \/ Asking \/ Following

Spec == Init /\ [][Next]_vars
------------------------------------------------------------------------------
(* Every variable holds a value of its kind, and an answer has a status.   *)
TypeOK ==
  /\ role \in Role /\ held \in Doc \cup Unservable /\ clock \in 0..MaxClock
  /\ deploy \in Deployment
  /\ pc \in {"idle", "asked", "loaded", "answered"}
  /\ (ask = Nothing \/ ask \in Asks) /\ snap \in Doc \cup {Nothing}
  /\ pc = "answered" <=> ans.status \in {200, 204, 404, 405, 406, 413, 500}
  /\ ans.status >= 400 <=> ans.slug # Nothing
  /\ \A i \in DOMAIN log : log[i].id = i
  /\ conn \in {"away", "found", "open"} /\ joined \in 0..Len(log) /\ sent \in 0..Len(log)
  /\ lastId \in Nat /\ dated \in BOOLEAN /\ gone \in BOOLEAN
  /\ unsteady \in 0..changes /\ sure \in BOOLEAN /\ ordered \in BOOLEAN

Served == pc = "answered" /\ ans.status = 200 /\ ans.type # "stream"
Acceptable(type) == Wildcard \/ Has(type)

(* What the deployment could serve of the URL that was asked for. *)
Servable ==
  IF ask.ref = Nothing THEN {"doc"} \cup IF deploy.plane THEN GridTypes ELSE {}
  ELSE IF deploy.plane THEN {ShapeOf(ParseRef(ask.ref))} ELSE {}

(* A representation is served only where it is acceptable, the source      *)
(* never where grid values were asked for and not the source, and nothing  *)
(* is refused that could have been served but for that (read.go:62-83,     *)
(* media.go:49-70).                                                        *)
Negotiated ==
  /\ Served =>
       /\ Acceptable(ans.type) /\ ans.type \in Servable
       /\ ans.type = "doc" => Has("doc") \/ ~HasAny(GridTypes)
  /\ pc = "answered" /\ ans.status = 406 =>
       \A type \in Servable : Acceptable(type) => type = "doc" /\ HasAny(GridTypes)

(* The renderings of a document that a request may be answered with. *)
Renderings(d) ==
  {d} \cup {GridOf(d, time) : time \in 0..clock}
      \cup (IF ask.ref = Nothing \/ ParseRef(ask.ref) = BadRef THEN {}
            ELSE {RenderSpan(GridOf(d, time), ParseRef(ask.ref)) : time \in 0..clock})

(* What is served shows one revision, at one time, whatever changes while  *)
(* the request is under way: the one it is pinned to if it is, and the one *)
(* its tag names (read.go:38-49, :124-137).                                *)
OneRevision ==
  Served =>
    /\ ask.rev \in {Nothing, snap}
    /\ ans.tag # Nothing => ans.tag[1] = snap
    /\ ans.body # Nothing => ans.body \in Renderings(snap)

(* A strong tag identifies the bytes: whatever happens to the document,    *)
(* the clock or the process, under one --max-cells the same tag on the     *)
(* same URL is the same type and body as a cache kept (read.go:111-143).   *)
TagIdentifies ==
  /\ Served /\ kept # Nothing /\ ans.tag = kept.tag /\ ans.body # Nothing
  /\ ask.ref = kept.ref /\ deploy.cap = kept.cap
  => ans.type = kept.type /\ ans.body = kept.body

(* A fragment shows of grid what the reference asks for: it is never empty *)
(* and never larger than the grid, each value is in its place, and no cell *)
(* left out shows anything, whichever way the reference was written and    *)
(* however far it reaches (compute.go:103-111).                            *)
ShowsAll(fragment, grid, span) ==
  LET s == Normalized(span)
      rows == Len(fragment)
      cols == Len(fragment[1])
      shown(row, col) ==
        IF row - s.from.row < rows /\ col - s.from.col < cols
        THEN fragment[row - s.from.row + 1][col - s.from.col + 1] ELSE Empty
  IN /\ rows \in 1..Greater(1, Len(grid))
     /\ \A i \in 1..rows : Len(fragment[i]) = cols
     /\ cols \in 1..Greater(1, WidestRow(grid))
     /\ \A row \in s.from.row..s.to.row, col \in s.from.col..s.to.col :
          shown(row, col) = ValueAt(grid, row, col)

FragmentExact ==
  Served /\ ask.ref # Nothing =>
    \E time \in 0..clock : ShowsAll(ans.body, GridOf(snap, time), ParseRef(ask.ref))

(* A reader is handed the events in order, each once, wherever the         *)
(* connection is cut, and its payload whole unless that holds a carriage   *)
(* return; an event without data moves only its resume point               *)
(* (stream.go:63-94).                                                      *)
EventsIntact ==
  [][lastId' # lastId =>
       /\ lastId' = sent
       /\ \/ lastId = sent - 1
          \/ joined = sent - 1 /\ (lastId = 0 \/ got.name = "reset")
       /\ IF log[sent].data = <<>> THEN got' \in {got, Nothing}
          ELSE /\ got'.id = sent /\ got'.name = log[sent].name
               /\ Unbroken(log[sent].data) =>
                    log[sent].data \in {Joined(got'.data), Joined(got'.data) \o <<Newline>>}]_vars

(* A reader that has applied every delta to what it fetched has the values *)
(* the server computes, whichever events preceded its fetch and were       *)
(* applied on top of it, as long as no volatile document passed, values    *)
(* were announced in order and it was not resumed by an id of before a     *)
(* restart (write.go:117-120, compute.go:159-176).                         *)
ValuesTrack ==
  /\ conn = "open" /\ wire = <<>> /\ sent = Len(log) /\ pending = <<>>
  /\ copy # Nothing /\ sure /\ ordered /\ held \in Doc
  => copy = Shown(GridOf(held, clock))
=============================================================================
