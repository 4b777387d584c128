--------------------------------- MODULE Hub ---------------------------------
(***************************************************************************)
(* The change feed of one document: the hub's journal and fan-out          *)
(* (api/feed.go), resumption (api/replayfeed.go, api/session.go) and the   *)
(* stream that carries it (api/stream.go), with the readers that lose      *)
(* connections and come back.  Events carry what the bounds and the stream *)
(* tell apart: their id, their payload size and whether they end a stream. *)
(***************************************************************************)
EXTENDS Integers, Sequences, FiniteSets

CONSTANTS
  Reader,       \* stream clients, one connection at a time each
  Early,        \* those that may fetch the document before they subscribe
  Size,         \* payload sizes of events; a deletion's is 0, and it ends the stream
  RingCap,      \* ringCap: events the journal retains
  RingBytes,    \* ringBytes: payload it retains
  SubCap,       \* subCap: a subscriber's channel buffer
  MaxEvents,    \* bound on events published
  MaxFaults     \* bound on connections lost and server restarts together

ASSUME SizeAssumption == Size \subseteq Nat
ASSUME CapAssumption == RingCap \in Nat \ {0} /\ RingBytes \in Nat /\ SubCap \in Nat \ {0}
ASSUME EarlyAssumption == Early \subseteq Reader
ASSUME BoundAssumption == MaxEvents \in Nat /\ MaxFaults \in Nat

VARIABLES
  present,   \* whether the port can serve the document
  seq,       \* docFeed.seq
  ring,      \* docFeed.ring
  bytes,     \* docFeed.bytes
  subs,      \* docFeed.subs: the readers whose channel is registered, and open
  phase,     \* where each reader's stream stands
  replay,    \* subscription.replay still to be written
  live,      \* the buffered channel
  lastId,    \* the last id each reader received, 0 for none
  pos,       \* the event, counted over restarts, each reader's copy is complete to
  stale,     \* the readers that have to fetch the document
  late,      \* those that subscribed with a copy older than their subscription
  era,       \* what past was when each reader received its last id
  past,      \* events published before the last restart
  drops, restarts

journal == <<seq, ring, bytes>>
stream == <<subs, phase, replay, live>>
reader == <<lastId, pos, stale, late, era>>
vars == <<present, journal, stream, reader, past, drops, restarts>>

Event == [id : Nat, size : Size \cup {0}, last : BOOLEAN]

Init ==
  /\ present \in BOOLEAN
  /\ seq = 0 /\ ring = <<>> /\ bytes = 0
  /\ subs = {}
  /\ phase = [s \in Reader |-> "away"]
  /\ replay = [s \in Reader |-> <<>>]
  /\ live = [s \in Reader |-> <<>>]
  /\ lastId = [s \in Reader |-> 0]
  /\ pos = [s \in Reader |-> 0]
  /\ stale = Reader /\ late = {}
  /\ era = [s \in Reader |-> 0]
  /\ past = 0 /\ drops = 0 /\ restarts = 0

Least(S) == CHOOSE n \in S : \A m \in S : n <= m

(* The payload of r: its bytes, event by event, counted. *)
Payload(r) == Cardinality(UNION {{i} \X (1..r[i].size) : i \in DOMAIN r})

(* Slip: an oversized event is trimmed away with the rest. *)
TrimmedToFit(r, b) ==
  Least({n \in 0..Len(r) :
           \/ n = Len(r)
           \/ Len(r) - n <= RingCap /\ b - Payload(SubSeq(r, 1, n)) <= RingBytes})

(* trimJournal: how many of the oldest events go, the newest always staying. *)
Trimmed(r, b) ==
  Least({n \in 0..(Len(r) - 1) :
           \/ n = Len(r) - 1
           \/ Len(r) - n <= RingCap /\ b - Payload(SubSeq(r, 1, n)) <= RingBytes})

(* Slip: the running total is lost, only the new payload counted. *)
BroadcastUncounted(size, last) ==
  LET event == [id |-> seq + 1, size |-> size, last |-> last]
      longer == Append(ring, event)
      cut == Trimmed(longer, bytes + size)
  IN /\ past + seq < MaxEvents
     /\ seq' = seq + 1
     /\ ring' = SubSeq(longer, cut + 1, Len(longer))
     /\ bytes' = size - Payload(SubSeq(longer, 1, cut))
     /\ UNCHANGED <<present, subs, live, phase, replay, reader, past, drops, restarts>>

(* Slip: a full channel misses the event and stays registered. *)
BroadcastLossy(size, last) ==
  LET event == [id |-> seq + 1, size |-> size, last |-> last]
      longer == Append(ring, event)
      cut == Trimmed(longer, bytes + size)
      room == {s \in subs : Len(live[s]) < SubCap}
  IN /\ past + seq < MaxEvents
     /\ seq' = seq + 1
     /\ ring' = SubSeq(longer, cut + 1, Len(longer))
     /\ bytes' = bytes + size - Payload(SubSeq(longer, 1, cut))
     /\ live' = [s \in Reader |-> IF s \in room THEN Append(live[s], event) ELSE live[s]]
     /\ UNCHANGED <<present, subs, phase, replay, reader, past, drops, restarts>>

(* broadcast: journal the event and offer it to every registered channel; *)
(* one whose buffer is full is closed instead.                            *)
Broadcast(size, last) ==
  LET event == [id |-> seq + 1, size |-> size, last |-> last]
      longer == Append(ring, event)
      cut == Trimmed(longer, bytes + size)
      room == {s \in subs : Len(live[s]) < SubCap}
  IN /\ past + seq < MaxEvents
     /\ seq' = seq + 1
     /\ ring' = SubSeq(longer, cut + 1, Len(longer))
     /\ bytes' = bytes + size - Payload(SubSeq(longer, 1, cut))
     /\ subs' = room
     /\ live' = [s \in Reader |-> IF s \in room THEN Append(live[s], event) ELSE live[s]]
     /\ UNCHANGED <<present, phase, replay, reader, past, drops, restarts>>

(* The events after id; ids ascend, so they are a suffix of the journal. *)
After(id) ==
  LET newer == {i \in DOMAIN ring : ring[i].id > id} IN
  IF newer = {} THEN <<>> ELSE SubSeq(ring, Least(newer), Len(ring))

(* Slips: the floor of the window misjudged by one, either way. *)
OutOfWindowEarly(id) == id <= seq - Len(ring) \/ id > seq
OutOfWindowLate(id) == id < seq - Len(ring) - 1 \/ id > seq

(* Whether the resume point id has left the window or was never reached. *)
OutOfWindow(id) == id < seq - Len(ring) \/ id > seq

(* What the port holds, which requests of others decide. *)
Turn ==
  /\ present' = ~present
  /\ UNCHANGED <<journal, stream, reader, past, drops, restarts>>

(* The next connection of s.  A document that cannot be served is answered *)
(* with an error, after which an EventSource does not come back.           *)
FeedGet(s) ==
  /\ phase[s] = "away"
  /\ phase' = [phase EXCEPT ![s] = IF present THEN "found" ELSE "refused"]
  /\ UNCHANGED <<present, journal, subs, replay, live, reader, past, drops, restarts>>

(* Its subscription, registered with what it is owed, whatever became of   *)
(* the document meanwhile.                                                 *)
Register(s, next, owed) ==
  /\ phase[s] = "found"
  /\ phase' = [phase EXCEPT ![s] = next]
  /\ subs' = subs \cup {s}
  /\ replay' = [replay EXCEPT ![s] = owed]
  /\ live' = [live EXCEPT ![s] = <<>>]
  /\ UNCHANGED <<present, journal, lastId, pos, era, past, drops, restarts>>

(* No resume point: live only.  The reader fetches now, or keeps the copy  *)
(* it has just fetched and misses what was published since.                *)
SubscribeFresh(s) ==
  /\ lastId[s] = 0
  /\ Register(s, "open", <<>>)
  /\ \/ stale' = stale \cup {s} /\ UNCHANGED late
     \/ /\ s \in Early \ stale /\ UNCHANGED stale
        /\ late' = IF pos[s] = past + seq THEN late ELSE late \cup {s}

SubscribeReset(s) ==
  /\ lastId[s] # 0 /\ OutOfWindow(lastId[s])
  /\ Register(s, "reset", <<>>)
  /\ UNCHANGED <<stale, late>>

Resume(s) ==
  /\ lastId[s] # 0 /\ ~OutOfWindow(lastId[s])
  /\ Register(s, "open", After(lastId[s]))
  /\ UNCHANGED <<stale, late>>

(* The reset frame carries no id: the reader keeps its resume point. *)
SendReset(s) ==
  /\ phase[s] = "reset"
  /\ phase' = [phase EXCEPT ![s] = "open"]
  /\ stale' = stale \cup {s}
  /\ UNCHANGED <<present, journal, subs, replay, live, lastId, pos, late, era, past, drops, restarts>>

(* A frame arrives; a copy that is not stale takes it if it is news. *)
Receive(s, event) ==
  /\ lastId' = [lastId EXCEPT ![s] = event.id]
  /\ era' = [era EXCEPT ![s] = past]
  /\ pos' = IF s \notin stale /\ past + event.id > pos[s]
            THEN [pos EXCEPT ![s] = past + event.id]
            ELSE pos
  /\ UNCHANGED <<present, journal, stale, late, past, drops, restarts>>

(* The stream of s is over and its channel released. *)
Close(s) ==
  /\ phase' = [phase EXCEPT ![s] = "away"]
  /\ subs' = subs \ {s}
  /\ replay' = [replay EXCEPT ![s] = <<>>]
  /\ live' = [live EXCEPT ![s] = <<>>]

(* A replayed event never ends the stream, whatever it says. *)
SendReplay(s) ==
  /\ phase[s] = "open" /\ replay[s] # <<>>
  /\ Receive(s, Head(replay[s]))
  /\ replay' = [replay EXCEPT ![s] = Tail(@)]
  /\ UNCHANGED <<subs, phase, live>>

SendLive(s) ==
  /\ phase[s] = "open" /\ replay[s] = <<>> /\ live[s] # <<>>
  /\ Receive(s, Head(live[s]))
  /\ IF Head(live[s]).last
     THEN Close(s)
     ELSE live' = [live EXCEPT ![s] = Tail(@)] /\ UNCHANGED <<subs, phase, replay>>

(* Slip: the stream does not notice that its channel is closed. *)
EndDroppedNever(s) == s \notin Reader /\ UNCHANGED vars

(* A closed channel is drained before the stream ends. *)
EndDropped(s) ==
  /\ phase[s] = "open" /\ replay[s] = <<>> /\ live[s] = <<>>
  /\ s \notin subs
  /\ Close(s)
  /\ UNCHANGED <<present, journal, reader, past, drops, restarts>>

(* The client goes away, with whatever was still on its way to it. *)
Disconnect(s) ==
  /\ phase[s] \notin {"away", "refused"} /\ drops + restarts < MaxFaults
  /\ Close(s)
  /\ drops' = drops + 1
  /\ UNCHANGED <<present, journal, reader, past, restarts>>

(* The document as it is now, or that there is none. *)
Fetch(s) ==
  /\ s \in stale /\ (phase[s] = "open" \/ s \in Early)
  /\ pos' = [pos EXCEPT ![s] = past + seq]
  /\ stale' = stale \ {s} /\ late' = late \ {s}
  /\ UNCHANGED <<present, journal, stream, lastId, era, past, drops, restarts>>

(* The journal is in memory only and numbering starts over. *)
Restart ==
  /\ drops + restarts < MaxFaults
  /\ restarts' = restarts + 1
  /\ past' = past + seq
  /\ seq' = 0 /\ ring' = <<>> /\ bytes' = 0
  /\ subs' = {}
  /\ phase' = [s \in Reader |-> IF phase[s] = "refused" THEN "refused" ELSE "away"]
  /\ replay' = [s \in Reader |-> <<>>]
  /\ live' = [s \in Reader |-> <<>>]
  /\ UNCHANGED <<present, reader, drops>>

Connect(s) == SubscribeFresh(s) \/ SubscribeReset(s) \/ Resume(s)
Send(s) == SendReset(s) \/ SendReplay(s) \/ SendLive(s) \/ EndDropped(s)

Next ==
  \/ \E size \in Size : Broadcast(size, FALSE)
  \/ Broadcast(0, TRUE)
  \/ \E s \in Reader : FeedGet(s) \/ Connect(s) \/ Send(s) \/ Disconnect(s) \/ Fetch(s)
  \/ Turn
  \/ Restart

Spec == Init /\ [][Next]_vars

(* The handler keeps answering and writing, and a reader keeps reading,    *)
(* coming back (as EventSource does by itself until it is refused) and     *)
(* fetching when it has to.                                                *)
FairSpec ==
  /\ Spec
  /\ \A s \in Reader : /\ WF_vars(FeedGet(s)) /\ WF_vars(Connect(s))
                        /\ WF_vars(Send(s)) /\ SF_vars(Fetch(s))
------------------------------------------------------------------------------
(* Every variable holds a value of its kind, and no channel more than its  *)
(* buffer takes (feed.go:91-98).                                           *)
TypeOK ==
  /\ present \in BOOLEAN
  /\ seq \in Nat /\ bytes \in Nat /\ past \in Nat /\ drops \in Nat /\ restarts \in Nat
  /\ ring \in Seq(Event)
  /\ subs \subseteq Reader /\ stale \subseteq Reader /\ late \subseteq Reader
  /\ phase \in [Reader -> {"away", "found", "refused", "reset", "open"}]
  /\ replay \in [Reader -> Seq(Event)]
  /\ live \in [Reader -> Seq(Event)] /\ \A s \in Reader : Len(live[s]) <= SubCap
  /\ lastId \in [Reader -> Nat]
  /\ pos \in [Reader -> Nat] /\ era \in [Reader -> Nat]

(* ids of r are consecutive and end at n. *)
EndsAt(r, n) == \A i \in DOMAIN r : r[i].id = n - Len(r) + i

(* The journal is the newest stretch of what was published: it never loses *)
(* the event just published, stays within both bounds otherwise, and its   *)
(* byte count is that of what it keeps (feed.go:47-57, :84-90).            *)
RingIsTail ==
  /\ EndsAt(ring, seq) /\ Len(ring) <= seq
  /\ seq > 0 => ring # <<>>
  /\ Len(ring) <= RingCap
  /\ bytes = Payload(ring)
  /\ bytes <= RingBytes \/ Len(ring) = 1

(* A resume point from before a restart, which a reset does not replace. *)
Dated(s) == lastId[s] # 0 /\ era[s] # past

(* What a registered stream has still to send runs without a gap from what *)
(* its reader has to the newest event, across the seam of replay and live  *)
(* channel; one dropped by the hub still has a run to drain (feed.go:91-98,*)
(* replayfeed.go:23-33).                                                   *)
Owed(s) == replay[s] \o live[s]

NoGap ==
  \A s \in Reader : phase[s] # "away" =>
    /\ s \in subs => EndsAt(Owed(s), seq)
    /\ Owed(s) # <<>> => EndsAt(Owed(s), Head(Owed(s)).id + Len(Owed(s)) - 1)
    /\ phase[s] = "open" /\ s \notin stale \cup late /\ ~Dated(s) =>
         IF Owed(s) = <<>> THEN s \in subs => pos[s] = past + seq
                           ELSE past + Head(Owed(s)).id <= pos[s] + 1

(* A reader is told to start over only if some event it missed is gone     *)
(* (replayfeed.go:21-26).                                                  *)
ResetOnlyWhenLost ==
  [][\A s \in Reader : phase'[s] = "reset" /\ phase[s] # "reset" =>
       \/ lastId[s] > seq
       \/ \E id \in (lastId[s] + 1)..seq : \A i \in DOMAIN ring : ring[i].id # id]_vars

(* Readers follow the feed event by event or are told to fetch the         *)
(* document; they are never silently left behind (feed.go:33-36,           *)
(* replayfeed.go:15-26).                                                   *)
ReaderFeed == INSTANCE Feed WITH head <- past + seq
NeverSkips == ReaderFeed!Spec

(* A reader is left behind only if it resumes, after a restart, by an id   *)
(* of before it, or subscribed with a copy that was already old: every     *)
(* other step of every reader is one the feed promises, drops, overruns    *)
(* and reconnections included (feed.go:91-98, replayfeed.go:15-33).        *)
SkipsOnlyDatedOrLate ==
  /\ ReaderFeed!Init
  /\ [][\/ [ReaderFeed!Next]_(ReaderFeed!vars)
        \/ \E s \in Reader : (Dated(s) \/ s \in late) /\ Send(s)]_vars

(* Once publishing stops, every reader ends up with the whole history,     *)
(* slow, dropped or disconnected as it may have been, unless it came back  *)
(* to a document that was gone, its resume point is from before a restart  *)
(* or its copy is older than its subscription (feed.go:33-36,              *)
(* read.go:53-58).                                                         *)
CaughtUp ==
  \A s \in Reader :
    <>[](\/ phase[s] = "refused"
         \/ s \notin stale /\ (pos[s] = past + seq \/ Dated(s) \/ s \in late))
=============================================================================
