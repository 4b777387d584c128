---------------------------- MODULE HandlerProofs ----------------------------
(***************************************************************************)
(* Theorems about Handler, for any workers, keys, workload, cache and      *)
(* bounds: types, what the feed announces, what a reader of it ends up     *)
(* with, and, with distinct keys in flight, idempotency.                   *)
(***************************************************************************)
EXTENDS Handler, FiniteSetTheorems, SequenceTheorems, TLAPS

State == Doc \cup {"missing"}
Place == {"idle", "accepted", "calling", "remembering", "announcing", "computing", "replying"}
Event == [name : {"changed", "reset", "deleted", "computed"}, old : State, new : State, of : Nat]
Outcome == [rev : Rev, body : Batch]
Landing == [new : State, body : Batch]

(* TypedAndBounded with the shape of what it leaves out. *)
Types ==
  /\ held \in State
  /\ seen \in [DOMAIN seen -> Outcome] /\ DOMAIN seen \subseteq Key
  /\ IsFiniteSet(DOMAIN seen) /\ Cardinality(DOMAIN seen) <= ReplayCap
  /\ step \in [Worker -> Place]
  /\ req \in [Worker -> HttpRequest \cup {Nothing}]
  /\ resp \in [Worker -> [status : Nat, etag : Rev \cup {Nothing}]]
  /\ done \in [Worker -> [old : State \cup {Nothing}, new : State \cup {Nothing}, of : Nat]]
  /\ journal \in Seq(Event)
  /\ stream \in {"away", "found", "reset", "open"}
  /\ joined \in 0..Len(journal) /\ cursor \in 0..Len(journal)
  /\ dated \in BOOLEAN /\ misled \in BOOLEAN
  /\ lastId \in Nat /\ (dated \/ lastId <= Len(journal))
  /\ copy \in State \cup {Nothing}
  /\ commits \in Seq(Change)
  /\ landed \in [Key -> Seq(Landing)]

Keyed(w) == Op(w) = "apply" /\ req[w].key # Nothing
Pending(w) == step[w] \in {"remembering", "announcing"}
Changed(w) == step[w] \in {"remembering", "announcing", "computing"}

(* What a request's place says of it: the change it made is the one at its *)
(* place in commits, a document unless it deleted.                         *)
Stands(w) ==
  /\ done[w].of <= Len(commits)
  /\ step[w] # "idle" => req[w] \in HttpRequest
  /\ step[w] = "remembering" => Keyed(w)
  /\ step[w] = "computing" => Op(w) = "apply"
  /\ Changed(w) =>
       /\ done[w].of \in DOMAIN commits
       /\ commits[done[w].of] = [old |-> done[w].old, new |-> done[w].new]
       /\ done[w].new \in (IF Op(w) = "delete" THEN {"missing"} ELSE Doc)

(* Which changes are announced and which are still to be, and by whom. *)
Owes(w) ==
  /\ Pending(w) => /\ \A i \in StateEvents : journal[i].of # done[w].of
                   /\ \A v \in Worker : Pending(v) /\ done[v].of = done[w].of => v = w
  /\ step[w] = "computing" => \E i \in StateEvents : journal[i].of = done[w].of

NothingLost ==
  \A n \in DOMAIN commits :
    \/ \E i \in StateEvents : journal[i].of = n
    \/ \E w \in Worker : Pending(w) /\ done[w].of = n

DeletedIsMissing ==
  \A i \in DOMAIN journal : journal[i].name = "deleted" => journal[i].new = "missing"

LastIsHeld == commits # <<>> => held = commits[Len(commits)].new

(* The last change is announced by the event n. *)
ToldBy(n) == \E i \in StateEvents : i <= n /\ journal[i].of = Len(commits)

(* A reader that has received the last change has the document: on an open *)
(* stream by what it has come to, and before it comes back by its resume   *)
(* point, if that is of this process.                                      *)
Followed == stream = "open" /\ (commits = <<>> \/ ToldBy(cursor)) => copy = held
Resumable == ~dated /\ ToldBy(lastId) => copy = held
Current == InOrder /\ copy # Nothing /\ ~misled => Followed /\ Resumable

Sound == Types /\ \A w \in Worker : Stands(w)

-----------------------------------------------------------------------------
(* The vocabulary. *)

LEMMA Requested ==
  ASSUME NEW r \in HttpRequest
  PROVE  /\ r.form \in Form /\ r.key \in Key \cup {Nothing}
         /\ r.call \in Requests /\ r.call.op \in {"put", "apply", "delete"}
         /\ r.call.op = "apply" => r.call.batch \in Batch /\ r.call.expect \in Rev
<1>1. r.form \in Form /\ r.key \in Key \cup {Nothing} /\ r.call \in Requests /\ r.call.op # "get"
  BY DEF HttpRequest
<1>2. r.call \in Request
  BY <1>1, RequestAssumption
<1> QED BY <1>1, <1>2 DEF Request

LEMMA Effects ==
  ASSUME NEW r \in HttpRequest, NEW h, NEW h2 \in Resident \cup {"missing"}, Effect(r.call, h, h2)
  PROVE  h2 \in (IF r.call.op = "delete" THEN {"missing"} ELSE Doc)
<1>1. Resident \subseteq Doc /\ "missing" \notin Doc
  BY DocAssumption DEF Unservable
<1> QED BY <1>1, Requested DEF Effect

LEMMA Statuses ==
  /\ \A f \in DOMAIN FormStatus : FormStatus[f] \in Nat
  /\ \A why : ErrorStatus(why) \in Nat
BY DEF FormStatus, ErrorStatus

LEMMA Revisions == \A d \in Doc : Revision[d] \in Rev
BY RevisionAssumption

LEMMA Appended ==
  ASSUME NEW S, NEW q \in Seq(S), NEW e \in S
  PROVE  /\ Append(q, e) \in Seq(S) /\ Len(q) \in Nat
         /\ Len(Append(q, e)) = Len(q) + 1
         /\ DOMAIN q = 1..Len(q) /\ DOMAIN Append(q, e) = 1..(Len(q) + 1)
         /\ \A i \in 1..Len(q) : Append(q, e)[i] = q[i] /\ q[i] \in S
         /\ Append(q, e)[Len(q) + 1] = e
BY AppendProperties, LenProperties, ElementOfSeq

LEMMA Numbers ==
  ASSUME Types
  PROVE  /\ Len(commits) \in Nat /\ DOMAIN commits = 1..Len(commits)
         /\ Len(journal) \in Nat /\ DOMAIN journal = 1..Len(journal)
         /\ \A n \in DOMAIN commits : commits[n] \in Change
         /\ \A i \in DOMAIN journal : journal[i] \in Event
BY LenProperties, ElementOfSeq DEF Types

-----------------------------------------------------------------------------
(* Types. *)

LEMMA InitTypes == Init => Sound
<1> SUFFICES ASSUME Init PROVE Sound
  OBVIOUS
<1>1. Resident \subseteq Doc
  BY DocAssumption
<1>2. /\ journal \in Seq(Event) /\ commits \in Seq(Change) /\ Len(journal) = 0 /\ Len(commits) = 0
      /\ landed \in [Key -> Seq(Landing)]
  BY EmptySeq DEF Init
<1>3. DOMAIN seen = {} /\ IsFiniteSet({}) /\ Cardinality({}) = 0
  BY FS_EmptySet DEF Init
<1>4. seen \in [DOMAIN seen -> Outcome] /\ Cardinality(DOMAIN seen) <= ReplayCap
  BY <1>3, HandlerAssumption DEF Init
<1>5. /\ stream = "away" /\ joined \in 0..Len(journal) /\ cursor \in 0..Len(journal)
      /\ dated \in BOOLEAN /\ misled \in BOOLEAN /\ copy = Nothing
      /\ lastId \in Nat /\ lastId <= Len(journal)
  <2>1. stream = "away" /\ joined = 0 /\ cursor = 0 /\ lastId = 0 /\ copy = Nothing
    BY DEF Init
  <2>2. dated \in BOOLEAN /\ misled \in BOOLEAN
    BY Zenon DEF Init
  <2> QED BY <1>2, <2>1, <2>2
<1>6. /\ held \in State /\ step \in [Worker -> Place]
      /\ req \in [Worker -> HttpRequest \cup {Nothing}]
      /\ resp \in [Worker -> [status : Nat, etag : Rev \cup {Nothing}]]
      /\ done \in [Worker -> [old : State \cup {Nothing}, new : State \cup {Nothing}, of : Nat]]
  BY <1>1 DEF Init, Place, State, NoResponse, NoChange
<1>7. Types
  BY <1>2, <1>3, <1>4, <1>5, <1>6 DEF Types
<1>8. ASSUME NEW w \in Worker PROVE Stands(w)
  BY <1>2 DEF Init, Stands, Changed, NoChange
<1> QED BY <1>7, <1>8 DEF Sound

(* A request is passed on or answered. *)
LEMMA OnlyMoves ==
  ASSUME Sound, NEW w \in Worker, step[w] # "idle", NEW label \in {"calling", "replying"},
         Goto(w, label),
         resp' \in [Worker -> [status : Nat, etag : Rev \cup {Nothing}]],
         UNCHANGED <<held, seen, req, done, journal, feed, commits, landed>>
  PROVE  Sound'
<1>1. Types'
  BY DEF Sound, Types, Place, Goto, feed, reader
<1>2. ASSUME NEW v \in Worker PROVE Stands(v)'
  BY DEF Sound, Types, Stands, Goto, Changed, Keyed, Op
<1> QED BY <1>1, <1>2 DEF Sound

LEMMA AnsweredTypes ==
  ASSUME Sound, NEW w \in Worker, step[w] # "idle", NEW status \in Nat, NEW etag \in Rev \cup {Nothing},
         Answered(w, status, etag)
  PROVE  Sound'
<1>1. resp' \in [Worker -> [status : Nat, etag : Rev \cup {Nothing}]]
  BY DEF Answered, Sound, Types
<1> QED BY <1>1, OnlyMoves DEF Answered

(* The steps of Serve before and instead of a change. *)
LEMMA RefusalTypes ==
  ASSUME Sound, NEW w \in Worker,
         RefuseForm(w) \/ Replayed(w) \/ NotReplayed(w) \/ RefuseEdits(w) \/ CallRefused(w)
  PROVE  Sound'
<1>1. CASE RefuseForm(w)
  <2>1. FormStatus[req[w].form] \in Nat
    BY <1>1, Statuses DEF RefuseForm
  <2> QED BY <1>1, <2>1, AnsweredTypes DEF RefuseForm
<1>2. CASE Replayed(w)
  <2>1. seen[req[w].key].rev \in Rev
    BY <1>2 DEF Replayed, Sound, Types, Outcome
  <2>2. step[w] # "idle"
    BY <1>2 DEF Replayed
  <2>3. Answered(w, 422, Nothing) \/ Answered(w, 204, seen[req[w].key].rev)
    BY <1>2 DEF Replayed
  <2> QED BY <2>1, <2>2, <2>3, AnsweredTypes
<1>3. CASE NotReplayed(w)
  <2>1. resp' \in [Worker -> [status : Nat, etag : Rev \cup {Nothing}]]
    BY <1>3 DEF NotReplayed, Pass, Sound, Types
  <2> QED BY <1>3, <2>1, OnlyMoves DEF NotReplayed, Pass
<1>4. CASE RefuseEdits(w)
  BY <1>4, AnsweredTypes DEF RefuseEdits
<1>5. CASE CallRefused(w)
  <2>1. PICK why \in Reason : Answered(w, ErrorStatus(why), Nothing)
    BY <1>5 DEF CallRefused
  <2>2. step[w] # "idle"
    BY <1>5 DEF CallRefused
  <2> QED BY <2>1, <2>2, Statuses, AnsweredTypes
<1> QED BY <1>1, <1>2, <1>3, <1>4, <1>5

LEMMA AcceptTypes == ASSUME Sound, NEW w \in Worker, Accept(w) PROVE Sound'
<1>1. PICK r \in Workload : req' = [req EXCEPT ![w] = r]
  BY DEF Accept
<1>2. r \in HttpRequest
  BY WorkloadAssumption
<1>3. Types'
  BY <1>1, <1>2 DEF Accept, Sound, Types, Place, Goto, feed, reader
<1>4. ASSUME NEW v \in Worker PROVE Stands(v)'
  BY <1>1, <1>2 DEF Accept, Sound, Types, Stands, Goto, Changed, Keyed, Op
<1> QED BY <1>3, <1>4 DEF Sound

(* What a landing call does. *)
LEMMA Landed ==
  ASSUME Sound, NEW w \in Worker, CallLands(w)
  PROVE  \E h2 \in Resident \cup {"missing"} :
           /\ held' = h2 /\ h2 \in (IF Op(w) = "delete" THEN {"missing"} ELSE Doc)
           /\ req[w] \in HttpRequest
           /\ [old |-> held, new |-> h2] \in Change
           /\ commits' = Append(commits, [old |-> held, new |-> h2])
           /\ commits' \in Seq(Change)
           /\ Len(commits') = Len(commits) + 1
           /\ DOMAIN commits' = 1..(Len(commits) + 1)
           /\ \A n \in 1..Len(commits) : commits'[n] = commits[n]
           /\ commits'[Len(commits) + 1] = [old |-> held, new |-> h2]
           /\ done' = [done EXCEPT ![w] = [old |-> held, new |-> h2, of |-> Len(commits) + 1]]
           /\ step' = [step EXCEPT ![w] = IF Keyed(w) THEN "remembering" ELSE "announcing"]
           /\ landed' = IF ~Keyed(w) THEN landed
                        ELSE [landed EXCEPT ![req[w].key] =
                                Append(@, [new |-> h2, body |-> req[w].call.batch])]
           /\ UNCHANGED <<seen, req, resp, journal, feed>>
<1>1. PICK h2 \in Resident \cup {"missing"} :
       /\ Effect(req[w].call, held, h2)
       /\ held' = h2
       /\ commits' = Append(commits, [old |-> held, new |-> h2])
       /\ done' = [done EXCEPT ![w] = [old |-> held, new |-> h2, of |-> Len(commits) + 1]]
       /\ landed' =
            IF Op(w) # "apply" \/ req[w].key = Nothing THEN landed
            ELSE [landed EXCEPT ![req[w].key] = Append(@, [new |-> h2, body |-> req[w].call.batch])]
  BY DEF CallLands
<1>2. req[w] \in HttpRequest
  BY DEF CallLands, Sound, Stands
<1>3. h2 \in (IF Op(w) = "delete" THEN {"missing"} ELSE Doc)
  BY <1>1, <1>2, Effects DEF Op
<1>4. Resident \subseteq Doc
  BY DocAssumption
<1>5. [old |-> held, new |-> h2] \in Change /\ commits \in Seq(Change)
  BY <1>4 DEF Change, Sound, Types, State
<1> DEFINE c == [old |-> held, new |-> h2]
<1>6. c \in Change
  BY <1>5
<1> HIDE DEF c
<1>7. /\ Append(commits, c) \in Seq(Change)
      /\ Len(Append(commits, c)) = Len(commits) + 1
      /\ DOMAIN Append(commits, c) = 1..(Len(commits) + 1)
      /\ \A n \in 1..Len(commits) : Append(commits, c)[n] = commits[n]
      /\ Append(commits, c)[Len(commits) + 1] = c
  BY <1>5, <1>6, Appended
<1>8. /\ step' = [step EXCEPT ![w] = IF Keyed(w) THEN "remembering" ELSE "announcing"]
      /\ landed' = IF ~Keyed(w) THEN landed
                   ELSE [landed EXCEPT ![req[w].key] =
                           Append(@, [new |-> h2, body |-> req[w].call.batch])]
      /\ UNCHANGED <<seen, req, resp, journal, feed>>
  BY <1>1 DEF CallLands, Goto, Keyed
<1> QED BY <1>1, <1>2, <1>3, <1>5, <1>7, <1>8 DEF c

LEMMA CallLandsTypes == ASSUME Sound, NEW w \in Worker, CallLands(w) PROVE Sound'
<1>1. PICK h2 \in Resident \cup {"missing"} :
           /\ held' = h2 /\ h2 \in (IF Op(w) = "delete" THEN {"missing"} ELSE Doc)
           /\ req[w] \in HttpRequest
           /\ commits' \in Seq(Change)
           /\ Len(commits') = Len(commits) + 1
           /\ DOMAIN commits' = 1..(Len(commits) + 1)
           /\ \A n \in 1..Len(commits) : commits'[n] = commits[n]
           /\ commits'[Len(commits) + 1] = [old |-> held, new |-> h2]
           /\ done' = [done EXCEPT ![w] = [old |-> held, new |-> h2, of |-> Len(commits) + 1]]
           /\ step' = [step EXCEPT ![w] = IF Keyed(w) THEN "remembering" ELSE "announcing"]
           /\ landed' = IF ~Keyed(w) THEN landed
                        ELSE [landed EXCEPT ![req[w].key] =
                                Append(@, [new |-> h2, body |-> req[w].call.batch])]
           /\ UNCHANGED <<seen, req, resp, journal, feed>>
  BY Landed
<1>2. Resident \subseteq Doc
  BY DocAssumption
<1>3. Types /\ Len(commits) \in Nat /\ DOMAIN commits = 1..Len(commits)
  BY Numbers DEF Sound
<1>4. landed' \in [Key -> Seq(Landing)]
  <2>1. CASE ~Keyed(w)
    BY <1>1, <1>3, <2>1 DEF Types
  <2>2. CASE Keyed(w)
    <3>1. req[w].key \in Key /\ req[w].call.batch \in Batch
      BY <1>1, <2>2, Requested DEF Keyed, Op
    <3>2. [new |-> h2, body |-> req[w].call.batch] \in Landing
      BY <1>2, <3>1 DEF Landing, State
    <3>3. Append(landed[req[w].key], [new |-> h2, body |-> req[w].call.batch]) \in Seq(Landing)
      BY <1>3, <3>1, <3>2, Appended DEF Types
    <3> QED BY <1>1, <1>3, <2>2, <3>1, <3>3 DEF Types
  <2> QED BY <2>1, <2>2
<1>5. /\ held' \in State /\ seen' = seen /\ req' = req /\ resp' = resp /\ journal' = journal
      /\ UNCHANGED <<stream, joined, cursor, lastId, dated, misled, copy>>
  BY <1>1, <1>2 DEF State, feed, reader
<1>6. step' \in [Worker -> Place]
  BY <1>1, <1>3 DEF Types, Place
<1>7. done' \in [Worker -> [old : State \cup {Nothing}, new : State \cup {Nothing}, of : Nat]]
  BY <1>1, <1>2, <1>3 DEF Types, State
<1>8. Types'
  BY <1>1, <1>3, <1>4, <1>5, <1>6, <1>7 DEF Types
<1>9. ASSUME NEW v \in Worker PROVE Stands(v)'
  <2>1. CASE v = w
    BY <1>1, <1>3, <2>1 DEF Stands, Types, Changed, Keyed, Op
  <2>2. CASE v # w
    <3>1. Stands(v) /\ done'[v] = done[v] /\ step'[v] = step[v] /\ req'[v] = req[v] /\ done[v].of \in Nat
      BY <1>1, <1>3, <2>2 DEF Sound, Types
    <3> QED BY <1>1, <1>3, <3>1 DEF Stands, Changed, Keyed, Op
  <2> QED BY <2>1, <2>2
<1> QED BY <1>8, <1>9 DEF Sound

(* What remembering an outcome leaves in the cache and forgets. *)
LEMMA Remembered ==
  ASSUME Sound, NEW w \in Worker, Remember(w)
  PROVE  LET k == req[w].key
             kept == DOMAIN seen' \ {k}
         IN /\ Keyed(w) /\ k \in Key /\ req[w].call.batch \in Batch /\ done[w].new \in Doc
            /\ k \in DOMAIN seen' /\ kept \subseteq DOMAIN seen
            /\ IsFiniteSet(DOMAIN seen') /\ Cardinality(DOMAIN seen') <= ReplayCap
            /\ seen' \in [DOMAIN seen' -> Outcome]
            /\ seen'[k] = [rev |-> Revision[done[w].new], body |-> req[w].call.batch]
            /\ \A j \in kept : seen'[j] = seen[j]
            /\ landed' = [j \in Key |-> IF j \in DOMAIN seen \ DOMAIN seen' THEN <<>> ELSE landed[j]]
<1> DEFINE k == req[w].key
           outcome == [rev |-> Revision[done[w].new], body |-> req[w].call.batch]
<1>1. PICK kept : /\ kept = IF Cardinality(DOMAIN seen) >= ReplayCap THEN {} ELSE DOMAIN seen
                  /\ seen' = [j \in kept \cup {k} |-> IF j = k THEN outcome ELSE seen[j]]
                  /\ landed' = [j \in Key |-> IF j \in DOMAIN seen \ (kept \cup {k})
                                              THEN <<>> ELSE landed[j]]
  BY DEF Remember
<1>2. /\ Keyed(w) /\ k \in Key /\ req[w].call.batch \in Batch /\ done[w].new \in Doc
  <2>1. Keyed(w) /\ req[w] \in HttpRequest /\ done[w].new \in Doc
    BY DEF Remember, Sound, Stands, Changed, Keyed
  <2> QED BY <2>1, Requested DEF Keyed, Op
<1>3. outcome \in Outcome
  BY <1>2, Revisions DEF Outcome
<1>4. DOMAIN seen' = kept \cup {k}
  BY <1>1
<1>5. IsFiniteSet(kept) /\ Cardinality(kept) < ReplayCap
  <2>1. CASE Cardinality(DOMAIN seen) >= ReplayCap
    BY <1>1, <2>1, FS_EmptySet, HandlerAssumption
  <2>2. CASE ~(Cardinality(DOMAIN seen) >= ReplayCap)
    <3>1. IsFiniteSet(DOMAIN seen) /\ Cardinality(DOMAIN seen) \in Nat
      BY FS_CardinalityType DEF Sound, Types
    <3> QED BY <1>1, <2>2, <3>1, HandlerAssumption
  <2> QED BY <2>1, <2>2
<1>6. IsFiniteSet(DOMAIN seen') /\ Cardinality(DOMAIN seen') <= ReplayCap
  <2>1. /\ IsFiniteSet(kept \cup {k}) /\ Cardinality(kept) \in Nat
        /\ Cardinality(kept \cup {k}) = IF k \in kept THEN Cardinality(kept) ELSE Cardinality(kept) + 1
    BY <1>5, FS_AddElement, FS_CardinalityType
  <2> QED BY <1>4, <1>5, <2>1, HandlerAssumption
<1>7. kept \subseteq DOMAIN seen
  BY <1>1
<1>8. seen' \in [DOMAIN seen' -> Outcome]
  <2>1. \A j \in DOMAIN seen : seen[j] \in Outcome
    BY DEF Sound, Types
  <2> HIDE DEF outcome, k
  <2> QED BY <1>1, <1>3, <1>4, <1>7, <2>1
<1> HIDE DEF outcome
<1>9. seen'[k] = outcome /\ \A j \in DOMAIN seen' \ {k} : seen'[j] = seen[j]
  BY <1>1, <1>4
<1> QED BY <1>1, <1>2, <1>4, <1>6, <1>7, <1>8, <1>9 DEF outcome

LEMMA RememberTypes == ASSUME Sound, NEW w \in Worker, Remember(w) PROVE Sound'
<1>1. /\ Keyed(w) /\ req[w].key \in Key
      /\ DOMAIN seen' \subseteq Key
      /\ IsFiniteSet(DOMAIN seen') /\ Cardinality(DOMAIN seen') <= ReplayCap
      /\ seen' \in [DOMAIN seen' -> Outcome]
  BY Remembered DEF Sound, Types
<1>2. landed' \in [Key -> Seq(Landing)]
  <2>1. landed \in [Key -> Seq(Landing)] /\ <<>> \in Seq(Landing)
    BY EmptySeq DEF Sound, Types
  <2> QED BY <2>1, Remembered
<1>3. Types'
  BY <1>1, <1>2 DEF Remember, Sound, Types, Place, Goto, feed, reader
<1>4. ASSUME NEW v \in Worker PROVE Stands(v)'
  BY <1>1 DEF Remember, Sound, Types, Stands, Goto, Changed, Keyed, Op
<1> QED BY <1>3, <1>4 DEF Sound

(* A journal one event longer. *)
LEMMA Broadcasts ==
  ASSUME Sound, NEW w \in Worker, Changed(w), NEW name \in {"changed", "reset", "deleted", "computed"},
         Broadcast(w, name)
  PROVE  /\ journal' \in Seq(Event)
         /\ Len(journal) \in Nat /\ Len(journal') = Len(journal) + 1
         /\ DOMAIN journal = 1..Len(journal) /\ DOMAIN journal' = 1..(Len(journal) + 1)
         /\ \A i \in 1..Len(journal) : journal'[i] = journal[i]
         /\ journal'[Len(journal) + 1] =
              [name |-> name, old |-> done[w].old, new |-> done[w].new, of |-> done[w].of]
<1> DEFINE e == [name |-> name, old |-> done[w].old, new |-> done[w].new, of |-> done[w].of]
<1>1. e \in Event
  <2>1. done[w].of \in Nat /\ commits[done[w].of] = [old |-> done[w].old, new |-> done[w].new]
        /\ done[w].of \in DOMAIN commits
    BY DEF Sound, Types, Stands
  <2>2. commits[done[w].of] \in Change
    BY <2>1, Numbers DEF Sound
  <2>3. done[w].old \in State /\ done[w].new \in State
    BY <2>1, <2>2 DEF Change, State
  <2> QED BY <2>1, <2>3 DEF Event
<1>2. journal \in Seq(Event) /\ journal' = Append(journal, e)
  BY DEF Sound, Types, Broadcast
<1> HIDE DEF e
<1>3. /\ Append(journal, e) \in Seq(Event)
      /\ Len(journal) \in Nat /\ Len(Append(journal, e)) = Len(journal) + 1
      /\ DOMAIN journal = 1..Len(journal) /\ DOMAIN Append(journal, e) = 1..(Len(journal) + 1)
      /\ \A i \in 1..Len(journal) : Append(journal, e)[i] = journal[i]
      /\ Append(journal, e)[Len(journal) + 1] = e
  BY <1>1, <1>2, Appended
<1> QED BY <1>2, <1>3 DEF e

LEMMA Names ==
  ASSUME NEW r \in HttpRequest
  PROVE  /\ EventName[r.call.op] \in {"changed", "reset", "deleted"}
         /\ EventName[r.call.op] = "deleted" <=> r.call.op = "delete"
BY Requested DEF EventName

LEMMA AnnounceTypes == ASSUME Sound, NEW w \in Worker, Announce(w) PROVE Sound'
<1>1. Changed(w) /\ req[w] \in HttpRequest
  BY DEF Announce, Sound, Stands, Changed
<1>2. Op(w) \in {"put", "apply", "delete"} /\ EventName[Op(w)] \in {"changed", "reset", "deleted"}
  BY <1>1, Requested, Names DEF Op
<1>3. journal' \in Seq(Event) /\ Len(journal) \in Nat /\ Len(journal') = Len(journal) + 1
  BY <1>1, <1>2, Broadcasts DEF Announce
<1>4. Success(w) \in [status : Nat, etag : Rev \cup {Nothing}]
  <2>1. Op(w) # "delete" => Revision[done[w].new] \in Rev
    BY <1>1, Revisions DEF Sound, Stands
  <2> QED BY <1>2, <2>1 DEF Success
<1>5. /\ joined \in 0..Len(journal') /\ cursor \in 0..Len(journal')
      /\ dated \/ lastId <= Len(journal')
  BY <1>3 DEF Sound, Types
<1>6. Types'
  BY <1>3, <1>4, <1>5 DEF Announce, Sound, Types, Place, Goto, feed, reader
<1>7. ASSUME NEW v \in Worker PROVE Stands(v)'
  BY DEF Announce, Sound, Types, Stands, Goto, Changed, Keyed, Op
<1> QED BY <1>6, <1>7 DEF Sound

LEMMA AnnounceComputedTypes == ASSUME Sound, NEW w \in Worker, AnnounceComputed(w) PROVE Sound'
<1>1. Changed(w)
  BY DEF AnnounceComputed, Changed
<1>2. /\ journal' \in Seq(Event)
      /\ joined \in 0..Len(journal') /\ cursor \in 0..Len(journal')
      /\ dated \/ lastId <= Len(journal')
  <2>1. CASE Broadcast(w, "computed")
    <3>1. journal' \in Seq(Event) /\ Len(journal) \in Nat /\ Len(journal') = Len(journal) + 1
      BY <1>1, <2>1, Broadcasts
    <3> QED BY <3>1 DEF Sound, Types
  <2>2. CASE UNCHANGED journal
    BY <2>2 DEF Sound, Types
  <2> QED BY <2>1, <2>2 DEF AnnounceComputed
<1>3. Types'
  BY <1>2 DEF AnnounceComputed, Sound, Types, Place, Goto, feed, reader
<1>4. ASSUME NEW v \in Worker PROVE Stands(v)'
  BY DEF AnnounceComputed, Sound, Types, Stands, Goto, Changed, Keyed, Op
<1> QED BY <1>3, <1>4 DEF Sound

LEMMA RespondTypes == ASSUME Sound, NEW w \in Worker, Respond(w) PROVE Sound'
<1>1. Types'
  BY DEF Respond, Sound, Types, Place, Goto, feed, reader, NoResponse, NoChange
<1>2. Len(commits) \in Nat
  BY Numbers DEF Sound
<1>3. ASSUME NEW v \in Worker PROVE Stands(v)'
  BY <1>2 DEF Respond, Sound, Types, Stands, Goto, Changed, Keyed, Op, NoChange
<1> QED BY <1>1, <1>3 DEF Sound

LEMMA FeedTypes == ASSUME Sound, FeedStep \/ FeedLost PROVE Sound'
<1>1. Types /\ Len(journal) \in Nat /\ \A i \in 1..Len(journal) : journal[i] \in Event
  BY Numbers DEF Sound
<1>2. UNCHANGED <<held, seen, work, journal, commits, landed>>
  BY DEF FeedStep, FeedGet, FeedSubscribe, FeedReset, FeedFetch, FeedEvent, FeedLost, ReaderOnly
<1>3. /\ stream' \in {"away", "found", "reset", "open"}
      /\ joined' \in 0..Len(journal) /\ cursor' \in 0..Len(journal)
      /\ dated' \in BOOLEAN /\ misled' \in BOOLEAN
      /\ lastId' \in Nat /\ (dated' \/ lastId' <= Len(journal))
      /\ copy' \in State \cup {Nothing}
  <2>1. CASE FeedGet
    BY <1>1, <2>1 DEF FeedGet, Types, reader
  <2>2. CASE FeedSubscribe
    <3>1. /\ stream' \in {"open", "reset"} /\ joined' \in 0..Len(journal)
          /\ cursor' \in 0..Len(journal) /\ copy' \in State \cup {Nothing}
          /\ UNCHANGED <<lastId, dated>>
      BY <1>1, <2>2 DEF FeedSubscribe, Types
    <3>2. misled' \in BOOLEAN
      BY <1>1, <2>2 DEF FeedSubscribe, Types
    <3> QED BY <1>1, <3>1, <3>2 DEF Types
  <2>3. CASE FeedReset
    BY <1>1, <2>3 DEF FeedReset, Types
  <2>4. CASE FeedFetch
    BY <1>1, <2>4 DEF FeedFetch, Types
  <2>5. CASE FeedLost
    BY <1>1, <2>5 DEF FeedLost, Hangup, Types, reader
  <2>6. CASE FeedEvent
    <3>1. cursor + 1 \in 1..Len(journal)
      BY <1>1, <2>6 DEF FeedEvent, Types
    <3>2. journal[cursor + 1] \in Event
      BY <1>1, <3>1
    <3>3. copy' \in State \cup {Nothing}
      <4>1. held \in State /\ copy \in State \cup {Nothing} /\ "missing" \in State
        BY <1>1 DEF Types, State
      <4>2. journal[cursor + 1].new \in State
        BY <3>2 DEF Event
      <4>3. copy' \in {copy, "missing", journal[cursor + 1].new, held}
        BY <2>6 DEF FeedEvent
      <4> QED BY <4>1, <4>2, <4>3
    <3>4. misled' \in BOOLEAN
      BY <1>1, <2>6 DEF FeedEvent, Types
    <3>5. /\ stream' \in {"away", "open"} /\ joined' \in 0..Len(journal)
          /\ cursor' \in 0..Len(journal)
      BY <1>1, <2>6, <3>1 DEF FeedEvent, Hangup, Types
    <3>6. lastId' = cursor + 1 /\ dated' \in BOOLEAN
      BY <2>6 DEF FeedEvent
    <3>7. lastId' \in Nat /\ lastId' <= Len(journal)
      BY <1>1, <3>1, <3>6
    <3> QED BY <3>3, <3>4, <3>5, <3>6, <3>7
  <2> QED BY <2>1, <2>2, <2>3, <2>4, <2>5, <2>6 DEF FeedStep
<1>4. Types'
  BY <1>1, <1>2, <1>3 DEF Types, work
<1>5. ASSUME NEW v \in Worker PROVE Stands(v)'
  BY <1>2 DEF Sound, Stands, Changed, Keyed, Op, work
<1> QED BY <1>4, <1>5 DEF Sound

LEMMA CrashTypes == ASSUME Sound, Crash PROVE Sound'
<1>1. /\ journal' \in Seq(Event) /\ commits' \in Seq(Change)
      /\ Len(journal') = 0 /\ Len(commits') = 0
      /\ landed' \in [Key -> Seq(Landing)]
  BY EmptySeq DEF Crash
<1>2. DOMAIN seen' = {} /\ IsFiniteSet({}) /\ Cardinality({}) = 0
  BY FS_EmptySet DEF Crash
<1>3. seen' \in [DOMAIN seen' -> Outcome] /\ Cardinality(DOMAIN seen') <= ReplayCap
  BY <1>2, HandlerAssumption DEF Crash
<1>6. dated' \in BOOLEAN /\ (dated' \/ lastId' <= 0) /\ lastId' = lastId /\ misled' = misled
  <2>1. dated' = (lastId > 0) /\ lastId' = lastId /\ misled' = misled /\ lastId \in Nat
    BY DEF Crash, Sound, Types
  <2>2. CASE lastId > 0
    BY <2>1, <2>2
  <2>3. CASE ~(lastId > 0)
    BY <2>1, <2>3
  <2> QED BY <2>2, <2>3
<1>4. Types'
  BY <1>1, <1>2, <1>3, <1>6 DEF Crash, Hangup, Sound, Types, Place, NoResponse, NoChange
<1>5. ASSUME NEW v \in Worker PROVE Stands(v)'
  BY <1>1 DEF Crash, Stands, Changed, NoChange
<1> QED BY <1>4, <1>5 DEF Sound

LEMMA StepTypes == Sound /\ [Next]_vars => Sound'
<1> SUFFICES ASSUME Sound, [Next]_vars PROVE Sound'
  OBVIOUS
<1>1. ASSUME NEW w \in Worker, Accept(w) PROVE Sound'
  BY <1>1, AcceptTypes
<1>2. ASSUME NEW w \in Worker, Serve(w) PROVE Sound'
  BY <1>2, RefusalTypes, CallLandsTypes, RememberTypes, AnnounceTypes, AnnounceComputedTypes,
     RespondTypes DEF Serve
<1>3. CASE FeedStep \/ FeedLost
  BY <1>3, FeedTypes
<1>4. CASE Crash
  BY <1>4, CrashTypes
<1>5. CASE UNCHANGED vars
  <2>1. Types'
    BY <1>5 DEF vars, work, feed, reader, Sound, Types
  <2>2. ASSUME NEW v \in Worker PROVE Stands(v)'
    BY <1>5 DEF vars, work, Sound, Stands, Changed, Keyed, Op
  <2> QED BY <2>1, <2>2 DEF Sound
<1> QED BY <1>1, <1>2, <1>3, <1>4, <1>5 DEF Next

(* Every variable keeps its type, the cache its bound. *)
THEOREM TypeCorrect == Spec => []TypedAndBounded
<1>1. Sound => TypedAndBounded
  <2> SUFFICES ASSUME Sound PROVE TypedAndBounded
    OBVIOUS
  <2>1. Types /\ \A w \in Worker : Stands(w)
    BY DEF Sound
  <2>2. /\ \A i \in DOMAIN commits : commits[i] \in Change
        /\ Len(commits) \in Nat
    BY <2>1, Numbers
  <2>3. ASSUME NEW w \in Worker PROVE done[w].of \in 0..Len(commits)
    <3>1. done[w].of \in Nat /\ done[w].of <= Len(commits)
      BY <2>1 DEF Types, Stands
    <3> QED BY <2>2, <3>1
  <2> QED BY <2>1, <2>2, <2>3 DEF TypedAndBounded, Types, State, Place, Outcome
<1> QED BY <1>1, InitTypes, StepTypes, PTL DEF Spec
-----------------------------------------------------------------------------
(* What the feed tells of. *)

Journalled ==
  /\ AnnouncedOnce /\ NothingLost /\ DeletedIsMissing /\ LastIsHeld
  /\ \A w \in Worker : Owes(w)

(* A step that moves no change along. *)
LEMMA Undisturbed ==
  ASSUME Journalled, UNCHANGED <<held, journal, commits>>,
         \A v \in Worker : /\ Pending(v)' <=> Pending(v)
                           /\ step'[v] = "computing" => step[v] = "computing"
                           /\ Changed(v)' => done'[v] = done[v]
  PROVE  Journalled'
<1>1. StateEvents' = StateEvents
  BY DEF StateEvents
<1>2. ASSUME NEW v \in Worker
      PROVE  /\ Pending(v)' <=> Pending(v)
             /\ step'[v] = "computing" => step[v] = "computing"
             /\ Pending(v) => done'[v] = done[v]
             /\ step'[v] = "computing" => done'[v] = done[v]
  BY DEF Changed, Pending
<1>3. AnnouncedOnce' /\ DeletedIsMissing' /\ LastIsHeld'
  BY <1>1 DEF Journalled, AnnouncedOnce, DeletedIsMissing, LastIsHeld
<1>4. NothingLost'
  BY <1>1, <1>2 DEF Journalled, NothingLost
<1>5. ASSUME NEW w \in Worker PROVE Owes(w)'
  <2>1. Pending(w)' => \A i \in StateEvents' : journal'[i].of # done'[w].of
    BY <1>1, <1>2 DEF Journalled, Owes
  <2>2. Pending(w)' => \A v \in Worker : Pending(v)' /\ done'[v].of = done'[w].of => v = w
    BY <1>2 DEF Journalled, Owes
  <2>3. step'[w] = "computing" => \E i \in StateEvents' : journal'[i].of = done'[w].of
    BY <1>1, <1>2 DEF Journalled, Owes
  <2> QED BY <2>1, <2>2, <2>3 DEF Owes
<1> QED BY <1>3, <1>4, <1>5 DEF Journalled

LEMMA CallLandsJournals ==
  ASSUME Sound, Journalled, NEW w \in Worker, CallLands(w) PROVE Journalled'
<1>1. PICK h2 \in Resident \cup {"missing"} :
           /\ held' = h2
           /\ commits' \in Seq(Change)
           /\ Len(commits') = Len(commits) + 1
           /\ DOMAIN commits' = 1..(Len(commits) + 1)
           /\ \A n \in 1..Len(commits) : commits'[n] = commits[n]
           /\ commits'[Len(commits) + 1] = [old |-> held, new |-> h2]
           /\ done' = [done EXCEPT ![w] = [old |-> held, new |-> h2, of |-> Len(commits) + 1]]
           /\ step' = [step EXCEPT ![w] = IF Keyed(w) THEN "remembering" ELSE "announcing"]
           /\ UNCHANGED journal
  BY Landed
<1>2. Types /\ Len(commits) \in Nat /\ DOMAIN commits = 1..Len(commits)
  BY Numbers DEF Sound
<1>3. StateEvents' = StateEvents /\ StateEvents \subseteq DOMAIN journal
  BY <1>1 DEF StateEvents
<1>4. \A i \in DOMAIN journal : journal[i].of \in 1..Len(commits)
  BY <1>2 DEF Journalled, AnnouncedOnce
<1>5. /\ Pending(w)' /\ done'[w].of = Len(commits) + 1 /\ step'[w] # "computing"
      /\ ~Pending(w)
  BY <1>1, <1>2 DEF Types, Pending, CallLands
<1>6. ASSUME NEW v \in Worker, v # w
      PROVE  /\ step'[v] = step[v] /\ done'[v] = done[v]
             /\ step[v] \in {"remembering", "announcing"} => done[v].of \in 1..Len(commits)
  <2>1. step'[v] = step[v] /\ done'[v] = done[v]
    BY <1>1, <1>2, <1>6 DEF Types
  <2>2. Pending(v) => done[v].of \in DOMAIN commits
    BY DEF Pending, Sound, Stands, Changed
  <2> QED BY <1>2, <2>1, <2>2 DEF Pending
<1>7. AnnouncedOnce'
  BY <1>1, <1>2, <1>3, <1>4 DEF Journalled, AnnouncedOnce
<1>8. NothingLost'
  <2> SUFFICES ASSUME NEW n \in DOMAIN commits'
               PROVE  \/ \E i \in StateEvents : journal[i].of = n
                      \/ \E v \in Worker : Pending(v)' /\ done'[v].of = n
    BY <1>1, <1>3 DEF NothingLost
  <2>1. CASE n = Len(commits) + 1
    BY <1>5, <2>1 DEF Pending
  <2>2. CASE n # Len(commits) + 1
    <3>1. n \in DOMAIN commits
      BY <1>1, <1>2, <2>2
    <3> QED BY <1>5, <1>6, <3>1 DEF Journalled, NothingLost, Pending
  <2> QED BY <2>1, <2>2
<1>9. DeletedIsMissing' /\ LastIsHeld'
  BY <1>1 DEF Journalled, DeletedIsMissing, LastIsHeld
<1>10. ASSUME NEW u \in Worker PROVE Owes(u)'
  <2>1. CASE u = w
    <3>1. \A i \in StateEvents : journal[i].of # done'[u].of
      BY <1>2, <1>3, <1>4, <1>5, <2>1
    <3>2. ASSUME NEW v \in Worker, Pending(v)', done'[v].of = done'[u].of PROVE v = u
      BY <1>2, <1>5, <1>6, <2>1, <3>2 DEF Pending
    <3> QED BY <1>1, <1>3, <1>5, <2>1, <3>1, <3>2 DEF Owes
  <2>2. CASE u # w
    <3>1. step'[u] = step[u] /\ done'[u] = done[u] /\ Owes(u)
      BY <1>6, <2>2 DEF Journalled
    <3>2. ASSUME Pending(u), NEW v \in Worker, Pending(v)', done'[v].of = done'[u].of PROVE v = u
      <4>1. v # w
        BY <1>2, <1>5, <1>6, <2>2, <3>1, <3>2 DEF Pending
      <4> QED BY <1>6, <3>1, <3>2, <4>1 DEF Owes, Pending
    <3> QED BY <1>1, <1>3, <3>1, <3>2 DEF Owes, Pending
  <2> QED BY <2>1, <2>2
<1> QED BY <1>7, <1>8, <1>9, <1>10 DEF Journalled

(* The state events once one more event is in the journal. *)
LEMMA StateEventsGrow ==
  ASSUME Sound, NEW w \in Worker, Changed(w), NEW name \in {"changed", "reset", "deleted", "computed"},
         Broadcast(w, name)
  PROVE  LET last == Len(journal) + 1 IN
         /\ Len(journal) \in Nat /\ StateEvents \subseteq 1..Len(journal)
         /\ StateEvents' = IF name = "computed" THEN StateEvents ELSE StateEvents \cup {last}
         /\ DOMAIN journal' = 1..last /\ DOMAIN journal = 1..Len(journal)
         /\ \A i \in 1..Len(journal) : journal'[i] = journal[i]
         /\ journal'[last] = [name |-> name, old |-> done[w].old, new |-> done[w].new, of |-> done[w].of]
<1>1. /\ Len(journal) \in Nat
      /\ DOMAIN journal = 1..Len(journal) /\ DOMAIN journal' = 1..(Len(journal) + 1)
      /\ \A i \in 1..Len(journal) : journal'[i] = journal[i]
      /\ journal'[Len(journal) + 1] =
           [name |-> name, old |-> done[w].old, new |-> done[w].new, of |-> done[w].of]
  BY Broadcasts
<1> QED BY <1>1 DEF StateEvents

LEMMA AnnounceJournals ==
  ASSUME Sound, Journalled, NEW w \in Worker, Announce(w) PROVE Journalled'
<1> DEFINE last == Len(journal) + 1
           name == EventName[Op(w)]
<1>1. /\ Changed(w) /\ Pending(w) /\ req[w] \in HttpRequest
  BY DEF Announce, Sound, Stands, Changed, Pending
<1>2. name \in {"changed", "reset", "deleted"} /\ (name = "deleted" <=> Op(w) = "delete")
  BY <1>1, Names DEF Op
<1>3. /\ Len(journal) \in Nat /\ StateEvents \subseteq 1..Len(journal)
      /\ StateEvents' = StateEvents \cup {last}
      /\ DOMAIN journal' = 1..last /\ DOMAIN journal = 1..Len(journal)
      /\ \A i \in 1..Len(journal) : journal'[i] = journal[i]
      /\ journal'[last] = [name |-> name, old |-> done[w].old, new |-> done[w].new, of |-> done[w].of]
  BY <1>1, <1>2, StateEventsGrow DEF Announce
<1>4. UNCHANGED <<held, done, commits>> /\ ~Pending(w)'
      /\ \A v \in Worker \ {w} : step'[v] = step[v]
  BY DEF Announce, Goto, Pending, Sound, Types
<1>5. /\ done[w].of \in DOMAIN commits
      /\ commits[done[w].of] = [old |-> done[w].old, new |-> done[w].new]
      /\ Op(w) = "delete" => done[w].new = "missing"
      /\ \A i \in StateEvents : journal[i].of # done[w].of
  BY <1>1 DEF Sound, Stands, Journalled, Owes
<1> HIDE DEF last, name
<1>6. last \notin StateEvents /\ last \notin DOMAIN journal /\ \A i \in 1..Len(journal) : i < last
  BY <1>3 DEF last
<1>7. DOMAIN journal' = DOMAIN journal \cup {last} /\ \A i \in DOMAIN journal : journal'[i] = journal[i]
  BY <1>3 DEF last
<1>0. /\ last \in StateEvents'
      /\ journal'[last].name = name /\ journal'[last].of = done[w].of
      /\ journal'[last].old = done[w].old /\ journal'[last].new = done[w].new
  BY <1>3
<1>8. AnnouncedOnce'
  <2>1. ASSUME NEW i \in DOMAIN journal'
        PROVE  /\ journal'[i].of \in DOMAIN commits
               /\ commits[journal'[i].of] = [old |-> journal'[i].old, new |-> journal'[i].new]
    <3>1. CASE i = last
      BY <1>0, <1>5, <3>1
    <3>2. CASE i \in DOMAIN journal
      BY <1>7, <3>2 DEF Journalled, AnnouncedOnce
    <3> QED BY <1>7, <3>1, <3>2
  <2>2. ASSUME NEW i \in StateEvents', NEW j \in StateEvents', journal'[i].of = journal'[j].of
        PROVE  i = j
    <3>1. CASE i = last \/ j = last
      BY <1>3, <1>5, <2>2, <3>1
    <3>2. CASE i # last /\ j # last
      BY <1>3, <2>2, <3>2 DEF Journalled, AnnouncedOnce
    <3> QED BY <3>1, <3>2
  <2>3. ASSUME NEW i \in DOMAIN journal' \ StateEvents'
        PROVE  \E j \in StateEvents' : j < i /\ journal'[j].of = journal'[i].of
    <3>1. i \in DOMAIN journal \ StateEvents
      BY <1>3, <1>7, <2>3
    <3>2. PICK j \in StateEvents : j < i /\ journal[j].of = journal[i].of
      BY <3>1 DEF Journalled, AnnouncedOnce
    <3> QED BY <1>3, <3>1, <3>2
  <2> QED BY <1>4, <2>1, <2>2, <2>3 DEF AnnouncedOnce
<1>9. NothingLost'
  <2> SUFFICES ASSUME NEW n \in DOMAIN commits
               PROVE  \/ \E i \in StateEvents' : journal'[i].of = n
                      \/ \E v \in Worker : Pending(v)' /\ done'[v].of = n
    BY <1>4 DEF NothingLost
  <2>1. CASE \E i \in StateEvents : journal[i].of = n
    BY <1>3, <2>1
  <2>2. CASE n = done[w].of
    BY <1>0, <2>2
  <2>3. CASE \E v \in Worker \ {w} : Pending(v) /\ done[v].of = n
    BY <1>4, <2>3 DEF Pending
  <2> QED BY <2>1, <2>2, <2>3 DEF Journalled, NothingLost
<1>10. DeletedIsMissing' /\ LastIsHeld'
  <2>1. ASSUME NEW i \in DOMAIN journal', journal'[i].name = "deleted" PROVE journal'[i].new = "missing"
    <3>1. CASE i = last
      BY <1>0, <1>2, <1>5, <2>1, <3>1
    <3>2. CASE i \in DOMAIN journal
      BY <1>7, <2>1, <3>2 DEF Journalled, DeletedIsMissing
    <3> QED BY <1>7, <3>1, <3>2
  <2> QED BY <1>4, <2>1 DEF Journalled, DeletedIsMissing, LastIsHeld
<1>11. ASSUME NEW u \in Worker PROVE Owes(u)'
  <2>1. CASE u = w
    BY <1>0, <1>4, <2>1 DEF Owes, Pending, Announce, Goto, Sound, Types
  <2>2. CASE u # w
    <3>1. step'[u] = step[u] /\ done'[u] = done[u] /\ (Pending(u)' <=> Pending(u))
      BY <1>4, <2>2 DEF Pending
    <3>2. Pending(u) => done[u].of # done[w].of
      BY <1>1, <2>2 DEF Journalled, Owes
    <3>3. Pending(u)' => \A i \in StateEvents' : journal'[i].of # done'[u].of
      BY <1>3, <3>1, <3>2 DEF Journalled, Owes
    <3>4. Pending(u)' => \A v \in Worker : Pending(v)' /\ done'[v].of = done'[u].of => v = u
      BY <1>4, <3>1 DEF Journalled, Owes, Pending
    <3>5. step'[u] = "computing" => \E i \in StateEvents' : journal'[i].of = done'[u].of
      <4>1. ASSUME step[u] = "computing", NEW i \in StateEvents, journal[i].of = done[u].of
            PROVE  i \in StateEvents' /\ journal'[i].of = done'[u].of
        BY <1>3, <3>1, <4>1
      <4> QED BY <3>1, <4>1 DEF Journalled, Owes
    <3> QED BY <3>3, <3>4, <3>5 DEF Owes
  <2> QED BY <2>1, <2>2
<1> QED BY <1>8, <1>9, <1>10, <1>11 DEF Journalled

LEMMA AnnounceComputedJournals ==
  ASSUME Sound, Journalled, NEW w \in Worker, AnnounceComputed(w) PROVE Journalled'
<1> DEFINE last == Len(journal) + 1
<1>1. /\ Changed(w) /\ ~Pending(w) /\ ~Pending(w)' /\ step'[w] # "computing"
      /\ UNCHANGED <<held, done, commits>> /\ \A v \in Worker \ {w} : step'[v] = step[v]
  BY DEF AnnounceComputed, Sound, Types, Changed, Pending, Goto
<1>2. \A v \in Worker : /\ Pending(v)' <=> Pending(v)
                        /\ step'[v] = "computing" => step[v] = "computing"
  BY <1>1 DEF Pending
<1>3. CASE UNCHANGED journal
  BY <1>1, <1>2, <1>3, Undisturbed
<1>4. CASE Broadcast(w, "computed")
  <2>1. /\ Len(journal) \in Nat /\ StateEvents \subseteq 1..Len(journal)
        /\ StateEvents' = StateEvents
        /\ DOMAIN journal' = 1..last /\ DOMAIN journal = 1..Len(journal)
        /\ \A i \in 1..Len(journal) : journal'[i] = journal[i]
        /\ journal'[last] =
             [name |-> "computed", old |-> done[w].old, new |-> done[w].new, of |-> done[w].of]
    BY <1>1, <1>4, StateEventsGrow
  <2>2. /\ done[w].of \in DOMAIN commits
        /\ commits[done[w].of] = [old |-> done[w].old, new |-> done[w].new]
        /\ \E i \in StateEvents : journal[i].of = done[w].of
    BY <1>1 DEF AnnounceComputed, Sound, Stands, Journalled, Owes
  <2> HIDE DEF last
  <2>3. \A i \in 1..Len(journal) : i < last
    BY <2>1 DEF last
  <2>4. DOMAIN journal' = DOMAIN journal \cup {last} /\ last \notin StateEvents
        /\ \A i \in DOMAIN journal : journal'[i] = journal[i]
    BY <2>1 DEF last
  <2>5. AnnouncedOnce'
    <3>1. ASSUME NEW i \in DOMAIN journal'
          PROVE  /\ journal'[i].of \in DOMAIN commits
                 /\ commits[journal'[i].of] = [old |-> journal'[i].old, new |-> journal'[i].new]
      <4>1. CASE i = last
        BY <2>1, <2>2, <4>1
      <4>2. CASE i \in DOMAIN journal
        BY <2>4, <4>2 DEF Journalled, AnnouncedOnce
      <4> QED BY <2>4, <4>1, <4>2
    <3>2. \A i, j \in StateEvents' : journal'[i].of = journal'[j].of => i = j
      BY <2>1 DEF Journalled, AnnouncedOnce
    <3>3. ASSUME NEW i \in DOMAIN journal' \ StateEvents'
          PROVE  \E j \in StateEvents' : j < i /\ journal'[j].of = journal'[i].of
      <4>1. CASE i = last
        BY <2>1, <2>2, <2>3, <4>1
      <4>2. CASE i # last
        <5>1. i \in DOMAIN journal \ StateEvents
          BY <2>1, <2>4, <3>3, <4>2
        <5> QED BY <2>1, <5>1 DEF Journalled, AnnouncedOnce
      <4> QED BY <4>1, <4>2
    <3> QED BY <1>1, <3>1, <3>2, <3>3 DEF AnnouncedOnce
  <2>6. NothingLost' /\ LastIsHeld'
    BY <1>1, <1>2, <2>1 DEF Journalled, NothingLost, LastIsHeld, Pending
  <2>7. DeletedIsMissing'
    <3>1. ASSUME NEW i \in DOMAIN journal', journal'[i].name = "deleted" PROVE journal'[i].new = "missing"
      <4>1. i # last
        BY <2>1, <3>1
      <4> QED BY <2>4, <3>1, <4>1 DEF Journalled, DeletedIsMissing
    <3> QED BY <3>1 DEF DeletedIsMissing
  <2>8. ASSUME NEW u \in Worker PROVE Owes(u)'
    BY <1>1, <1>2, <2>1 DEF Journalled, Owes, Pending
  <2> QED BY <2>5, <2>6, <2>7, <2>8 DEF Journalled
<1> QED BY <1>3, <1>4 DEF AnnounceComputed

LEMMA InitJournals == Init => Journalled
<1> SUFFICES ASSUME Init PROVE Journalled
  OBVIOUS
<1>1. DOMAIN journal = {} /\ DOMAIN commits = {} /\ StateEvents = {}
  BY DEF Init, StateEvents
<1> QED BY <1>1 DEF Init, Journalled, AnnouncedOnce, NothingLost, DeletedIsMissing, LastIsHeld,
                    Owes, Pending

LEMMA CrashJournals == ASSUME Crash PROVE Journalled'
<1>1. DOMAIN journal' = {} /\ DOMAIN commits' = {} /\ StateEvents' = {}
  BY DEF Crash, StateEvents
<1> QED BY <1>1 DEF Crash, Journalled, AnnouncedOnce, NothingLost, DeletedIsMissing, LastIsHeld,
                    Owes, Pending

LEMMA StepJournals == Sound /\ Journalled /\ [Next]_vars => Journalled'
<1> SUFFICES ASSUME Sound, Journalled, [Next]_vars PROVE Journalled'
  OBVIOUS
<1>1. ASSUME NEW w \in Worker, Accept(w) PROVE Journalled'
  BY <1>1, Undisturbed DEF Accept, Goto, Pending, Changed, Sound, Types
<1>2. ASSUME NEW w \in Worker,
             RefuseForm(w) \/ Replayed(w) \/ NotReplayed(w) \/ RefuseEdits(w) \/ CallRefused(w)
      PROVE  Journalled'
  <2>1. /\ step[w] \in {"accepted", "calling"}
        /\ \E label \in {"calling", "replying"} : Goto(w, label)
        /\ UNCHANGED <<held, done, journal, commits>>
    BY <1>2 DEF RefuseForm, Replayed, NotReplayed, RefuseEdits, CallRefused, Answered, Pass
  <2> QED BY <2>1, Undisturbed DEF Goto, Pending, Changed, Sound, Types
<1>3. ASSUME NEW w \in Worker, Remember(w) PROVE Journalled'
  BY <1>3, Undisturbed DEF Remember, Goto, Pending, Changed, Sound, Types
<1>4. ASSUME NEW w \in Worker, Respond(w) PROVE Journalled'
  BY <1>4, Undisturbed DEF Respond, Goto, Pending, Changed, Sound, Types
<1>5. ASSUME NEW w \in Worker, Serve(w) PROVE Journalled'
  BY <1>2, <1>3, <1>4, <1>5, CallLandsJournals, AnnounceJournals, AnnounceComputedJournals DEF Serve
<1>6. CASE FeedStep \/ FeedLost
  <2>1. UNCHANGED <<held, work, journal, commits>>
    BY <1>6 DEF FeedStep, FeedGet, FeedSubscribe, FeedReset, FeedFetch, FeedEvent, FeedLost, ReaderOnly
  <2> QED BY <2>1, Undisturbed DEF work, Pending, Changed
<1>7. CASE Crash
  BY <1>7, CrashJournals
<1>8. CASE UNCHANGED vars
  BY <1>8, Undisturbed DEF vars, work, Pending, Changed
<1> QED BY <1>1, <1>5, <1>6, <1>7, <1>8 DEF Next

(* The feed tells of every change at most once, as it happened, and of     *)
(* recomputed cells only after the change that moved them.                 *)
THEOREM FeedTellsOnce == Spec => []AnnouncedOnce
<1> DEFINE I == Sound /\ Journalled
<1>1. Init => I
  BY InitTypes, InitJournals
<1>2. I /\ [Next]_vars => I'
  BY StepTypes, StepJournals
<1>3. I => AnnouncedOnce
  BY DEF Journalled
<1> HIDE DEF I
<1> QED BY <1>1, <1>2, <1>3, PTL DEF Spec
-----------------------------------------------------------------------------
(* What the reader has. *)

(* An event appended tells of nothing a reader has come to.                *)
LEMMA BroadcastKeepsCurrent ==
  ASSUME Sound, Current, NEW w \in Worker, Changed(w),
         NEW name \in {"changed", "reset", "deleted", "computed"}, Broadcast(w, name),
         UNCHANGED <<held, commits, feed>>
  PROVE  Current'
<1>1. /\ Len(journal) \in Nat /\ StateEvents \subseteq 1..Len(journal)
      /\ StateEvents \subseteq StateEvents'
      /\ StateEvents' \subseteq StateEvents \cup {Len(journal) + 1}
      /\ \A i \in 1..Len(journal) : journal'[i] = journal[i]
  BY StateEventsGrow
<1>2. /\ cursor \in Nat /\ cursor <= Len(journal) /\ lastId \in Nat
      /\ dated \/ lastId <= Len(journal)
      /\ UNCHANGED <<held, commits, stream, cursor, lastId, dated, misled, copy>>
  BY DEF Sound, Types, feed, reader
<1>3. InOrder' => InOrder
  BY <1>1 DEF InOrder
<1>4. ASSUME NEW n \in Nat, n <= Len(journal),
             NEW i \in StateEvents', i <= n, journal'[i].of = Len(commits)
      PROVE  ToldBy(n)
  <2>1. i # Len(journal) + 1
    BY <1>1, <1>4
  <2> QED BY <1>1, <1>4, <2>1 DEF ToldBy
<1>5. ToldBy(cursor)' => ToldBy(cursor)
  <2> SUFFICES ASSUME ToldBy(cursor)' PROVE ToldBy(cursor)
    OBVIOUS
  <2>1. PICK i \in StateEvents' : i <= cursor /\ journal'[i].of = Len(commits)
    BY <1>2 DEF ToldBy
  <2> QED BY <1>2, <1>4, <2>1
<1>6. ~dated /\ ToldBy(lastId)' => ToldBy(lastId)
  <2> SUFFICES ASSUME ~dated, ToldBy(lastId)' PROVE ToldBy(lastId)
    OBVIOUS
  <2>1. PICK i \in StateEvents' : i <= lastId /\ journal'[i].of = Len(commits)
    BY <1>2 DEF ToldBy
  <2> QED BY <1>2, <1>4, <2>1
<1> SUFFICES ASSUME InOrder', copy # Nothing, ~misled PROVE Followed' /\ Resumable'
  BY <1>2 DEF Current
<1>7. Followed /\ Resumable
  BY <1>3 DEF Current
<1>8. Followed'
  BY <1>2, <1>5, <1>7 DEF Followed
<1>9. Resumable'
  BY <1>2, <1>6, <1>7 DEF Resumable
<1> QED BY <1>8, <1>9

LEMMA CallLandsKeepsCurrent ==
  ASSUME Sound, Journalled, NEW w \in Worker, CallLands(w) PROVE Current'
<1>1. Len(commits') = Len(commits) + 1 /\ commits' \in Seq(Change) /\ UNCHANGED journal
  BY Landed
<1>2. Len(commits) \in Nat /\ DOMAIN commits = 1..Len(commits)
  BY Numbers DEF Sound
<1>3. commits' # <<>>
  BY <1>1, <1>2
<1>4. ASSUME NEW i \in DOMAIN journal PROVE journal[i].of # Len(commits) + 1
  <2>1. journal[i].of \in DOMAIN commits
    BY DEF Journalled, AnnouncedOnce
  <2> QED BY <1>2, <2>1
<1>5. ~ToldBy(cursor)' /\ ~ToldBy(lastId)'
  BY <1>1, <1>4 DEF ToldBy, StateEvents
<1> QED BY <1>3, <1>5 DEF Current, Followed, Resumable

(* Receiving the last change leaves its result; what follows it is not a   *)
(* change.                                                                 *)
LEMMA EventKeepsCurrent ==
  ASSUME Sound, Journalled, Current, FeedEvent PROVE Current'
<1> DEFINE event == journal[cursor + 1]
<1>1. /\ UNCHANGED <<held, journal, commits>> /\ lastId' = cursor + 1
      /\ stream' = "open" => cursor' = cursor + 1
      /\ stream = "open" /\ copy # Nothing
      /\ event.name = "computed" /\ misled => misled'
      /\ copy' = CASE event.name = "computed" -> copy
                    [] event.name = "deleted" -> "missing"
                    [] event.name = "changed" /\ event.old = copy -> event.new
                    [] OTHER -> held
  BY DEF FeedEvent, ReaderOnly, Hangup
<1>2. /\ Len(journal) \in Nat /\ Len(commits) \in Nat
      /\ DOMAIN journal = 1..Len(journal) /\ DOMAIN commits = 1..Len(commits)
      /\ cursor \in Nat /\ cursor + 1 \in DOMAIN journal
  BY Numbers DEF Sound, Types, FeedEvent
<1>3. /\ event.of \in 1..Len(commits)
      /\ commits[event.of] = [old |-> event.old, new |-> event.new]
  BY <1>2 DEF Journalled, AnnouncedOnce
<1>4. commits # <<>>
  BY <1>2, <1>3
<1>5. ASSUME InOrder, ~misled', ToldBy(cursor + 1) PROVE copy' = held
  <2>1. PICK i \in StateEvents : i <= cursor + 1 /\ journal[i].of = Len(commits)
    BY <1>5 DEF ToldBy
  <2>2. CASE i = cursor + 1
    <3>1. event.of = Len(commits) /\ event.name # "computed"
      BY <2>1, <2>2 DEF StateEvents
    <3>2. held = event.new
      BY <1>3, <1>4, <3>1 DEF Journalled, LastIsHeld
    <3>3. event.name = "deleted" => event.new = "missing"
      BY <1>2 DEF Journalled, DeletedIsMissing
    <3> HIDE DEF event
    <3> QED BY <1>1, <3>1, <3>2, <3>3
  <2>3. CASE i # cursor + 1
    <3>1. i <= cursor
      BY <1>2, <2>1, <2>3 DEF StateEvents
    <3>2. event.name = "computed"
      <4> SUFFICES ASSUME event.name # "computed" PROVE FALSE
        OBVIOUS
      <4>1. cursor + 1 \in StateEvents
        BY <1>2 DEF StateEvents
      <4>2. i < cursor + 1
        BY <1>2, <3>1 DEF StateEvents
      <4>3. Len(commits) < event.of
        BY <1>5, <2>1, <4>1, <4>2 DEF InOrder
      <4> QED BY <1>2, <1>3, <4>3
    <3>3. ~misled
      BY <1>1, <1>5, <3>2
    <3>4. ToldBy(cursor)
      BY <2>1, <3>1 DEF ToldBy
    <3>5. copy = held
      BY <1>1, <1>5, <3>3, <3>4 DEF Current, Followed
    <3> QED BY <1>1, <3>2, <3>5
  <2> QED BY <2>2, <2>3
<1> HIDE DEF event
<1>6. /\ InOrder' => InOrder
      /\ StateEvents' = StateEvents
  BY <1>1 DEF InOrder, StateEvents
<1>7. stream' = "open" /\ ToldBy(cursor)' => ToldBy(cursor + 1)
  BY <1>1, <1>6 DEF ToldBy
<1>8. ToldBy(lastId)' => ToldBy(cursor + 1)
  BY <1>1, <1>6 DEF ToldBy
<1>9. InOrder' /\ ~misled' => Followed' /\ Resumable'
  BY <1>1, <1>4, <1>5, <1>6, <1>7, <1>8 DEF Followed, Resumable
<1> QED BY <1>9 DEF Current

LEMMA InitCurrent == Init => Current
BY DEF Init, Current

(* A reader that resumes by an id of this process has what that id says,   *)
(* one that resumes by another is misled.                                  *)
LEMMA SubscribeKeepsCurrent ==
  ASSUME Sound, Journalled, Current, FeedSubscribe PROVE Current'
<1>1. UNCHANGED <<held, journal, commits, lastId, dated>> /\ Types
  BY DEF FeedSubscribe, ReaderOnly, Sound
<1>2. InOrder' = InOrder
  BY <1>1 DEF InOrder, StateEvents
<1>3. ToldBy(lastId)' = ToldBy(lastId)
  BY <1>1 DEF ToldBy, StateEvents
<1>4. CASE copy' = Nothing
  BY <1>4 DEF Current
<1>5. CASE /\ lastId \in 1..Len(journal) /\ stream' = "open" /\ cursor' = lastId
           /\ misled' = (misled \/ dated) /\ UNCHANGED copy
  <2> SUFFICES ASSUME InOrder, copy # Nothing, ~misled' PROVE Followed' /\ Resumable'
    BY <1>2, <1>5 DEF Current
  <2>1. ~misled /\ ~dated
    BY <1>1, <1>5 DEF Types
  <2>2. Resumable
    BY <2>1 DEF Current
  <2>3. commits # <<>>
    <3>1. journal[lastId].of \in DOMAIN commits
      BY <1>1, <1>5, Numbers DEF Journalled, AnnouncedOnce
    <3>2. DOMAIN commits = 1..Len(commits)
      BY <1>1, Numbers
    <3> QED BY <3>1, <3>2
  <2>4. ToldBy(cursor)' => ToldBy(lastId)
    BY <1>1, <1>5 DEF ToldBy, StateEvents
  <2> QED BY <1>1, <1>3, <1>5, <2>1, <2>2, <2>3, <2>4 DEF Followed, Resumable
<1>6. CASE stream' = "reset" /\ UNCHANGED <<copy, misled>>
  <2> SUFFICES ASSUME InOrder, copy # Nothing, ~misled PROVE Followed' /\ Resumable'
    BY <1>2, <1>6 DEF Current
  <2> QED BY <1>1, <1>3, <1>6 DEF Current, Followed, Resumable
<1> QED BY <1>4, <1>5, <1>6 DEF FeedSubscribe

LEMMA StepCurrent == Sound /\ Journalled /\ Current /\ [Next]_vars => Current'
<1> SUFFICES ASSUME Sound, Journalled, Current, [Next]_vars PROVE Current'
  OBVIOUS
<1>1. ASSUME UNCHANGED <<held, journal, commits, cursor, reader>>, stream' = "open" => stream = "open"
      PROVE  Current'
  BY <1>1 DEF Current, Followed, Resumable, InOrder, ToldBy, StateEvents, reader
<1>2. ASSUME NEW w \in Worker, Accept(w) PROVE Current'
  BY <1>1, <1>2 DEF Accept, feed
<1>3. ASSUME NEW w \in Worker, Serve(w) PROVE Current'
  <2>1. CASE RefuseForm(w) \/ Replayed(w) \/ NotReplayed(w) \/ RefuseEdits(w) \/ CallRefused(w)
    BY <1>1, <2>1 DEF RefuseForm, Replayed, NotReplayed, RefuseEdits, CallRefused, Answered, Pass, feed
  <2>2. CASE Remember(w) \/ Respond(w)
    BY <1>1, <2>2 DEF Remember, Respond, feed
  <2>3. CASE CallLands(w)
    BY <2>3, CallLandsKeepsCurrent
  <2>4. CASE Announce(w)
    <3>1. Changed(w) /\ req[w] \in HttpRequest
      BY <2>4 DEF Announce, Sound, Stands, Changed
    <3>2. EventName[Op(w)] \in {"changed", "reset", "deleted", "computed"}
      BY <3>1, Names DEF Op
    <3> QED BY <2>4, <3>1, <3>2, BroadcastKeepsCurrent DEF Announce
  <2>5. CASE AnnounceComputed(w)
    <3>1. Changed(w)
      BY <2>5 DEF AnnounceComputed, Changed
    <3>2. CASE Broadcast(w, "computed")
      BY <2>5, <3>1, <3>2, BroadcastKeepsCurrent DEF AnnounceComputed
    <3>3. CASE UNCHANGED journal
      BY <1>1, <2>5, <3>3 DEF AnnounceComputed, feed
    <3> QED BY <2>5, <3>2, <3>3 DEF AnnounceComputed
  <2> QED BY <1>3, <2>1, <2>2, <2>3, <2>4, <2>5 DEF Serve
<1>4. CASE FeedStep \/ FeedLost
  <2>1. CASE FeedGet
    BY <1>1, <2>1 DEF FeedGet, ReaderOnly
  <2>2. CASE FeedSubscribe
    BY <2>2, SubscribeKeepsCurrent
  <2>3. CASE FeedReset
    BY <2>3 DEF FeedReset, Current
  <2>4. CASE FeedFetch
    BY <2>4 DEF FeedFetch, ReaderOnly, Current, Followed, Resumable
  <2>5. CASE FeedEvent
    BY <2>5, EventKeepsCurrent
  <2>6. CASE FeedLost
    <3>1. /\ UNCHANGED <<held, journal, commits, lastId, dated, misled, copy>> /\ stream' = "away"
      BY <2>6 DEF FeedLost, Hangup, ReaderOnly, reader
    <3> QED BY <3>1 DEF Current, Followed, Resumable, InOrder, ToldBy, StateEvents
  <2> QED BY <1>4, <2>1, <2>2, <2>3, <2>4, <2>5, <2>6 DEF FeedStep
<1>5. CASE Crash
  <2>1. stream' = "away" /\ journal' = <<>> /\ DOMAIN journal' = {}
    BY <1>5 DEF Crash, Hangup
  <2>2. ~ToldBy(lastId)'
    BY <2>1 DEF ToldBy, StateEvents
  <2> QED BY <2>1, <2>2 DEF Current, Followed, Resumable
<1>6. CASE UNCHANGED vars
  BY <1>1, <1>6 DEF vars, feed
<1> QED BY <1>2, <1>3, <1>4, <1>5, <1>6 DEF Next

LEMMA CurrentConverges ==
  ASSUME Sound, Journalled, Current PROVE ConvergesInOrder
<1> SUFFICES ASSUME InOrder, ~misled, Quiet, stream = "open", copy # Nothing, cursor = Len(journal)
             PROVE  copy = held
  BY DEF ConvergesInOrder, ReaderConverges
<1>1. /\ DOMAIN journal = 1..Len(journal) /\ DOMAIN commits = 1..Len(commits)
      /\ Len(commits) \in Nat /\ Len(journal) \in Nat /\ commits \in Seq(Change)
  BY Numbers DEF Sound, Types
<1>2. CASE commits = <<>>
  BY <1>2 DEF Current, Followed
<1>3. CASE commits # <<>>
  <2>1. Len(commits) \in DOMAIN commits
    BY <1>1, <1>3, EmptySeq
  <2>2. \A w \in Worker : ~Pending(w)
    BY DEF Quiet, Pending
  <2>3. PICK i \in StateEvents : journal[i].of = Len(commits)
    BY <2>1, <2>2 DEF Journalled, NothingLost
  <2>4. i <= cursor
    BY <1>1 DEF StateEvents
  <2> QED BY <2>3, <2>4 DEF Current, Followed, ToldBy
<1> QED BY <1>2, <1>3

(* A reader of a feed told in order ends up with the document, also one    *)
(* that outlives the server it was reading from, unless it was resumed by  *)
(* an id of before the restart and has been told of no change since        *)
(* (write.go:97-103, replayfeed.go:23-33).                                 *)
THEOREM ReadersConverge == Spec => []ConvergesInOrder
<1> DEFINE I == Sound /\ Journalled /\ Current
<1>1. Init => I
  BY InitTypes, InitJournals, InitCurrent
<1>2. I /\ [Next]_vars => I'
  BY StepTypes, StepJournals, StepCurrent
<1>3. I => ConvergesInOrder
  BY CurrentConverges
<1> HIDE DEF I
<1> QED BY <1>1, <1>2, <1>3, PTL DEF Spec
-----------------------------------------------------------------------------
(* Idempotency, with distinct keys in flight. *)

OneOfAKey ==
  \A v, w \in Worker :
    step[v] # "idle" /\ step[w] # "idle" /\ req[v].key = req[w].key /\ req[w].key # Nothing => v = w

(* A key's batch landed at most once, and the cache tells of it, or the one *)
(* worker that has the key is about to have it told.                        *)
Known(k) ==
  /\ Len(landed[k]) <= 1
  /\ landed[k] # <<>> =>
       \/ /\ k \in DOMAIN seen
          /\ seen[k] = [rev |-> Revision[landed[k][1].new], body |-> landed[k][1].body]
       \/ \E w \in Worker : step[w] = "remembering" /\ req[w].key = k

(* A keyed batch calls the port only if the cache does not know its key,   *)
(* and what landed under the key once it has changed the document is its   *)
(* own; RetryHonoured, for one worker.                                     *)
Answering(w) ==
  LET k == req[w].key IN
  step[w] # "idle" /\ Keyed(w) =>
    /\ step[w] = "calling" => k \notin DOMAIN seen
    /\ Changed(w) /\ landed[k] # <<>> =>
         landed[k][1] = [new |-> done[w].new, body |-> req[w].call.batch]
    /\ step[w] = "computing" => resp[w] = [status |-> 204, etag |-> Revision[done[w].new]]
    /\ /\ step[w] = "replying" /\ req[w].form = "wellformed"
       /\ landed[k] # <<>> /\ landed[k][1].body = req[w].call.batch
       => resp[w] = [status |-> 204, etag |-> Revision[landed[k][1].new]]

Idempotent ==
  /\ OneOfAKey
  /\ \A k \in Key : Known(k)
  /\ \A w \in Worker : Answering(w)

LEMMA InitIdempotent == Init => Idempotent
BY DEF Init, Idempotent, OneOfAKey, Known, Answering

(* Nothing has landed under the key a worker is about to call with.        *)
LEMMA CallsOnce ==
  ASSUME Sound, Idempotent, NEW w \in Worker, step[w] = "calling", Keyed(w)
  PROVE  /\ req[w].key \in Key /\ req[w].key \notin DOMAIN seen
         /\ landed[req[w].key] = <<>>
<1>1. req[w].key \in Key
  <2>1. req[w] \in HttpRequest
    BY DEF Sound, Stands
  <2> QED BY <2>1, Requested DEF Keyed
<1>2. req[w].key \notin DOMAIN seen
  BY DEF Idempotent, Answering
<1>3. ASSUME NEW v \in Worker, step[v] = "remembering", req[v].key = req[w].key PROVE FALSE
  <2>1. v = w
    BY <1>3 DEF Idempotent, OneOfAKey, Keyed
  <2> QED BY <1>3, <2>1
<1>4. Known(req[w].key)
  BY <1>1 DEF Idempotent
<1> QED BY <1>1, <1>2, <1>3, <1>4 DEF Known

(* A worker that stays where it is. *)
LEMMA OthersAnswer ==
  ASSUME Idempotent, NEW v \in Worker,
         step'[v] = step[v], req'[v] = req[v], resp'[v] = resp[v], done'[v] = done[v],
         step[v] # "idle" /\ Keyed(v) =>
           /\ landed'[req[v].key] \in {landed[req[v].key], <<>>}
           /\ req[v].key \in DOMAIN seen' => req[v].key \in DOMAIN seen
  PROVE  Answering(v)'
<1>1. Answering(v)
  BY DEF Idempotent
<1> QED BY <1>1 DEF Answering, Keyed, Op, Changed

(* A step that neither lands nor remembers. *)
LEMMA KnownStays ==
  ASSUME Idempotent, UNCHANGED <<seen, landed>>, NEW k \in Key,
         \A v \in Worker : step[v] = "remembering" => step'[v] = "remembering" /\ req'[v].key = req[v].key
  PROVE  Known(k)'
<1>1. Known(k)
  BY DEF Idempotent
<1> QED BY <1>1 DEF Known

LEMMA KeysStay ==
  ASSUME Idempotent,
         \A v \in Worker : step'[v] # "idle" => step[v] # "idle" /\ req'[v].key = req[v].key
  PROVE  OneOfAKey'
BY DEF Idempotent, OneOfAKey

LEMMA AcceptIdempotent ==
  ASSUME Concurrency = "distinct", Sound, Idempotent, NEW w \in Worker, Accept(w) PROVE Idempotent'
<1>1. PICK r \in Workload : Admitted(r) /\ req' = [req EXCEPT ![w] = r]
  BY DEF Accept
<1>2. /\ step[w] = "idle" /\ step'[w] = "accepted" /\ req'[w] = r
      /\ UNCHANGED <<seen, landed, resp, done>>
  BY <1>1 DEF Accept, Goto, Sound, Types
<1>3. ASSUME NEW v \in Worker, v # w
      PROVE  step'[v] = step[v] /\ req'[v] = req[v] /\ resp'[v] = resp[v] /\ done'[v] = done[v]
  BY <1>1, <1>3 DEF Accept, Goto, Sound, Types
<1>4. \A v \in Worker : r.key # Nothing /\ step[v] # "idle" => req[v].key # r.key
  BY <1>1 DEF Admitted
<1>5. OneOfAKey'
  <2> SUFFICES ASSUME NEW u \in Worker, NEW v \in Worker, step'[u] # "idle", step'[v] # "idle",
                      req'[u].key = req'[v].key, req'[v].key # Nothing
               PROVE  u = v
    BY DEF OneOfAKey
  <2>1. CASE u # w /\ v # w
    BY <1>3, <2>1 DEF Idempotent, OneOfAKey
  <2>2. CASE u = w \/ v = w
    BY <1>2, <1>3, <1>4, <2>2
  <2> QED BY <2>1, <2>2
<1>6. ASSUME NEW k \in Key PROVE Known(k)'
  BY <1>2, <1>3, KnownStays
<1>7. ASSUME NEW v \in Worker PROVE Answering(v)'
  <2>1. CASE v = w
    BY <1>2, <2>1 DEF Answering, Changed
  <2>2. CASE v # w
    BY <1>2, <1>3, <2>2, OthersAnswer
  <2> QED BY <2>1, <2>2
<1> QED BY <1>5, <1>6, <1>7 DEF Idempotent

(* A step of a worker that neither lands nor remembers, and answers as it  *)
(* should.                                                                 *)
LEMMA WorkerStep ==
  ASSUME Sound, Idempotent, NEW w \in Worker, NEW label \in Place, Goto(w, label),
         step[w] \notin {"idle", "remembering"},
         UNCHANGED <<seen, landed>>,
         \A v \in Worker : v # w => req'[v] = req[v] /\ resp'[v] = resp[v] /\ done'[v] = done[v],
         label = "idle" \/ req'[w] = req[w],
         Answering(w)'
  PROVE  Idempotent'
<1>1. step'[w] = label /\ \A v \in Worker : v # w => step'[v] = step[v]
  BY DEF Goto, Sound, Types
<1>2. OneOfAKey'
  BY <1>1, KeysStay
<1>3. ASSUME NEW k \in Key PROVE Known(k)'
  BY <1>1, KnownStays
<1>4. ASSUME NEW v \in Worker PROVE Answering(v)'
  <2>1. CASE v = w
    BY <2>1
  <2>2. CASE v # w
    BY <1>1, <2>2, OthersAnswer
  <2> QED BY <2>1, <2>2
<1> QED BY <1>2, <1>3, <1>4 DEF Idempotent

LEMMA RefusalIdempotent ==
  ASSUME Sound, Idempotent, NEW w \in Worker,
         RefuseForm(w) \/ Replayed(w) \/ NotReplayed(w) \/ RefuseEdits(w) \/ CallRefused(w)
  PROVE  Idempotent'
<1>1. /\ step[w] \in {"accepted", "calling"}
      /\ UNCHANGED <<seen, req, done, landed>>
      /\ \E label \in {"calling", "replying"} : Goto(w, label)
      /\ \A v \in Worker : v # w => resp'[v] = resp[v]
  BY DEF RefuseForm, Replayed, NotReplayed, RefuseEdits, CallRefused, Answered, Pass, Sound, Types
<1>2. PICK label \in {"calling", "replying"} : Goto(w, label)
  BY <1>1
<1>3. req[w] \in HttpRequest /\ w \in DOMAIN step /\ w \in DOMAIN resp
  BY <1>1 DEF Sound, Stands, Types
<1>4. ASSUME RefuseForm(w) PROVE Answering(w)'
  <2>1. req[w].form # "wellformed" /\ step'[w] = "replying"
    BY <1>3, <1>4 DEF RefuseForm, FormStatus, Answered, Goto
  <2> QED BY <1>1, <2>1 DEF Answering, Changed
<1>5. ASSUME Replayed(w) PROVE Answering(w)'
  <2> DEFINE k == req[w].key
  <2>1. step'[w] = "replying" /\ k \in DOMAIN seen
    BY <1>3, <1>5 DEF Replayed, Answered, Goto
  <2>2. k \in Key /\ (landed[k] # <<>> => seen[k] = [rev |-> Revision[landed[k][1].new], body |-> landed[k][1].body])
    <3>1. k \in Key /\ Known(k)
      BY <2>1 DEF Sound, Types, Idempotent
    <3>2. ASSUME NEW v \in Worker, step[v] = "remembering", req[v].key = k PROVE Keyed(w) => FALSE
      BY <1>5, <3>2 DEF Replayed, Idempotent, OneOfAKey, Keyed
    <3>3. Keyed(w)
      BY <1>5, <3>1, KeyAssumption DEF Replayed, Keyed
    <3> QED BY <3>1, <3>2, <3>3 DEF Known
  <2>3. IF req[w].form = "badedits" \/ seen[k].body # req[w].call.batch
        THEN resp' = [resp EXCEPT ![w] = [status |-> 422, etag |-> Nothing]]
        ELSE resp' = [resp EXCEPT ![w] = [status |-> 204, etag |-> seen[k].rev]]
    BY <1>5 DEF Replayed, Answered
  <2>4. req[w].form = "wellformed" /\ landed[k] # <<>> /\ landed[k][1].body = req[w].call.batch
        => resp'[w] = [status |-> 204, etag |-> Revision[landed[k][1].new]]
    BY <1>3, <2>2, <2>3
  <2> QED BY <1>1, <2>1, <2>4 DEF Answering, Changed
<1>6. ASSUME NotReplayed(w) PROVE Answering(w)'
  <2>1. step'[w] = "calling" /\ (Op(w) = "apply" => req[w].key \notin DOMAIN seen)
    BY <1>3, <1>6 DEF NotReplayed, Pass, Goto
  <2> QED BY <1>1, <2>1 DEF Answering, Changed, Keyed, Op
<1>7. ASSUME RefuseEdits(w) PROVE Answering(w)'
  <2>1. req[w].form # "wellformed" /\ step'[w] = "replying"
    BY <1>3, <1>7 DEF RefuseEdits, Answered, Goto
  <2> QED BY <1>1, <2>1 DEF Answering, Changed
<1>8. ASSUME CallRefused(w) PROVE Answering(w)'
  <2>1. step[w] = "calling" /\ step'[w] = "replying"
    BY <1>3, <1>8 DEF CallRefused, Answered, Goto
  <2>2. Keyed(w) => landed[req[w].key] = <<>>
    BY <2>1, CallsOnce
  <2> QED BY <1>1, <2>1, <2>2 DEF Answering, Changed, Keyed, Op
<1>9. Answering(w)'
  BY <1>4, <1>5, <1>6, <1>7, <1>8
<1>10. label \in Place /\ step[w] \notin {"idle", "remembering"}
  BY <1>1 DEF Place
<1> QED BY <1>1, <1>2, <1>9, <1>10, WorkerStep

LEMMA AnnounceIdempotent ==
  ASSUME Sound, Idempotent, NEW w \in Worker, Announce(w) PROVE Idempotent'
<1>1. /\ step[w] = "announcing" /\ UNCHANGED <<seen, req, done, landed>>
      /\ resp'[w] = Success(w) /\ \A v \in Worker : v # w => resp'[v] = resp[v]
      /\ \E label \in {"computing", "replying"} : Goto(w, label) /\ step'[w] = label
  BY DEF Announce, Goto, Sound, Types
<1>2. PICK label \in {"computing", "replying"} : Goto(w, label) /\ step'[w] = label
  BY <1>1
<1>3. Op(w) = "apply" => resp'[w] = [status |-> 204, etag |-> Revision[done[w].new]]
  BY <1>1 DEF Success
<1>4. Keyed(w) /\ landed[req[w].key] # <<>> =>
        landed[req[w].key][1] = [new |-> done[w].new, body |-> req[w].call.batch]
  BY <1>1 DEF Idempotent, Answering, Changed
<1>5. Answering(w)'
  BY <1>1, <1>2, <1>3, <1>4 DEF Answering, Keyed, Op, Changed
<1> QED BY <1>1, <1>2, <1>5, WorkerStep DEF Place

LEMMA AnnounceComputedIdempotent ==
  ASSUME Sound, Idempotent, NEW w \in Worker, AnnounceComputed(w) PROVE Idempotent'
<1>1. /\ step[w] = "computing" /\ UNCHANGED <<seen, req, resp, done, landed>>
      /\ Goto(w, "replying") /\ step'[w] = "replying"
  BY DEF AnnounceComputed, Goto, Sound, Types
<1>2. Keyed(w) =>
        /\ resp[w] = [status |-> 204, etag |-> Revision[done[w].new]]
        /\ landed[req[w].key] # <<>> =>
             landed[req[w].key][1] = [new |-> done[w].new, body |-> req[w].call.batch]
  BY <1>1 DEF Idempotent, Answering, Changed
<1>3. Answering(w)'
  BY <1>1, <1>2 DEF Answering, Keyed, Op, Changed
<1> QED BY <1>1, <1>3, WorkerStep DEF Place

LEMMA RespondIdempotent ==
  ASSUME Sound, Idempotent, NEW w \in Worker, Respond(w) PROVE Idempotent'
<1>1. /\ step[w] = "replying" /\ UNCHANGED <<seen, landed>>
      /\ Goto(w, "idle") /\ step'[w] = "idle"
      /\ \A v \in Worker : v # w => req'[v] = req[v] /\ resp'[v] = resp[v] /\ done'[v] = done[v]
  BY DEF Respond, Goto, Sound, Types
<1>2. Answering(w)'
  BY <1>1 DEF Answering
<1> QED BY <1>1, <1>2, WorkerStep DEF Place

LEMMA CallLandsIdempotent ==
  ASSUME Sound, Idempotent, NEW w \in Worker, CallLands(w) PROVE Idempotent'
<1> DEFINE k == req[w].key
<1>1. PICK h2 \in Resident \cup {"missing"} :
           /\ done' = [done EXCEPT ![w] = [old |-> held, new |-> h2, of |-> Len(commits) + 1]]
           /\ step' = [step EXCEPT ![w] = IF Keyed(w) THEN "remembering" ELSE "announcing"]
           /\ landed' = IF ~Keyed(w) THEN landed
                        ELSE [landed EXCEPT ![k] = Append(@, [new |-> h2, body |-> req[w].call.batch])]
           /\ UNCHANGED <<seen, req, resp>>
  BY Landed
<1>2. /\ step[w] = "calling" /\ step'[w] # "idle"
      /\ step'[w] = IF Keyed(w) THEN "remembering" ELSE "announcing"
      /\ done'[w] = [old |-> held, new |-> h2, of |-> Len(commits) + 1]
      /\ \A v \in Worker : v # w => step'[v] = step[v] /\ done'[v] = done[v]
  BY <1>1 DEF CallLands, Sound, Types
<1>3. Keyed(w) => k \in Key /\ k \notin DOMAIN seen /\ landed[k] = <<>>
  BY <1>2, CallsOnce
<1>4. Keyed(w) => landed'[k] = <<[new |-> h2, body |-> req[w].call.batch]>>
  <2> SUFFICES ASSUME Keyed(w) PROVE landed'[k] = <<[new |-> h2, body |-> req[w].call.batch]>>
    OBVIOUS
  <2>1. landed'[k] = Append(<<>>, [new |-> h2, body |-> req[w].call.batch])
    <3>1. landed \in [Key -> Seq(Landing)]
      BY DEF Sound, Types
    <3> QED BY <1>1, <1>3, <3>1, Zenon
  <2>2. \A x : Append(<<>>, x) = <<x>>
    OBVIOUS
  <2> QED BY <2>1, <2>2
<1>5. \A j \in Key : j # k \/ ~Keyed(w) => landed'[j] = landed[j]
  BY <1>1 DEF Sound, Types
<1>6. OneOfAKey'
  BY <1>1, <1>2, KeysStay
<1>7. ASSUME NEW j \in Key PROVE Known(j)'
  <2>1. CASE Keyed(w) /\ j = k
    <3>1. Len(landed'[j]) = 1
      BY <1>4, <2>1
    <3>2. step'[w] = "remembering" /\ req'[w].key = j
      BY <1>1, <1>2, <2>1
    <3> QED BY <3>1, <3>2 DEF Known
  <2>2. CASE ~(Keyed(w) /\ j = k)
    <3>1. landed'[j] = landed[j] /\ Known(j)
      BY <1>5, <2>2 DEF Idempotent
    <3> QED BY <1>1, <1>2, <3>1 DEF Known
  <2> QED BY <2>1, <2>2
<1>8. ASSUME NEW v \in Worker PROVE Answering(v)'
  <2>1. CASE v = w
    <3>1. Keyed(w) => landed'[k][1] = [new |-> done'[w].new, body |-> req[w].call.batch]
      BY <1>2, <1>4
    <3> QED BY <1>1, <1>2, <2>1, <3>1 DEF Answering, Keyed, Op, Changed
  <2>2. CASE v # w
    <3>1. ASSUME step[v] # "idle", Keyed(v) PROVE landed'[req[v].key] = landed[req[v].key]
      <4>1. req[v].key \in Key
        <5>1. req[v] \in HttpRequest
          BY <3>1 DEF Sound, Stands
        <5> QED BY <3>1, <5>1, Requested DEF Keyed
      <4>2. req[v].key # k
        BY <1>2, <2>2, <3>1 DEF Idempotent, OneOfAKey, Keyed
      <4> QED BY <1>5, <4>1, <4>2
    <3> QED BY <1>1, <1>2, <2>2, <3>1, OthersAnswer
  <2> QED BY <2>1, <2>2
<1> QED BY <1>6, <1>7, <1>8 DEF Idempotent

LEMMA RememberIdempotent ==
  ASSUME Sound, Idempotent, NEW w \in Worker, Remember(w) PROVE Idempotent'
<1> DEFINE k == req[w].key
<1>1. /\ Keyed(w) /\ k \in Key
      /\ k \in DOMAIN seen' /\ DOMAIN seen' \ {k} \subseteq DOMAIN seen
      /\ seen'[k] = [rev |-> Revision[done[w].new], body |-> req[w].call.batch]
      /\ \A j \in DOMAIN seen' \ {k} : seen'[j] = seen[j]
      /\ landed' = [j \in Key |-> IF j \in DOMAIN seen \ DOMAIN seen' THEN <<>> ELSE landed[j]]
  BY Remembered
<1>2. /\ step[w] = "remembering" /\ step'[w] = "announcing" /\ UNCHANGED <<req, resp, done>>
      /\ \A v \in Worker : v # w => step'[v] = step[v]
  BY DEF Remember, Goto, Sound, Types
<1>3. landed[k] # <<>> => landed[k][1] = [new |-> done[w].new, body |-> req[w].call.batch]
  BY <1>1, <1>2 DEF Idempotent, Answering, Changed
<1>4. landed'[k] = landed[k] /\ \A j \in Key : landed'[j] \in {landed[j], <<>>}
  BY <1>1
<1>5. OneOfAKey'
  BY <1>2, KeysStay
<1>6. ASSUME NEW j \in Key PROVE Known(j)'
  <2>1. Known(j)
    BY DEF Idempotent
  <2>2. Len(landed'[j]) <= 1
    <3>1. Len(<<>>) <= 1
      OBVIOUS
    <3> QED BY <1>4, <2>1, <3>1 DEF Known
  <2>3. CASE j = k
    BY <1>1, <1>3, <1>4, <2>2, <2>3 DEF Known
  <2>4. CASE j # k /\ landed'[j] # <<>>
    <3>1. landed'[j] = landed[j] /\ (j \in DOMAIN seen => j \in DOMAIN seen')
      BY <1>1, <1>4, <2>4
    <3>2. CASE /\ j \in DOMAIN seen
               /\ seen[j] = [rev |-> Revision[landed[j][1].new], body |-> landed[j][1].body]
      BY <1>1, <2>2, <2>4, <3>1, <3>2 DEF Known
    <3>3. CASE \E v \in Worker : step[v] = "remembering" /\ req[v].key = j
      BY <1>2, <2>2, <2>4, <3>3 DEF Known
    <3> QED BY <2>1, <2>4, <3>1, <3>2, <3>3 DEF Known
  <2>5. CASE landed'[j] = <<>>
    BY <2>2, <2>5 DEF Known
  <2> QED BY <2>3, <2>4, <2>5
<1>7. ASSUME NEW v \in Worker PROVE Answering(v)'
  <2>1. CASE v = w
    BY <1>2, <1>3, <1>4, <2>1 DEF Answering, Keyed, Op, Changed
  <2>2. CASE v # w
    <3>1. ASSUME step[v] # "idle", Keyed(v)
          PROVE  /\ landed'[req[v].key] \in {landed[req[v].key], <<>>}
                 /\ req[v].key \in DOMAIN seen' => req[v].key \in DOMAIN seen
      <4>1. req[v].key \in Key
        <5>1. req[v] \in HttpRequest
          BY <3>1 DEF Sound, Stands
        <5> QED BY <3>1, <5>1, Requested DEF Keyed
      <4>2. req[v].key # k
        BY <1>2, <2>2, <3>1 DEF Idempotent, OneOfAKey, Keyed
      <4> QED BY <1>1, <1>4, <4>1, <4>2
    <3> QED BY <1>2, <2>2, <3>1, OthersAnswer
  <2> QED BY <2>1, <2>2
<1> QED BY <1>5, <1>6, <1>7 DEF Idempotent

LEMMA StepIdempotent ==
  ASSUME Concurrency = "distinct" PROVE Sound /\ Idempotent /\ [Next]_vars => Idempotent'
<1> SUFFICES ASSUME Sound, Idempotent, [Next]_vars PROVE Idempotent'
  OBVIOUS
<1>1. ASSUME NEW w \in Worker, Accept(w) PROVE Idempotent'
  BY <1>1, AcceptIdempotent
<1>2. ASSUME NEW w \in Worker, Serve(w) PROVE Idempotent'
  BY <1>2, RefusalIdempotent, CallLandsIdempotent, RememberIdempotent, AnnounceIdempotent,
     AnnounceComputedIdempotent, RespondIdempotent DEF Serve
<1>3. CASE UNCHANGED <<seen, work, landed>>
  BY <1>3 DEF work, Idempotent, OneOfAKey, Known, Answering, Keyed, Op, Changed
<1>4. CASE FeedStep \/ FeedLost
  BY <1>3, <1>4 DEF FeedStep, FeedGet, FeedSubscribe, FeedReset, FeedFetch, FeedEvent, FeedLost,
                    ReaderOnly
<1>5. CASE Crash
  <2>1. Len(<<>>) <= 1
    OBVIOUS
  <2>2. /\ \A v \in Worker : step'[v] = "idle"
        /\ \A k \in Key : landed'[k] = <<>>
    BY <1>5 DEF Crash
  <2> QED BY <2>1, <2>2 DEF Idempotent, OneOfAKey, Known, Answering
<1>6. CASE UNCHANGED vars
  BY <1>3, <1>6 DEF vars
<1> QED BY <1>1, <1>2, <1>4, <1>5, <1>6 DEF Next

(* Clients that keep their keys apart have each batch landed once for as   *)
(* long as the cache holds its outcome.                                    *)
THEOREM AppliesOnce == ASSUME Concurrency = "distinct" PROVE Spec => []AppliedOnce
<1> DEFINE I == Sound /\ Idempotent
<1>1. Init => I
  BY InitTypes, InitIdempotent
<1>2. I /\ [Next]_vars => I'
  BY StepTypes, StepIdempotent
<1>3. I => AppliedOnce
  BY DEF Idempotent, Known, AppliedOnce
<1> HIDE DEF I
<1> QED BY <1>1, <1>2, <1>3, PTL DEF Spec

(* And every answer to such a batch once it has landed is the original's.  *)
THEOREM RetriesAreHonoured == ASSUME Concurrency = "distinct" PROVE Spec => []RetryHonoured
<1> DEFINE I == Sound /\ Idempotent
<1>1. Init => I
  BY InitTypes, InitIdempotent
<1>2. I /\ [Next]_vars => I'
  BY StepTypes, StepIdempotent
<1>3. I => RetryHonoured
  BY DEF Idempotent, Answering, Keyed, RetryHonoured
<1> HIDE DEF I
<1> QED BY <1>1, <1>2, <1>3, PTL DEF Spec
=============================================================================
