-------------------------------- MODULE Server --------------------------------
(***************************************************************************)
(* Servers of one process (cmd/tsvsheet-api, observe): each comes up from  *)
(* its flags, publishing or adopting the two metrics of its prefix in the  *)
(* registry the process has one of, then serves.  Every request passes the *)
(* recorder, and is counted, in two steps, once its handler has returned.  *)
(***************************************************************************)
EXTENDS Integers, FiniteSets

CONSTANTS
  Server,
  Flags,        \* what a server may be launched with: [root, host]
  Prefixes,     \* metric prefixes
  Conn,         \* requests, one connection each
  Status,       \* the statuses a handler writes
  MaxMillis,    \* bound on the milliseconds a request takes
  Nothing

ASSUME ServerAssumption ==
  /\ Status \subseteq Nat \ {0} /\ MaxMillis \in Nat
  /\ Nothing \notin Server /\ 0 \notin Server

Kind == {"requests", "duration_ms"}
Variable == Prefixes \X Kind     \* expvar names
Map == Server \X Kind            \* maps, by who made them
Counted == Status \cup {200}     \* the statuses an answer can have

VARIABLES
  flags,      \* the flags of a server
  prefix,     \* and its metric prefix
  stage,      \* how far it has come up
  wanted,     \* the variable it is getting or creating
  registry,   \* who holds the registry's mutex
  published,  \* what expvar has under each name
  handle,     \* the map each server counts into, by kind
  total,      \* the sums in each map, by status
  home,       \* the server a request reached
  pc,         \* where the request stands
  recorded,   \* the status the recorder has
  wire,       \* the status the client is answered with, 0 until there is one
  unsent,     \* whether the connection's buffer holds something
  left,       \* whether the client has gone
  took        \* the milliseconds it was counted with

launch == <<flags, prefix, stage, wanted, registry, published, handle>>
request == <<home, pc, recorded, wire, unsent, left, took>>
vars == <<launch, total, request>>

NoMap == <<Nothing, "none">>

(* Slip: the status is what was written, also when nothing was. *)
NewRecorderEmpty == 0

NewRecorder == 200

Init ==
  /\ flags \in [Server -> Flags] /\ prefix \in [Server -> Prefixes]
  /\ stage = [s \in Server |-> "flags"]
  /\ wanted = [s \in Server |-> "requests"]
  /\ registry = Nothing
  /\ published = [v \in Variable |-> NoMap]
  /\ handle = [s \in Server |-> [k \in Kind |-> NoMap]]
  /\ total = [m \in Map |-> [status \in Counted |-> 0]]
  /\ home = [c \in Conn |-> Nothing]
  /\ pc = [c \in Conn |-> "unborn"]
  /\ recorded = [c \in Conn |-> NewRecorder]
  /\ wire = [c \in Conn |-> 0]
  /\ unsent = [c \in Conn |-> FALSE]
  /\ left = [c \in Conn |-> FALSE]
  /\ took = [c \in Conn |-> 0]
------------------------------------------------------------------------------
(* Coming up (main.go). *)

RequireLoopback(host) == host \in {"localhost", "loopback"}

Steps(s, from, to) == stage[s] = from /\ stage' = [stage EXCEPT ![s] = to]

Unpublished == UNCHANGED <<flags, prefix, wanted, registry, published, handle, total, request>>

(* No --root, or an address that is malformed or not of this host alone. *)
RefuseFlags(s) ==
  /\ flags[s].root = "" \/ ~RequireLoopback(flags[s].host)
  /\ Steps(s, "flags", "refused")
  /\ Unpublished

OpenStore(s) ==
  /\ flags[s].root # "" /\ RequireLoopback(flags[s].host)
  /\ \/ flags[s].root = "directory" /\ Steps(s, "flags", "locking")
     \/ flags[s].root = "absent" /\ Steps(s, "flags", "refused")
  /\ Unpublished

(* ListenAndServe: the address may be taken.  Once it serves it never      *)
(* returns: the interrupt that run catches is looked at by nobody.         *)
Serve(s) ==
  /\ \/ Steps(s, "binding", "serving")
     \/ Steps(s, "binding", "refused")
  /\ Unpublished

(* publishedMap, for one variable after the other. *)
Name(s) == <<prefix[s], wanted[s]>>

(* Slip: there is no mutex. *)
AcquireFreely(s) ==
  /\ Steps(s, "locking", "looking")
  /\ registry' = s
  /\ UNCHANGED <<flags, prefix, wanted, published, handle, total, request>>

Acquire(s) ==
  /\ registry = Nothing
  /\ Steps(s, "locking", "looking")
  /\ registry' = s
  /\ UNCHANGED <<flags, prefix, wanted, published, handle, total, request>>

(* Slip: a name that is taken is left alone, and so is its map. *)
AdoptNone(s) ==
  /\ published[Name(s)] # NoMap
  /\ Steps(s, "looking", "unlocking")
  /\ handle' = [handle EXCEPT ![s][wanted[s]] = <<s, wanted[s]>>]
  /\ UNCHANGED <<flags, prefix, wanted, registry, published, total, request>>

Adopt(s) ==
  /\ published[Name(s)] # NoMap
  /\ Steps(s, "looking", "unlocking")
  /\ handle' = [handle EXCEPT ![s][wanted[s]] = published[Name(s)]]
  /\ UNCHANGED <<flags, prefix, wanted, registry, published, total, request>>

Miss(s) ==
  /\ published[Name(s)] = NoMap
  /\ Steps(s, "looking", "publishing")
  /\ Unpublished

(* expvar.NewMap, which panics on a name it has. *)
NewMap(s) ==
  LET isNew == published[Name(s)] = NoMap
      map == <<s, wanted[s]>>
  IN /\ Steps(s, "publishing", IF isNew THEN "unlocking" ELSE "panicked")
     /\ published' = IF isNew THEN [published EXCEPT ![Name(s)] = map] ELSE published
     /\ handle' = IF isNew THEN [handle EXCEPT ![s][wanted[s]] = map] ELSE handle
     /\ registry' = IF isNew THEN registry ELSE Nothing
     /\ UNCHANGED <<flags, prefix, wanted, total, request>>

Onward(s) ==
  IF wanted[s] = "requests"
  THEN Steps(s, "unlocking", "locking") /\ wanted' = [wanted EXCEPT ![s] = "duration_ms"]
  ELSE Steps(s, "unlocking", "binding") /\ UNCHANGED wanted

(* Slip: only who published unlocks. *)
ReleaseCreator(s) ==
  /\ Onward(s)
  /\ registry' = IF handle[s][wanted[s]][1] = s THEN Nothing ELSE registry
  /\ UNCHANGED <<flags, prefix, published, handle, total, request>>

Release(s) ==
  /\ Onward(s)
  /\ registry' = Nothing
  /\ UNCHANGED <<flags, prefix, published, handle, total, request>>
------------------------------------------------------------------------------
(* A request under the recorder (observe.go:51-138): its handler writes a  *)
(* header at most, then a body, of which the connection takes what it can, *)
(* and, if it streams, flushes after each write (stream.go:15-61).         *)

Arrive(c) ==
  /\ pc[c] = "unborn"
  /\ \E s \in Server, kind \in {"plain", "stream"} :
       /\ stage[s] = "serving"
       /\ home' = [home EXCEPT ![c] = s]
       /\ pc' = [pc EXCEPT ![c] = kind]
  /\ recorded' = [recorded EXCEPT ![c] = NewRecorder]
  /\ UNCHANGED <<launch, total, wire, unsent, left, took>>

Handling(c) == pc[c] \in {"plain", "stream"}
HandlerOnly == UNCHANGED <<launch, total, home, left, took>>

(* The first status stands; a later WriteHeader is a bug no handler has. *)
WriteHeader(c) ==
  /\ Handling(c) /\ wire[c] = 0
  /\ \E status \in Status :
       /\ recorded' = [recorded EXCEPT ![c] = status]
       /\ wire' = [wire EXCEPT ![c] = status]
  /\ UNCHANGED <<pc, unsent>> /\ HandlerOnly

(* The connection may take none of it, its client gone or about to be.     *)
Write(c) ==
  /\ Handling(c) /\ ~unsent[c]
  /\ pc[c] = "stream" => wire[c] # 0
  /\ wire' = [wire EXCEPT ![c] = IF @ = 0 THEN 200 ELSE @]
  /\ unsent' = [unsent EXCEPT ![c] = ~left[c]]
  /\ UNCHANGED <<pc, recorded>> /\ HandlerOnly

(* Slip: the recorder hides that the connection can flush. *)
FlushDropped(c) ==
  /\ pc[c] = "stream" /\ unsent[c]
  /\ UNCHANGED vars

Flush(c) ==
  /\ pc[c] = "stream" /\ unsent[c]
  /\ unsent' = [unsent EXCEPT ![c] = FALSE]
  /\ UNCHANGED <<pc, recorded, wire>> /\ HandlerOnly

(* The connection's buffer may be sent before it is flushed. *)
Spill(c) ==
  /\ unsent[c]
  /\ unsent' = [unsent EXCEPT ![c] = FALSE]
  /\ UNCHANGED <<pc, recorded, wire>> /\ HandlerOnly

Leave(c) ==
  /\ Handling(c) /\ ~left[c]
  /\ left' = [left EXCEPT ![c] = TRUE]
  /\ unsent' = [unsent EXCEPT ![c] = FALSE]
  /\ UNCHANGED <<launch, total, home, pc, recorded, wire, took>>

(* A stream is over when its client leaves, or with its document.  The     *)
(* response goes out when Handler's function returns, counted by then.     *)
Return(c) ==
  /\ Handling(c)
  /\ pc[c] = "stream" => wire[c] # 0
  /\ pc' = [pc EXCEPT ![c] = "returned"]
  /\ wire' = [wire EXCEPT ![c] = IF @ = 0 THEN 200 ELSE @]
  /\ UNCHANGED <<launch, total, home, recorded, unsent, left, took>>

Add(c, kind, n) ==
  LET map == handle[home[c]][kind] IN
  total' = [total EXCEPT ![map][recorded[c]] = @ + n]

(* RequestServed is two additions, which nothing holds together. *)
CountRequest(c) ==
  /\ pc[c] = "returned"
  /\ Add(c, "requests", 1)
  /\ pc' = [pc EXCEPT ![c] = "counted"]
  /\ UNCHANGED <<launch, home, recorded, wire, unsent, left, took>>

CountLatency(c) ==
  /\ pc[c] = "counted"
  /\ \E n \in 0..MaxMillis :
       /\ Add(c, "duration_ms", n)
       /\ took' = [took EXCEPT ![c] = n]
  /\ pc' = [pc EXCEPT ![c] = "done"]
  /\ unsent' = [unsent EXCEPT ![c] = FALSE]
  /\ UNCHANGED <<launch, home, recorded, wire, left>>

Launch(s) ==
  RefuseFlags(s) \/ OpenStore(s) \/ Acquire(s) \/ Adopt(s) \/ Miss(s) \/ NewMap(s)
    \/ Release(s) \/ Serve(s)

Requests(c) ==
  Arrive(c) \/ WriteHeader(c) \/ Write(c) \/ Flush(c) \/ Spill(c) \/ Leave(c) \/ Return(c)
    \/ CountRequest(c) \/ CountLatency(c)

Next == (\E s \in Server : Launch(s)) \/ (\E c \in Conn : Requests(c))

Spec == Init /\ [][Next]_vars

(* A goroutine that can go on does, a mutex is not withheld for ever from  *)
(* one that waits (sync.Mutex, starvation mode), and a handler flushes     *)
(* what it wrote.  Clients and handlers owe nothing else.                  *)
Fairness ==
  /\ \A s \in Server : WF_vars(Launch(s)) /\ SF_vars(Acquire(s))
  /\ \A c \in Conn : WF_vars(Flush(c)) /\ WF_vars(CountRequest(c)) /\ WF_vars(CountLatency(c))

FairSpec == Spec /\ Fairness
------------------------------------------------------------------------------
(* Every variable holds a value of its kind, and a recorded status is one  *)
(* that a client can be answered with.                                     *)
TypeOK ==
  /\ flags \in [Server -> Flags] /\ prefix \in [Server -> Prefixes]
  /\ stage \in [Server -> {"flags", "locking", "looking", "publishing", "unlocking", "binding",
                           "serving", "refused", "panicked"}]
  /\ wanted \in [Server -> Kind]
  /\ registry \in Server \cup {Nothing}
  /\ published \in [Variable -> Map \cup {NoMap}]
  /\ handle \in [Server -> [Kind -> Map \cup {NoMap}]]
  /\ total \in [Map -> [Counted -> Nat]]
  /\ home \in [Conn -> Server \cup {Nothing}]
  /\ pc \in [Conn -> {"unborn", "plain", "stream", "returned", "counted", "done"}]
  /\ recorded \in [Conn -> Counted]
  /\ wire \in [Conn -> Counted \cup {0}]
  /\ unsent \in [Conn -> BOOLEAN] /\ left \in [Conn -> BOOLEAN]
  /\ took \in [Conn -> 0..MaxMillis]

(* Servers that come up together under one prefix never publish a name     *)
(* twice, which would end the process (observe.go:183-188).                *)
NoPanic == \A s \in Server : stage[s] # "panicked"

Up(s) == stage[s] \in {"binding", "serving"}
Answered(p, status) == {c \in Conn : pc[c] # "unborn" /\ prefix[home[c]] = p /\ wire[c] = status}

MillisOf(conns) == Cardinality({at \in conns \X (1..MaxMillis) : at[2] <= took[at[1]]})

(* What is recorded of a request is how it was answered, and what expvar   *)
(* shows under a prefix is what clients of all its servers were answered,  *)
(* by status: the requests that were counted, and the time of those whose  *)
(* latency was, which may be fewer (observe.go:113-118, :173-210).         *)
MetricsMatchWire ==
  /\ \A c \in Conn : pc[c] \in {"returned", "counted", "done"} =>
       recorded[c] = wire[c]
  /\ \A s \in Server, status \in Counted :
       LET p == prefix[s]
           counted(stages) == {c \in Answered(p, status) : pc[c] \in stages}
           shown(kind) == total[published[<<p, kind>>]][status]
       IN Up(s) =>
            /\ published[<<p, "requests">>] # NoMap /\ published[<<p, "duration_ms">>] # NoMap
            /\ shown("requests") = Cardinality(counted({"counted", "done"}))
            /\ shown("duration_ms") = MillisOf(counted({"done"}))

(* What a stream's handler wrote is on its way to the client although the  *)
(* handler may never return (observe.go:64-67, :94-98).                    *)
FlushedArrives ==
  \A c \in Conn : (unsent[c] /\ pc[c] = "stream") ~> (~unsent[c])

(* Each server launched comes up or is refused, whoever comes up with it   *)
(* (observe.go:194-200: the mutex is released whichever way it goes).      *)
StartsUp ==
  \A s \in Server : (stage[s] = "flags") ~> (stage[s] \in {"serving", "refused"})
=============================================================================
