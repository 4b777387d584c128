---------------------------- MODULE ServerProofs ----------------------------
(***************************************************************************)
(* Theorems about Server, for any servers, prefixes, requests and bounds:  *)
(* types, that no metric name is ever published twice, and that what       *)
(* expvar shows is what the clients were answered.                         *)
(***************************************************************************)
EXTENDS Server, FiniteSetTheorems, TLAPS

Stages == {"flags", "locking", "looking", "publishing", "unlocking", "binding",
           "serving", "refused", "panicked"}

(* Exactly the steps between Lock and Unlock own the registry, so two      *)
(* servers are never there at once.                                        *)
Inside(s) == stage[s] \in {"looking", "publishing", "unlocking"}
Alone == \A s \in Server : Inside(s) <=> registry = s

(* A name that was looked up and missed is still missing when the map of   *)
(* that name is made.                                                      *)
StillMissing ==
  \A s \in Server : stage[s] = "publishing" => published[Name(s)] = NoMap

Inv == TypeOK /\ Alone /\ StillMissing /\ NoPanic
-----------------------------------------------------------------------------
(* What a launch and a request leave alone. *)
LaunchTypes ==
  /\ flags \in [Server -> Flags] /\ prefix \in [Server -> Prefixes]
  /\ stage \in [Server -> Stages]
  /\ wanted \in [Server -> Kind]
  /\ registry \in Server \cup {Nothing}
  /\ published \in [Variable -> Map \cup {NoMap}]
  /\ handle \in [Server -> [Kind -> Map \cup {NoMap}]]

RequestTypes ==
  /\ home \in [Conn -> Server \cup {Nothing}]
  /\ pc \in [Conn -> {"unborn", "plain", "stream", "returned", "counted", "done"}]
  /\ recorded \in [Conn -> Counted]
  /\ wire \in [Conn -> Counted \cup {0}]
  /\ unsent \in [Conn -> BOOLEAN] /\ left \in [Conn -> BOOLEAN]
  /\ took \in [Conn -> 0..MaxMillis]

LEMMA TypeParts ==
  TypeOK <=> LaunchTypes /\ total \in [Map -> [Counted -> Nat]] /\ RequestTypes
BY DEF TypeOK, LaunchTypes, RequestTypes, Stages

(* A server that moves from one stage to another, all else of the launch   *)
(* untouched.                                                              *)
LEMMA StepsType ==
  ASSUME stage \in [Server -> Stages], NEW s \in Server, NEW from, NEW to \in Stages,
         Steps(s, from, to)
  PROVE  stage' \in [Server -> Stages]
BY DEF Steps

LEMMA LaunchKeepsTypes ==
  ASSUME LaunchTypes, NEW s \in Server, Launch(s)
  PROVE  LaunchTypes'
<1> USE DEF LaunchTypes
<1>1. CASE RefuseFlags(s)
  <2>1. stage' \in [Server -> Stages]
    BY <1>1, StepsType DEF RefuseFlags, Stages
  <2> QED BY <1>1, <2>1 DEF RefuseFlags, Unpublished
<1>2. CASE OpenStore(s)
  <2>1. stage' \in [Server -> Stages]
    BY <1>2, StepsType DEF OpenStore, Stages
  <2> QED BY <1>2, <2>1 DEF OpenStore, Unpublished
<1>3. CASE Acquire(s)
  <2>1. stage' \in [Server -> Stages]
    BY <1>3, StepsType DEF Acquire, Stages
  <2> QED BY <1>3, <2>1 DEF Acquire
<1>4. CASE Adopt(s)
  <2>1. stage' \in [Server -> Stages]
    BY <1>4, StepsType DEF Adopt, Stages
  <2>2. Name(s) \in Variable /\ wanted[s] \in Kind
    BY DEF Name, Variable
  <2>3. handle' \in [Server -> [Kind -> Map \cup {NoMap}]]
    BY <1>4, <2>2 DEF Adopt
  <2> QED BY <1>4, <2>1, <2>3 DEF Adopt
<1>5. CASE Miss(s)
  <2>1. stage' \in [Server -> Stages]
    BY <1>5, StepsType DEF Miss, Stages
  <2> QED BY <1>5, <2>1 DEF Miss, Unpublished
<1>6. CASE NewMap(s)
  <2>1. stage' \in [Server -> Stages]
    BY <1>6, StepsType DEF NewMap, Stages
  <2>2. <<s, wanted[s]>> \in Map
    BY DEF Map
  <2>3. handle' \in [Server -> [Kind -> Map \cup {NoMap}]]
    BY <1>6, <2>2 DEF NewMap
  <2>4. published' \in [Variable -> Map \cup {NoMap}]
    BY <1>6, <2>2 DEF NewMap
  <2> QED BY <1>6, <2>1, <2>3, <2>4 DEF NewMap
<1>7. CASE Release(s)
  <2>1. stage' \in [Server -> Stages]
    BY <1>7, StepsType DEF Release, Onward, Stages
  <2>2. wanted' \in [Server -> Kind]
    BY <1>7 DEF Release, Onward, Kind
  <2> QED BY <1>7, <2>1, <2>2 DEF Release
<1>8. CASE Serve(s)
  <2>1. stage' \in [Server -> Stages]
    BY <1>8, StepsType DEF Serve, Stages
  <2> QED BY <1>8, <2>1 DEF Serve, Unpublished
<1> QED BY <1>1, <1>2, <1>3, <1>4, <1>5, <1>6, <1>7, <1>8 DEF Launch

LEMMA LaunchTouchesNoRequest ==
  ASSUME NEW s \in Server, Launch(s)
  PROVE  UNCHANGED <<total, request>>
BY DEF Launch, RefuseFlags, OpenStore, Unpublished, Acquire, Adopt, Miss, NewMap, Release, Serve

LEMMA RequestsTouchNoLaunch ==
  ASSUME NEW c \in Conn, Requests(c)
  PROVE  UNCHANGED launch
BY DEF Requests, Arrive, WriteHeader, Write, Flush, Spill, Leave, Return, CountRequest,
       CountLatency, HandlerOnly

(* An addition goes to a map the request's server was handed.              *)
LEMMA AddTypes ==
  ASSUME total \in [Map -> [Counted -> Nat]], RequestTypes,
         NEW c \in Conn, NEW kind \in Kind, NEW n \in Nat, Add(c, kind, n)
  PROVE  total' \in [Map -> [Counted -> Nat]]
<1> DEFINE map == handle[home[c]][kind]
<1>1. recorded[c] \in Counted
  BY DEF RequestTypes
<1>2. total' = [total EXCEPT ![map][recorded[c]] = @ + n]
  BY DEF Add
<1>3. CASE map \in Map
  BY <1>1, <1>2, <1>3
<1>4. CASE map \notin Map
  BY <1>2, <1>4
<1> QED BY <1>3, <1>4

LEMMA RequestsKeepTypes ==
  ASSUME LaunchTypes, total \in [Map -> [Counted -> Nat]], RequestTypes,
         NEW c \in Conn, Requests(c)
  PROVE  total' \in [Map -> [Counted -> Nat]] /\ RequestTypes'
<1> USE DEF RequestTypes
<1>0. 200 \in Counted /\ Status \subseteq Counted
  BY DEF Counted
<1>1. CASE Arrive(c)
  BY <1>0, <1>1 DEF Arrive, NewRecorder
<1>2. CASE WriteHeader(c)
  BY <1>0, <1>2 DEF WriteHeader, HandlerOnly
<1>3. CASE Write(c)
  BY <1>0, <1>3 DEF Write, HandlerOnly
<1>4. CASE Flush(c) \/ Spill(c) \/ Leave(c)
  BY <1>4 DEF Flush, Spill, Leave, HandlerOnly
<1>5. CASE Return(c)
  BY <1>0, <1>5 DEF Return
<1>6. CASE CountRequest(c)
  <2>1. total' \in [Map -> [Counted -> Nat]]
    BY <1>6, AddTypes DEF CountRequest, Kind
  <2> QED BY <1>6, <2>1 DEF CountRequest
<1>7. CASE CountLatency(c)
  <2>1. PICK n \in 0..MaxMillis : Add(c, "duration_ms", n) /\ took' = [took EXCEPT ![c] = n]
    BY <1>7 DEF CountLatency
  <2>2. total' \in [Map -> [Counted -> Nat]]
    BY <2>1, AddTypes, ServerAssumption DEF Kind
  <2> QED BY <1>7, <2>1, <2>2 DEF CountLatency
<1> QED BY <1>1, <1>2, <1>3, <1>4, <1>5, <1>6, <1>7 DEF Requests
-----------------------------------------------------------------------------
(* The registry. *)

LEMMA InitInv == Init => Inv
<1> SUFFICES ASSUME Init PROVE Inv
  OBVIOUS
<1>1. LaunchTypes
  BY DEF Init, LaunchTypes, Stages, Kind
<1>2. total \in [Map -> [Counted -> Nat]] /\ RequestTypes
  BY ServerAssumption DEF Init, RequestTypes, NewRecorder, Counted
<1>3. Alone /\ StillMissing /\ NoPanic
  BY ServerAssumption DEF Init, Alone, Inside, StillMissing, NoPanic
<1> QED BY <1>1, <1>2, <1>3, TypeParts DEF Inv

(* A server outside the registry that stays outside. *)
LEMMA OutsideKeeps ==
  ASSUME Inv, NEW s \in Server, NEW from, NEW to, Steps(s, from, to),
         UNCHANGED <<prefix, wanted, registry, published>>,
         from \notin {"looking", "publishing", "unlocking"},
         to \notin {"looking", "publishing", "unlocking", "panicked"}
  PROVE  (Alone /\ StillMissing /\ NoPanic)'
BY DEF Inv, Steps, Alone, Inside, StillMissing, NoPanic, TypeOK, Name

LEMMA LaunchKeepsRegistry ==
  ASSUME Inv, NEW s \in Server, Launch(s)
  PROVE  (Alone /\ StillMissing /\ NoPanic)'
<1> USE DEF Inv, Alone, Inside, StillMissing, NoPanic, Name
<1>0. stage \in [Server -> Stages] /\ wanted \in [Server -> Kind]
  BY TypeParts DEF LaunchTypes
<1>1. CASE RefuseFlags(s)
  BY <1>1, OutsideKeeps DEF RefuseFlags, Unpublished
<1>2. CASE OpenStore(s)
  BY <1>2, OutsideKeeps DEF OpenStore, Unpublished
<1>3. CASE Acquire(s)
  BY <1>0, <1>3, ServerAssumption DEF Acquire, Steps
<1>4. CASE Adopt(s)
  BY <1>0, <1>4 DEF Adopt, Steps
<1>5. CASE Miss(s)
  BY <1>0, <1>5 DEF Miss, Steps, Unpublished
<1>6. CASE NewMap(s)
  <2>1. stage[s] = "publishing" /\ published[Name(s)] = NoMap /\ registry = s
    BY <1>6 DEF NewMap, Steps
  <2>2. /\ stage' = [stage EXCEPT ![s] = "unlocking"]
        /\ UNCHANGED <<registry, prefix, wanted>>
    BY <1>6, <2>1 DEF NewMap, Steps
  <2>3. \A t \in Server : t # s => stage[t] # "publishing"
    BY <2>1
  <2> QED BY <1>0, <2>1, <2>2, <2>3
<1>7. CASE Release(s)
  <2>1. /\ registry = s /\ registry' = Nothing
        /\ UNCHANGED <<prefix, published>>
        /\ \A t \in Server : t # s => stage'[t] = stage[t] /\ wanted'[t] = wanted[t]
        /\ stage'[s] \in {"locking", "binding"}
    BY <1>0, <1>7 DEF Release, Onward, Steps
  <2> QED BY <1>0, <2>1, ServerAssumption
<1>8. CASE Serve(s)
  BY <1>8, OutsideKeeps DEF Serve, Unpublished
<1> QED BY <1>1, <1>2, <1>3, <1>4, <1>5, <1>6, <1>7, <1>8 DEF Launch

LEMMA StepKeepsInv == Inv /\ [Next]_vars => Inv'
<1> SUFFICES ASSUME Inv, [Next]_vars PROVE Inv'
  OBVIOUS
<1>0. LaunchTypes /\ total \in [Map -> [Counted -> Nat]] /\ RequestTypes
  BY TypeParts DEF Inv
<1>1. ASSUME NEW s \in Server, Launch(s) PROVE Inv'
  <2>1. LaunchTypes'
    BY <1>0, <1>1, LaunchKeepsTypes
  <2>2. total' \in [Map -> [Counted -> Nat]] /\ RequestTypes'
    BY <1>0, <1>1, LaunchTouchesNoRequest DEF RequestTypes, request
  <2>3. (Alone /\ StillMissing /\ NoPanic)'
    BY <1>1, LaunchKeepsRegistry
  <2> QED BY <2>1, <2>2, <2>3, TypeParts DEF Inv, TypeOK, LaunchTypes, RequestTypes, Stages
<1>2. ASSUME NEW c \in Conn, Requests(c) PROVE Inv'
  <2>1. UNCHANGED launch
    BY <1>2, RequestsTouchNoLaunch
  <2>2. total' \in [Map -> [Counted -> Nat]] /\ RequestTypes'
    BY <1>0, <1>2, RequestsKeepTypes
  <2>3. LaunchTypes' /\ (Alone /\ StillMissing /\ NoPanic)'
    BY <1>0, <2>1 DEF launch, LaunchTypes, Inv, Alone, Inside, StillMissing, NoPanic, Name
  <2> QED BY <2>2, <2>3 DEF Inv, TypeOK, LaunchTypes, RequestTypes, Stages
<1>3. CASE UNCHANGED vars
  BY <1>3 DEF vars, launch, request, Inv, TypeOK, Alone, Inside, StillMissing, NoPanic, Name
<1> QED BY <1>1, <1>2, <1>3 DEF Next

(* The inductive invariant holds throughout. *)
THEOREM Invariance == Spec => []Inv
BY InitInv, StepKeepsInv, PTL DEF Spec

(* Every reachable state has the declared types (observe.go, main.go).     *)
THEOREM TypeCorrect == Spec => []TypeOK
<1>1. Inv => TypeOK
  BY DEF Inv
<1> QED BY <1>1, Invariance, PTL

(* However many servers come up at once, under however many prefixes, none *)
(* publishes a name that is there: the process is not ended by a panic     *)
(* (observe.go:183-201).                                                   *)
THEOREM NeverPanics == Spec => []NoPanic
<1>1. Inv => NoPanic
  BY DEF Inv
<1> QED BY <1>1, Invariance, PTL
-----------------------------------------------------------------------------
(* What expvar shows. *)

(* Under a name is a map of its kind that a server of its prefix made;     *)
(* a server counts into the maps under its names, and into both once it is *)
(* up.                                                                     *)
Handed ==
  /\ \A v \in Variable :
       published[v] # NoMap => published[v][2] = v[2] /\ prefix[published[v][1]] = v[1]
  /\ \A s \in Server :
       /\ \A k \in Kind : handle[s][k] # NoMap => handle[s][k] = published[<<prefix[s], k>>]
       /\ stage[s] = "flags" => wanted[s] = "requests"
       /\ stage[s] = "unlocking" => handle[s][wanted[s]] # NoMap
       /\ wanted[s] = "duration_ms" => handle[s]["requests"] # NoMap
       /\ Up(s) => handle[s]["requests"] # NoMap /\ handle[s]["duration_ms"] # NoMap

(* What is recorded is what was answered, of a request to a server that    *)
(* serves.                                                                 *)
Recording(c) ==
  IF pc[c] = "unborn" THEN wire[c] = 0
  ELSE /\ home[c] \in Server /\ stage[home[c]] = "serving"
       /\ recorded[c] = IF wire[c] = 0 THEN 200 ELSE wire[c]
       /\ pc[c] \in {"returned", "counted", "done"} => wire[c] # 0

(* The requests of a prefix answered with a status and come that far. *)
Tallied(p, status, stages) ==
  {c \in Conn : pc[c] \in stages /\ prefix[home[c]] = p /\ wire[c] = status}

RequestsTally(p, status) ==
  LET counted == Tallied(p, status, {"counted", "done"}) IN
  /\ IsFiniteSet(counted)
  /\ published[<<p, "requests">>] # NoMap =>
       total[published[<<p, "requests">>]][status] = Cardinality(counted)

LatencyTallies(p, status) ==
  published[<<p, "duration_ms">>] # NoMap =>
    total[published[<<p, "duration_ms">>]][status] = MillisOf(Tallied(p, status, {"done"}))

(* Nothing is counted into a map before it is published. *)
Untouched ==
  \A m \in Map : (\A v \in Variable : published[v] # m) => \A status \in Counted : total[m][status] = 0

Told == \A c \in Conn : Recording(c)

Tallies ==
  \A p \in Prefixes, status \in Counted : RequestsTally(p, status) /\ LatencyTallies(p, status)

MetricsInv == Inv /\ Handed /\ Told /\ Tallies /\ Untouched
-----------------------------------------------------------------------------
(* Time spent. *)

Spent(conns, t) == {at \in conns \X (1..MaxMillis) : at[2] <= t[at[1]]}

LEMMA SpentGrows ==
  ASSUME NEW conns, IsFiniteSet(conns), NEW c, c \notin conns, NEW t, NEW u,
         \A d \in conns : u[d] = t[d], NEW n \in 0..MaxMillis, u[c] = n
  PROVE  Cardinality(Spent(conns \cup {c}, u)) = Cardinality(Spent(conns, t)) + n
<1> DEFINE before == Spent(conns, t)
           added == {c} \X (1..n)
<1>1. n \in Nat /\ MaxMillis \in Nat /\ n <= MaxMillis
  BY ServerAssumption
<1>2. Spent(conns \cup {c}, u) = before \cup added
  <2>1. ASSUME NEW at \in Spent(conns \cup {c}, u) PROVE at \in before \cup added
    BY <1>1, <2>1 DEF Spent
  <2>2. ASSUME NEW at \in before PROVE at \in Spent(conns \cup {c}, u)
    BY <2>2 DEF Spent
  <2>3. ASSUME NEW at \in added PROVE at \in Spent(conns \cup {c}, u)
    BY <1>1, <2>3 DEF Spent
  <2> QED BY <2>1, <2>2, <2>3
<1>3. before \cap added = {}
  BY DEF Spent
<1>4. IsFiniteSet(before)
  <2>1. IsFiniteSet(1..MaxMillis)
    <3>1. 1 \in Int /\ MaxMillis \in Int
      BY <1>1
    <3> QED BY <3>1, FS_Interval
  <2>2. IsFiniteSet(conns \X (1..MaxMillis))
    BY <2>1, FS_Product
  <2>3. before \subseteq conns \X (1..MaxMillis)
    BY DEF Spent
  <2> QED BY <2>2, <2>3, FS_Subset
<1>5. IsFiniteSet(added) /\ Cardinality(added) = n
  <2>1. IsFiniteSet(1..n) /\ Cardinality(1..n) = n
    <3>1. 1 \in Int /\ n \in Int
      BY <1>1
    <3>2. IsFiniteSet(1..n) /\ Cardinality(1..n) = IF 1 > n THEN 0 ELSE n - 1 + 1
      BY <3>1, FS_Interval
    <3> QED BY <1>1, <3>2
  <2>2. IsFiniteSet({c}) /\ Cardinality({c}) = 1
    BY FS_Singleton
  <2>3. IsFiniteSet(added) /\ Cardinality(added) = Cardinality({c}) * Cardinality(1..n)
    BY <2>1, <2>2, FS_Product
  <2> QED BY <1>1, <2>1, <2>2, <2>3
<1> HIDE DEF before, added
<1>6. Cardinality(before \cup added) = Cardinality(before) + Cardinality(added) - Cardinality(before \cap added)
  BY <1>4, <1>5, FS_Union
<1>7. Cardinality(before) \in Nat /\ Cardinality({}) = 0
  BY <1>4, FS_CardinalityType, FS_EmptySet
<1>8. Cardinality(before \cup added) = Cardinality(before) + n
  <2>1. Cardinality(before \cap added) = 0
    BY <1>3, <1>7
  <2> DEFINE x == Cardinality(before)
             y == Cardinality(before \cup added)
  <2>2. y = x + n - 0
    BY <1>5, <1>6, <2>1
  <2>3. x \in Nat
    BY <1>7
  <2> HIDE DEF x, y
  <2>4. y = x + n
    BY <1>1, <2>2, <2>3
  <2> QED BY <2>4 DEF x, y
<1> QED BY <1>2, <1>8 DEF before

-----------------------------------------------------------------------------
(* Maps. *)

LEMMA Parts ==
  ASSUME MetricsInv
  PROVE  /\ flags \in [Server -> Flags] /\ prefix \in [Server -> Prefixes]
         /\ stage \in [Server -> Stages] /\ wanted \in [Server -> Kind]
         /\ published \in [Variable -> Map \cup {NoMap}]
         /\ handle \in [Server -> [Kind -> Map \cup {NoMap}]]
         /\ total \in [Map -> [Counted -> Nat]]
         /\ RequestTypes
         /\ NoMap \notin Map
<1>1. LaunchTypes /\ RequestTypes /\ total \in [Map -> [Counted -> Nat]]
  BY TypeParts DEF MetricsInv, Inv
<1>2. NoMap \notin Map
  BY ServerAssumption DEF NoMap, Map, Kind
<1> QED BY <1>1, <1>2 DEF LaunchTypes

(* No map is under two names. *)
LEMMA OneName ==
  ASSUME MetricsInv, NEW p \in Prefixes, NEW k \in Kind, NEW q \in Prefixes, NEW l \in Kind,
         published[<<p, k>>] # NoMap, published[<<p, k>>] = published[<<q, l>>]
  PROVE  p = q /\ k = l /\ published[<<p, k>>] \in Map
<1>1. <<p, k>> \in Variable /\ <<q, l>> \in Variable
  BY DEF Variable
<1>2. published[<<p, k>>] \in Map
  BY <1>1, Parts
<1>3. published[<<p, k>>][2] = k /\ published[<<q, l>>][2] = l
  BY <1>1 DEF MetricsInv, Handed
<1>4. prefix[published[<<p, k>>][1]] = p /\ prefix[published[<<q, l>>][1]] = q
  BY <1>1 DEF MetricsInv, Handed
<1> QED BY <1>2, <1>3, <1>4

(* The map a request counts into. *)
LEMMA Counts ==
  ASSUME MetricsInv, NEW c \in Conn, pc[c] # "unborn", NEW k \in Kind
  PROVE  /\ home[c] \in Server /\ prefix[home[c]] \in Prefixes
         /\ <<prefix[home[c]], k>> \in Variable
         /\ handle[home[c]][k] = published[<<prefix[home[c]], k>>]
         /\ handle[home[c]][k] # NoMap /\ handle[home[c]][k] \in Map
<1>1. home[c] \in Server /\ Up(home[c])
  BY DEF MetricsInv, Told, Recording, Up
<1>2. prefix[home[c]] \in Prefixes /\ <<prefix[home[c]], k>> \in Variable
  BY <1>1, Parts DEF Variable
<1>3. handle[home[c]][k] # NoMap
  BY <1>1 DEF MetricsInv, Handed, Kind
<1>4. handle[home[c]][k] = published[<<prefix[home[c]], k>>]
  BY <1>1, <1>3 DEF MetricsInv, Handed
<1> QED BY <1>1, <1>2, <1>3, <1>4, Parts

(* An addition shows under one name and status, and nowhere else. *)
LEMMA AddsThere ==
  ASSUME MetricsInv, NEW c \in Conn, pc[c] # "unborn", wire[c] # 0, NEW kind \in Kind, NEW n \in Nat,
         Add(c, kind, n), UNCHANGED launch
  PROVE  /\ wire[c] \in Counted /\ Untouched'
         /\ \A p \in Prefixes, k \in Kind, status \in Counted :
              published[<<p, k>>] # NoMap =>
                total'[published[<<p, k>>]][status] =
                  total[published[<<p, k>>]][status]
                    + (IF p = prefix[home[c]] /\ k = kind /\ status = wire[c] THEN n ELSE 0)
<1> DEFINE map == handle[home[c]][kind]
           st == wire[c]
<1>1. /\ home[c] \in Server /\ prefix[home[c]] \in Prefixes
      /\ <<prefix[home[c]], kind>> \in Variable
      /\ map = published[<<prefix[home[c]], kind>>]
      /\ map # NoMap /\ map \in Map
  BY Counts
<1>2. st \in Counted /\ recorded[c] = st
  BY Parts DEF RequestTypes, MetricsInv, Told, Recording
<1>3. total \in [Map -> [Counted -> Nat]] /\ total' = [total EXCEPT ![map][st] = @ + n]
  BY <1>2, Parts DEF Add
<1>4. published' = published
  BY DEF launch
<1> HIDE DEF map, st
<1>5. ASSUME NEW m \in Map, NEW status \in Counted
      PROVE  total'[m][status] = total[m][status] + (IF m = map /\ status = st THEN n ELSE 0)
  <2>1. total[m][status] \in Nat
    BY <1>3
  <2> QED BY <1>1, <1>2, <1>3, <2>1
<1>6. Untouched'
  <2> SUFFICES ASSUME NEW m \in Map, \A v \in Variable : published[v] # m, NEW status \in Counted
               PROVE  total'[m][status] = 0
    BY <1>4 DEF Untouched
  <2>1. m # map
    BY <1>1
  <2>2. total[m][status] = 0
    BY DEF MetricsInv, Untouched
  <2> QED BY <1>5, <2>1, <2>2
<1>7. ASSUME NEW p \in Prefixes, NEW k \in Kind, NEW status \in Counted, published[<<p, k>>] # NoMap
      PROVE  total'[published[<<p, k>>]][status] =
               total[published[<<p, k>>]][status]
                 + (IF p = prefix[home[c]] /\ k = kind /\ status = st THEN n ELSE 0)
  <2>1. published[<<p, k>>] = map <=> p = prefix[home[c]] /\ k = kind
    BY <1>1, <1>7, OneName
  <2>2. published[<<p, k>>] \in Map
    BY <1>7, OneName
  <2> QED BY <1>5, <2>1, <2>2
<1> QED BY <1>2, <1>6, <1>7 DEF st
-----------------------------------------------------------------------------
(* Coming up. *)

LEMMA InitMetrics == Init => MetricsInv
<1> SUFFICES ASSUME Init PROVE MetricsInv
  OBVIOUS
<1>1. Handed
  BY DEF Init, Handed, Up, Kind, Variable
<1>2. Told
  BY DEF Init, Told, Recording
<1>3. Untouched
  BY DEF Init, Untouched
<1>4. ASSUME NEW p \in Prefixes, NEW status \in Counted
      PROVE  RequestsTally(p, status) /\ LatencyTallies(p, status)
  <2>1. Tallied(p, status, {"counted", "done"}) = {}
    BY DEF Init, Tallied
  <2>2. /\ published[<<p, "requests">>] = NoMap
        /\ published[<<p, "duration_ms">>] = NoMap
    BY DEF Init, Variable, Kind
  <2> QED BY <2>1, <2>2, FS_EmptySet DEF RequestsTally, LatencyTallies
<1> QED BY <1>1, <1>2, <1>3, <1>4, InitInv DEF MetricsInv, Tallies

(* A server that only moves on, of the parts of Handed about it.           *)
LEMMA MovesOn ==
  ASSUME MetricsInv, NEW s \in Server, NEW from, NEW to, Steps(s, from, to),
         UNCHANGED <<prefix, wanted, published, handle>>,
         to # "flags", to # "unlocking", to \in {"binding", "serving"} => from \in {"binding", "serving"}
  PROVE  Handed'
<1>1. Handed
  BY DEF MetricsInv
<1>2. stage[s] = from /\ stage' = [stage EXCEPT ![s] = to] /\ stage \in [Server -> Stages]
  BY Parts DEF Steps
<1>3. ASSUME NEW t \in Server
      PROVE  /\ stage'[t] = "flags" => stage[t] = "flags"
             /\ stage'[t] = "unlocking" => stage[t] = "unlocking"
             /\ stage'[t] \in {"binding", "serving"} => stage[t] \in {"binding", "serving"}
  BY <1>2
<1> QED BY <1>1, <1>3 DEF Handed, Up

LEMMA LaunchHands ==
  ASSUME MetricsInv, NEW s \in Server, Launch(s) PROVE Handed'
<1>1. /\ Handed /\ Alone /\ StillMissing /\ NoPanic
      /\ stage \in [Server -> Stages] /\ wanted \in [Server -> Kind]
      /\ prefix \in [Server -> Prefixes]
      /\ published \in [Variable -> Map \cup {NoMap}]
      /\ handle \in [Server -> [Kind -> Map \cup {NoMap}]]
  BY Parts DEF MetricsInv, Inv
<1>2. wanted[s] \in Kind /\ Name(s) = <<prefix[s], wanted[s]>> /\ Name(s) \in Variable
  BY <1>1 DEF Name, Variable
<1>3. CASE RefuseFlags(s) \/ OpenStore(s) \/ Acquire(s) \/ Miss(s) \/ Serve(s)
  <2>1. CASE RefuseFlags(s)
    BY <2>1, MovesOn DEF RefuseFlags, Unpublished
  <2>2. CASE OpenStore(s)
    BY <2>2, MovesOn DEF OpenStore, Unpublished
  <2>3. CASE Acquire(s)
    BY <2>3, MovesOn DEF Acquire
  <2>4. CASE Miss(s)
    BY <2>4, MovesOn DEF Miss, Unpublished
  <2>5. CASE Serve(s)
    BY <2>5, MovesOn DEF Serve, Unpublished
  <2> QED BY <1>3, <2>1, <2>2, <2>3, <2>4, <2>5
<1>4. CASE Adopt(s)
  <2>1. /\ stage' = [stage EXCEPT ![s] = "unlocking"]
        /\ handle' = [handle EXCEPT ![s][wanted[s]] = published[Name(s)]]
        /\ published[Name(s)] # NoMap
        /\ UNCHANGED <<prefix, wanted, published>>
    BY <1>4 DEF Adopt, Steps
  <2>2. ASSUME NEW t \in Server, NEW k \in Kind
        PROVE  handle'[t][k] = IF t = s /\ k = wanted[s] THEN published[Name(s)] ELSE handle[t][k]
    BY <1>1, <2>1
  <2>3. \A t \in Server : stage'[t] = IF t = s THEN "unlocking" ELSE stage[t]
    BY <1>1, <2>1
  <2>4. ASSUME NEW t \in Server
        PROVE  /\ \A k \in Kind : handle'[t][k] # NoMap => handle'[t][k] = published[<<prefix[t], k>>]
               /\ stage'[t] = "flags" => wanted[t] = "requests"
               /\ stage'[t] = "unlocking" => handle'[t][wanted[t]] # NoMap
               /\ wanted[t] = "duration_ms" => handle'[t]["requests"] # NoMap
               /\ stage'[t] \in {"binding", "serving"} =>
                    handle'[t]["requests"] # NoMap /\ handle'[t]["duration_ms"] # NoMap
    <3>0. "requests" \in Kind /\ "duration_ms" \in Kind /\ wanted[t] \in Kind
      BY <1>1 DEF Kind
    <3>1. CASE t = s
      <4>1. \A k \in Kind : handle'[t][k] # NoMap => handle'[t][k] = published[<<prefix[t], k>>]
        BY <1>1, <1>2, <2>1, <2>2, <3>1 DEF Handed
      <4>2. \A k \in Kind : handle[t][k] # NoMap => handle'[t][k] # NoMap
        BY <2>1, <2>2
      <4>3. handle'[t][wanted[t]] # NoMap
        BY <2>1, <2>2, <3>0, <3>1
      <4>4. wanted[t] = "duration_ms" => handle'[t]["requests"] # NoMap
        BY <1>1, <3>0, <4>2 DEF Handed
      <4> QED BY <2>3, <3>1, <4>1, <4>3, <4>4
    <3>2. CASE t # s
      <4>1. stage'[t] = stage[t] /\ \A k \in Kind : handle'[t][k] = handle[t][k]
        BY <2>2, <2>3, <3>2
      <4> QED BY <1>1, <3>0, <4>1 DEF Handed, Up
    <3> QED BY <3>1, <3>2
  <2> QED BY <1>1, <2>1, <2>4 DEF Handed, Up
<1>5. CASE NewMap(s)
  <2> DEFINE map == <<s, wanted[s]>>
  <2>1. stage[s] = "publishing" /\ published[Name(s)] = NoMap
    BY <1>1, <1>5 DEF NewMap, Steps, StillMissing
  <2>2. /\ stage' = [stage EXCEPT ![s] = "unlocking"]
        /\ published' = [published EXCEPT ![Name(s)] = map]
        /\ handle' = [handle EXCEPT ![s][wanted[s]] = map]
        /\ UNCHANGED <<prefix, wanted>>
    BY <1>5, <2>1 DEF NewMap, Steps
  <2>3. map \in Map /\ map # NoMap
    BY <1>2, Parts DEF Map
  <2>4. map[1] = s /\ map[2] = wanted[s] /\ Name(s)[1] = prefix[s] /\ Name(s)[2] = wanted[s]
    BY <1>2
  <2> HIDE DEF map
  <2>5. ASSUME NEW t \in Server, NEW k \in Kind
        PROVE  handle'[t][k] = IF t = s /\ k = wanted[s] THEN map ELSE handle[t][k]
    BY <1>1, <2>2
  <2>6. \A t \in Server : stage'[t] = IF t = s THEN "unlocking" ELSE stage[t]
    BY <1>1, <2>2
  <2>7. \A v \in Variable : published'[v] = IF v = Name(s) THEN map ELSE published[v]
    BY <1>1, <1>2, <2>2
  <2>8. ASSUME NEW t \in Server, NEW k \in Kind, handle'[t][k] # NoMap
        PROVE  handle'[t][k] = published'[<<prefix[t], k>>]
    <3>0. <<prefix[t], k>> \in Variable
      BY <1>1 DEF Variable
    <3>1. CASE t = s /\ k = wanted[s]
      BY <1>2, <2>5, <2>7, <3>0, <3>1
    <3>2. CASE ~(t = s /\ k = wanted[s])
      <4>1. handle[t][k] # NoMap /\ handle[t][k] = published[<<prefix[t], k>>]
        BY <1>1, <2>5, <2>8, <3>2 DEF Handed
      <4>2. <<prefix[t], k>> # Name(s)
        BY <2>1, <4>1
      <4> QED BY <2>5, <2>7, <3>0, <3>2, <4>1, <4>2
    <3> QED BY <3>1, <3>2
  <2>9. ASSUME NEW t \in Server
        PROVE  /\ stage'[t] = "flags" => wanted[t] = "requests"
               /\ stage'[t] = "unlocking" => handle'[t][wanted[t]] # NoMap
               /\ wanted[t] = "duration_ms" => handle'[t]["requests"] # NoMap
               /\ stage'[t] \in {"binding", "serving"} =>
                    handle'[t]["requests"] # NoMap /\ handle'[t]["duration_ms"] # NoMap
    <3>0. "requests" \in Kind /\ "duration_ms" \in Kind /\ wanted[t] \in Kind
      BY <1>1 DEF Kind
    <3>1. CASE t = s
      <4>1. \A k \in Kind : handle[t][k] # NoMap => handle'[t][k] # NoMap
        BY <2>3, <2>5
      <4>2. handle'[t][wanted[t]] # NoMap
        BY <2>3, <2>5, <3>0, <3>1
      <4>3. wanted[t] = "duration_ms" => handle'[t]["requests"] # NoMap
        BY <1>1, <3>0, <4>1 DEF Handed
      <4> QED BY <2>6, <3>1, <4>2, <4>3
    <3>2. CASE t # s
      <4>1. stage'[t] = stage[t] /\ \A k \in Kind : handle'[t][k] = handle[t][k]
        BY <2>5, <2>6, <3>2
      <4> QED BY <1>1, <3>0, <4>1 DEF Handed, Up
    <3> QED BY <3>1, <3>2
  <2>10. ASSUME NEW v \in Variable, published'[v] # NoMap
         PROVE  published'[v][2] = v[2] /\ prefix[published'[v][1]] = v[1]
    BY <1>1, <2>4, <2>7, <2>10 DEF Handed
  <2> QED BY <2>2, <2>8, <2>9, <2>10 DEF Handed, Up
<1>6. CASE Release(s)
  <2>1. UNCHANGED <<prefix, published, handle>> /\ stage[s] = "unlocking"
    BY <1>6 DEF Release, Onward, Steps
  <2>2. handle[s][wanted[s]] # NoMap
    BY <1>1, <2>1 DEF Handed
  <2>3. CASE wanted[s] = "requests"
    <3>1. stage' = [stage EXCEPT ![s] = "locking"] /\ wanted' = [wanted EXCEPT ![s] = "duration_ms"]
      BY <1>6, <2>3 DEF Release, Onward, Steps
    <3>2. ASSUME NEW t \in Server
          PROVE  /\ stage'[t] = IF t = s THEN "locking" ELSE stage[t]
                 /\ wanted'[t] = IF t = s THEN "duration_ms" ELSE wanted[t]
      BY <1>1, <3>1
    <3> QED BY <1>1, <2>1, <2>2, <2>3, <3>2 DEF Handed, Up
  <2>4. CASE wanted[s] # "requests"
    <3>1. stage' = [stage EXCEPT ![s] = "binding"] /\ wanted' = wanted /\ wanted[s] = "duration_ms"
      BY <1>2, <1>6, <2>4 DEF Release, Onward, Steps, Kind
    <3>2. ASSUME NEW t \in Server
          PROVE  stage'[t] = IF t = s THEN "binding" ELSE stage[t]
      BY <1>1, <3>1
    <3>3. handle[s]["requests"] # NoMap /\ handle[s]["duration_ms"] # NoMap
      BY <1>1, <2>2, <3>1 DEF Handed
    <3> QED BY <1>1, <2>1, <3>1, <3>2, <3>3 DEF Handed, Up
  <2> QED BY <2>3, <2>4
<1> QED BY <1>3, <1>4, <1>5, <1>6 DEF Launch

(* A map is published before any request is counted that it is to show. *)
LEMMA LaunchTallies ==
  ASSUME MetricsInv, NEW s \in Server, Launch(s) PROVE Told' /\ Tallies' /\ Untouched'
<1>1. /\ UNCHANGED <<total, request, prefix>>
      /\ \A t \in Server : stage[t] = "serving" => stage'[t] = "serving"
  <2>1. UNCHANGED <<total, request, prefix>>
    BY LaunchTouchesNoRequest
       DEF Launch, RefuseFlags, OpenStore, Unpublished, Acquire, Adopt, Miss, NewMap, Release, Serve
  <2>2. \E to \in Stages : stage[s] # "serving" /\ stage' = [stage EXCEPT ![s] = to]
    BY DEF Launch, RefuseFlags, OpenStore, Acquire, Adopt, Miss, NewMap, Release, Onward, Serve, Steps, Stages
  <2> QED BY <2>1, <2>2, Parts
<1>2. Told'
  BY <1>1 DEF MetricsInv, Told, Recording, request
<1>3. ASSUME NEW p, NEW status
      PROVE  /\ Tallied(p, status, {"counted", "done"})' = Tallied(p, status, {"counted", "done"})
             /\ MillisOf(Tallied(p, status, {"done"}))' = MillisOf(Tallied(p, status, {"done"}))
  <2>1. Tallied(p, status, {"counted", "done"})' = Tallied(p, status, {"counted", "done"})
    BY <1>1 DEF Tallied, request
  <2>2. Tallied(p, status, {"done"})' = Tallied(p, status, {"done"}) /\ took' = took
    BY <1>1 DEF Tallied, request
  <2>3. MillisOf(Tallied(p, status, {"done"}))' = MillisOf(Tallied(p, status, {"done"}))
    BY <2>2, Zenon DEF MillisOf
  <2> QED BY <2>1, <2>3
<1>4. \/ UNCHANGED published
      \/ /\ NewMap(s) /\ published[Name(s)] = NoMap
         /\ published' = [published EXCEPT ![Name(s)] = <<s, wanted[s]>>]
  <2>1. CASE NewMap(s)
    <3>1. published[Name(s)] = NoMap
      BY <2>1 DEF NewMap, Steps, MetricsInv, Inv, StillMissing
    <3> QED BY <2>1, <3>1 DEF NewMap
  <2>2. CASE ~NewMap(s)
    BY <2>2 DEF Launch, RefuseFlags, OpenStore, Unpublished, Acquire, Adopt, Miss, Release, Serve
  <2> QED BY <2>1, <2>2
<1>5. CASE UNCHANGED published
  <2>1. Untouched'
    BY <1>1, <1>5 DEF MetricsInv, Untouched
  <2>2. ASSUME NEW p \in Prefixes, NEW status \in Counted
        PROVE  RequestsTally(p, status)' /\ LatencyTallies(p, status)'
    <3>1. RequestsTally(p, status) /\ LatencyTallies(p, status)
      BY DEF MetricsInv, Tallies
    <3> QED BY <1>1, <1>3, <1>5, <3>1 DEF RequestsTally, LatencyTallies
  <2> QED BY <1>2, <2>1, <2>2 DEF Tallies
<1>6. CASE /\ NewMap(s) /\ published[Name(s)] = NoMap
           /\ published' = [published EXCEPT ![Name(s)] = <<s, wanted[s]>>]
  <2> DEFINE map == <<s, wanted[s]>>
             k == wanted[s]
  <2>1. /\ published \in [Variable -> Map \cup {NoMap}] /\ k \in Kind /\ prefix[s] \in Prefixes
        /\ Name(s) = <<prefix[s], k>> /\ Name(s) \in Variable
        /\ map \in Map /\ map # NoMap
    BY Parts DEF Name, Variable, Map
  <2>2. \A v \in Variable : published'[v] = IF v = Name(s) THEN map ELSE published[v]
    BY <1>6, <2>1
  <2>3. \A v \in Variable : published[v] # map
    <3> SUFFICES ASSUME NEW v \in Variable, published[v] = map PROVE FALSE
      OBVIOUS
    <3>1. v[2] = k /\ v[1] = prefix[s]
      BY <2>1 DEF MetricsInv, Handed
    <3>2. v = Name(s)
      BY <2>1, <3>1 DEF Variable
    <3> QED BY <1>6, <2>1, <3>2
  <2>4. \A status \in Counted : total[map][status] = 0
    BY <2>1, <2>3 DEF MetricsInv, Untouched
  <2>5. ASSUME NEW c \in Conn, pc[c] # "unborn" PROVE prefix[home[c]] # prefix[s]
    BY <1>6, <2>1, <2>5, Counts
  <2>6. ASSUME NEW status, NEW stages, "unborn" \notin stages PROVE Tallied(prefix[s], status, stages) = {}
    BY <2>5, <2>6 DEF Tallied
  <2> HIDE DEF map, k
  <2>7. Untouched'
    <3> SUFFICES ASSUME NEW m \in Map, \A v \in Variable : published'[v] # m, NEW status \in Counted
                 PROVE  total[m][status] = 0
      BY <1>1 DEF Untouched
    <3>1. \A v \in Variable : published[v] # m
      BY <1>6, <2>2, Parts
    <3> QED BY <3>1 DEF MetricsInv, Untouched
  <2>8. ASSUME NEW p \in Prefixes, NEW status \in Counted
        PROVE  /\ IsFiniteSet(Tallied(p, status, {"counted", "done"}))
               /\ published'[<<p, "requests">>] # NoMap =>
                    total[published'[<<p, "requests">>]][status]
                      = Cardinality(Tallied(p, status, {"counted", "done"}))
               /\ published'[<<p, "duration_ms">>] # NoMap =>
                    total[published'[<<p, "duration_ms">>]][status]
                      = MillisOf(Tallied(p, status, {"done"}))
    <3>1. RequestsTally(p, status) /\ LatencyTallies(p, status)
      BY DEF MetricsInv, Tallies
    <3>2. <<p, "requests">> \in Variable /\ <<p, "duration_ms">> \in Variable
      BY DEF Variable, Kind
    <3>3. CASE p # prefix[s]
      <4>1. <<p, "requests">> # Name(s) /\ <<p, "duration_ms">> # Name(s)
        BY <2>1, <3>3
      <4> QED BY <2>2, <3>1, <3>2, <4>1 DEF RequestsTally, LatencyTallies
    <3>4. CASE p = prefix[s]
      <4>1. Tallied(p, status, {"counted", "done"}) = {} /\ Tallied(p, status, {"done"}) = {}
        BY <2>6, <3>4
      <4>2. Cardinality({}) = 0 /\ IsFiniteSet({}) /\ MillisOf({}) = 0
        BY FS_EmptySet DEF MillisOf
      <4>3. <<p, "requests">> = Name(s) => total[published'[<<p, "requests">>]][status] = 0
        BY <2>2, <2>4, <3>2
      <4>4. <<p, "duration_ms">> = Name(s) => total[published'[<<p, "duration_ms">>]][status] = 0
        BY <2>2, <2>4, <3>2
      <4> QED BY <2>2, <3>1, <3>2, <4>1, <4>2, <4>3, <4>4 DEF RequestsTally, LatencyTallies
    <3> QED BY <3>3, <3>4
  <2>9. ASSUME NEW p \in Prefixes, NEW status \in Counted
        PROVE  RequestsTally(p, status)' /\ LatencyTallies(p, status)'
    BY <1>1, <1>3, <2>8 DEF RequestsTally, LatencyTallies
  <2> QED BY <1>2, <2>7, <2>9 DEF Tallies
<1> QED BY <1>4, <1>5, <1>6
-----------------------------------------------------------------------------
(* Requests. *)

LEMMA RequestTold ==
  ASSUME MetricsInv, NEW c \in Conn, Requests(c) PROVE Told'
<1>1. RequestTypes /\ \A d \in Conn : Recording(d)
  BY Parts DEF MetricsInv, Told
<1>2. UNCHANGED stage
  BY RequestsTouchNoLaunch DEF launch
<1>3. 0 \notin Status
  BY ServerAssumption
<1>4. ASSUME NEW d \in Conn, d # c PROVE Recording(d)'
  <2>1. /\ pc'[d] = pc[d] /\ wire'[d] = wire[d] /\ home'[d] = home[d] /\ recorded'[d] = recorded[d]
    BY <1>1, <1>4 DEF RequestTypes, Requests, Arrive, WriteHeader, Write, Flush, Spill, Leave, Return,
                      CountRequest, CountLatency, HandlerOnly
  <2> QED BY <1>1, <1>2, <2>1 DEF Recording
<1>5. Recording(c)'
  <2> USE DEF RequestTypes, Recording, Handling, HandlerOnly
  <2>1. CASE Arrive(c)
    BY <1>1, <1>2, <2>1 DEF Arrive, NewRecorder
  <2>2. CASE WriteHeader(c)
    BY <1>1, <1>2, <1>3, <2>2 DEF WriteHeader
  <2>3. CASE Write(c)
    BY <1>1, <1>2, <2>3 DEF Write
  <2>4. CASE Flush(c) \/ Spill(c) \/ Leave(c)
    BY <1>1, <1>2, <2>4 DEF Flush, Spill, Leave
  <2>5. CASE Return(c)
    BY <1>1, <1>2, <2>5 DEF Return
  <2>6. CASE CountRequest(c) \/ CountLatency(c)
    BY <1>1, <1>2, <2>6 DEF CountRequest, CountLatency
  <2> QED BY <2>1, <2>2, <2>3, <2>4, <2>5, <2>6 DEF Requests
<1> QED BY <1>4, <1>5 DEF Told

(* Before it is counted a request moves no sum. *)
LEMMA UncountedTallies ==
  ASSUME MetricsInv, NEW c \in Conn,
         Arrive(c) \/ WriteHeader(c) \/ Write(c) \/ Flush(c) \/ Spill(c) \/ Leave(c) \/ Return(c)
  PROVE  Tallies' /\ Untouched'
<1>1. UNCHANGED <<launch, total, took>>
  BY DEF Arrive, WriteHeader, Write, Flush, Spill, Leave, Return, HandlerOnly
<1>2. \A d \in Conn : d # c => pc'[d] = pc[d] /\ wire'[d] = wire[d] /\ home'[d] = home[d]
  BY Parts DEF RequestTypes, Arrive, WriteHeader, Write, Flush, Spill, Leave, Return, HandlerOnly
<1>3. \/ pc'[c] = pc[c] /\ wire'[c] = wire[c] /\ home'[c] = home[c]
      \/ pc[c] \notin {"counted", "done"} /\ pc'[c] \notin {"counted", "done"}
  BY Parts DEF RequestTypes, Arrive, WriteHeader, Write, Flush, Spill, Leave, Return, HandlerOnly, Handling
<1>4. ASSUME NEW p \in Prefixes, NEW status \in Counted
      PROVE  RequestsTally(p, status)' /\ LatencyTallies(p, status)'
  <2>1. prefix' = prefix /\ published' = published /\ total' = total
    BY <1>1 DEF launch
  <2>2. Tallied(p, status, {"counted", "done"})' = Tallied(p, status, {"counted", "done"})
    BY <1>2, <1>3, <2>1 DEF Tallied
  <2>3. Tallied(p, status, {"done"})' = Tallied(p, status, {"done"}) /\ took' = took
    BY <1>1, <1>2, <1>3, <2>1 DEF Tallied
  <2>4. MillisOf(Tallied(p, status, {"done"}))' = MillisOf(Tallied(p, status, {"done"}))
    BY <2>3, Zenon DEF MillisOf
  <2>5. RequestsTally(p, status) /\ LatencyTallies(p, status)
    BY DEF MetricsInv, Tallies
  <2> QED BY <2>1, <2>2, <2>4, <2>5 DEF RequestsTally, LatencyTallies
<1>5. Untouched'
  BY <1>1 DEF launch, MetricsInv, Untouched
<1> QED BY <1>4, <1>5 DEF Tallies

LEMMA CountRequestTallies ==
  ASSUME MetricsInv, NEW c \in Conn, CountRequest(c) PROVE Tallies' /\ Untouched'
<1>1. /\ pc[c] = "returned" /\ wire[c] # 0 /\ "requests" \in Kind /\ "duration_ms" \in Kind
      /\ UNCHANGED <<launch, home, wire, took>> /\ Add(c, "requests", 1)
      /\ \A d \in Conn : pc'[d] = IF d = c THEN "counted" ELSE pc[d]
  BY Parts DEF CountRequest, MetricsInv, Told, Recording, Kind, RequestTypes
<1>2. /\ wire[c] \in Counted /\ Untouched'
      /\ \A p \in Prefixes, k \in Kind, status \in Counted :
           published[<<p, k>>] # NoMap =>
             total'[published[<<p, k>>]][status] =
               total[published[<<p, k>>]][status]
                 + (IF p = prefix[home[c]] /\ k = "requests" /\ status = wire[c] THEN 1 ELSE 0)
  BY <1>1, AddsThere
<1>3. prefix' = prefix /\ published' = published
  BY <1>1 DEF launch
<1>4. ASSUME NEW p \in Prefixes, NEW status \in Counted
      PROVE  RequestsTally(p, status)' /\ LatencyTallies(p, status)'
  <2> DEFINE counted == Tallied(p, status, {"counted", "done"})
             its == p = prefix[home[c]] /\ status = wire[c]
  <2>1. RequestsTally(p, status) /\ LatencyTallies(p, status)
    BY DEF MetricsInv, Tallies
  <2>2. Tallied(p, status, {"counted", "done"})' = IF its THEN counted \cup {c} ELSE counted
    BY <1>1, <1>3 DEF Tallied
  <2>3. Tallied(p, status, {"done"})' = Tallied(p, status, {"done"}) /\ took' = took
    BY <1>1, <1>3 DEF Tallied
  <2>4. MillisOf(Tallied(p, status, {"done"}))' = MillisOf(Tallied(p, status, {"done"}))
    BY <2>3, Zenon DEF MillisOf
  <2>5. c \notin counted /\ IsFiniteSet(counted) /\ Cardinality(counted) \in Nat
    BY <1>1, <2>1, FS_CardinalityType DEF Tallied, RequestsTally
  <2>6. IsFiniteSet(counted \cup {c}) /\ Cardinality(counted \cup {c}) = Cardinality(counted) + 1
    BY <2>5, FS_AddElement
  <2>7. published[<<p, "requests">>] # NoMap =>
          total[published[<<p, "requests">>]][status] = Cardinality(counted)
    BY <2>1 DEF RequestsTally
  <2> HIDE DEF counted
  <2>8. RequestsTally(p, status)'
    <3>1. IsFiniteSet(Tallied(p, status, {"counted", "done"})')
      BY <2>2, <2>5, <2>6
    <3>2. published[<<p, "requests">>] # NoMap =>
            total'[published[<<p, "requests">>]][status] = Cardinality(Tallied(p, status, {"counted", "done"})')
      BY <1>1, <1>2, <2>2, <2>5, <2>6, <2>7
    <3> QED BY <1>3, <3>1, <3>2 DEF RequestsTally
  <2>9. LatencyTallies(p, status)'
    <3>1. published[<<p, "duration_ms">>] # NoMap =>
            total'[published[<<p, "duration_ms">>]][status] = total[published[<<p, "duration_ms">>]][status] + 0
      BY <1>1, <1>2
    <3>2. published[<<p, "duration_ms">>] # NoMap => total[published[<<p, "duration_ms">>]][status] \in Nat
      BY <1>1, Parts DEF Variable
    <3> QED BY <1>3, <2>1, <2>4, <3>1, <3>2 DEF LatencyTallies
  <2> QED BY <2>8, <2>9
<1> QED BY <1>2, <1>4 DEF Tallies

LEMMA CountLatencyTallies ==
  ASSUME MetricsInv, NEW c \in Conn, CountLatency(c) PROVE Tallies' /\ Untouched'
<1>0. PICK n \in 0..MaxMillis : Add(c, "duration_ms", n) /\ took' = [took EXCEPT ![c] = n]
  BY DEF CountLatency
<1>1. /\ pc[c] = "counted" /\ wire[c] # 0 /\ "requests" \in Kind /\ "duration_ms" \in Kind
      /\ UNCHANGED <<launch, home, wire>>
      /\ \A d \in Conn : pc'[d] = IF d = c THEN "done" ELSE pc[d]
      /\ took'[c] = n /\ \A d \in Conn : d # c => took'[d] = took[d]
      /\ n \in Nat
  BY <1>0, ServerAssumption, Parts DEF CountLatency, MetricsInv, Told, Recording, Kind, RequestTypes
<1>2. /\ wire[c] \in Counted /\ Untouched'
      /\ \A p \in Prefixes, k \in Kind, status \in Counted :
           published[<<p, k>>] # NoMap =>
             total'[published[<<p, k>>]][status] =
               total[published[<<p, k>>]][status]
                 + (IF p = prefix[home[c]] /\ k = "duration_ms" /\ status = wire[c] THEN n ELSE 0)
  BY <1>0, <1>1, AddsThere
<1>3. prefix' = prefix /\ published' = published
  BY <1>1 DEF launch
<1>4. ASSUME NEW p \in Prefixes, NEW status \in Counted
      PROVE  RequestsTally(p, status)' /\ LatencyTallies(p, status)'
  <2> DEFINE ended == Tallied(p, status, {"done"})
             its == p = prefix[home[c]] /\ status = wire[c]
  <2>1. RequestsTally(p, status) /\ LatencyTallies(p, status)
    BY DEF MetricsInv, Tallies
  <2>2. Tallied(p, status, {"counted", "done"})' = Tallied(p, status, {"counted", "done"})
    BY <1>1, <1>3 DEF Tallied
  <2>3. Tallied(p, status, {"done"})' = IF its THEN ended \cup {c} ELSE ended
    BY <1>1, <1>3 DEF Tallied
  <2>4. c \notin ended /\ ended \subseteq Conn /\ \A d \in ended : took'[d] = took[d]
    BY <1>1 DEF Tallied
  <2>5. IsFiniteSet(ended)
    <3>1. ended \subseteq Tallied(p, status, {"counted", "done"})
      BY DEF Tallied
    <3> QED BY <2>1, <3>1, FS_Subset DEF RequestsTally
  <2>6. MillisOf(ended) = Cardinality(Spent(ended, took))
    BY DEF MillisOf, Spent
  <2>7. MillisOf(ended) \in Nat
    <3>1. IsFiniteSet(1..MaxMillis)
      <4>1. 1 \in Int /\ MaxMillis \in Int
        BY ServerAssumption
      <4> QED BY <4>1, FS_Interval
    <3>2. IsFiniteSet(ended \X (1..MaxMillis))
      BY <2>5, <3>1, FS_Product
    <3>3. Spent(ended, took) \subseteq ended \X (1..MaxMillis)
      BY DEF Spent
    <3> QED BY <2>6, <3>2, <3>3, FS_Subset, FS_CardinalityType
  <2> HIDE DEF ended
  <2>8. MillisOf(Tallied(p, status, {"done"}))' = MillisOf(ended) + (IF its THEN n ELSE 0)
    <3> DEFINE now == Tallied(p, status, {"done"})'
    <3>1. MillisOf(Tallied(p, status, {"done"}))' = Cardinality(Spent(now, took'))
      BY DEF MillisOf, Spent
    <3>2. CASE its
      <4>1. now = ended \cup {c}
        BY <2>3, <3>2
      <4>2. Cardinality(Spent(ended \cup {c}, took')) = Cardinality(Spent(ended, took)) + n
        BY <1>1, <2>4, <2>5, SpentGrows
      <4> HIDE DEF now
      <4> QED BY <2>6, <3>1, <3>2, <4>1, <4>2
    <3>3. CASE ~its
      <4>1. now = ended
        BY <2>3, <3>3
      <4>2. Spent(ended, took') = Spent(ended, took)
        BY <2>4 DEF Spent
      <4> HIDE DEF now
      <4> QED BY <2>6, <2>7, <3>1, <3>3, <4>1, <4>2
    <3> QED BY <3>2, <3>3
  <2>9. LatencyTallies(p, status)'
    <3>1. published[<<p, "duration_ms">>] # NoMap =>
            total'[published[<<p, "duration_ms">>]][status] =
              total[published[<<p, "duration_ms">>]][status] + (IF its THEN n ELSE 0)
      BY <1>1, <1>2
    <3>2. published[<<p, "duration_ms">>] # NoMap =>
            total[published[<<p, "duration_ms">>]][status] = MillisOf(ended)
      BY <2>1 DEF LatencyTallies, ended
    <3> HIDE DEF its
    <3> QED BY <1>3, <2>8, <3>1, <3>2 DEF LatencyTallies
  <2>10. RequestsTally(p, status)'
    <3>1. published[<<p, "requests">>] # NoMap =>
            total'[published[<<p, "requests">>]][status] = total[published[<<p, "requests">>]][status] + 0
      BY <1>1, <1>2
    <3>2. published[<<p, "requests">>] # NoMap => total[published[<<p, "requests">>]][status] \in Nat
      BY <1>1, Parts DEF Variable
    <3> QED BY <1>3, <2>1, <2>2, <3>1, <3>2 DEF RequestsTally
  <2> QED BY <2>9, <2>10
<1> QED BY <1>2, <1>4 DEF Tallies

LEMMA StepMetrics == MetricsInv /\ [Next]_vars => MetricsInv'
<1> SUFFICES ASSUME MetricsInv, [Next]_vars PROVE MetricsInv'
  OBVIOUS
<1>1. Inv'
  BY StepKeepsInv DEF MetricsInv
<1>2. ASSUME NEW s \in Server, Launch(s) PROVE (Handed /\ Told /\ Tallies /\ Untouched)'
  BY <1>2, LaunchHands, LaunchTallies
<1>3. ASSUME NEW c \in Conn, Requests(c) PROVE (Handed /\ Told /\ Tallies /\ Untouched)'
  <2>1. Handed'
    BY <1>3, RequestsTouchNoLaunch DEF launch, MetricsInv, Handed, Up
  <2>2. Told'
    BY <1>3, RequestTold
  <2>3. Tallies' /\ Untouched'
    BY <1>3, UncountedTallies, CountRequestTallies, CountLatencyTallies DEF Requests
  <2> QED BY <2>1, <2>2, <2>3
<1>4. ASSUME UNCHANGED vars PROVE (Handed /\ Told /\ Tallies /\ Untouched)'
  <2>1. UNCHANGED <<prefix, published, handle, stage, wanted, total, home, pc, recorded, wire, took>>
    BY <1>4 DEF vars, launch, request
  <2>2. (Handed /\ Told /\ Untouched)'
    BY <2>1 DEF MetricsInv, Handed, Up, Told, Recording, Untouched
  <2>3. ASSUME NEW p \in Prefixes, NEW status \in Counted
        PROVE  RequestsTally(p, status)' /\ LatencyTallies(p, status)'
    <3>1. RequestsTally(p, status) /\ LatencyTallies(p, status)
      BY DEF MetricsInv, Tallies
    <3>2. /\ Tallied(p, status, {"counted", "done"})' = Tallied(p, status, {"counted", "done"})
          /\ Tallied(p, status, {"done"})' = Tallied(p, status, {"done"})
      BY <2>1 DEF Tallied
    <3>3. MillisOf(Tallied(p, status, {"done"}))' = MillisOf(Tallied(p, status, {"done"}))
      BY <2>1, <3>2, Zenon DEF MillisOf
    <3> QED BY <2>1, <3>1, <3>2, <3>3 DEF RequestsTally, LatencyTallies
  <2> QED BY <2>2, <2>3 DEF Tallies
<1> QED BY <1>1, <1>2, <1>3, <1>4 DEF Next, MetricsInv

LEMMA MetricsAreTold == MetricsInv => MetricsMatchWire
<1> SUFFICES ASSUME MetricsInv PROVE MetricsMatchWire
  OBVIOUS
<1>1. \A c \in Conn : pc[c] \in {"returned", "counted", "done"} => recorded[c] = wire[c]
  BY DEF MetricsInv, Told, Recording
<1>2. ASSUME NEW s \in Server, NEW status \in Counted, Up(s)
      PROVE  LET p == prefix[s]
                 counted(stages) == {c \in Answered(p, status) : pc[c] \in stages}
                 shown(kind) == total[published[<<p, kind>>]][status]
             IN /\ published[<<p, "requests">>] # NoMap /\ published[<<p, "duration_ms">>] # NoMap
                /\ shown("requests") = Cardinality(counted({"counted", "done"}))
                /\ shown("duration_ms") = MillisOf(counted({"done"}))
  <2> DEFINE p == prefix[s]
  <2>1. p \in Prefixes
    BY Parts
  <2>2. published[<<p, "requests">>] # NoMap /\ published[<<p, "duration_ms">>] # NoMap
    BY <1>2 DEF MetricsInv, Handed, Kind
  <2>3. RequestsTally(p, status) /\ LatencyTallies(p, status)
    BY <2>1 DEF MetricsInv, Tallies
  <2>4. {c \in Answered(p, status) : pc[c] \in {"counted", "done"}} = Tallied(p, status, {"counted", "done"})
    BY DEF Answered, Tallied
  <2>5. {c \in Answered(p, status) : pc[c] \in {"done"}} = Tallied(p, status, {"done"})
    BY DEF Answered, Tallied
  <2> HIDE DEF p
  <2>6. /\ total[published[<<p, "requests">>]][status] = Cardinality(Tallied(p, status, {"counted", "done"}))
        /\ total[published[<<p, "duration_ms">>]][status] = MillisOf(Tallied(p, status, {"done"}))
    BY <2>2, <2>3 DEF RequestsTally, LatencyTallies
  <2> QED BY <2>2, <2>4, <2>5, <2>6 DEF p
<1> QED BY <1>1, <1>2 DEF MetricsMatchWire

(* What expvar shows under a prefix, once a server of it is up, is how the *)
(* clients of all its servers were answered and how long it took           *)
(* (observe.go:113-118, :173-210).                                         *)
THEOREM MetricsAreTrue == Spec => []MetricsMatchWire
BY InitMetrics, StepMetrics, MetricsAreTold, PTL DEF Spec
=============================================================================
