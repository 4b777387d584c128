----------------------------- MODULE ReadsProofs -----------------------------
(***************************************************************************)
(* Theorems about Reads, for any documents, deployments, requests and      *)
(* bounds: what an answered read promises its client and the caches on the *)
(* way, and what a reader of the feed is handed and keeps.                 *)
(***************************************************************************)
EXTENDS Reads, ComputeProofs, FramesProofs, FiniteSetTheorems

(* What the steps of a request rely on, and what they leave for each other *)
(* while the document, the clock and the process go their way.             *)
Placed ==
  /\ clock \in 0..MaxClock /\ deploy \in Deployment
  /\ pc # "idle" => ask \in Asks
  /\ pc = "loaded" => snap \in Doc /\ ask.rev \in {Nothing, snap}

(* The steps of others: nothing of the request changes, and time only      *)
(* passes.                                                                 *)
Aside ==
  /\ clock' \in 0..MaxClock /\ clock <= clock'
  /\ UNCHANGED <<deploy, asking>>

LEMMA StepKinds ==
  ASSUME Placed, [Next]_vars
  PROVE  Aside \/ Restart \/ (Asking /\ UNCHANGED <<clock, deploy>>)
<1> USE ReadsAssumption DEF Placed
<1>1. CASE Change
  <2>1. ASSUME NEW kind, NEW new, Lands(kind, new) PROVE UNCHANGED <<clock, deploy, asking>>
    BY <2>1 DEF Lands
  <2>2. UNCHANGED <<clock, deploy, asking>>
    BY <1>1, <2>1 DEF Change, Post, Put, Delete, OutOfBand
  <2> QED BY <2>2 DEF Aside
<1>2. CASE Announcing
  <2>1. PICK i \in DOMAIN pending : Announce(i) \/ AnnounceComputed(i)
    BY <1>2 DEF Announcing
  <2>2. CASE Announce(i)
    BY <2>2 DEF Announce, Aside, world, asking
  <2>3. CASE AnnounceComputed(i)
    <3>1. clock' \in {clock, Lesser(clock + 1, MaxClock)} /\ UNCHANGED <<deploy, asking>>
      BY <2>3 DEF AnnounceComputed
    <3> QED BY <3>1 DEF Aside, Lesser
  <2> QED BY <2>1, <2>2, <2>3
<1>3. CASE Tick
  BY <1>3 DEF Tick, Aside
<1>4. CASE Asking
  <2>1. UNCHANGED <<clock, deploy>>
    BY <1>4 DEF Asking, Ask, Route, AnswerFeed, Load, LoadFails, AnswerDocument, AnswerRef,
                Done, Full, Represent, Answer, AskOnly, world
  <2> QED BY <1>4, <2>1
<1>5. CASE Following
  BY <1>5 DEF Following, FeedGet, FeedSubscribe, Send, Receive, Cut, Fetch, FollowOnly, Aside,
              world, asking
<1>6. CASE UNCHANGED vars
  BY <1>6 DEF vars, Aside, world, asking
<1> QED BY <1>1, <1>2, <1>3, <1>4, <1>5, <1>6 DEF Next

LEMMA PlacedStep ==
  ASSUME Placed, [Next]_vars
  PROVE  Placed'
<1> USE DEF Placed
<1>1. CASE Aside
  BY <1>1 DEF Aside, asking
<1>2. CASE Restart
  BY <1>2 DEF Restart
<1>3. CASE Asking /\ UNCHANGED <<clock, deploy>>
  <2>1. CASE Ask
    BY <1>3, <2>1 DEF Ask
  <2>2. CASE Route \/ AnswerFeed \/ LoadFails \/ AnswerDocument \/ AnswerRef
    BY <1>3, <2>2 DEF Route, AnswerFeed, ToRead, LoadFails, AnswerDocument, AnswerRef, Full,
                      Represent, Answer, AskOnly
  <2>3. CASE Load
    BY <1>3, <2>3 DEF Load, ToRead, Pinned, Answer, AskOnly
  <2>4. CASE Done
    BY <1>3, <2>4 DEF Done
  <2> QED BY <1>3, <2>1, <2>2, <2>3, <2>4 DEF Asking
<1> QED BY <1>1, <1>2, <1>3, StepKinds
-----------------------------------------------------------------------------
(* Negotiation. *)

(* What is answered without a representation promises nothing. *)
LEMMA ProblemsServeNothing ==
  /\ \A why : ErrorProblem(why).status \in {404, 413, 500} /\ ErrorProblem(why).tag = Nothing
  /\ \A status, slug : Problem(status, slug).status = status /\ Problem(status, slug).tag = Nothing
  /\ NoAnswer.status = 0 /\ NoAnswer.tag = Nothing
BY DEF ErrorProblem, Problem, NoAnswer

LEMMA Represented ==
  ASSUME NEW type, NEW body, Represent(type, body)
  PROVE  /\ pc' = "answered" /\ UNCHANGED <<ask, deploy, clock, kept>>
         /\ ans'.status = 200 /\ ans'.type = type /\ ans'.body = body
         /\ ans'.tag = Validator(type).tag
BY DEF Represent, Answer, AskOnly, NoAnswer, world

LEMMA NegotiatedStep ==
  ASSUME Placed, Negotiated, [Next]_vars
  PROVE  Negotiated'
<1> USE DEF Negotiated, Served, Acceptable, Servable, Wildcard, Has, HasAny, GridTypes
<1>1. CASE Aside
  BY <1>1 DEF Aside, asking
<1>2. CASE Restart
  BY <1>2 DEF Restart
<1>3. CASE Asking /\ UNCHANGED <<clock, deploy>>
  <2>1. CASE Ask \/ Done
    BY <2>1 DEF Ask, Done
  <2>2. CASE Route
    <3>1. pc' = "answered" /\ ans'.status \in {404, 405, 204}
      BY <2>2, ProblemsServeNothing DEF Route, Answer, NoAnswer
    <3> QED BY <3>1
  <2>3. CASE AnswerFeed \/ LoadFails
    <3>1. ans'.status \in {404, 413, 500} \/ (ans'.status = 200 /\ ans'.type = "stream")
      <4>1. CASE LoadFails
        BY <4>1, ProblemsServeNothing DEF LoadFails, Answer
      <4>2. CASE AnswerFeed
        <5>1. CASE held \in Doc
          BY <4>2, <5>1 DEF AnswerFeed, Answer, NoAnswer
        <5>2. CASE held \notin Doc
          BY <4>2, <5>2, ProblemsServeNothing DEF AnswerFeed, Answer
        <5> QED BY <5>1, <5>2
      <4> QED BY <2>3, <4>1, <4>2
    <3> QED BY <3>1
  <2>4. CASE Load
    <3>1. pc' = "loaded" \/ ans'.status \in {404, 413, 500}
      BY <2>4, ProblemsServeNothing DEF Load, Answer
    <3> QED BY <3>1
  <2>5. CASE AnswerDocument
    <3>1. ask.ref = Nothing
      BY <2>5 DEF AnswerDocument
    <3>2. CASE WantsSource /\ Full("doc", snap)
      <4>1. ans'.status = 200 /\ ans'.type = "doc" /\ UNCHANGED <<ask, deploy>>
        BY <3>2, Represented DEF Full
      <4> QED BY <3>1, <3>2, <4>1 DEF WantsSource
    <3>3. CASE /\ ~WantsSource /\ (~HasAny(GridTypes) \/ ~deploy.plane)
               /\ Answer(Problem(406, "not-acceptable"))
      <4>1. ans'.status = 406 /\ UNCHANGED <<ask, deploy>>
        BY <1>3, <3>3, ProblemsServeNothing DEF Answer, AskOnly
      <4> QED BY <3>1, <3>3, <4>1 DEF WantsSource
    <3>4. CASE ~WantsSource /\ HasAny(GridTypes) /\ deploy.plane /\ Full(FirstGridType, GridOf(snap, clock))
      <4>1. ans'.status = 200 /\ ans'.type = FirstGridType /\ UNCHANGED <<ask, deploy>>
        BY <3>4, Represented DEF Full
      <4>2. FirstGridType \in GridTypes /\ Has(FirstGridType)
        BY <3>4 DEF FirstGridType
      <4> QED BY <3>1, <3>4, <4>1, <4>2 DEF WantsSource
    <3> QED BY <2>5, <3>2, <3>3, <3>4 DEF AnswerDocument
  <2>6. CASE AnswerRef
    <3> DEFINE span == ParseRef(ask.ref)
    <3>1. ask.ref # Nothing
      BY <2>6 DEF AnswerRef
    <3>2. CASE ~deploy.plane
      <4>1. ans'.status = 406 /\ UNCHANGED <<ask, deploy>>
        BY <1>3, <2>6, <3>2, ProblemsServeNothing DEF AnswerRef, Answer, AskOnly
      <4> QED BY <3>1, <3>2, <4>1
    <3>3. CASE deploy.plane /\ span = BadRef
      <4>1. ans'.status = 404
        BY <2>6, <3>3, ProblemsServeNothing DEF AnswerRef, Answer
      <4> QED BY <4>1
    <3>4. CASE deploy.plane /\ span # BadRef /\ ~Wildcard /\ ~Has(ShapeOf(span))
      <4>1. ans'.status = 406 /\ UNCHANGED <<ask, deploy>>
        BY <1>3, <2>6, <3>4, ProblemsServeNothing DEF AnswerRef, Answer, AskOnly
      <4> QED BY <3>1, <3>4, <4>1
    <3>5. CASE deploy.plane /\ span # BadRef /\ (Wildcard \/ Has(ShapeOf(span)))
      <4>1. Represent(ShapeOf(span), RenderSpan(GridOf(snap, clock), span))
        BY <2>6, <3>5 DEF AnswerRef
      <4>2. ans'.status = 200 /\ ans'.type = ShapeOf(span) /\ UNCHANGED <<ask, deploy>>
        BY <4>1, Represented
      <4>3. ShapeOf(span) # "doc"
        BY DEF ShapeOf
      <4> QED BY <3>1, <3>5, <4>2, <4>3
    <3> QED BY <3>2, <3>3, <3>4, <3>5
  <2> QED BY <1>3, <2>1, <2>2, <2>3, <2>4, <2>5, <2>6 DEF Asking
<1> QED BY <1>1, <1>2, <1>3, StepKinds
-----------------------------------------------------------------------------
(* Representations. *)

Shapes == {"cell", "row", "column", "range"}

(* A representation, and nothing else that is tagged, is of the snapshot:  *)
(* its source, its grid at some time, or a fragment of that.               *)
Faithful ==
  pc = "answered" /\ (Served \/ ans.tag # Nothing) =>
    /\ Served /\ snap \in Doc /\ ask.rev \in {Nothing, snap}
    /\ ans.tag = Validator(ans.type).tag
    /\ \/ ans.type = "doc" /\ ask.ref = Nothing /\ ans.body \in {Nothing, snap}
       \/ /\ ans.type \in GridTypes /\ ask.ref = Nothing
          /\ ans.body = Nothing \/ \E time \in 0..clock : ans.body = GridOf(snap, time)
       \/ /\ ask.ref # Nothing /\ ParseRef(ask.ref) # BadRef /\ ans.type \in Shapes
          /\ \E time \in 0..clock :
               ans.body = RenderSpan(GridOf(snap, time), ParseRef(ask.ref))

(* What a cache keeps is the source of the revision its tag names, or the  *)
(* values it has at any time, or a fragment of them.                       *)
Cached ==
  kept # Nothing =>
    /\ kept.tag # Nothing
    /\ \E d \in Doc :
         \/ kept.type = "doc" /\ kept.tag = <<d>> /\ kept.ref = Nothing /\ kept.body = d
         \/ /\ kept.type # "doc" /\ kept.tag = <<d, kept.type>> /\ d \notin Volatile
            /\ LET grid == Computed[d][0][kept.cap] IN
               kept.body = IF kept.ref = Nothing THEN grid
                           ELSE RenderSpan(grid, ParseRef(kept.ref))

LEMMA FaithfulStep ==
  ASSUME Placed, Faithful, [Next]_vars
  PROVE  Faithful'
<1> USE ReadsAssumption DEF Placed
<1>1. CASE Aside
  <2>1. UNCHANGED <<pc, ask, snap, ans, deploy>> /\ 0..clock \subseteq 0..clock'
    BY <1>1 DEF Aside, asking
  <2> QED BY <2>1 DEF Faithful, Served, Validator, GridOf
<1>2. CASE Restart
  BY <1>2 DEF Restart, Faithful
<1>3. CASE Asking /\ UNCHANGED <<clock, deploy>>
  <2>1. CASE Ask \/ Done
    BY <2>1 DEF Ask, Done, Faithful
  <2>2. CASE Route
    <3>1. ans'.status \in {404, 405, 204} /\ ans'.tag = Nothing
      BY <2>2, ProblemsServeNothing DEF Route, Answer, NoAnswer
    <3> QED BY <3>1 DEF Faithful, Served
  <2>3. CASE LoadFails
    <3>1. ans'.status \in {404, 413, 500} /\ ans'.tag = Nothing
      BY <2>3, ProblemsServeNothing DEF LoadFails, Answer
    <3> QED BY <3>1 DEF Faithful, Served
  <2>4. CASE AnswerFeed
    <3>1. CASE held \in Doc
      <4>1. ans'.type = "stream" /\ ans'.tag = Nothing
        BY <2>4, <3>1 DEF AnswerFeed, Answer, NoAnswer
      <4> QED BY <4>1 DEF Faithful, Served
    <3>2. CASE held \notin Doc
      <4>1. ans'.status \in {404, 413, 500} /\ ans'.tag = Nothing
        BY <2>4, <3>2, ProblemsServeNothing DEF AnswerFeed, Answer
      <4> QED BY <4>1 DEF Faithful, Served
    <3> QED BY <3>1, <3>2
  <2>5. CASE Load
    <3>1. pc' = "loaded" \/ (ans'.status \in {404, 413, 500} /\ ans'.tag = Nothing)
      BY <2>5, ProblemsServeNothing DEF Load, Answer
    <3> QED BY <3>1 DEF Faithful, Served
  <2>6. ASSUME NEW type, NEW body, pc = "loaded", Represent(type, body), UNCHANGED snap, type # "stream",
               \/ type = "doc" /\ ask.ref = Nothing /\ body \in {Nothing, snap}
               \/ /\ type \in GridTypes /\ ask.ref = Nothing
                  /\ body \in {Nothing, GridOf(snap, clock)}
               \/ /\ ask.ref # Nothing /\ ParseRef(ask.ref) # BadRef /\ type \in Shapes
                  /\ body = RenderSpan(GridOf(snap, clock), ParseRef(ask.ref))
        PROVE  Faithful'
    <3>1. /\ UNCHANGED <<ask, deploy, clock, snap>>
          /\ ans'.status = 200 /\ ans'.type = type /\ ans'.body = body
          /\ ans'.tag = Validator(type).tag /\ pc' = "answered"
      BY <2>6, Represented
    <3>2. Served' /\ snap' \in Doc /\ ask'.rev \in {Nothing, snap'}
      BY <2>6, <3>1 DEF Served
    <3>3. ans'.tag = Validator(ans.type)'.tag
      BY <3>1 DEF Validator
    <3>4. clock \in 0..clock'
      BY <3>1
    <3> QED BY <2>6, <3>1, <3>2, <3>3, <3>4 DEF Faithful, GridOf
  <2>7. CASE AnswerDocument
    <3>1. pc = "loaded" /\ ask.ref = Nothing /\ UNCHANGED snap
      BY <2>7 DEF AnswerDocument
    <3>2. CASE Full("doc", snap)
      <4>1. PICK body \in {Nothing, snap} : Represent("doc", body)
        BY <3>2 DEF Full
      <4> QED BY <2>6, <3>1, <4>1
    <3>3. CASE Answer(Problem(406, "not-acceptable"))
      <4>1. ans'.status = 406 /\ ans'.tag = Nothing
        BY <3>3, ProblemsServeNothing DEF Answer
      <4> QED BY <4>1 DEF Faithful, Served
    <3>4. CASE Full(FirstGridType, GridOf(snap, clock))
      <4>1. PICK body \in {Nothing, GridOf(snap, clock)} : Represent(FirstGridType, body)
        BY <3>4 DEF Full
      <4>2. FirstGridType \in GridTypes /\ FirstGridType # "stream"
        BY DEF FirstGridType, GridTypes
      <4> QED BY <2>6, <3>1, <4>1, <4>2
    <3> QED BY <2>7, <3>2, <3>3, <3>4 DEF AnswerDocument
  <2>8. CASE AnswerRef
    <3> DEFINE span == ParseRef(ask.ref)
    <3>1. pc = "loaded" /\ ask.ref # Nothing /\ UNCHANGED snap
      BY <2>8 DEF AnswerRef
    <3>2. CASE Answer(Problem(404, "not-found")) \/ Answer(Problem(406, "not-acceptable"))
      <4>1. ans'.status \in {404, 406} /\ ans'.tag = Nothing
        BY <3>2, ProblemsServeNothing DEF Answer
      <4> QED BY <4>1 DEF Faithful, Served
    <3>3. CASE span # BadRef /\ Represent(ShapeOf(span), RenderSpan(GridOf(snap, clock), span))
      <4>1. ShapeOf(span) \in Shapes /\ ShapeOf(span) # "stream"
        BY DEF ShapeOf, Shapes
      <4> HIDE DEF Faithful
      <4> QED BY <2>6, <3>1, <3>3, <4>1
    <3> QED BY <2>8, <3>2, <3>3 DEF AnswerRef
  <2> QED BY <1>3, <2>1, <2>2, <2>3, <2>4, <2>5, <2>7, <2>8 DEF Asking
<1> QED BY <1>1, <1>2, <1>3, StepKinds

LEMMA CachedStep ==
  ASSUME Placed, Faithful, Cached, [Next]_vars
  PROVE  Cached'
<1> USE ReadsAssumption DEF Placed
<1>1. CASE kept' = kept
  BY <1>1 DEF Cached
<1>2. CASE kept' # kept
  <2>1. Done
    BY <1>2, StepKinds, Represented
       DEF Aside, Restart, asking, Asking, Ask, Route, AnswerFeed, Load, LoadFails,
           AnswerDocument, AnswerRef, Full, Represent, Answer, AskOnly
  <2>2. /\ pc = "answered" /\ ans.tag # Nothing /\ ans.body # Nothing
        /\ kept' = [ref |-> ask.ref, tag |-> ans.tag, type |-> ans.type,
                    body |-> ans.body, cap |-> deploy.cap]
    BY <1>2, <2>1 DEF Done
  <2>3. snap \in Doc /\ ans.tag = Validator(ans.type).tag
    BY <2>2 DEF Faithful
  <2>4. CASE ans.type = "doc"
    <3>1. ans.tag = <<snap>>
      BY <2>3, <2>4 DEF Validator
    <3>2. ask.ref = Nothing /\ ans.body = snap
      BY <2>2, <2>4 DEF Faithful, GridTypes, Shapes
    <3> QED BY <2>2, <2>3, <2>4, <3>1, <3>2 DEF Cached
  <2>5. CASE ans.type # "doc"
    <3>1. ans.tag = <<snap, ans.type>> /\ snap \notin Volatile
      BY <2>2, <2>3, <2>5 DEF Validator
    <3>2. \A time \in 0..clock : GridOf(snap, time) = Computed[snap][0][deploy.cap]
      <4>1. \A time \in 0..clock : time \in 0..MaxClock /\ 0 \in 0..MaxClock
        OBVIOUS
      <4> QED BY <2>3, <3>1, <4>1 DEF GridOf
    <3>3. ans.body = IF ask.ref = Nothing THEN Computed[snap][0][deploy.cap]
                     ELSE RenderSpan(Computed[snap][0][deploy.cap], ParseRef(ask.ref))
      BY <2>2, <2>5, <3>2 DEF Faithful
    <3> QED BY <2>2, <2>3, <2>5, <3>1, <3>3 DEF Cached
  <2> QED BY <2>4, <2>5
<1> QED BY <1>1, <1>2

IInv == Placed /\ Negotiated /\ Faithful /\ Cached

LEMMA Invariance == Spec => []IInv
<1>1. Init => IInv
  BY ReadsAssumption, ProblemsServeNothing
     DEF Init, IInv, Placed, Negotiated, Served, Faithful, Cached
<1>2. IInv /\ [Next]_vars => IInv'
  <2> SUFFICES ASSUME IInv, [Next]_vars PROVE IInv'
    OBVIOUS
  <2>1. Placed /\ Negotiated /\ Faithful /\ Cached
    BY DEF IInv
  <2>2. Placed' /\ Negotiated' /\ Faithful' /\ Cached'
    BY <2>1, PlacedStep, NegotiatedStep, FaithfulStep, CachedStep
  <2> QED BY <2>2 DEF IInv
<1> QED BY <1>1, <1>2, PTL DEF Spec

(* A representation is served only where it is acceptable, and nothing is  *)
(* refused that could have been served (read.go:62-64, media.go:49-70).    *)
THEOREM NegotiatesFairly == Spec => []Negotiated
<1>1. IInv => Negotiated
  BY DEF IInv
<1> QED BY <1>1, Invariance, PTL

(* What is served shows one revision at one time, the pinned one and the   *)
(* tagged one, whatever changes while the request is under way             *)
(* (read.go:38-49, :124-137).                                              *)
THEOREM ServesOneRevision == Spec => []OneRevision
<1>1. IInv => OneRevision
  <2> SUFFICES ASSUME Faithful, Served PROVE /\ ask.rev \in {Nothing, snap}
                                             /\ ans.tag # Nothing => ans.tag[1] = snap
                                             /\ ans.body # Nothing => ans.body \in Renderings(snap)
    BY DEF IInv, OneRevision
  <2>1. pc = "answered" /\ ask.rev \in {Nothing, snap} /\ ans.tag = Validator(ans.type).tag
    BY DEF Faithful, Served
  <2>2. ans.tag # Nothing => ans.tag[1] = snap
    BY <2>1 DEF Validator
  <2>3. ans.body # Nothing => ans.body \in Renderings(snap)
    BY <2>1 DEF Faithful, Renderings
  <2> QED BY <2>1, <2>2, <2>3
<1> QED BY <1>1, Invariance, PTL

(* A strong tag identifies the bytes: under one --max-cells, the same tag  *)
(* on the same URL is the same type and body as any cache kept, whatever   *)
(* happened to the document, the clock or the process in between           *)
(* (read.go:111-143).                                                      *)
THEOREM TagsIdentifyBytes == Spec => []TagIdentifies
<1>1. IInv => TagIdentifies
  <2> SUFFICES ASSUME Placed, Faithful, Cached,
                      Served, kept # Nothing, ans.tag = kept.tag, ans.body # Nothing,
                      ask.ref = kept.ref, deploy.cap = kept.cap
               PROVE  ans.type = kept.type /\ ans.body = kept.body
    BY DEF IInv, TagIdentifies
  <2>1. /\ pc = "answered" /\ snap \in Doc /\ ans.tag = Validator(ans.type).tag
        /\ kept.tag # Nothing
    BY DEF Faithful, Cached, Served
  <2>2. PICK d \in Doc :
         \/ kept.type = "doc" /\ kept.tag = <<d>> /\ kept.ref = Nothing /\ kept.body = d
         \/ /\ kept.type # "doc" /\ kept.tag = <<d, kept.type>> /\ d \notin Volatile
            /\ LET grid == Computed[d][0][kept.cap] IN
               kept.body = IF kept.ref = Nothing THEN grid
                           ELSE RenderSpan(grid, ParseRef(kept.ref))
    BY DEF Cached
  <2>3. ans.tag = IF ans.type = "doc" THEN <<snap>> ELSE <<snap, ans.type>>
    BY <2>1 DEF Validator
  <2>4. ans.type = kept.type /\ snap = d
    BY <2>2, <2>3
  <2>5. CASE ans.type = "doc"
    BY <2>1, <2>2, <2>4, <2>5 DEF Faithful, GridTypes, Shapes
  <2>6. CASE ans.type # "doc"
    <3>1. snap \notin Volatile
      BY <2>2, <2>4, <2>6
    <3>2. \A time \in 0..clock : GridOf(snap, time) = Computed[d][0][kept.cap]
      <4>1. \A time \in 0..clock : time \in 0..MaxClock /\ 0 \in 0..MaxClock
        BY ReadsAssumption DEF Placed
      <4> QED BY <2>1, <2>4, <3>1, <4>1, ReadsAssumption DEF GridOf
    <3>3. ans.body = IF ask.ref = Nothing THEN Computed[d][0][kept.cap]
                     ELSE RenderSpan(Computed[d][0][kept.cap], ParseRef(ask.ref))
      BY <2>1, <2>6, <3>2 DEF Faithful
    <3> QED BY <2>2, <2>4, <2>6, <3>3
  <2> QED BY <2>5, <2>6
<1> QED BY <1>1, Invariance, PTL
-----------------------------------------------------------------------------
(* Fragments. *)

LEMMA ParsedRef ==
  ASSUME NEW ref \in Seq(Address \cup {BadRef}), ref # <<>>, ParseRef(ref) # BadRef
  PROVE  ParseRef(ref) \in Span
<1>1. Len(ref) \in Nat \ {0} /\ DOMAIN ref = 1..Len(ref)
  BY EmptySeq, LenProperties
<1>2. \A i \in 1..Len(ref) : ref[i] \in Address
  BY <1>1, ElementOfSeq DEF ParseRef
<1>3. ref[1] \in Address /\ ref[Len(ref)] \in Address
  BY <1>1, <1>2
<1> QED BY <1>3 DEF ParseRef, Span

(* A fragment shows of its grid all that the reference asks for.           *)
LEMMA FragmentShowsAll ==
  ASSUME NEW V, NEW grid \in Grid(V), NEW span \in Span
  PROVE  ShowsAll(RenderSpan(grid, span), grid, span)
<1> DEFINE s == Normalized(span)
           c == Clipped(span, grid)
           fragment == RenderSpan(grid, span)
           height == c.to.row - c.from.row + 1
           width == c.to.col - c.from.col + 1
           wide == WidestRow(grid)
<1>1. /\ s.from.row \in Nat \ {0} /\ s.to.row \in Nat \ {0} /\ s.from.row <= s.to.row
      /\ s.from.col \in Nat \ {0} /\ s.to.col \in Nat \ {0} /\ s.from.col <= s.to.col
  BY NormalizedSpan DEF Span, Address
<1>2. Len(grid) \in Nat /\ wide \in Nat
  BY GridRows, WidestRowIsWidest
<1>3. /\ c.from = s.from
      /\ c.to.row = Lesser(s.to.row, Greater(s.from.row, Len(grid)))
      /\ c.to.col = Lesser(s.to.col, Greater(s.from.col, wide))
  BY ClippedSpan
<1> HIDE DEF s, c, wide
<1>4. height = c.to.row - s.from.row + 1 /\ width = c.to.col - s.from.col + 1
  BY <1>3
<1> HIDE DEF height, width
<1>5. /\ height \in 1..Greater(1, Len(grid)) /\ c.to.row \in Nat
      /\ \A row \in Nat : c.to.row < row /\ row <= s.to.row => Len(grid) < row
  <2> DEFINE end == c.to.row
             from == s.from.row
             to == s.to.row
             extent == Len(grid)
  <2>1. /\ from \in Nat \ {0} /\ to \in Nat \ {0} /\ from <= to /\ extent \in Nat
        /\ end = Lesser(to, Greater(from, extent)) /\ height = end - from + 1
    BY <1>1, <1>2, <1>3, <1>4
  <2> HIDE DEF end, from, to, extent
  <2>2. /\ end \in Nat /\ end - from + 1 \in 1..Greater(1, extent)
        /\ \A at \in Nat : end < at /\ at <= to => extent < at
    BY <2>1, ClippedSide
  <2> QED BY <2>1, <2>2 DEF end, to, extent
<1>6. /\ width \in 1..Greater(1, wide) /\ c.to.col \in Nat
      /\ \A col \in Nat : c.to.col < col /\ col <= s.to.col => wide < col
  <2> DEFINE end == c.to.col
             from == s.from.col
             to == s.to.col
  <2>1. /\ from \in Nat \ {0} /\ to \in Nat \ {0} /\ from <= to /\ wide \in Nat
        /\ end = Lesser(to, Greater(from, wide)) /\ width = end - from + 1
    BY <1>1, <1>2, <1>3, <1>4
  <2> HIDE DEF end, from, to
  <2>2. /\ end \in Nat /\ end - from + 1 \in 1..Greater(1, wide)
        /\ \A at \in Nat : end < at /\ at <= to => wide < at
    BY <2>1, ClippedSide
  <2> QED BY <2>1, <2>2 DEF end, to
<1>7. fragment = [i \in 1..height |-> [j \in 1..width |->
                    ValueAt(grid, s.from.row + i - 1, s.from.col + j - 1)]]
  BY <1>3 DEF RenderSpan, c, height, width
<1>8. height \in Nat \ {0} /\ width \in Nat \ {0}
  BY <1>2, <1>5, <1>6 DEF Greater
<1> HIDE DEF fragment
<1>9. /\ Len(fragment) = height
      /\ \A i \in 1..height : Len(fragment[i]) = width
  BY <1>7, <1>8
<1>10. ASSUME NEW row \in (s.from.row)..(s.to.row), NEW col \in (s.from.col)..(s.to.col)
      PROVE  (IF row - s.from.row < height /\ col - s.from.col < width
              THEN fragment[row - s.from.row + 1][col - s.from.col + 1] ELSE Empty)
             = ValueAt(grid, row, col)
  <2>1. row \in Nat \ {0} /\ col \in Nat \ {0} /\ row <= s.to.row /\ col <= s.to.col
    BY <1>1
  <2>2. CASE row - s.from.row < height /\ col - s.from.col < width
    <3>1. /\ row - s.from.row + 1 \in 1..height /\ col - s.from.col + 1 \in 1..width
          /\ s.from.row + (row - s.from.row + 1) - 1 = row
          /\ s.from.col + (col - s.from.col + 1) - 1 = col
      BY <1>1, <1>8, <2>1, <2>2
    <3> QED BY <1>7, <2>2, <3>1
  <2>3. CASE ~(row - s.from.row < height /\ col - s.from.col < width)
    <3>1. c.to.row < row \/ c.to.col < col
      <4>1. CASE ~(row - s.from.row < height)
        BY <1>1, <1>5, <1>4, <2>1, <4>1
      <4>2. CASE ~(col - s.from.col < width)
        BY <1>1, <1>6, <1>4, <2>1, <4>2
      <4> QED BY <2>3, <4>1, <4>2
    <3>2. Len(grid) < row \/ wide < col
      BY <1>5, <1>6, <2>1, <3>1
    <3>3. ValueAt(grid, row, col) = Empty
      BY <2>1, <3>2, ValueInside DEF wide
    <3> QED BY <2>3, <3>3
  <2> QED BY <2>2, <2>3
<1>11. 1 \in 1..height
  BY <1>8
<1> QED BY <1>5, <1>6, <1>9, <1>10, <1>11 DEF ShowsAll, s, wide, fragment

(* A fragment is never empty, never larger than the grid, and shows every  *)
(* value the reference asks for in its place, whichever way and however    *)
(* far it reaches (compute.go:103-111).                                    *)
THEOREM FragmentsAreExact == Spec => []FragmentExact
<1>1. IInv => FragmentExact
  <2> SUFFICES ASSUME Placed, Faithful, Served, ask.ref # Nothing
               PROVE  \E time \in 0..clock :
                        ShowsAll(ans.body, GridOf(snap, time), ParseRef(ask.ref))
    BY DEF IInv, FragmentExact
  <2>1. pc = "answered" /\ snap \in Doc /\ ParseRef(ask.ref) # BadRef
    BY DEF Faithful, Served
  <2>2. PICK time \in 0..clock : ans.body = RenderSpan(GridOf(snap, time), ParseRef(ask.ref))
    BY <2>1 DEF Faithful
  <2>3. time \in 0..MaxClock /\ deploy \in Deployment /\ ask \in Asks
    BY <2>1, ReadsAssumption DEF Placed
  <2>4. GridOf(snap, time) \in Grid(STRING)
    BY <2>1, <2>3, EngineAssumption DEF GridOf, Grid
  <2>5. ParseRef(ask.ref) \in Span
    BY <2>1, <2>3, EngineAssumption, ParsedRef
  <2>6. ShowsAll(ans.body, GridOf(snap, time), ParseRef(ask.ref))
    BY <2>2, <2>4, <2>5, FragmentShowsAll
  <2> QED BY <2>6
<1> QED BY <1>1, Invariance, PTL

(* The cells a delta names, in some order, each once. *)
LEMMA CellsListed ==
  ASSUME NEW S, IsFiniteSet(S)
  PROVE  /\ SetToSeq(S) \in Seq(S) /\ Len(SetToSeq(S)) = Cardinality(S)
         /\ \A a \in S : \E i \in 1..Len(SetToSeq(S)) : SetToSeq(S)[i] = a
<1> DEFINE n == Cardinality(S)
           cells == SetToSeq(S)
<1>1. n \in Nat /\ ExistsBijection(1..n, S)
  BY FS_CardinalityType
<1>2. PICK b \in [1..n -> S] : IsInjective(b)
  <2>1. PICK b : b \in Bijection(1..n, S)
    BY <1>1 DEF ExistsBijection
  <2>2. b \in [1..n -> S] /\ IsInjective(b)
    BY <2>1 DEF Bijection, Injection
  <2> QED BY <2>2
<1>3. cells = CHOOSE f \in [1..n -> S] : IsInjective(f)
  BY DEF SetToSeq
<1> HIDE DEF cells
<1>4. cells \in [1..n -> S] /\ IsInjective(cells)
  <2> HIDE DEF n
  <2> QED BY <1>2, <1>3, Zenon
<1>5. cells \in Injection(1..n, S)
  BY <1>4 DEF Injection
<1>6. Cardinality(1..n) = n
  <2>1. 1 \in Int /\ n \in Int
    BY <1>1
  <2>2. Cardinality(1..n) = IF 1 > n THEN 0 ELSE n - 1 + 1
    BY <2>1, FS_Interval
  <2> QED BY <1>1, <2>2
<1>7. cells \in Surjection(1..n, S)
  <2> HIDE DEF n
  <2>1. Cardinality(1..n) = Cardinality(S)
    BY <1>6 DEF n
  <2> QED BY <1>5, <2>1, FS_Injection
<1>8. \A a \in S : \E i \in 1..n : cells[i] = a
  BY <1>7 DEF Surjection
<1>9. cells \in Seq(S) /\ Len(cells) = n
  <2> HIDE DEF n
  <2> QED BY <1>1, <1>4
<1> QED BY <1>8, <1>9 DEF cells

(* The values of cells: no prover here knows that a literal is a string. *)
Text == STRING \cup {Empty}

(* What the events of a feed are made of. *)
Token ==
  {Newline} \cup ({"base", "rev"} \X Doc) \cup ({"cell"} \X Everywhere \X Text)
    \cup UNION {{b[i] : i \in DOMAIN b} : b \in UNION {Body[d] : d \in Doc}}

LEMMA Tokens ==
  /\ Newline \in Token
  /\ \A d \in Doc : /\ <<"rev", d>> \in Token /\ <<"base", d>> \in Token
                   /\ <<"rev", d>> \notin {Newline, Return}
  /\ \A a \in Everywhere, v \in Text :
       <<"cell", a, v>> \in Token /\ <<"cell", a, v>> \notin {Newline, Return}
  /\ \A d \in Doc : \A b \in Body[d] : b \in Seq(Token)
<1>1. Newline \in Token
  BY DEF Token
<1>2. \A d \in Doc : /\ <<"rev", d>> \in Token /\ <<"base", d>> \in Token
                     /\ <<"rev", d>> \notin {Newline, Return}
  BY SentinelsAssumption DEF Token
<1>3. ASSUME NEW a \in Everywhere, NEW v \in Text
      PROVE  <<"cell", a, v>> \in Token /\ <<"cell", a, v>> \notin {Newline, Return}
  <2>1. a \in Nat \X Nat
    BY DEF Everywhere
  <2>2. <<"cell", a, v>> \in {"cell"} \X Everywhere \X Text
    OBVIOUS
  <2>3. <<"cell", a, v>> \in {"cell"} \X (Nat \X Nat) \X (STRING \cup {Empty})
    BY <2>1 DEF Text
  <2> QED BY <2>2, <2>3, SentinelsAssumption, Zenon DEF Token
<1>4. ASSUME NEW d \in Doc, NEW b \in Body[d] PROVE b \in Seq(Token)
  <2>1. b \in Seq({b[i] : i \in DOMAIN b})
    BY ReadsAssumption
  <2>2. b \in UNION {Body[e] : e \in Doc}
    OBVIOUS
  <2>3. {b[i] : i \in DOMAIN b} \subseteq Token
    <3> DEFINE texts == UNION {Body[e] : e \in Doc}
               parts == {{c[i] : i \in DOMAIN c} : c \in texts}
    <3>1. {b[i] : i \in DOMAIN b} \in parts
      <4> HIDE DEF texts
      <4> QED BY <2>2, Zenon DEF texts
    <3>2. Token = {Newline} \cup ({"base", "rev"} \X Doc) \cup ({"cell"} \X Everywhere \X Text) \cup UNION parts
      BY DEF Token
    <3> HIDE DEF parts
    <3> QED BY <3>1, <3>2
  <2> QED BY <2>1, <2>3, SeqMonotonic
<1> QED BY <1>1, <1>2, <1>3, <1>4

(* A delta that can be told: finitely many cells, each with its value. *)
Tellable(delta) ==
  /\ IsFiniteSet(DOMAIN delta) /\ DOMAIN delta \subseteq Everywhere
  /\ delta \in [DOMAIN delta -> Text]

(* A delta is read as it was told: the cells it names, each with the value *)
(* it has there, whatever order they come in.                              *)
LEMMA DeltaSaid ==
  ASSUME NEW e, e.new \in Doc, NEW delta, Tellable(delta)
  PROVE  /\ DeltaText(e, delta) \in Seq(Token) /\ DeltaText(e, delta) # <<>>
         /\ Unbroken(DeltaText(e, delta))
         /\ DeltaOf(SplitDataLines(DeltaText(e, delta))) = delta
<1> DEFINE S == DOMAIN delta
           cells == SetToSeq(S)
           m == Len(cells)
           line(i) == IF i = 0 THEN <<"rev", e.new>> ELSE <<"cell", cells[i], delta[cells[i]]>>
           text == DeltaText(e, delta)
<1>1. cells \in Seq(S) /\ m \in Nat /\ \A a \in S : \E i \in 1..m : cells[i] = a
  <2>1. /\ cells \in Seq(S) /\ Len(cells) = Cardinality(S)
        /\ \A a \in S : \E i \in 1..Len(cells) : cells[i] = a
    BY CellsListed DEF Tellable
  <2> QED BY <2>1, LenProperties
<1>2. \A i \in 1..m : cells[i] \in S /\ cells[i] \in Everywhere /\ delta[cells[i]] \in Text
  BY <1>1, ElementOfSeq DEF Tellable
<1>3. text = [k \in 1..(2 * (m + 1)) |-> IF k % 2 = 0 THEN Newline ELSE line(k \div 2)]
  BY DEF DeltaText
<1> HIDE DEF cells, m, text
<1>4. ASSUME NEW i \in 0..m PROVE line(i) \in Token /\ line(i) \notin {Newline, Return}
  <2>1. CASE i = 0
    BY <2>1, Tokens
  <2>2. CASE i # 0
    <3>1. i \in 1..m
      BY <1>1, <2>2
    <3>2. cells[i] \in Everywhere /\ delta[cells[i]] \in Text
      BY <1>2, <3>1
    <3>3. line(i) = <<"cell", cells[i], delta[cells[i]]>>
      BY <2>2
    <3> HIDE DEF line
    <3> QED BY <3>2, <3>3, Tokens
  <2> QED BY <2>1, <2>2
<1>5. \A i \in 1..m : line(i) = <<"cell", cells[i], delta[cells[i]]>>
  BY <1>1
<1>6. line(0) = <<"rev", e.new>>
  OBVIOUS
<1> HIDE DEF line
<1>7. ASSUME NEW i \in 1..(m + 1)
      PROVE  /\ 2 * i \in 1..(2 * (m + 1)) /\ 2 * i - 1 \in 1..(2 * (m + 1))
             /\ (2 * i) % 2 = 0 /\ (2 * i - 1) % 2 # 0 /\ (2 * i - 1) \div 2 = i - 1
             /\ i - 1 \in 0..m
  BY <1>1
<1>8. \A i \in 1..(m + 1) : text[2 * i] = Newline /\ text[2 * i - 1] = line(i - 1)
  BY <1>3, <1>7
<1>9. \A k \in 1..(2 * (m + 1)) : text[k] \in Token
  <2>1. \A k \in 1..(2 * (m + 1)) : k \div 2 \in 0..(m + 1) /\ (k % 2 # 0 => k \div 2 \in 0..m)
    BY <1>1
  <2> QED BY <1>3, <1>4, <2>1, Tokens
<1>10. text \in Seq(Token) /\ Len(text) = 2 * (m + 1)
  <2> DEFINE N == 2 * (m + 1)
  <2>1. N \in Nat /\ text = [k \in 1..N |-> text[k]]
    BY <1>1, <1>3
  <2>2. \A k \in 1..N : text[k] \in Token
    BY <1>9
  <2> HIDE DEF N
  <2>3. text \in [1..N -> Token]
    BY <2>1, <2>2
  <2>4. text \in Seq(Token) /\ Len(text) = N
    BY <2>1, <2>3
  <2> QED BY <2>4 DEF N
<1>20. Unbroken(text)
  <2>1. \A k \in 1..(2 * (m + 1)) : k % 2 # 0 => k \div 2 \in 0..m
    BY <1>1
  <2>2. DOMAIN text = 1..(2 * (m + 1))
    BY <1>3
  <2>3. \A k \in 1..(2 * (m + 1)) : text[k] # Return
    BY <1>3, <1>4, <2>1, FramesAssumption
  <2> QED BY <2>2, <2>3 DEF Unbroken
<1>11. text # <<>>
  <2>1. 2 * (m + 1) # 0
    BY <1>1
  <2> QED BY <1>10, <2>1, EmptySeq
<1>12. SplitDataLines(text) = [i \in 1..(m + 1) |-> <<text[2 * i - 1]>>]
  <2>1. \A i \in 1..(m + 1) : text[2 * i] = Newline /\ text[2 * i - 1] # Newline
    BY <1>4, <1>7, <1>8
  <2>2. m + 1 \in Nat
    BY <1>1
  <2> QED BY <1>10, <2>1, <2>2, LineByLine
<1> DEFINE lines == SplitDataLines(text)
<1>13. DOMAIN lines = 1..(m + 1) /\ \A i \in 1..(m + 1) : lines[i] = <<line(i - 1)>>
  BY <1>8, <1>12
<1> HIDE DEF lines
<1> DEFINE named == {lines[i][1] : i \in {j \in DOMAIN lines : lines[j] # <<>> /\ lines[j][1][1] = "cell"}}
<1>14. named = {<<"cell", a, delta[a]>> : a \in S}
  <2>1. ASSUME NEW j \in 1..(m + 1) PROVE lines[j] # <<>> /\ lines[j][1] = line(j - 1)
    BY <1>13
  <2>2. ASSUME NEW j \in 1..(m + 1), lines[j][1][1] = "cell"
        PROVE  j - 1 \in 1..m
    <3>1. j - 1 # 0
      BY <1>6, <2>1, <2>2
    <3> QED BY <1>1, <3>1
  <2>3. ASSUME NEW i \in 1..m PROVE i + 1 \in 1..(m + 1) /\ lines[i + 1][1] = line(i)
    <3>1. i + 1 \in 1..(m + 1) /\ (i + 1) - 1 = i
      BY <1>1
    <3> QED BY <2>1, <3>1
  <2>4. ASSUME NEW c \in named PROVE c \in {<<"cell", a, delta[a]>> : a \in S}
    <3>1. PICK j \in 1..(m + 1) : lines[j][1][1] = "cell" /\ c = lines[j][1]
      BY <1>13
    <3>2. j - 1 \in 1..m /\ c = line(j - 1)
      BY <2>1, <2>2, <3>1
    <3> QED BY <1>2, <1>5, <3>2
  <2>5. ASSUME NEW a \in S PROVE <<"cell", a, delta[a]>> \in named
    <3>1. PICK i \in 1..m : cells[i] = a
      BY <1>1
    <3>2. i + 1 \in 1..(m + 1) /\ lines[i + 1][1] = <<"cell", a, delta[a]>>
      BY <1>5, <2>3, <3>1
    <3>3. lines[i + 1] # <<>> /\ lines[i + 1][1][1] = "cell"
      BY <2>1, <3>2
    <3> QED BY <1>13, <3>2, <3>3
  <2> QED BY <2>4, <2>5
<1> HIDE DEF named, S
<1>15. {cell[2] : cell \in named} = S
  <2>1. \A cell \in named : cell[2] \in S
    BY <1>14
  <2>2. ASSUME NEW a \in S PROVE \E cell \in named : cell[2] = a
    <3>1. <<"cell", a, delta[a]>> \in named /\ <<"cell", a, delta[a]>>[2] = a
      BY <1>14
    <3> QED BY <3>1
  <2> QED BY <2>1, <2>2
<1>16. \A at \in S : (CHOOSE cell \in named : cell[2] = at)[3] = delta[at]
  <2> SUFFICES ASSUME NEW at \in S PROVE (CHOOSE cell \in named : cell[2] = at)[3] = delta[at]
    OBVIOUS
  <2> DEFINE it == CHOOSE cell \in named : cell[2] = at
  <2>1. \E cell \in named : cell[2] = at
    BY <1>15
  <2>2. it \in named /\ it[2] = at
    BY <2>1
  <2> HIDE DEF it
  <2>3. it[3] = delta[at]
    BY <1>14, <2>2
  <2> QED BY <2>3 DEF it
<1>17. DeltaOf(lines) = [at \in {cell[2] : cell \in named} |-> (CHOOSE cell \in named : cell[2] = at)[3]]
  BY DEF DeltaOf, named
<1>18. DeltaOf(lines) = [at \in S |-> delta[at]]
  BY <1>15, <1>16, <1>17
<1>19. delta = [at \in S |-> delta[at]]
  BY DEF Tellable, S
<1> QED BY <1>10, <1>11, <1>18, <1>19, <1>20 DEF text, lines
-----------------------------------------------------------------------------
(* Changes on their way to the feed. *)

Kinds == {"changed", "computed", "reset", "deleted"}
Whole == Doc \cup {"missing"}
Landed == [kind : Kinds, old : Whole, new : Whole, of : Nat \ {0}]
Event == [id : Nat \ {0}, name : Kinds, data : Seq(Token), old : Whole, new : Whole, of : Nat \ {0}]

(* A change that has landed: of documents, and of steady ones if it is     *)
(* later than the last that was not.                                       *)
Landing(c) ==
  /\ c.of <= changes
  /\ c.kind = "computed" => deploy.plane
  /\ c.kind \in {"changed", "computed"} => c.old \in Doc /\ c.new \in Doc
  /\ c.kind = "reset" => c.new \in Doc
  /\ c.of > unsteady => Steady(c.old) /\ Steady(c.new)

Values(d, cap) == Computed[d][0][cap]

(* What an event says: the new revision of what was put, and of what was   *)
(* changed the difference of two grids, which for steady documents are     *)
(* those of the two revisions.                                             *)
Telling(e) ==
  /\ e.of <= changes
  /\ e.name = "deleted" => e.data = <<>>
  /\ e.name = "reset" => e.new \in Doc /\ e.data = <<<<"rev", e.new>>>>
  /\ e.name = "computed" =>
       /\ e.old \in Doc /\ e.new \in Doc
       /\ \E old, next \in Grid(STRING) :
            /\ e.data = DeltaText(e, CellsDelta(old, next))
            /\ e.of > unsteady => old = Values(e.old, deploy.cap) /\ next = Values(e.new, deploy.cap)

WorldTypes ==
  /\ role \in Role /\ Role \subseteq {"asks", "follows"}
  /\ held \in Doc \cup Unservable /\ (role = "follows" => held \in Whole)
  /\ clock \in 0..MaxClock /\ deploy \in Deployment
  /\ changes \in Nat /\ unsteady \in 0..changes

FeedTypes ==
  /\ pending \in Seq(Landed) /\ log \in Seq(Event) /\ ordered \in BOOLEAN
  /\ role = "asks" => pending = <<>> /\ log = <<>>

FeedSays ==
  /\ \A i \in 1..Len(pending) : Landing(pending[i])
  /\ \A i, k \in 1..Len(pending) : i < k => pending[i].of < pending[k].of
  /\ \A j \in 1..Len(log) : log[j].id = j /\ Telling(log[j])

Feeding == WorldTypes /\ FeedTypes /\ FeedSays

(* The steps, as the feed has them. *)
Lasting == UNCHANGED <<role, held, deploy, changes, unsteady, feed>> /\ clock' \in 0..MaxClock

ChangeLands ==
  \/ role = "asks" /\ \E kind, new : new \in Doc \cup Unservable /\ Lands(kind, new)
  \/ \E new \in Doc : held \in Doc /\ Lands("changed", new)
  \/ \E new \in Doc : held \in Whole /\ Lands("reset", new)
  \/ held \in Doc /\ Lands("deleted", "missing")

LEMMA FeedSteps ==
  ASSUME WorldTypes, [Next]_vars
  PROVE  \/ Lasting \/ ChangeLands \/ Restart
         \/ \E i \in DOMAIN pending : Announce(i) \/ AnnounceComputed(i)
<1> USE DEF WorldTypes
<1>1. CASE Change
  BY <1>1 DEF Change, Post, Put, Delete, OutOfBand, ChangeLands, Whole, Unservable
<1>2. CASE Announcing
  BY <1>2 DEF Announcing
<1>3. CASE Tick
  <2>1. clock + 1 \in 0..MaxClock
    BY <1>3, ReadsAssumption DEF Tick
  <2> QED BY <1>3, <2>1 DEF Tick, Lasting, feed
<1>4. CASE Asking
  <2>1. UNCHANGED <<world, feed>>
    BY <1>4 DEF Asking, Ask, Route, AnswerFeed, Load, LoadFails, AnswerDocument, AnswerRef,
                Done, Full, Represent, Answer, AskOnly
  <2> QED BY <2>1 DEF Lasting, world, feed
<1>5. CASE Following
  <2>1. UNCHANGED <<role, held, deploy, changes, unsteady, feed, clock>>
    BY <1>5 DEF Following, FeedGet, FeedSubscribe, Send, Receive, Cut, Fetch, FollowOnly, world
  <2> QED BY <2>1 DEF Lasting
<1>6. CASE UNCHANGED vars
  BY <1>6 DEF vars, world, Lasting
<1> QED BY <1>1, <1>2, <1>3, <1>4, <1>5, <1>6 DEF Next

LEMMA DroppedIs ==
  ASSUME FeedTypes, NEW i \in 1..Len(pending)
  PROVE  /\ Dropped(i) \in Seq(Landed) /\ Len(Dropped(i)) = Len(pending) - 1
         /\ \A k \in 1..(Len(pending) - 1) : Dropped(i)[k] = pending[IF k < i THEN k ELSE k + 1]
<1> DEFINE N == Len(pending)
           a == SubSeq(pending, 1, i - 1)
           b == SubSeq(pending, i + 1, N)
<1>1. N \in Nat /\ pending \in Seq(Landed)
  BY LenProperties DEF FeedTypes
<1>2. ASSUME NEW m \in 1..(N + 1), NEW n \in 0..N
      PROVE  \A k \in m..n : pending[k] \in Landed
  <2>1. \A k \in m..n : k \in 1..N
    BY <1>1
  <2> QED BY <1>1, <2>1, ElementOfSeq
<1>3. /\ a \in Seq(Landed) /\ Len(a) = i - 1
      /\ \A k \in 1..(i - 1) : a[k] = pending[k]
  <2>1. \A k \in 1..(i - 1) : pending[k] \in Landed
    <3>1. 1 \in 1..(N + 1) /\ i - 1 \in 0..N
      BY <1>1
    <3> QED BY <1>2, <3>1
  <2>2. 1 \in Int /\ i - 1 \in Int /\ (1 <= i - 1 => (i - 1) - 1 + 1 = i - 1) /\ (~(1 <= i - 1) => i - 1 = 0)
        /\ (i - 1) - 1 + 1 = i - 1
    BY <1>1
  <2>3. /\ a \in Seq(Landed) /\ Len(a) = IF 1 <= i - 1 THEN (i - 1) - 1 + 1 ELSE 0
        /\ \A k \in 1..((i - 1) - 1 + 1) : a[k] = pending[1 + k - 1]
    BY <2>1, <2>2, SubSeqProperties
  <2>4. \A k \in 1..(i - 1) : 1 + k - 1 = k
    BY <1>1
  <2> HIDE DEF a
  <2> QED BY <2>2, <2>3, <2>4
<1>4. /\ b \in Seq(Landed) /\ Len(b) = N - i
      /\ \A k \in 1..(N - i) : b[k] = pending[i + k]
  <2>1. \A k \in (i + 1)..N : pending[k] \in Landed
    <3>1. i + 1 \in 1..(N + 1) /\ N \in 0..N
      BY <1>1
    <3> QED BY <1>2, <3>1
  <2>2. i + 1 \in Int /\ N \in Int /\ (i + 1 <= N => N - (i + 1) + 1 = N - i) /\ (~(i + 1 <= N) => N - i = 0)
        /\ N - (i + 1) + 1 = N - i
    BY <1>1
  <2>3. /\ b \in Seq(Landed) /\ Len(b) = IF i + 1 <= N THEN N - (i + 1) + 1 ELSE 0
        /\ \A k \in 1..(N - (i + 1) + 1) : b[k] = pending[(i + 1) + k - 1]
    <3> DEFINE m == i + 1
    <3> SUFFICES /\ SubSeq(pending, m, N) \in Seq(Landed)
                 /\ Len(SubSeq(pending, m, N)) = IF m <= N THEN N - m + 1 ELSE 0
                 /\ \A k \in 1..(N - m + 1) : SubSeq(pending, m, N)[k] = pending[m + k - 1]
      OBVIOUS
    <3>1. m \in Int /\ N \in Int /\ \A k \in m..N : pending[k] \in Landed
      BY <2>1, <2>2
    <3> HIDE DEF m, N
    <3> QED BY <3>1, SubSeqProperties
  <2>4. \A k \in 1..(N - i) : (i + 1) + k - 1 = i + k
    BY <1>1
  <2> HIDE DEF b, N
  <2> QED BY <2>2, <2>3, <2>4
<1> HIDE DEF a, b
<1>5. /\ a \o b \in Seq(Landed) /\ Len(a \o b) = Len(a) + Len(b)
      /\ \A k \in 1..(Len(a) + Len(b)) : (a \o b)[k] = IF k <= Len(a) THEN a[k] ELSE b[k - Len(a)]
  BY <1>3, <1>4, ConcatProperties
<1>6. Len(a) + Len(b) = N - 1
  <2> HIDE DEF N
  <2> QED BY <1>1, <1>3, <1>4
<1>7. ASSUME NEW k \in 1..(N - 1) PROVE (a \o b)[k] = pending[IF k < i THEN k ELSE k + 1]
  <2>1. CASE k < i
    <3>1. k \in 1..(i - 1) /\ k <= i - 1
      BY <1>1, <2>1
    <3>2. (a \o b)[k] = IF k <= Len(a) THEN a[k] ELSE b[k - Len(a)]
      BY <1>5, <1>6
    <3>3. (a \o b)[k] = a[k]
      BY <1>3, <3>1, <3>2
    <3> QED BY <1>3, <2>1, <3>1, <3>3
  <2>2. CASE ~(k < i)
    <3>1. ~(k <= i - 1) /\ k - (i - 1) \in 1..(N - i) /\ i + (k - (i - 1)) = k + 1
      BY <1>1, <2>2
    <3>2. k \in 1..(Len(a) + Len(b)) /\ Len(a) = i - 1
      BY <1>3, <1>6
    <3>3. (a \o b)[k] = b[k - (i - 1)]
      <4>1. (a \o b)[k] = IF k <= Len(a) THEN a[k] ELSE b[k - Len(a)]
        BY <1>5, <3>2
      <4> QED BY <3>1, <3>2, <4>1
    <3>4. b[k - (i - 1)] = pending[k + 1]
      <4>1. b[k - (i - 1)] = pending[i + (k - (i - 1))]
        BY <1>4, <3>1
      <4> QED BY <3>1, <4>1
    <3> QED BY <2>2, <3>3, <3>4
  <2> QED BY <2>1, <2>2
<1>8. Dropped(i) = a \o b
  BY DEF Dropped, a, b
<1> QED BY <1>5, <1>6, <1>7, <1>8

LEMMA DeltaTellable ==
  ASSUME NEW old \in Grid(STRING), NEW next \in Grid(STRING)
  PROVE  Tellable(CellsDelta(old, next))
<1> DEFINE rows == Greater(Len(old), Len(next))
           cols == Greater(WidestRow(old), WidestRow(next))
           delta == CellsDelta(old, next)
<1>1. rows \in Nat /\ cols \in Nat
  BY GridRows, WidestRowIsWidest DEF Greater
<1>2. delta = [at \in Differing(old, next) |-> ValueAt(next, at[1], at[2])]
  BY ChangedCells
<1>3. DOMAIN delta \subseteq (1..rows) \X (1..cols)
  BY DEF CellsDelta
<1>4. IsFiniteSet(DOMAIN delta)
  <2> HIDE DEF rows, cols, delta
  <2>1. IsFiniteSet(1..rows) /\ IsFiniteSet(1..cols)
    BY <1>1, FS_Interval
  <2>2. IsFiniteSet((1..rows) \X (1..cols))
    BY <2>1, FS_Product
  <2> QED BY <1>3, <2>2, FS_Subset
<1> HIDE DEF delta
<1>5. DOMAIN delta \subseteq Everywhere
  BY <1>2 DEF Differing
<1>6. ASSUME NEW at \in Everywhere PROVE ValueAt(next, at[1], at[2]) \in Text
  <2>1. at[1] \in Nat \ {0} /\ at[2] \in Nat \ {0}
    BY DEF Everywhere
  <2>2. CASE at[1] \in DOMAIN next /\ at[2] \in DOMAIN next[at[1]]
    <3>1. at[1] \in 1..Len(next)
      BY <2>2, GridRows
    <3>2. next[at[1]] \in Seq(STRING)
      BY <3>1, ElementOfSeq DEF Grid
    <3>3. at[2] \in 1..Len(next[at[1]])
      BY <2>2, <3>1, GridRows
    <3>4. next[at[1]][at[2]] \in STRING
      BY <3>2, <3>3, ElementOfSeq
    <3> QED BY <2>2, <3>4 DEF ValueAt, Text
  <2>3. CASE ~(at[1] \in DOMAIN next /\ at[2] \in DOMAIN next[at[1]])
    <3>1. ValueAt(next, at[1], at[2]) = Empty
      BY <2>3, Zenon DEF ValueAt
    <3> QED BY <3>1 DEF Text
  <2> QED BY <2>2, <2>3
<1>7. delta \in [DOMAIN delta -> Text]
  BY <1>2, <1>6 DEF Differing
<1> QED BY <1>4, <1>5, <1>7 DEF Tellable, delta

LEMMA LandsKeeps ==
  ASSUME Feeding, NEW kind, NEW new, Lands(kind, new), new \in Doc \cup Unservable,
         \/ role = "asks"
         \/ /\ kind \in {"changed", "reset", "deleted"} /\ held \in Whole /\ new \in Whole
            /\ kind = "changed" => held \in Doc /\ new \in Doc
            /\ kind = "reset" => new \in Doc
  PROVE  Feeding'
<1> DEFINE c == [kind |-> kind, old |-> held, new |-> new, of |-> changes + 1]
<1> USE DEF Feeding
<1>0. PICK N \in Nat : N = Len(pending)
  BY LenProperties DEF FeedTypes
<1>1. /\ changes' = changes + 1 /\ held' = new
      /\ unsteady' = IF Steady(held) /\ Steady(new) THEN unsteady ELSE changes + 1
      /\ UNCHANGED <<role, clock, deploy, log, ordered>>
      /\ role = "follows" => pending' = Append(pending, c)
      /\ role # "follows" => pending' = pending
  BY DEF Lands
<1>2. role \in {"asks", "follows"} /\ changes \in Nat /\ unsteady \in 0..changes
  BY DEF WorldTypes
<1>3. WorldTypes'
  <2>1. changes' \in Nat /\ unsteady' \in 0..changes'
    BY <1>1, <1>2
  <2>2. role' = "follows" => held' \in Whole
    BY <1>1, <1>2
  <2> QED BY <1>1, <2>1, <2>2 DEF WorldTypes
<1>4. ASSUME NEW e, e.of \in Nat, e.of <= changes
      PROVE  e.of <= changes' /\ (e.of > unsteady' => e.of > unsteady)
  BY <1>1, <1>2, <1>4
<1>5. \A j \in 1..Len(log) : log[j].id = j /\ Telling(log[j])'
  <2> SUFFICES ASSUME NEW j \in 1..Len(log) PROVE log[j].id = j /\ Telling(log[j])'
    OBVIOUS
  <2>1. log[j] \in Event /\ Telling(log[j]) /\ log[j].id = j
    BY ElementOfSeq DEF FeedTypes, FeedSays
  <2> DEFINE e == log[j]
  <2>2. e.of \in Nat /\ e.of <= changes
    BY <2>1 DEF Event, Telling
  <2>3. log'[j] = e /\ deploy' = deploy
    BY <1>1
  <2>4. e.of <= changes' /\ (e.of > unsteady' => e.of > unsteady)
    BY <1>4, <2>2
  <2> HIDE DEF e
  <2>5. Telling(e)
    BY <2>1 DEF e
  <2>6. Telling(log[j])'
    BY <2>3, <2>4, <2>5 DEF Telling
  <2> QED BY <2>1, <2>6
<1>6. N \in Nat /\ \A i \in 1..N : pending[i] \in Landed /\ Landing(pending[i])
  BY <1>0, ElementOfSeq DEF FeedTypes, FeedSays
<1>7. ASSUME NEW i \in 1..N, pending'[i] = pending[i] PROVE Landing(pending[i])'
  <2> DEFINE e == pending[i]
  <2>1. e.of \in Nat /\ Landing(e)
    BY <1>6 DEF Landed
  <2> HIDE DEF e
  <2>2. e.of <= changes' /\ (e.of > unsteady' => e.of > unsteady)
    BY <1>4, <2>1 DEF Landing
  <2>3. pending'[i] = e /\ deploy' = deploy
    BY <1>1, <1>7 DEF e
  <2> QED BY <2>1, <2>2, <2>3 DEF Landing
<1>8. CASE role # "follows"
  <2>1. pending' = pending
    BY <1>1, <1>8
  <2>2. FeedTypes'
    BY <1>1, <2>1 DEF FeedTypes
  <2>3. FeedSays'
    BY <1>0, <1>1, <1>5, <1>7, <2>1 DEF FeedSays
  <2> QED BY <1>3, <2>2, <2>3
<1>9. CASE role = "follows"
  <2>1. /\ pending' = Append(pending, c) /\ kind \in {"changed", "reset", "deleted"}
        /\ held \in Whole /\ new \in Whole
        /\ kind = "changed" => held \in Doc /\ new \in Doc
        /\ kind = "reset" => new \in Doc
    BY <1>1, <1>9
  <2>2. c \in Landed /\ c.of = changes + 1 /\ c.kind = kind /\ c.old = held /\ c.new = new
    BY <1>2, <2>1 DEF Landed, Kinds
  <2> HIDE DEF c
  <2>3. pending \in Seq(Landed)
    BY DEF FeedTypes
  <2>4. /\ pending' \in Seq(Landed) /\ Len(pending') = N + 1 /\ pending'[N + 1] = c
        /\ \A i \in 1..N : pending'[i] = pending[i]
    BY <1>0, <2>1, <2>2, <2>3, AppendProperties
  <2>5. FeedTypes'
    BY <1>1, <1>9, <2>4 DEF FeedTypes
  <2>6. Landing(pending[N + 1])'
    <3>1. /\ pending'[N + 1] = c /\ c.of = changes' /\ c.kind = kind /\ c.old = held /\ c.new = new
          /\ kind # "computed" /\ (c.of > unsteady' => Steady(held) /\ Steady(new))
      BY <1>1, <1>2, <2>1, <2>2, <2>4
    <3>2. changes' \in Nat
      BY <1>1, <1>2
    <3> QED BY <2>1, <3>1, <3>2 DEF Landing, Steady
  <2>7. \A i \in 1..(N + 1) : Landing(pending[i])'
    <3> SUFFICES ASSUME NEW i \in 1..(N + 1) PROVE Landing(pending[i])'
      OBVIOUS
    <3>1. i \in 1..N \/ i = N + 1
      BY <1>6
    <3>2. CASE i \in 1..N
      BY <1>7, <2>4, <3>2 DEF Landing
    <3>3. CASE i = N + 1
      BY <2>6, <3>3 DEF Landing
    <3> QED BY <3>1, <3>2, <3>3
  <2>8. ASSUME NEW i \in 1..(N + 1), NEW k \in 1..(N + 1), i < k
        PROVE  pending'[i].of < pending'[k].of
    <3>1. i \in 1..N /\ (k \in 1..N \/ k = N + 1)
      BY <1>6, <2>8
    <3>2. pending'[i].of = pending[i].of /\ pending[i].of \in Nat /\ pending[i].of <= changes
      BY <1>6, <2>4, <3>1 DEF Landing, Landed
    <3>3. CASE k = N + 1
      BY <1>2, <2>2, <2>4, <3>2, <3>3
    <3>4. CASE k \in 1..N
      BY <1>0, <2>4, <2>8, <3>1, <3>4 DEF FeedSays
    <3> QED BY <3>1, <3>3, <3>4
  <2>9. FeedSays'
    BY <1>1, <1>5, <2>4, <2>7, <2>8 DEF FeedSays
  <2> QED BY <1>3, <2>5, <2>9
<1> QED BY <1>8, <1>9

(* One change fewer is pending, or none. *)
LEMMA DroppedKeeps ==
  ASSUME Feeding, NEW i \in 1..Len(pending)
  PROVE  /\ Dropped(i) \in Seq(Landed)
         /\ \A k \in 1..Len(Dropped(i)) : Landing(Dropped(i)[k])
         /\ \A k, m \in 1..Len(Dropped(i)) : k < m => Dropped(i)[k].of < Dropped(i)[m].of
<1> DEFINE at(k) == IF k < i THEN k ELSE k + 1
<1>0. PICK N \in Nat : N = Len(pending)
  BY LenProperties DEF Feeding, FeedTypes
<1>1. /\ Dropped(i) \in Seq(Landed) /\ Len(Dropped(i)) = N - 1
      /\ \A k \in 1..(N - 1) : Dropped(i)[k] = pending[at(k)]
  BY <1>0, DroppedIs DEF Feeding
<1>2. /\ \A k \in 1..(N - 1) : at(k) \in 1..N
      /\ \A k, m \in 1..(N - 1) : k < m => at(k) < at(m)
  BY <1>0
<1>3. /\ \A k \in 1..N : Landing(pending[k])
      /\ \A k, m \in 1..N : k < m => pending[k].of < pending[m].of
  BY <1>0 DEF Feeding, FeedSays
<1> HIDE DEF at
<1> QED BY <1>1, <1>2, <1>3

(* An event more, and the change it is of as it was or no longer pending.  *)
LEMMA PublishKeeps ==
  ASSUME Feeding, NEW i \in 1..Len(pending), role' = role, NEW name \in Kinds, NEW data \in Seq(Token),
         Publish(name, data, pending[i]),
         UNCHANGED <<deploy, changes, unsteady>>,
         NEW e, e = [id |-> Len(log) + 1, name |-> name, data |-> data, old |-> pending[i].old,
                     new |-> pending[i].new, of |-> pending[i].of],
         Telling(e)
  PROVE  /\ log' \in Seq(Event) /\ role # "asks"
         /\ \A j \in 1..Len(log') : log'[j].id = j /\ Telling(log[j])'
<1>0. PICK M \in Nat : M = Len(log)
  BY LenProperties DEF Feeding, FeedTypes
<1>1. log \in Seq(Event) /\ pending[i] \in Landed /\ role # "asks"
  <2>1. role # "asks"
    BY DEF Feeding, FeedTypes
  <2> QED BY <2>1, ElementOfSeq DEF Feeding, FeedTypes
<1>2. e \in Event /\ e.id = M + 1
  BY <1>0, <1>1 DEF Event, Landed
<1>3. log' = Append(log, e)
  BY DEF Publish
<1>4. /\ log' \in Seq(Event) /\ Len(log') = M + 1 /\ log'[M + 1] = e
      /\ \A j \in 1..M : log'[j] = log[j]
  BY <1>0, <1>1, <1>2, <1>3, AppendProperties
<1>5. \A j \in 1..(M + 1) : log'[j].id = j /\ Telling(log'[j])
  <2>1. \A j \in 1..M : log[j].id = j /\ Telling(log[j])
    BY <1>0 DEF Feeding, FeedSays
  <2> SUFFICES ASSUME NEW j \in 1..(M + 1) PROVE log'[j].id = j /\ Telling(log'[j])
    OBVIOUS
  <2>2. j \in 1..M \/ j = M + 1
    OBVIOUS
  <2> QED BY <1>2, <1>4, <2>1, <2>2
<1>6. \A j \in 1..(M + 1) : Telling(log[j])'
  BY <1>5 DEF Telling
<1> QED BY <1>1, <1>4, <1>5, <1>6

LEMMA AnnounceKeeps ==
  ASSUME Feeding, NEW i \in DOMAIN pending, Announce(i)
  PROVE  Feeding'
<1> DEFINE c == pending[i]
<1>0. i \in 1..Len(pending)
  BY LenProperties DEF Feeding, FeedTypes
<1>1. c \in Landed /\ Landing(c)
  BY <1>0, ElementOfSeq DEF Feeding, FeedTypes, FeedSays
<1>2. PICK body \in BatchesOf(c) : Publish(c.kind, Payload(c, body), c)
  BY DEF Announce
<1>3. /\ c.kind \in {"changed", "reset", "deleted"}
      /\ UNCHANGED <<role, held, clock, deploy, changes, unsteady>>
      /\ \/ pending' = Dropped(i)
         \/ c.kind = "changed" /\ deploy.plane /\ pending' = [pending EXCEPT ![i].kind = "computed"]
      /\ ordered' = (ordered /\ (i = 1 \/ c.kind = "changed"))
  BY DEF Announce, world
<1> DEFINE name == c.kind
           data == Payload(c, body)
           e == [id |-> Len(log) + 1, name |-> name, data |-> data, old |-> c.old,
                 new |-> c.new, of |-> c.of]
<1>4. data \in Seq(Token)
  <2>1. CASE c.kind = "changed"
    <3>1. c.old \in Doc /\ c.new \in Doc
      BY <1>1, <2>1 DEF Landing
    <3>2. <<"base", c.old>> \in Token /\ <<"rev", c.new>> \in Token /\ Newline \in Token /\ body \in Seq(Token)
      <4>1. body \in Body[c.new]
        BY <2>1 DEF BatchesOf
      <4> HIDE DEF c
      <4> QED BY <3>1, <4>1, Tokens
    <3>3. <<<<"base", c.old>>, Newline, <<"rev", c.new>>, Newline>> \in Seq(Token)
      BY <3>2
    <3>4. data = <<<<"base", c.old>>, Newline, <<"rev", c.new>>, Newline>> \o body
      BY <2>1 DEF Payload
    <3> HIDE DEF data
    <3> QED BY <3>2, <3>3, <3>4, ConcatProperties
  <2>2. CASE c.kind = "reset"
    <3>1. <<"rev", c.new>> \in Token
      BY <1>1, <2>2, Tokens DEF Landing
    <3>2. data = <<<<"rev", c.new>>>>
      BY <2>2 DEF Payload
    <3> QED BY <3>1, <3>2
  <2>3. CASE c.kind = "deleted"
    <3>1. data = <<>>
      BY <2>3 DEF Payload
    <3> QED BY <3>1
  <2> QED BY <1>3, <2>1, <2>2, <2>3
<1>5. Telling(e)
  <2>1. /\ e.of <= changes /\ e.name \in {"changed", "reset", "deleted"}
        /\ e.name = "deleted" => e.data = <<>>
        /\ e.name = "reset" => e.new \in Doc /\ e.data = <<<<"rev", e.new>>>>
    BY <1>1, <1>3 DEF Landing, Payload
  <2> HIDE DEF e
  <2> QED BY <2>1 DEF Telling
<1>6. /\ log' \in Seq(Event) /\ role # "asks"
      /\ \A j \in 1..Len(log') : log'[j].id = j /\ Telling(log[j])'
  <2>1. name \in Kinds
    BY <1>3 DEF Kinds
  <2> HIDE DEF data
  <2>2. e = [id |-> Len(log) + 1, name |-> name, data |-> data, old |-> pending[i].old,
             new |-> pending[i].new, of |-> pending[i].of]
    OBVIOUS
  <2>3. Publish(name, data, pending[i])
    BY <1>2 DEF data
  <2> HIDE DEF e, name
  <2> QED BY <1>0, <1>3, <1>4, <1>5, <2>1, <2>2, <2>3, PublishKeeps
<1> HIDE DEF c
<1>7. WorldTypes'
  BY <1>3 DEF Feeding, WorldTypes
<1>8. ASSUME NEW x, Landing(x) PROVE Landing(x)'
  BY <1>3, <1>8 DEF Landing
<1>9. /\ pending' \in Seq(Landed)
      /\ \A k \in 1..Len(pending') : Landing(pending'[k])
      /\ \A k, m \in 1..Len(pending') : k < m => pending'[k].of < pending'[m].of
  <2>1. CASE pending' = Dropped(i)
    BY <1>0, <2>1, DroppedKeeps
  <2>2. CASE c.kind = "changed" /\ deploy.plane /\ pending' = [pending EXCEPT ![i].kind = "computed"]
    <3>0. PICK N \in Nat : N = Len(pending)
      BY LenProperties DEF Feeding, FeedTypes
    <3> DEFINE d == [c EXCEPT !.kind = "computed"]
    <3>1. d \in Landed /\ d.of = c.of /\ d.kind = "computed" /\ d.old = c.old /\ d.new = c.new
      BY <1>1 DEF Landed, Kinds
    <3> HIDE DEF d
    <3>2. Landing(d)
      BY <1>1, <2>2, <3>1 DEF Landing
    <3>3. pending' = [pending EXCEPT ![i] = d]
      BY <2>2 DEF d, c
    <3>4. pending \in Seq(Landed) /\ pending[i] = c
      BY DEF Feeding, FeedTypes, c
    <3>5. pending' \in Seq(Landed) /\ Len(pending') = N
      BY <1>0, <3>0, <3>1, <3>3, <3>4, ExceptSeq
    <3>6. \A k \in 1..N : pending'[k] = IF k = i THEN d ELSE pending[k]
      BY <3>0, <3>3, <3>4
    <3>7. \A k \in 1..N : Landing(pending'[k]) /\ pending'[k].of = pending[k].of
      BY <3>0, <3>1, <3>2, <3>4, <3>6 DEF Feeding, FeedSays
    <3> QED BY <3>0, <3>5, <3>7 DEF Feeding, FeedSays
  <2> QED BY <1>3, <2>1, <2>2
<1>10. \A k \in 1..Len(pending') : Landing(pending[k])'
  BY <1>3, <1>9 DEF Landing
<1>11. role' # "asks" /\ ordered' \in BOOLEAN
  BY <1>3, <1>6
<1> QED BY <1>6, <1>7, <1>9, <1>10, <1>11 DEF Feeding, FeedTypes, FeedSays

LEMMA ComputedKeeps ==
  ASSUME Feeding, NEW i \in DOMAIN pending, AnnounceComputed(i)
  PROVE  Feeding'
<1> DEFINE c == pending[i]
<1>0. i \in 1..Len(pending)
  BY LenProperties DEF Feeding, FeedTypes
<1>1. c \in Landed /\ Landing(c)
  BY <1>0, ElementOfSeq DEF Feeding, FeedTypes, FeedSays
<1>2. PICK later \in {clock, Lesser(clock + 1, MaxClock)} :
         LET delta == CellsDelta(GridOf(c.old, clock), GridOf(c.new, later)) IN
         /\ IF DOMAIN delta = {} THEN UNCHANGED log
                                 ELSE Publish("computed", DeltaText(c, delta), c)
         /\ clock' = later
  BY DEF AnnounceComputed
<1> DEFINE old == GridOf(c.old, clock)
           next == GridOf(c.new, later)
           delta == CellsDelta(old, next)
<1>3. /\ c.kind = "computed" /\ c.old \in Doc /\ c.new \in Doc /\ clock' = later
      /\ UNCHANGED <<role, held, deploy, changes, unsteady>>
      /\ pending' = Dropped(i)
      /\ ordered' = (ordered /\ i = 1)
  BY <1>1, <1>2 DEF AnnounceComputed, Landing
<1>4. clock \in 0..MaxClock /\ later \in 0..MaxClock /\ deploy \in Deployment
  BY ReadsAssumption DEF Feeding, WorldTypes, Lesser
<1>5. old \in Grid(STRING) /\ next \in Grid(STRING)
  BY <1>3, <1>4, EngineAssumption DEF GridOf, Grid
<1>6. c.of > unsteady => old = Values(c.old, deploy.cap) /\ next = Values(c.new, deploy.cap)
  <2> SUFFICES ASSUME c.of > unsteady PROVE old = Values(c.old, deploy.cap) /\ next = Values(c.new, deploy.cap)
    OBVIOUS
  <2>1. c.old \in Doc \ Volatile /\ c.new \in Doc \ Volatile
    BY <1>1, <1>3 DEF Landing, Steady
  <2>2. 0 \in 0..MaxClock
    BY ReadsAssumption
  <2>3. Computed[c.old][clock] = Computed[c.old][0] /\ Computed[c.new][later] = Computed[c.new][0]
    BY <1>4, <2>1, <2>2, ReadsAssumption
  <2> QED BY <2>3 DEF GridOf, Values
<1> HIDE DEF old, next
<1>7. WorldTypes'
  BY <1>3, <1>4 DEF Feeding, WorldTypes
<1>8. role # "asks"
  BY <1>0, EmptySeq DEF Feeding, FeedTypes
<1>9. log' \in Seq(Event) /\ \A j \in 1..Len(log') : log'[j].id = j /\ Telling(log[j])'
  <2>1. CASE log' = log
    BY <1>3, <2>1 DEF Feeding, FeedTypes, FeedSays, Telling
  <2>2. CASE log' # log
    <3>1. Publish("computed", DeltaText(c, delta), c)
      BY <1>2, <2>2 DEF old, next
    <3> DEFINE data == DeltaText(c, delta)
               e == [id |-> Len(log) + 1, name |-> "computed", data |-> data, old |-> c.old,
                     new |-> c.new, of |-> c.of]
    <3>2. data \in Seq(Token)
      BY <1>3, <1>5, DeltaTellable, DeltaSaid
    <3>3. Telling(e)
      <4>1. e.of <= changes /\ e.name = "computed" /\ e.old = c.old /\ e.new = c.new /\ e.of = c.of /\ e.data = data
        BY <1>1 DEF Landing
      <4>2. DeltaText(e, delta) = DeltaText(c, delta)
        <5> HIDE DEF e, delta
        <5> QED BY <4>1 DEF DeltaText
      <4> HIDE DEF e
      <4> QED BY <1>3, <1>5, <1>6, <4>1, <4>2 DEF Telling
    <3>4. e = [id |-> Len(log) + 1, name |-> "computed", data |-> data, old |-> pending[i].old,
               new |-> pending[i].new, of |-> pending[i].of]
      OBVIOUS
    <3>5. "computed" \in Kinds
      BY DEF Kinds
    <3> HIDE DEF data, e
    <3>6. Publish("computed", data, pending[i])
      BY <3>1 DEF data
    <3> QED BY <1>0, <1>3, <3>2, <3>3, <3>4, <3>5, <3>6, PublishKeeps
  <2> QED BY <2>1, <2>2
<1> HIDE DEF c
<1>10. /\ pending' \in Seq(Landed)
       /\ \A k \in 1..Len(pending') : Landing(pending'[k])
       /\ \A k, m \in 1..Len(pending') : k < m => pending'[k].of < pending'[m].of
  BY <1>0, <1>3, DroppedKeeps
<1>11. \A k \in 1..Len(pending') : Landing(pending[k])'
  BY <1>3, <1>10 DEF Landing
<1>12. role' # "asks" /\ ordered' \in BOOLEAN
  BY <1>3, <1>8
<1> QED BY <1>7, <1>9, <1>10, <1>11, <1>12 DEF Feeding, FeedTypes, FeedSays

LEMMA FeedingHolds ==
  /\ Init => Feeding
  /\ Feeding /\ [Next]_vars => Feeding'
<1>1. ASSUME Init PROVE Feeding
  <2>1. WorldTypes
    BY <1>1, ReadsAssumption DEF Init, WorldTypes, Whole, Unservable
  <2>2. pending = <<>> /\ log = <<>> /\ ordered \in BOOLEAN
    BY <1>1 DEF Init
  <2>3. FeedTypes /\ FeedSays
    BY <2>2, EmptySeq DEF FeedTypes, FeedSays
  <2> QED BY <2>1, <2>3 DEF Feeding
<1>2. ASSUME Feeding, [Next]_vars PROVE Feeding'
  <2>1. CASE Lasting
    <3>1. WorldTypes'
      BY <1>2, <2>1 DEF Feeding, WorldTypes, Lasting
    <3>2. FeedTypes' /\ FeedSays'
      BY <1>2, <2>1 DEF Feeding, FeedTypes, FeedSays, Landing, Telling, Lasting, feed
    <3> QED BY <3>1, <3>2 DEF Feeding
  <2>2. CASE ChangeLands
    <3>1. CASE role = "asks" /\ \E kind, new : new \in Doc \cup Unservable /\ Lands(kind, new)
      BY <1>2, <3>1, LandsKeeps
    <3>2. CASE \E new \in Doc : held \in Doc /\ Lands("changed", new)
      <4>1. PICK new \in Doc : held \in Doc /\ Lands("changed", new)
        BY <3>2
      <4>2. held \in Whole /\ new \in Whole /\ new \in Doc \cup Unservable
        BY <4>1 DEF Whole
      <4> QED BY <1>2, <4>1, <4>2, LandsKeeps
    <3>3. CASE \E new \in Doc : held \in Whole /\ Lands("reset", new)
      <4>1. PICK new \in Doc : held \in Whole /\ Lands("reset", new)
        BY <3>3
      <4>2. new \in Whole /\ new \in Doc \cup Unservable
        BY <4>1 DEF Whole
      <4> QED BY <1>2, <4>1, <4>2, LandsKeeps
    <3>4. CASE held \in Doc /\ Lands("deleted", "missing")
      <4>1. held \in Whole /\ "missing" \in Whole /\ "missing" \in Doc \cup Unservable
        BY <3>4 DEF Whole, Unservable
      <4> QED BY <1>2, <3>4, <4>1, LandsKeeps
    <3> QED BY <2>2, <3>1, <3>2, <3>3, <3>4 DEF ChangeLands
  <2>3. CASE Restart
    <3>1. /\ UNCHANGED <<role, held, clock, changes, unsteady>> /\ deploy' \in Deployment
          /\ pending' = <<>> /\ log' = <<>> /\ ordered' \in BOOLEAN
      BY <2>3 DEF Restart
    <3>2. WorldTypes'
      BY <1>2, <3>1 DEF Feeding, WorldTypes
    <3>3. FeedTypes' /\ FeedSays'
      BY <3>1, EmptySeq DEF FeedTypes, FeedSays
    <3> QED BY <3>2, <3>3 DEF Feeding
  <2>4. CASE \E i \in DOMAIN pending : Announce(i) \/ AnnounceComputed(i)
    BY <1>2, <2>4, AnnounceKeeps, ComputedKeeps
  <2> QED BY <1>2, <2>1, <2>2, <2>3, <2>4, FeedSteps DEF Feeding
<1> QED BY <1>1, <1>2
-----------------------------------------------------------------------------
(* The order of what is announced. *)

(* What an announcement does to the two queues: the change it is of leaves *)
(* or stays as one whose values are to come, and at most one event follows *)
(* the others, named after the change's kind.                              *)
Moved(i) ==
  /\ i \in 1..Len(pending) /\ pending[i].kind \in Kinds
  /\ UNCHANGED <<role, held, deploy, changes, unsteady>>
  /\ ordered' => ordered /\ (i = 1 \/ pending[i].kind = "changed")
  /\ \/ log' = log /\ pending[i].kind = "computed"
     \/ /\ Len(log') = Len(log) + 1 /\ \A j \in 1..Len(log) : log'[j] = log[j]
        /\ log'[Len(log) + 1].of = pending[i].of /\ log'[Len(log) + 1].name = pending[i].kind
        /\ log'[Len(log) + 1].old = pending[i].old /\ log'[Len(log) + 1].new = pending[i].new
  /\ \/ /\ pending[i].kind = "changed" => ~deploy.plane
        /\ Len(pending') = Len(pending) - 1
        /\ \A k \in 1..(Len(pending) - 1) : pending'[k] = pending[IF k < i THEN k ELSE k + 1]
     \/ /\ pending[i].kind = "changed" /\ Len(pending') = Len(pending)
        /\ \A k \in 1..Len(pending) \ {i} : pending'[k] = pending[k]
        /\ pending'[i] = [pending[i] EXCEPT !.kind = "computed"]

LEMMA PublishMoves ==
  ASSUME Feeding, NEW name, NEW data, NEW change, Publish(name, data, change)
  PROVE  /\ Len(log') = Len(log) + 1 /\ \A j \in 1..Len(log) : log'[j] = log[j]
         /\ log'[Len(log) + 1].of = change.of /\ log'[Len(log) + 1].name = name
         /\ log'[Len(log) + 1].old = change.old /\ log'[Len(log) + 1].new = change.new
<1> DEFINE e == [id |-> Len(log) + 1, name |-> name, data |-> data,
                 old |-> change.old, new |-> change.new, of |-> change.of]
           S == Event \cup {e}
<1>1. log \in Seq(Event) /\ Len(log) \in Nat
  BY LenProperties DEF Feeding, FeedTypes
<1>2. /\ e.of = change.of /\ e.name = name
      /\ e.old = change.old /\ e.new = change.new
  OBVIOUS
<1>3. log' = Append(log, e)
  BY DEF Publish
<1>4. log \in Seq(S) /\ e \in S
  <2> HIDE DEF e
  <2> QED BY <1>1, SeqMonotonic
<1> HIDE DEF e, S
<1> QED BY <1>1, <1>2, <1>3, <1>4, AppendProperties

LEMMA AnnouncementMoves ==
  ASSUME Feeding, NEW i \in DOMAIN pending, Announce(i) \/ AnnounceComputed(i)
  PROVE  Moved(i)
<1> DEFINE c == pending[i]
<1>1. /\ pending \in Seq(Landed) /\ i \in 1..Len(pending) /\ c \in Landed /\ ordered \in BOOLEAN
  BY LenProperties, ElementOfSeq DEF Feeding, FeedTypes
<1>2. /\ c.kind \in Kinds
      /\ UNCHANGED <<role, held, deploy, changes, unsteady>>
      /\ ordered' => ordered /\ (i = 1 \/ c.kind = "changed")
  BY <1>1 DEF Announce, AnnounceComputed, world, Landed
<1>3. \/ log' = log /\ c.kind = "computed"
      \/ \E data : Publish(c.kind, data, c)
  BY DEF Announce, AnnounceComputed
<1>4. \/ pending' = Dropped(i) /\ (c.kind = "changed" => ~deploy.plane)
      \/ c.kind = "changed" /\ pending' = [pending EXCEPT ![i].kind = "computed"]
  BY DEF Announce, AnnounceComputed
<1>5. \/ /\ c.kind = "changed" => ~deploy.plane
         /\ Len(pending') = Len(pending) - 1
         /\ \A k \in 1..(Len(pending) - 1) : pending'[k] = pending[IF k < i THEN k ELSE k + 1]
      \/ /\ c.kind = "changed" /\ Len(pending') = Len(pending)
         /\ \A k \in 1..Len(pending) \ {i} : pending'[k] = pending[k]
         /\ pending'[i] = [c EXCEPT !.kind = "computed"]
  <2>1. CASE pending' = Dropped(i) /\ (c.kind = "changed" => ~deploy.plane)
    BY <1>1, <2>1, DroppedIs DEF Feeding
  <2>2. CASE c.kind = "changed" /\ pending' = [pending EXCEPT ![i].kind = "computed"]
    <3> DEFINE d == [c EXCEPT !.kind = "computed"]
    <3>1. d \in Landed
      BY <1>1 DEF Landed, Kinds
    <3>2. pending' = [pending EXCEPT ![i] = d]
      BY <2>2
    <3> HIDE DEF d
    <3>3. /\ Len(pending') = Len(pending)
          /\ \A k \in 1..Len(pending) : pending'[k] = IF k = i THEN d ELSE pending[k]
      BY <1>1, <3>1, <3>2, ExceptSeq
    <3> QED BY <1>1, <2>2, <3>3 DEF d
  <2> QED BY <1>4, <2>1, <2>2
<1> HIDE DEF c
<1>6. \/ log' = log /\ c.kind = "computed"
      \/ /\ Len(log') = Len(log) + 1 /\ \A j \in 1..Len(log) : log'[j] = log[j]
         /\ log'[Len(log) + 1].of = c.of /\ log'[Len(log) + 1].name = c.kind
         /\ log'[Len(log) + 1].old = c.old /\ log'[Len(log) + 1].new = c.new
  BY <1>3, PublishMoves
<1> QED BY <1>1, <1>2, <1>5, <1>6 DEF Moved, c

(* While the changes are announced in their order, so are their values and *)
(* their resets, and what is still to be announced is later.               *)
InOrder ==
  ordered =>
    /\ \A j, k \in 1..Len(log) :
         j < k /\ log[j].name # "changed" /\ log[k].name # "changed" => log[j].of < log[k].of
    /\ \A j \in 1..Len(log), k \in 1..Len(pending) :
         log[j].name # "changed" => log[j].of < pending[k].of

LEMMA Numbers ==
  ASSUME Feeding
  PROVE  /\ \A k \in 1..Len(pending) : pending[k].of \in Nat /\ pending[k].of <= changes
         /\ \A j, k \in 1..Len(pending) : j < k => pending[j].of < pending[k].of
         /\ \A j \in 1..Len(log) : log[j].of \in Nat /\ log[j].of <= changes
         /\ changes \in Nat
<1>1. ASSUME NEW k \in 1..Len(pending) PROVE pending[k].of \in Nat /\ pending[k].of <= changes
  <2>1. pending[k] \in Landed /\ Landing(pending[k])
    BY ElementOfSeq DEF Feeding, FeedTypes, FeedSays
  <2> QED BY <2>1 DEF Landed, Landing
<1>2. ASSUME NEW j \in 1..Len(log) PROVE log[j].of \in Nat /\ log[j].of <= changes
  <2>1. log[j] \in Event /\ Telling(log[j])
    BY ElementOfSeq DEF Feeding, FeedTypes, FeedSays
  <2> QED BY <2>1 DEF Event, Telling
<1> QED BY <1>1, <1>2 DEF Feeding, FeedSays, WorldTypes

LEMMA InOrderHolds ==
  /\ Init => InOrder
  /\ Feeding /\ InOrder /\ [Next]_vars => InOrder'
<1>1. ASSUME Init PROVE InOrder
  <2>1. pending = <<>> /\ log = <<>>
    BY <1>1 DEF Init
  <2> QED BY <2>1, EmptySeq DEF InOrder
<1>2. ASSUME Feeding, InOrder, [Next]_vars PROVE InOrder'
  <2>0. PICK N \in Nat, M \in Nat : N = Len(pending) /\ M = Len(log)
    BY <1>2, LenProperties DEF Feeding, FeedTypes
  <2>1. /\ \A k \in 1..N : pending[k].of \in Nat /\ pending[k].of <= changes
        /\ \A j, k \in 1..N : j < k => pending[j].of < pending[k].of
        /\ \A j \in 1..M : log[j].of \in Nat /\ log[j].of <= changes
        /\ changes \in Nat
    BY <1>2, <2>0, Numbers
  <2>2. CASE Lasting
    BY <1>2, <2>2 DEF InOrder, Lasting, feed
  <2>3. CASE ChangeLands
    <3>1. PICK kind, new : Lands(kind, new)
      BY <2>3 DEF ChangeLands
    <3> DEFINE c == [kind |-> kind, old |-> held, new |-> new, of |-> changes + 1]
               S == Landed \cup {c}
    <3>2. /\ UNCHANGED <<log, ordered>> /\ c.of = changes + 1
          /\ pending' = pending \/ pending' = Append(pending, c)
      BY <3>1 DEF Lands
    <3>3. pending \in Seq(S) /\ c \in S
      <4> HIDE DEF c
      <4> QED BY <1>2, SeqMonotonic DEF Feeding, FeedTypes
    <3> HIDE DEF c, S
    <3>4. \/ pending' = pending
          \/ /\ Len(pending') = N + 1 /\ pending'[N + 1].of = changes + 1
             /\ \A k \in 1..N : pending'[k] = pending[k]
      BY <2>0, <3>2, <3>3, AppendProperties
    <3>5. CASE pending' = pending
      BY <1>2, <3>2, <3>5 DEF InOrder
    <3>6. CASE /\ Len(pending') = N + 1 /\ pending'[N + 1].of = changes + 1
               /\ \A k \in 1..N : pending'[k] = pending[k]
      <4> SUFFICES ASSUME ordered, NEW j \in 1..M, NEW k \in 1..(N + 1), log[j].name # "changed"
                   PROVE  log[j].of < pending'[k].of
        BY <1>2, <2>0, <3>2, <3>6 DEF InOrder
      <4>1. CASE k \in 1..N
        BY <1>2, <2>0, <3>6, <4>1 DEF InOrder
      <4>2. CASE k = N + 1
        BY <2>1, <3>6, <4>2
      <4> QED BY <4>1, <4>2
    <3> QED BY <3>4, <3>5, <3>6
  <2>4. CASE Restart
    <3>1. pending' = <<>> /\ log' = <<>>
      BY <2>4 DEF Restart
    <3> QED BY <3>1, EmptySeq DEF InOrder
  <2>5. CASE \E i \in DOMAIN pending : Announce(i) \/ AnnounceComputed(i)
    <3>1. PICK i \in 1..N : Moved(i)
      BY <1>2, <2>0, <2>5, AnnouncementMoves DEF Moved
    <3> SUFFICES ASSUME ordered' PROVE InOrder'
      BY DEF InOrder
    <3>2. ordered /\ (i = 1 \/ pending[i].kind = "changed")
      BY <3>1 DEF Moved
    <3>3. /\ \A j, k \in 1..M :
               j < k /\ log[j].name # "changed" /\ log[k].name # "changed" => log[j].of < log[k].of
          /\ \A j \in 1..M, k \in 1..N : log[j].name # "changed" => log[j].of < pending[k].of
      BY <1>2, <2>0, <3>2 DEF InOrder
    <3>4. \/ log' = log
          \/ /\ Len(log') = M + 1 /\ \A j \in 1..M : log'[j] = log[j]
             /\ log'[M + 1].of = pending[i].of /\ log'[M + 1].name = pending[i].kind
      BY <2>0, <3>1 DEF Moved
    <3>5. PICK P \in Nat : /\ Len(pending') = P
                          /\ \A k \in 1..P : \E m \in 1..N :
                               /\ pending'[k].of = pending[m].of
                               /\ pending[i].kind # "changed" => m # i
      <4>1. CASE /\ Len(pending') = N - 1
                 /\ \A k \in 1..(N - 1) : pending'[k] = pending[IF k < i THEN k ELSE k + 1]
        <5>1. \A k \in 1..(N - 1) : (IF k < i THEN k ELSE k + 1) \in 1..N \ {i}
          BY <2>0
        <5>2. N - 1 \in Nat
          BY <2>0
        <5>3. \A k \in 1..(N - 1) : \E m \in 1..N : pending'[k].of = pending[m].of /\ m # i
          BY <4>1, <5>1
        <5> QED BY <4>1, <5>2, <5>3
      <4>2. CASE /\ pending[i].kind = "changed" /\ Len(pending') = N
                 /\ \A k \in 1..N \ {i} : pending'[k] = pending[k]
                 /\ pending'[i] = [pending[i] EXCEPT !.kind = "computed"]
        <5>0. pending[i] \in Landed
          BY <1>2, <2>0, ElementOfSeq DEF Feeding, FeedTypes
        <5>1. pending'[i].of = pending[i].of
          BY <4>2, <5>0 DEF Landed
        <5> QED BY <4>2, <5>1
      <4> QED BY <2>0, <3>1, <4>1, <4>2 DEF Moved
    <3>6. \A j \in 1..M, k \in 1..P : log[j].name # "changed" => log[j].of < pending'[k].of
      BY <3>3, <3>5
    <3>7. CASE log' = log
      BY <2>0, <3>3, <3>5, <3>6, <3>7 DEF InOrder
    <3>8. CASE /\ Len(log') = M + 1 /\ \A j \in 1..M : log'[j] = log[j]
               /\ log'[M + 1].of = pending[i].of /\ log'[M + 1].name = pending[i].kind
      <4>1. ASSUME NEW j \in 1..(M + 1), NEW k \in 1..(M + 1), j < k,
                   log'[j].name # "changed", log'[k].name # "changed"
            PROVE  log'[j].of < log'[k].of
        <5>1. j \in 1..M /\ (k \in 1..M \/ k = M + 1)
          BY <4>1
        <5> QED BY <3>3, <3>8, <4>1, <5>1
      <4>2. ASSUME NEW j \in 1..(M + 1), NEW k \in 1..P, log'[j].name # "changed"
            PROVE  log'[j].of < pending'[k].of
        <5>1. CASE j \in 1..M
          BY <3>6, <3>8, <4>2, <5>1
        <5>2. CASE j = M + 1
          <6>1. i = 1 /\ log'[j].of = pending[1].of
            BY <3>2, <3>8, <4>2, <5>2
          <6>2. PICK m \in 1..N : pending'[k].of = pending[m].of /\ m # 1
            BY <3>2, <3>5, <3>8, <4>2, <5>2, <6>1
          <6>3. 1 \in 1..N /\ 1 < m
            BY <6>2
          <6> QED BY <2>1, <6>1, <6>2, <6>3
        <5> QED BY <4>2, <5>1, <5>2
      <4> QED BY <3>5, <3>8, <4>1, <4>2 DEF InOrder
    <3> QED BY <3>4, <3>7, <3>8
  <2> QED BY <1>2, <2>2, <2>3, <2>4, <2>5, FeedSteps DEF Feeding
<1> QED BY <1>1, <1>2
-----------------------------------------------------------------------------
(* The stream and its reader. *)

(* A frame, as its reader takes it. *)
LEMMA FrameRead ==
  ASSUME NEW event, event.id \in Nat, event.data \in Seq(Token), NEW id \in Nat
  PROVE  /\ WriteEvent(event) # <<>>
         /\ WriteEvent(event)[1].field = "id" <=> event.id > 0
         /\ EventOf(id, WriteEvent(event)).id = IF event.id > 0 THEN event.id ELSE id
         /\ EventOf(id, WriteEvent(event)).name = event.name
         /\ Unbroken(event.data) =>
              EventOf(id, WriteEvent(event)).data = SplitDataLines(event.data)
         /\ EventOf(id, WriteEvent(event)).data = <<>> <=> event.data = <<>>
<1> DEFINE frame == WriteEvent(event)
           lines == SplitDataLines(event.data)
           short == [i \in DOMAIN lines |-> UpToReturn(lines[i])]
           L == Len(lines)
           o == IdLines(event)
<1>1. Newline \in Token
  BY Tokens
<1>2. /\ EventOf(id, frame) = [id |-> IF event.id > 0 THEN event.id ELSE id,
                               name |-> event.name, data |-> short]
      /\ Unbroken(event.data) => EventOf(id, frame).data = lines
  BY <1>1, FramesAreWhole
<1>3. lines \in Seq(Seq(Token)) /\ (lines = <<>> <=> event.data = <<>>)
  BY <1>1, SplitJoins
<1>4. /\ Len(frame) = o + L + 2
      /\ o = 1 => frame[1] = [field |-> "id", value |-> event.id]
      /\ frame[o + 1] = [field |-> "event", value |-> event.name]
  BY <1>1, FrameLines
<1>5. L \in Nat /\ o \in {0, 1} /\ (o = 1 <=> event.id > 0)
  <2>1. L \in Nat
    <3> HIDE DEF lines
    <3> QED BY <1>3, LenProperties
  <2> QED BY <2>1 DEF IdLines
<1> HIDE DEF frame, lines, L, o
<1>8. short = <<>> <=> lines = <<>>
  <2>1. DOMAIN lines = 1..L
    BY <1>3, LenProperties DEF L
  <2>2. short = [i \in 1..L |-> short[i]]
    BY <2>1
  <2> HIDE DEF short
  <2> DEFINE K == {short[i] : i \in 1..L}
  <2>3. \A i \in 1..L : short[i] \in K
    OBVIOUS
  <2> HIDE DEF K
  <2>4. short \in [1..L -> K]
    BY <2>2, <2>3
  <2>5. short \in Seq(K) /\ Len(short) = L
    BY <1>5, <2>4
  <2> QED BY <1>3, <2>5, EmptySeq DEF L
<1> HIDE DEF short
<1>6. frame # <<>>
  BY <1>4, <1>5, EmptySeq
<1>7. frame[1].field = "id" <=> event.id > 0
  <2>1. CASE o = 1
    BY <1>4, <1>5, <2>1
  <2>2. CASE o = 0
    BY <1>4, <1>5, <2>2
  <2> QED BY <1>5, <2>1, <2>2
<1> QED BY <1>2, <1>3, <1>6, <1>7, <1>8 DEF frame, lines

Reset(d) == [id |-> 0, name |-> "reset", data |-> <<<<"rev", d>>>>]

LEMMA ResetRead ==
  ASSUME NEW d \in Doc
  PROVE  /\ WriteEvent(Reset(d)) # <<>> /\ WriteEvent(Reset(d))[1].field # "id"
         /\ \A id \in Nat : LET event == EventOf(id, WriteEvent(Reset(d))) IN
              event.id = id /\ event.name = "reset" /\ event.data # <<>>
<1>1. <<"rev", d>> \in Token
  BY Tokens
<1>2. /\ Reset(d).id = 0 /\ Reset(d).name = "reset"
      /\ Reset(d).data = <<<<"rev", d>>>>
  BY DEF Reset
<1>3. Reset(d).id \in Nat /\ ~(Reset(d).id > 0)
  BY <1>2
<1>4. <<<<"rev", d>>>> \in Seq(Token) /\ Len(<<<<"rev", d>>>>) = 1
  BY <1>1
<1>5. Reset(d).data \in Seq(Token) /\ Reset(d).data # <<>>
  BY <1>2, <1>4, EmptySeq
<1> HIDE DEF Reset
<1>6. ASSUME NEW id \in Nat
      PROVE  /\ WriteEvent(Reset(d)) # <<>> /\ WriteEvent(Reset(d))[1].field # "id"
             /\ EventOf(id, WriteEvent(Reset(d))).id = id
             /\ EventOf(id, WriteEvent(Reset(d))).name = "reset"
             /\ EventOf(id, WriteEvent(Reset(d))).data # <<>>
  BY <1>2, <1>3, <1>5, FrameRead
<1>7. 0 \in Nat
  OBVIOUS
<1> QED BY <1>6, <1>7

StreamTypes ==
  /\ conn \in {"away", "found", "open"} /\ joined \in 0..Len(log) /\ sent \in 0..Len(log)
  /\ lastId \in Nat /\ dated \in BOOLEAN /\ gone \in BOOLEAN /\ sure \in BOOLEAN
  /\ role = "asks" => conn = "away" /\ lastId = 0

(* Why a reader may be behind a subscription: it had no id, or was told.   *)
Excused == lastId = 0 \/ (got.name = "reset" /\ (dated \/ gone))

(* What may be on its way: a reset instead of what is missing, or an event *)
(* that follows the last one the reader has.                               *)
Resetting ==
  /\ sent = joined /\ lastId > 0 /\ (dated \/ gone)
  /\ \E d \in Doc : wire = WriteEvent(Reset(d))

Delivering ==
  /\ sent \in 1..Len(log) /\ wire = WriteEvent(log[sent])
  /\ lastId = sent - 1 \/ (joined = sent - 1 /\ Excused)

Connected ==
  IF wire = <<>> THEN lastId = sent \/ (sent = joined /\ Excused)
  ELSE Resetting \/ Delivering

StreamSays ==
  /\ conn = "found" => head \in Doc
  /\ conn # "open" => sent = 0 /\ joined = 0 /\ wire = <<>> /\ got = Nothing
  /\ conn = "open" => Connected
  /\ ~dated => lastId <= Len(log)

Streaming == StreamTypes /\ StreamSays

(* What the steps of others leave the stream and its reader. *)
StreamLasts ==
  /\ UNCHANGED <<role, stream, lastId, dated, gone, got, copy>>
  /\ sure' \in BOOLEAN /\ (sure' => sure)
  /\ Len(log) <= Len(log') /\ Len(log') \in Nat
  /\ \A j \in 1..Len(log) : log'[j] = log[j]

LEMMA StreamSteps ==
  ASSUME Feeding, Streaming, [Next]_vars
  PROVE  \/ StreamLasts \/ Restart \/ (Following /\ UNCHANGED log)
<1>0. sure \in BOOLEAN /\ Len(log) \in Nat
  BY LenProperties DEF Streaming, StreamTypes, Feeding, FeedTypes
<1>1. ASSUME UNCHANGED <<role, stream, lastId, dated, gone, got, copy>>,
             sure' \in BOOLEAN /\ (sure' => sure), UNCHANGED log
      PROVE  StreamLasts
  BY <1>0, <1>1 DEF StreamLasts
<1>2. CASE Change
  <2>1. PICK kind, new : Lands(kind, new)
    BY <1>2 DEF Change, Post, Put, Delete, OutOfBand
  <2>2. UNCHANGED <<role, stream, lastId, dated, gone, got, copy, log>>
    BY <2>1 DEF Lands
  <2>3. sure' \in BOOLEAN /\ (sure' => sure)
    BY <2>1 DEF Lands
  <2> QED BY <1>1, <2>2, <2>3
<1>3. CASE Announcing
  <2>1. PICK i \in DOMAIN pending : Announce(i) \/ AnnounceComputed(i)
    BY <1>3 DEF Announcing
  <2>2. UNCHANGED <<role, stream, reader>>
    BY <2>1 DEF Announce, AnnounceComputed, world
  <2>3. Moved(i)
    BY <2>1, AnnouncementMoves
  <2>4. Len(log) <= Len(log') /\ Len(log') \in Nat /\ \A j \in 1..Len(log) : log'[j] = log[j]
    BY <1>0, <2>3 DEF Moved
  <2> QED BY <1>0, <2>2, <2>4 DEF StreamLasts, reader
<1>4. CASE Tick
  BY <1>0, <1>1, <1>4 DEF Tick, feed, reader
<1>5. CASE Asking
  <2>1. UNCHANGED <<world, feed, stream, reader>>
    BY <1>5 DEF Asking, Ask, Route, AnswerFeed, Load, LoadFails, AnswerDocument, AnswerRef,
                Done, Full, Represent, Answer, AskOnly
  <2> QED BY <1>0, <1>1, <2>1 DEF world, feed, reader
<1>6. CASE Following
  <2>1. UNCHANGED log
    BY <1>6 DEF Following, FeedGet, FeedSubscribe, Send, Receive, Cut, Fetch, FollowOnly, feed
  <2> QED BY <1>6, <2>1
<1>7. CASE UNCHANGED vars
  BY <1>0, <1>1, <1>7 DEF vars, world, feed, reader
<1> QED BY <1>2, <1>3, <1>4, <1>5, <1>6, <1>7 DEF Next

(* What a reader receives is the reset or the event on its way. *)
LEMMA Receiving ==
  ASSUME Feeding, Streaming, Receive
  PROVE  /\ conn = "open" /\ wire # <<>>
         /\ \/ /\ Resetting /\ wire[1].field # "id" /\ lastId' = lastId
               /\ UNCHANGED <<dated, gone, conn, joined, sent>> /\ wire' = <<>>
               /\ got'.name = "reset" /\ Received.name = "reset" /\ Received.data # <<>>
            \/ /\ Delivering /\ wire[1].field = "id" /\ lastId' = sent /\ ~dated' /\ ~gone'
               /\ log[sent] \in Event /\ Telling(log[sent])
               /\ Received.id = sent /\ Received.name = log[sent].name
               /\ Unbroken(log[sent].data) => Received.data = SplitDataLines(log[sent].data)
               /\ Received.data = <<>> <=> log[sent].data = <<>>
               /\ \/ Hangup /\ log[sent].name = "deleted"
                  \/ /\ wire' = <<>> /\ UNCHANGED <<conn, head, joined, sent>>
                     /\ got' = IF Received.data = <<>> THEN got ELSE Received
<1>1. wire # <<>> /\ conn = "open"
  BY DEF Receive, Streaming, StreamSays
<1>2. CASE Resetting
  <2>1. PICK d \in Doc : wire = WriteEvent(Reset(d))
    BY <1>2 DEF Resetting
  <2>2. lastId \in Nat
    BY DEF Streaming, StreamTypes
  <2>4. /\ wire[1].field # "id" /\ Received.id = lastId /\ Received.name = "reset"
        /\ Received.data # <<>>
    BY <2>1, <2>2, ResetRead DEF Received
  <2>5. ~(sent > joined) /\ dated \in BOOLEAN /\ gone \in BOOLEAN
    BY <1>2 DEF Resetting, Streaming, StreamTypes
  <2> QED BY <1>1, <1>2, <2>4, <2>5 DEF Receive
<1>3. CASE Delivering
  <2>1. /\ log[sent] \in Event /\ Telling(log[sent]) /\ log[sent].id = sent
        /\ sent > 0 /\ sent \in Nat /\ wire = WriteEvent(log[sent]) /\ lastId \in Nat
    BY <1>3, ElementOfSeq DEF Delivering, Feeding, FeedTypes, FeedSays, Streaming, StreamTypes
  <2>2. log[sent].id \in Nat /\ log[sent].data \in Seq(Token)
    BY <2>1 DEF Event
  <2>3. /\ wire[1].field = "id" /\ Received.id = sent /\ Received.name = log[sent].name
        /\ Unbroken(log[sent].data) => Received.data = SplitDataLines(log[sent].data)
        /\ Received.data = <<>> <=> log[sent].data = <<>>
    BY <2>1, <2>2, FrameRead DEF Received
  <2>4. lastId' = sent /\ ~dated' /\ ~gone'
    BY <2>3 DEF Receive
  <2>5. \/ Hangup /\ log[sent].name = "deleted"
        \/ /\ wire' = <<>> /\ UNCHANGED <<conn, head, joined, sent>>
           /\ got' = IF Received.data = <<>> THEN got ELSE Received
    BY DEF Receive, Ends
  <2> QED BY <1>1, <1>3, <2>1, <2>3, <2>4, <2>5
<1> QED BY <1>1, <1>2, <1>3 DEF Streaming, StreamSays, Connected

LEMMA StreamingHolds ==
  /\ Init => Streaming
  /\ Feeding /\ Streaming /\ [Next]_vars => Streaming'
<1>1. ASSUME Init PROVE Streaming
  <2>1. Len(log) = 0
    BY <1>1, EmptySeq DEF Init
  <2>2. /\ conn = "away" /\ joined = 0 /\ sent = 0 /\ wire = <<>> /\ got = Nothing
        /\ lastId = 0 /\ dated = FALSE /\ gone = FALSE /\ sure = FALSE
    BY <1>1 DEF Init
  <2>3. StreamTypes
    <3>1. 0 \in 0..0 /\ 0 \in Nat
      OBVIOUS
    <3> QED BY <2>1, <2>2, <3>1 DEF StreamTypes
  <2>4. StreamSays
    <3>1. 0 <= 0
      OBVIOUS
    <3> QED BY <2>1, <2>2, <3>1 DEF StreamSays
  <2> QED BY <2>3, <2>4 DEF Streaming
<1>2. ASSUME Feeding, Streaming, [Next]_vars PROVE Streaming'
  <2>0. PICK M \in Nat : M = Len(log)
    BY <1>2, LenProperties DEF Feeding, FeedTypes
  <2>1. CASE StreamLasts
    <3>1. StreamTypes'
      BY <1>2, <2>0, <2>1 DEF Streaming, StreamTypes, StreamLasts, stream
    <3>2. Connected => Connected'
      <4>1. sent \in 1..M => sent \in 1..Len(log') /\ log'[sent] = log[sent]
        BY <2>0, <2>1 DEF StreamLasts
      <4>2. Delivering => Delivering'
        BY <2>0, <2>1, <4>1 DEF Delivering, Excused, StreamLasts, stream
      <4>3. Resetting => Resetting'
        BY <2>1 DEF Resetting, StreamLasts, stream
      <4> QED BY <2>1, <4>2, <4>3 DEF Connected, Excused, StreamLasts, stream
    <3>3. ~dated => lastId <= Len(log')
      BY <1>2, <2>0, <2>1 DEF Streaming, StreamTypes, StreamSays, StreamLasts
    <3>4. StreamSays'
      BY <1>2, <2>1, <3>2, <3>3 DEF Streaming, StreamSays, StreamLasts, stream
    <3> QED BY <3>1, <3>4 DEF Streaming
  <2>2. CASE Restart
    <3>1. /\ log' = <<>> /\ conn' = "away" /\ joined' = 0 /\ sent' = 0 /\ wire' = <<>> /\ got' = Nothing
          /\ UNCHANGED <<role, lastId>> /\ dated' = (lastId > 0) /\ gone' = FALSE /\ sure' = FALSE
      BY <2>2 DEF Restart, Hangup
    <3>2. Len(log') = 0 /\ lastId \in Nat
      BY <1>2, <3>1, EmptySeq DEF Streaming, StreamTypes
    <3>3. StreamTypes'
      <4>1. 0 \in 0..Len(log') /\ (lastId > 0) \in BOOLEAN
        BY <3>2
      <4>2. role = "asks" => lastId = 0
        BY <1>2 DEF Streaming, StreamTypes
      <4> QED BY <3>1, <3>2, <4>1, <4>2 DEF StreamTypes
    <3>4. StreamSays'
      <4>1. ~dated' => lastId' <= Len(log')
        <5>1. CASE lastId > 0
          BY <3>1, <5>1
        <5>2. CASE ~(lastId > 0)
          BY <3>1, <3>2, <5>2
        <5> QED BY <5>1, <5>2
      <4> QED BY <3>1, <4>1 DEF StreamSays
    <3> QED BY <3>3, <3>4 DEF Streaming
  <2>3. CASE Following /\ UNCHANGED log
    <3>0. /\ joined \in 0..M /\ sent \in 0..M /\ lastId \in Nat /\ UNCHANGED <<role, log>>
          /\ dated \in BOOLEAN /\ gone \in BOOLEAN /\ sure \in BOOLEAN
          /\ role = "asks" => conn = "away" /\ lastId = 0
          /\ ~dated => lastId <= M
      BY <1>2, <2>0, <2>3 DEF Streaming, StreamTypes, StreamSays, Following, FeedGet, FeedSubscribe,
                              Send, Receive, Cut, Fetch, FollowOnly, world
    <3>1. CASE FeedGet
      <4>1. /\ role = "follows" /\ conn = "away" /\ conn' = "found" /\ head' \in Doc
            /\ UNCHANGED <<joined, sent, wire, lastId, dated, gone, got, copy, sure>>
        BY <3>1 DEF FeedGet, reader
      <4> QED BY <1>2, <2>0, <3>0, <4>1 DEF Streaming, StreamTypes, StreamSays
    <3>2. CASE FeedSubscribe
      <4>1. /\ conn = "found" /\ head \in Doc /\ wire = <<>> /\ role # "asks"
            /\ conn' = "open" /\ joined' = M /\ UNCHANGED <<lastId, dated, got>>
        BY <1>2, <2>0, <3>0, <3>2 DEF FeedSubscribe, Streaming, StreamSays
      <4>2. CASE /\ lastId = 0 /\ sent' = Len(log) /\ wire' = <<>> /\ copy' = Nothing
                 /\ UNCHANGED <<gone, sure>>
        BY <2>0, <3>0, <4>1, <4>2 DEF Streaming, StreamTypes, StreamSays, Connected, Excused
      <4>3. CASE /\ lastId \in 1..Len(log) /\ ~gone /\ sent' = lastId /\ wire' = <<>>
                 /\ sure' = (sure /\ ~dated)
                 /\ UNCHANGED <<gone, copy>>
        BY <2>0, <3>0, <4>1, <4>3 DEF Streaming, StreamTypes, StreamSays, Connected, Excused
      <4>4. CASE /\ lastId > 0 /\ sent' = Len(log) /\ gone' = (lastId <= Len(log))
                 /\ wire' = WriteEvent([id |-> 0, name |-> "reset", data |-> <<<<"rev", head>>>>])
                 /\ UNCHANGED <<copy, sure>>
        <5>1. wire' = WriteEvent(Reset(head))
          BY <4>4 DEF Reset
        <5>2. Resetting' /\ wire' # <<>>
          <6>3. WriteEvent(Reset(head)) # <<>>
            BY <4>1, ResetRead
          <6>4. dated' \/ gone'
            BY <2>0, <3>0, <4>1, <4>4
          <6>5. sent' = joined' /\ lastId' > 0
            BY <2>0, <4>1, <4>4
          <6> QED BY <4>1, <5>1, <6>3, <6>4, <6>5 DEF Resetting
        <5>3. StreamTypes'
          BY <2>0, <3>0, <4>1, <4>4 DEF StreamTypes
        <5>4. StreamSays'
          BY <2>0, <3>0, <4>1, <5>2 DEF StreamSays, Connected
        <5> QED BY <5>3, <5>4 DEF Streaming
      <4> QED BY <3>2, <4>2, <4>3, <4>4 DEF FeedSubscribe
    <3>3. CASE Send
      <4>1. /\ conn = "open" /\ wire = <<>> /\ sent < M /\ sent' = sent + 1
            /\ wire' = WriteEvent(log[sent + 1])
            /\ UNCHANGED <<conn, head, joined, lastId, dated, gone, got, copy, sure>>
        BY <2>0, <3>3 DEF Send, reader
      <4>2. sent' \in 1..M /\ sent' - 1 = sent
        BY <3>0, <4>1
      <4>3. wire' # <<>>
        <5>1. log[sent + 1] \in Event
          BY <1>2, <2>0, <4>1, <4>2, ElementOfSeq DEF Feeding, FeedTypes
        <5>2. log[sent + 1].id \in Nat /\ log[sent + 1].data \in Seq(Token)
          BY <5>1 DEF Event
        <5> QED BY <3>0, <4>1, <5>2, FrameRead
      <4>4. Delivering'
        <5>1. lastId = sent \/ (sent = joined /\ Excused)
          BY <1>2, <4>1 DEF Streaming, StreamSays, Connected
        <5>2. lastId' = sent' - 1 \/ (joined' = sent' - 1 /\ Excused')
          BY <4>1, <4>2, <5>1 DEF Excused
        <5> QED BY <2>0, <3>0, <4>1, <4>2, <5>2 DEF Delivering
      <4>5. StreamTypes'
        BY <2>0, <3>0, <4>1, <4>2 DEF StreamTypes
      <4>6. StreamSays'
        BY <2>0, <3>0, <4>1, <4>3, <4>4 DEF StreamSays, Connected
      <4> QED BY <4>5, <4>6 DEF Streaming
    <3>4. CASE Receive
      <4>0. dated' \in BOOLEAN /\ gone' \in BOOLEAN /\ sure' = sure /\ conn = "open" /\ wire # <<>> /\ role # "asks"
        BY <1>2, <3>0, <3>4, Receiving DEF Receive
      <4>1. CASE /\ Resetting /\ lastId' = lastId
                 /\ UNCHANGED <<dated, gone, conn, joined, sent>> /\ wire' = <<>>
                 /\ got'.name = "reset"
        <5>1. Connected'
          BY <4>1 DEF Connected, Excused, Resetting
        <5> QED BY <2>0, <3>0, <4>0, <4>1, <5>1 DEF Streaming, StreamTypes, StreamSays
      <4>2. CASE /\ Delivering /\ lastId' = sent /\ ~dated' /\ ~gone'
                 /\ \/ Hangup
                    \/ wire' = <<>> /\ UNCHANGED <<conn, head, joined, sent>>
        <5>1. CASE Hangup
          <6>1. conn' = "away" /\ joined' = 0 /\ sent' = 0 /\ wire' = <<>> /\ got' = Nothing
            BY <5>1 DEF Hangup
          <6> QED BY <2>0, <3>0, <4>0, <4>2, <6>1 DEF Streaming, StreamTypes, StreamSays
        <5>2. CASE wire' = <<>> /\ UNCHANGED <<conn, head, joined, sent>>
          BY <2>0, <3>0, <4>0, <4>2, <5>2 DEF Streaming, StreamTypes, StreamSays, Connected
        <5> QED BY <4>2, <5>1, <5>2
      <4> QED BY <1>2, <3>4, <4>1, <4>2, Receiving
    <3>5. CASE Cut
      <4>1. /\ conn' = "away" /\ joined' = 0 /\ sent' = 0 /\ wire' = <<>> /\ got' = Nothing
            /\ UNCHANGED <<lastId, dated, gone, copy, sure>>
        BY <3>5 DEF Cut, Hangup
      <4> QED BY <2>0, <3>0, <4>1 DEF Streaming, StreamTypes, StreamSays
    <3>6. CASE Fetch
      <4>1. UNCHANGED <<stream, lastId, dated, gone, got>> /\ sure' \in BOOLEAN
        BY <3>6 DEF Fetch
      <4> QED BY <1>2, <2>0, <3>0, <4>1 DEF Streaming, StreamTypes, StreamSays, Connected, Excused,
                                          Resetting, Delivering, stream
    <3> QED BY <2>3, <3>1, <3>2, <3>3, <3>4, <3>5, <3>6 DEF Following
  <2> QED BY <1>2, <2>1, <2>2, <2>3, StreamSteps
<1> QED BY <1>1, <1>2
-----------------------------------------------------------------------------
(* The request and its answer. *)

Statuses == {200, 204, 404, 405, 406, 413, 500}

Whether(a) == a.status >= 400 <=> a.slug # Nothing

AskTypes ==
  /\ pc \in {"idle", "asked", "loaded", "answered"}
  /\ ask \in Asks \cup {Nothing} /\ snap \in Doc \cup {Nothing}
  /\ pc = "answered" <=> ans.status \in Statuses
  /\ Whether(ans)

LEMMA AnswersKnown ==
  /\ NoAnswer.status = 0 /\ NoAnswer.slug = Nothing /\ Whether(NoAnswer)
  /\ \A why : ErrorProblem(why).status \in Statuses /\ Whether(ErrorProblem(why))
  /\ \A status \in {404, 405, 406}, slug \in Slugs :
       Problem(status, slug).status \in Statuses /\ Whether(Problem(status, slug))
<1>1. ASSUME NEW status \in {404, 405, 406, 413, 500}, NEW slug \in Slugs
      PROVE  Problem(status, slug).status \in Statuses /\ Whether(Problem(status, slug))
  <2>1. slug # Nothing
    BY SentinelsAssumption
  <2>2. Problem(status, slug).status = status /\ Problem(status, slug).slug = slug
    BY DEF Problem, NoAnswer
  <2>3. status >= 400
    OBVIOUS
  <2> QED BY <2>1, <2>2, <2>3 DEF Statuses, Whether
<1>2. ASSUME NEW why PROVE ErrorProblem(why).status \in Statuses /\ Whether(ErrorProblem(why))
  <2>1. "not-found" \in Slugs /\ "document-too-large" \in Slugs /\ "internal" \in Slugs
    BY DEF Slugs
  <2>2. ErrorProblem(why) \in {Problem(404, "not-found"), Problem(413, "document-too-large"),
                               Problem(500, "internal")}
    BY DEF ErrorProblem
  <2> QED BY <1>1, <2>1, <2>2
<1>3. NoAnswer.status = 0 /\ NoAnswer.slug = Nothing /\ Whether(NoAnswer)
  <2>1. NoAnswer.status = 0 /\ NoAnswer.slug = Nothing
    BY DEF NoAnswer
  <2>2. ~(0 >= 400)
    OBVIOUS
  <2> QED BY <2>1, <2>2 DEF Whether
<1> QED BY <1>1, <1>2, <1>3

LEMMA AnsweredTypes ==
  ASSUME AskTypes, NEW a, Answer(a), a.status \in Statuses, Whether(a), UNCHANGED snap
  PROVE  AskTypes'
<1>1. pc' = "answered" /\ ans' = a /\ UNCHANGED <<ask, snap>>
  BY DEF Answer, AskOnly
<1> QED BY <1>1 DEF AskTypes, Whether

LEMMA AskTypesHold ==
  /\ Init => AskTypes
  /\ Placed /\ AskTypes /\ [Next]_vars => AskTypes'
<1>0. 0 \notin Statuses
  BY DEF Statuses
<1>1. ASSUME Init PROVE AskTypes
  BY <1>0, <1>1, AnswersKnown DEF Init, AskTypes, Whether
<1>2. ASSUME Placed, AskTypes, [Next]_vars PROVE AskTypes'
  <2>1. CASE UNCHANGED asking
    BY <1>2, <2>1 DEF AskTypes, Whether, asking
  <2>2. CASE Restart \/ Done
    <3>1. pc' = "idle" /\ ask' = Nothing /\ snap' = Nothing /\ ans' = NoAnswer
      BY <2>2 DEF Restart, Done
    <3> QED BY <1>0, <3>1, AnswersKnown DEF AskTypes, Whether
  <2>3. CASE Ask
    <3>1. pc = "idle" /\ pc' = "asked" /\ ask' \in Asks /\ UNCHANGED <<snap, ans>>
      BY <2>3 DEF Ask
    <3> QED BY <1>2, <3>1 DEF AskTypes, Whether
  <2>4. CASE Route
    <3>1. UNCHANGED snap /\ \/ Answer(Problem(404, "not-found")) \/ Answer(Problem(405, "bad-request"))
                            \/ Answer([NoAnswer EXCEPT !.status = 204])
      BY <2>4 DEF Route
    <3>2. "not-found" \in Slugs /\ "bad-request" \in Slugs
      BY DEF Slugs
    <3> DEFINE a == [NoAnswer EXCEPT !.status = 204]
    <3>3. a.status \in Statuses /\ Whether(a)
      <4>1. a.status = 204 /\ a.slug = Nothing /\ ~(204 >= 400)
        BY DEF NoAnswer
      <4> HIDE DEF a
      <4> QED BY <4>1 DEF Statuses, Whether
    <3> HIDE DEF a
    <3>4. CASE Answer(a)
      BY <1>2, <3>1, <3>3, <3>4, AnsweredTypes
    <3>5. CASE Answer(Problem(404, "not-found")) \/ Answer(Problem(405, "bad-request"))
      BY <1>2, <3>1, <3>2, <3>5, AnswersKnown, AnsweredTypes
    <3> QED BY <3>1, <3>4, <3>5 DEF a
  <2>5. CASE AnswerFeed
    <3> DEFINE a == [NoAnswer EXCEPT !.status = 200, !.type = "stream", !.cache = "no-store"]
    <3>1. UNCHANGED snap /\ (Answer(a) \/ Answer(ErrorProblem(held)))
      BY <2>5 DEF AnswerFeed
    <3>2. a.status \in Statuses /\ Whether(a)
      <4>1. a.status = 200 /\ a.slug = Nothing /\ ~(200 >= 400)
        BY DEF NoAnswer
      <4> HIDE DEF a
      <4> QED BY <4>1 DEF Statuses, Whether
    <3> HIDE DEF a
    <3> QED BY <1>2, <3>1, <3>2, AnswersKnown, AnsweredTypes
  <2>6. CASE LoadFails
    <3>1. UNCHANGED snap /\ Answer(ErrorProblem("read"))
      BY <2>6 DEF LoadFails
    <3> QED BY <1>2, <3>1, AnswersKnown, AnsweredTypes
  <2>7. CASE Load
    <3>1. CASE held \in Doc /\ Pinned(held)
      <4>1. pc = "asked" /\ pc' = "loaded" /\ snap' = held /\ UNCHANGED <<ask, ans>>
        BY <2>7, <3>1 DEF Load, ToRead, AskOnly
      <4> QED BY <1>2, <3>1, <4>1 DEF AskTypes, Whether
    <3>2. CASE ~(held \in Doc /\ Pinned(held))
      <4>1. UNCHANGED snap /\ (Answer(Problem(404, "not-found")) \/ Answer(ErrorProblem(held)))
        BY <2>7, <3>2 DEF Load
      <4>2. "not-found" \in Slugs
        BY DEF Slugs
      <4> QED BY <1>2, <4>1, <4>2, AnswersKnown, AnsweredTypes
    <3> QED BY <3>1, <3>2
  <2>8. ASSUME NEW type, NEW body, Represent(type, body), UNCHANGED snap PROVE AskTypes'
    <3> DEFINE a == [NoAnswer EXCEPT !.status = 200, !.type = type, !.body = body,
                                     !.tag = Validator(type).tag, !.cache = Validator(type).cache]
    <3>1. Answer(a)
      BY <2>8 DEF Represent
    <3>2. a.status = 200 /\ a.slug = Nothing /\ ~(200 >= 400)
      BY DEF NoAnswer
    <3> HIDE DEF a
    <3>3. a.status \in Statuses /\ Whether(a)
      BY <3>2 DEF Statuses, Whether
    <3> QED BY <1>2, <2>8, <3>1, <3>3, AnsweredTypes
  <2>9. CASE AnswerDocument
    <3>1. UNCHANGED snap
      BY <2>9 DEF AnswerDocument
    <3>2. (\E type, body : Represent(type, body)) \/ Answer(Problem(406, "not-acceptable"))
      BY <2>9 DEF AnswerDocument, Full
    <3>3. "not-acceptable" \in Slugs
      BY DEF Slugs
    <3> QED BY <1>2, <2>8, <3>1, <3>2, <3>3, AnswersKnown, AnsweredTypes
  <2>10. CASE AnswerRef
    <3>1. UNCHANGED snap
      BY <2>10 DEF AnswerRef
    <3>2. \/ \E type, body : Represent(type, body)
          \/ Answer(Problem(406, "not-acceptable")) \/ Answer(Problem(404, "not-found"))
      BY <2>10 DEF AnswerRef
    <3>3. "not-acceptable" \in Slugs /\ "not-found" \in Slugs
      BY DEF Slugs
    <3> QED BY <1>2, <2>8, <3>1, <3>2, <3>3, AnswersKnown, AnsweredTypes
  <2> QED BY <1>2, <2>1, <2>2, <2>3, <2>4, <2>5, <2>6, <2>7, <2>9, <2>10, StepKinds DEF Aside, Asking
<1> QED BY <1>1, <1>2
-----------------------------------------------------------------------------
(* The values of a copy, and what is still to come of them. *)

(* The changes of values, and the documents put, that are to be announced  *)
(* or were after the first p events.                                       *)
Core(e) == [old |-> e.old, new |-> e.new, of |-> e.of]

DeltasOf(events, changing, p) ==
  {Core(events[j]) : j \in {i \in 1..Len(events) : i > p /\ events[i].name = "computed"}}
    \cup {Core(changing[k]) : k \in {i \in 1..Len(changing) : changing[i].kind \in {"changed", "computed"}}}

ResetsOf(events, changing, p) ==
  {events[j].of : j \in {i \in 1..Len(events) : i > p /\ events[i].name = "reset"}}
    \cup {changing[k].of : k \in {i \in 1..Len(changing) : changing[i].kind = "reset"}}

Val(cap, d, a) == ValueAt(Values(d, cap), a[1], a[2])
Alters(cap, x, a) == Val(cap, x.old, a) # Val(cap, x.new, a)

LEMMA SteadyValues ==
  ASSUME WorldTypes, NEW d \in Doc
  PROVE  /\ Values(d, deploy.cap) \in Grid(STRING)
         /\ \A time \in 0..MaxClock :
              /\ GridOf(d, time) \in Grid(STRING)
              /\ Steady(d) => GridOf(d, time) = Values(d, deploy.cap)
<1>1. 0 \in 0..MaxClock /\ deploy \in Deployment
  BY ReadsAssumption DEF WorldTypes
<1>2. ASSUME NEW time \in 0..MaxClock, Steady(d) PROVE Computed[d][time] = Computed[d][0]
  <2>1. d \in Doc \ Volatile
    BY <1>2 DEF Steady
  <2> QED BY <1>1, <2>1, ReadsAssumption
<1>3. \A time \in 0..MaxClock : Computed[d][time][deploy.cap] \in Grid(STRING)
  BY <1>1, EngineAssumption DEF Grid
<1> QED BY <1>1, <1>2, <1>3 DEF Values, GridOf

(* An event that is not published of a change says that it alters nothing. *)
LEMMA UnpublishedAlterNothing ==
  ASSUME Feeding, NEW i \in 1..Len(pending), AnnounceComputed(i), log' = log, pending[i].of > unsteady
  PROVE  \A a \in Everywhere : ~Alters(deploy.cap, Core(pending[i]), a)
<1> DEFINE c == pending[i]
<1>1. c \in Landed /\ Landing(c) /\ c.kind = "computed"
  BY ElementOfSeq DEF Feeding, FeedTypes, FeedSays, AnnounceComputed
<1>2. c.old \in Doc /\ c.new \in Doc /\ Steady(c.old) /\ Steady(c.new)
  BY <1>1 DEF Landing
<1>3. PICK later \in {clock, Lesser(clock + 1, MaxClock)} :
         LET delta == CellsDelta(GridOf(c.old, clock), GridOf(c.new, later)) IN
         IF DOMAIN delta = {} THEN UNCHANGED log ELSE Publish("computed", DeltaText(c, delta), c)
  BY DEF AnnounceComputed
<1> DEFINE old == Values(c.old, deploy.cap)
           next == Values(c.new, deploy.cap)
<1>4. clock \in 0..MaxClock /\ later \in 0..MaxClock
  BY ReadsAssumption DEF Feeding, WorldTypes, Lesser
<1>5. /\ GridOf(c.old, clock) = old /\ GridOf(c.new, later) = next
      /\ old \in Grid(STRING) /\ next \in Grid(STRING)
  BY <1>2, <1>4, SteadyValues DEF Feeding
<1>6. DOMAIN CellsDelta(old, next) = {}
  <2>1. ~Publish("computed", DeltaText(c, CellsDelta(old, next)), c)
    <3> SUFFICES ASSUME Publish("computed", DeltaText(c, CellsDelta(old, next)), c) PROVE FALSE
      OBVIOUS
    <3>1. Len(log') = Len(log) + 1
      BY PublishMoves
    <3>2. Len(log) \in Nat
      BY LenProperties DEF Feeding, FeedTypes
    <3> QED BY <3>1, <3>2
  <2> QED BY <1>3, <1>5, <2>1
<1>7. Differing(old, next) = {}
  <2>1. CellsDelta(old, next) = [at \in Differing(old, next) |-> ValueAt(next, at[1], at[2])]
    BY <1>5, ChangedCells
  <2> QED BY <1>6, <2>1
<1>8. Core(c).old = c.old /\ Core(c).new = c.new
  BY DEF Core
<1> QED BY <1>7, <1>8 DEF Differing, Alters, Val

(* Announcements keep what is to come: a change of values until its event  *)
(* is published, and from then on as that event.                           *)
LEMMA AnnouncementKeepsComing ==
  ASSUME Feeding, deploy.plane, NEW i \in DOMAIN pending, Announce(i) \/ AnnounceComputed(i)
  PROVE  \A p \in 0..Len(log) :
           /\ ResetsOf(log', pending', p) = ResetsOf(log, pending, p)
           /\ DeltasOf(log', pending', p) \subseteq DeltasOf(log, pending, p)
           /\ \A y \in DeltasOf(log, pending, p) :
                \/ y \in DeltasOf(log', pending', p)
                \/ y.of > unsteady => \A a \in Everywhere : ~Alters(deploy.cap, y, a)
<1> DEFINE c == pending[i]
<1>0. PICK N \in Nat, M \in Nat : N = Len(pending) /\ M = Len(log)
  BY LenProperties DEF Feeding, FeedTypes
<1>1. i \in 1..N /\ c \in Landed
  BY <1>0, LenProperties, ElementOfSeq DEF Feeding, FeedTypes
<1>2. Moved(i)
  BY AnnouncementMoves
<1>3. \/ log' = log /\ c.kind = "computed" /\ AnnounceComputed(i)
      \/ /\ Len(log') = M + 1 /\ \A j \in 1..M : log'[j] = log[j]
         /\ log'[M + 1].of = c.of /\ log'[M + 1].name = c.kind
         /\ log'[M + 1].old = c.old /\ log'[M + 1].new = c.new
  <2>1. CASE log' = log /\ c.kind = "computed"
    <3>1. ~Announce(i)
      BY <2>1 DEF Announce
    <3> QED BY <2>1, <3>1
  <2> QED BY <1>0, <1>2, <2>1 DEF Moved
<1>4. \/ /\ c.kind # "changed"
         /\ Len(pending') = N - 1
         /\ \A k \in 1..(N - 1) : pending'[k] = pending[IF k < i THEN k ELSE k + 1]
      \/ /\ c.kind = "changed" /\ Len(pending') = N
         /\ \A k \in 1..N \ {i} : pending'[k] = pending[k]
         /\ pending'[i] = [c EXCEPT !.kind = "computed"]
  BY <1>0, <1>2 DEF Moved
<1>5. /\ \A k \in 1..Len(pending') :
           \/ \E m \in 1..N \ {i} : pending'[k] = pending[m]
           \/ c.kind = "changed" /\ pending'[k].kind = "computed" /\ Core(pending'[k]) = Core(c)
      /\ \A m \in 1..N \ {i} : \E k \in 1..Len(pending') : pending'[k] = pending[m]
      /\ c.kind = "changed" =>
           \E k \in 1..Len(pending') : pending'[k].kind = "computed" /\ Core(pending'[k]) = Core(c)
  <2>1. CASE /\ c.kind # "changed"
             /\ Len(pending') = N - 1
             /\ \A k \in 1..(N - 1) : pending'[k] = pending[IF k < i THEN k ELSE k + 1]
    <3>1. \A k \in 1..(N - 1) : (IF k < i THEN k ELSE k + 1) \in 1..N \ {i}
      BY <1>1
    <3>2. ASSUME NEW m \in 1..N \ {i} PROVE \E k \in 1..(N - 1) : (IF k < i THEN k ELSE k + 1) = m
      <4>1. CASE m < i
        <5>1. m \in 1..(N - 1)
          BY <1>1, <4>1
        <5> QED BY <4>1, <5>1
      <4>2. CASE ~(m < i)
        <5>1. m - 1 \in 1..(N - 1) /\ ~(m - 1 < i) /\ (m - 1) + 1 = m
          BY <1>1, <4>2
        <5> QED BY <5>1
      <4> QED BY <4>1, <4>2
    <3> QED BY <2>1, <3>1, <3>2
  <2>2. CASE /\ c.kind = "changed" /\ Len(pending') = N
             /\ \A k \in 1..N \ {i} : pending'[k] = pending[k]
             /\ pending'[i] = [c EXCEPT !.kind = "computed"]
    <3>1. pending'[i].kind = "computed" /\ Core(pending'[i]) = Core(c)
      <4>1. /\ pending'[i].kind = "computed" /\ pending'[i].old = c.old /\ pending'[i].new = c.new
            /\ pending'[i].of = c.of
        BY <1>1, <2>2 DEF Landed
      <4> QED BY <4>1 DEF Core
    <3> QED BY <1>1, <2>2, <3>1
  <2> QED BY <1>4, <2>1, <2>2
<1>6. /\ \A j \in 1..Len(log') :
           \/ j \in 1..M /\ log'[j] = log[j]
           \/ j = M + 1 /\ log'[j].name = c.kind /\ log'[j].of = c.of /\ Core(log'[j]) = Core(c)
      /\ \A j \in 1..M : j \in 1..Len(log') /\ log'[j] = log[j]
  <2>1. CASE log' = log
    BY <1>0, <2>1
  <2>2. CASE /\ Len(log') = M + 1 /\ \A j \in 1..M : log'[j] = log[j]
             /\ log'[M + 1].of = c.of /\ log'[M + 1].name = c.kind
             /\ log'[M + 1].old = c.old /\ log'[M + 1].new = c.new
    <3>1. Core(log'[M + 1]) = Core(c)
      BY <2>2 DEF Core
    <3> QED BY <2>2, <3>1
  <2> QED BY <1>3, <2>1, <2>2
<1>7. \/ c.kind = "computed" /\ (c.of > unsteady => \A a \in Everywhere : ~Alters(deploy.cap, Core(c), a))
      \/ Len(log') = M + 1 /\ log'[M + 1].name = c.kind /\ log'[M + 1].of = c.of /\ Core(log'[M + 1]) = Core(c)
  <2>1. CASE log' = log /\ c.kind = "computed" /\ AnnounceComputed(i)
    BY <1>0, <1>1, <2>1, UnpublishedAlterNothing
  <2>2. CASE Len(log') = M + 1
    <3>1. M + 1 \in 1..Len(log') /\ M + 1 \notin 1..M
      BY <2>2
    <3> QED BY <1>6, <2>2, <3>1
  <2> QED BY <1>3, <2>1, <2>2
<1>8. Core(c).of = c.of
  BY DEF Core
<1> HIDE DEF c, Core
<1> SUFFICES ASSUME NEW p \in 0..M
             PROVE  /\ ResetsOf(log', pending', p) = ResetsOf(log, pending, p)
                    /\ DeltasOf(log', pending', p) \subseteq DeltasOf(log, pending, p)
                    /\ \A y \in DeltasOf(log, pending, p) :
                         \/ y \in DeltasOf(log', pending', p)
                         \/ y.of > unsteady => \A a \in Everywhere : ~Alters(deploy.cap, y, a)
  BY <1>0
<1>9. pending[i] = c
  BY DEF c
<1>10. ASSUME NEW x \in DeltasOf(log', pending', p) PROVE x \in DeltasOf(log, pending, p)
  <2>1. CASE \E j \in 1..Len(log') : j > p /\ log'[j].name = "computed" /\ x = Core(log'[j])
    BY <1>0, <1>1, <1>6, <1>9, <2>1 DEF DeltasOf
  <2>2. CASE \E k \in 1..Len(pending') : pending'[k].kind \in {"changed", "computed"} /\ x = Core(pending'[k])
    BY <1>0, <1>1, <1>5, <1>9, <2>2 DEF DeltasOf
  <2> QED BY <1>10, <2>1, <2>2 DEF DeltasOf
<1>11. ASSUME NEW y \in DeltasOf(log, pending, p), y \notin DeltasOf(log', pending', p)
       PROVE  y.of > unsteady => \A a \in Everywhere : ~Alters(deploy.cap, y, a)
  <2>1. ~\E j \in 1..M : j > p /\ log[j].name = "computed" /\ y = Core(log[j])
    BY <1>0, <1>6, <1>11 DEF DeltasOf
  <2>2. PICK k \in 1..N : pending[k].kind \in {"changed", "computed"} /\ y = Core(pending[k])
    BY <1>0, <2>1 DEF DeltasOf
  <2>3. k = i /\ c.kind # "changed"
    <3>1. \A m \in 1..Len(pending') :
            pending'[m].kind \in {"changed", "computed"} => Core(pending'[m]) # y
      BY <1>11 DEF DeltasOf
    <3>2. CASE k # i
      <4>1. PICK m \in 1..Len(pending') : pending'[m] = pending[k]
        BY <1>5, <3>2
      <4> QED BY <2>2, <3>1, <4>1
    <3>3. CASE k = i /\ c.kind = "changed"
      <4>1. PICK m \in 1..Len(pending') : pending'[m].kind = "computed" /\ Core(pending'[m]) = Core(c)
        BY <1>5, <3>3
      <4> QED BY <1>9, <2>2, <3>1, <3>3, <4>1
    <3> QED BY <3>2, <3>3
  <2>4. ~(Len(log') = M + 1 /\ log'[M + 1].name = "computed" /\ Core(log'[M + 1]) = y)
    <3>1. M + 1 \in 1..(M + 1) /\ M + 1 > p
      OBVIOUS
    <3> QED BY <1>11, <3>1 DEF DeltasOf
  <2> QED BY <1>7, <1>8, <1>9, <2>2, <2>3, <2>4
<1>12. ASSUME NEW r \in ResetsOf(log', pending', p) PROVE r \in ResetsOf(log, pending, p)
  <2>1. CASE \E j \in 1..Len(log') : j > p /\ log'[j].name = "reset" /\ r = log'[j].of
    BY <1>0, <1>1, <1>6, <1>9, <2>1 DEF ResetsOf
  <2>2. CASE \E k \in 1..Len(pending') : pending'[k].kind = "reset" /\ r = pending'[k].of
    BY <1>0, <1>1, <1>5, <1>9, <2>2 DEF ResetsOf
  <2> QED BY <1>12, <2>1, <2>2 DEF ResetsOf
<1>13. ASSUME NEW r \in ResetsOf(log, pending, p) PROVE r \in ResetsOf(log', pending', p)
  <2>1. CASE \E j \in 1..M : j > p /\ log[j].name = "reset" /\ r = log[j].of
    BY <1>0, <1>6, <2>1 DEF ResetsOf
  <2>2. CASE \E k \in 1..N \ {i} : pending[k].kind = "reset" /\ r = pending[k].of
    BY <1>5, <2>2 DEF ResetsOf
  <2>3. CASE c.kind = "reset" /\ r = c.of
    <3>1. Len(log') = M + 1 /\ log'[M + 1].name = "reset" /\ log'[M + 1].of = r
      BY <1>7, <2>3
    <3>2. M + 1 \in 1..(M + 1) /\ M + 1 > p
      OBVIOUS
    <3> QED BY <3>1, <3>2 DEF ResetsOf
  <2> QED BY <1>0, <1>9, <1>13, <2>1, <2>2, <2>3 DEF ResetsOf
<1> QED BY <1>10, <1>11, <1>12, <1>13

(* A change that lands is to come after all others. *)
LEMMA LandingComes ==
  ASSUME Feeding, NEW kind, NEW new, Lands(kind, new)
  PROVE  /\ role = "follows" =>
              \A p \in Nat :
                /\ DeltasOf(log', pending', p) = DeltasOf(log, pending, p) \cup
                     IF kind \in {"changed", "computed"}
                     THEN {[old |-> held, new |-> new, of |-> changes + 1]} ELSE {}
                /\ ResetsOf(log', pending', p) = ResetsOf(log, pending, p) \cup
                     IF kind = "reset" THEN {changes + 1} ELSE {}
         /\ role # "follows" =>
              \A p : DeltasOf(log', pending', p) = {}
<1>0. PICK N \in Nat : N = Len(pending)
  BY LenProperties DEF Feeding, FeedTypes
<1>1. UNCHANGED log /\ (role # "follows" => pending' = pending)
  BY DEF Lands
<1>2. CASE role # "follows"
  <2>1. role = "asks"
    BY <1>2 DEF Feeding, WorldTypes
  <2>2. Len(pending') = 0 /\ Len(log') = 0
    BY <1>1, <1>2, <2>1, EmptySeq DEF Feeding, FeedTypes
  <2> QED BY <1>2, <2>2 DEF DeltasOf
<1>3. CASE role = "follows"
  <2> DEFINE c == [kind |-> kind, old |-> held, new |-> new, of |-> changes + 1]
             S == Landed \cup {c}
             x == [old |-> held, new |-> new, of |-> changes + 1]
  <2>1. pending' = Append(pending, c)
    BY <1>3 DEF Lands
  <2>2. c.kind = kind /\ c.of = changes + 1 /\ Core(c) = x
    BY DEF Core
  <2>3. pending \in Seq(S) /\ c \in S
    <3> HIDE DEF c
    <3> QED BY SeqMonotonic DEF Feeding, FeedTypes
  <2> HIDE DEF c, S, x
  <2>4. Len(pending') = N + 1 /\ pending'[N + 1] = c /\ \A k \in 1..N : pending'[k] = pending[k]
    BY <1>0, <2>1, <2>3, AppendProperties
  <2> HIDE DEF Core
  <2>5. ASSUME NEW p \in Nat
        PROVE  DeltasOf(log', pending', p) = DeltasOf(log, pending, p) \cup
                 IF kind \in {"changed", "computed"} THEN {x} ELSE {}
    <3>1. ASSUME NEW y \in DeltasOf(log', pending', p)
          PROVE  y \in DeltasOf(log, pending, p) \/ (kind \in {"changed", "computed"} /\ y = x)
      <4>1. CASE \E k \in 1..(N + 1) : pending'[k].kind \in {"changed", "computed"} /\ y = Core(pending'[k])
        <5>1. PICK k \in 1..(N + 1) : pending'[k].kind \in {"changed", "computed"} /\ y = Core(pending'[k])
          BY <4>1
        <5>2. k \in 1..N \/ k = N + 1
          OBVIOUS
        <5> QED BY <1>0, <2>2, <2>4, <5>1, <5>2 DEF DeltasOf
      <4> QED BY <1>1, <2>4, <3>1, <4>1 DEF DeltasOf
    <3>2. ASSUME NEW y \in DeltasOf(log, pending, p) PROVE y \in DeltasOf(log', pending', p)
      <4>1. \A k \in 1..N : k \in 1..(N + 1)
        OBVIOUS
      <4> QED BY <1>0, <1>1, <2>4, <3>2, <4>1 DEF DeltasOf
    <3>3. kind \in {"changed", "computed"} => x \in DeltasOf(log', pending', p)
      <4>1. N + 1 \in 1..(N + 1)
        OBVIOUS
      <4> QED BY <2>2, <2>4, <4>1 DEF DeltasOf
    <3> QED BY <3>1, <3>2, <3>3
  <2>6. ASSUME NEW p \in Nat
        PROVE  ResetsOf(log', pending', p) = ResetsOf(log, pending, p) \cup
                 IF kind = "reset" THEN {changes + 1} ELSE {}
    <3>1. ASSUME NEW y \in ResetsOf(log', pending', p)
          PROVE  y \in ResetsOf(log, pending, p) \/ (kind = "reset" /\ y = changes + 1)
      <4>1. CASE \E k \in 1..(N + 1) : pending'[k].kind = "reset" /\ y = pending'[k].of
        <5>1. PICK k \in 1..(N + 1) : pending'[k].kind = "reset" /\ y = pending'[k].of
          BY <4>1
        <5>2. k \in 1..N \/ k = N + 1
          OBVIOUS
        <5> QED BY <1>0, <2>2, <2>4, <5>1, <5>2 DEF ResetsOf
      <4> QED BY <1>1, <2>4, <3>1, <4>1 DEF ResetsOf
    <3>2. ASSUME NEW y \in ResetsOf(log, pending, p) PROVE y \in ResetsOf(log', pending', p)
      <4>1. \A k \in 1..N : k \in 1..(N + 1)
        OBVIOUS
      <4> QED BY <1>0, <1>1, <2>4, <3>2, <4>1 DEF ResetsOf
    <3>3. kind = "reset" => changes + 1 \in ResetsOf(log', pending', p)
      <4>1. N + 1 \in 1..(N + 1)
        OBVIOUS
      <4> QED BY <2>2, <2>4, <4>1 DEF ResetsOf
    <3> QED BY <3>1, <3>2, <3>3
  <2> QED BY <1>3, <2>5, <2>6 DEF x
<1> QED BY <1>2, <1>3

LEMMA ComingNumbers ==
  ASSUME Feeding
  PROVE  \A p : /\ \A x \in DeltasOf(log, pending, p) : x.of \in Nat /\ x.of <= changes
                /\ \A r \in ResetsOf(log, pending, p) : r \in Nat /\ r <= changes
BY Numbers DEF DeltasOf, ResetsOf, Core

(* Steps, by what they touch of what there is to follow. *)
Unmoved == UNCHANGED <<role, held, deploy, changes, unsteady, feed, stream, reader>>

LEMMA FollowSteps ==
  ASSUME WorldTypes, [Next]_vars
  PROVE  \/ Unmoved \/ Restart
         \/ ChangeLands /\ UNCHANGED <<stream, lastId, dated, gone, got, copy>>
         \/ \E i \in DOMAIN pending : Announce(i) \/ AnnounceComputed(i)
         \/ Following /\ UNCHANGED <<role, held, deploy, changes, unsteady, feed, clock>>
<1>1. CASE Change
  <2>1. ChangeLands
    BY <1>1 DEF WorldTypes, Change, Post, Put, Delete, OutOfBand, ChangeLands, Whole, Unservable
  <2>2. UNCHANGED <<stream, lastId, dated, gone, got, copy>>
    BY <1>1 DEF Change, Post, Put, Delete, OutOfBand, Lands
  <2> QED BY <2>1, <2>2
<1>2. CASE Announcing
  BY <1>2 DEF Announcing
<1>3. CASE Tick
  BY <1>3 DEF Tick, Unmoved
<1>4. CASE Asking
  <2>1. UNCHANGED <<world, feed, stream, reader>>
    BY <1>4 DEF Asking, Ask, Route, AnswerFeed, Load, LoadFails, AnswerDocument, AnswerRef,
                Done, Full, Represent, Answer, AskOnly
  <2> QED BY <2>1 DEF Unmoved, world
<1>5. CASE Following
  <2>1. UNCHANGED <<role, held, deploy, changes, unsteady, feed, clock>>
    BY <1>5 DEF Following, FeedGet, FeedSubscribe, Send, Receive, Cut, Fetch, FollowOnly, world
  <2> QED BY <1>5, <2>1
<1>6. CASE UNCHANGED vars
  BY <1>6 DEF vars, world, Unmoved
<1> QED BY <1>1, <1>2, <1>3, <1>4, <1>5, <1>6 DEF Next

(* What a change that lands may be, as far as its values go. *)
LEMMA Landings ==
  ASSUME WorldTypes, ChangeLands
  PROVE  \E kind, new :
           /\ Lands(kind, new) /\ changes' = changes + 1 /\ held' = new
           /\ UNCHANGED <<role, deploy, log, ordered>>
           /\ unsteady' = IF Steady(held) /\ Steady(new) THEN unsteady ELSE changes + 1
           /\ sure' => sure /\ Steady(held) /\ Steady(new)
           /\ role = "follows" =>
                \/ kind = "changed" /\ held \in Doc
                \/ kind = "reset" \/ (kind = "deleted" /\ new \notin Doc)
<1>1. ASSUME NEW kind, NEW new, Lands(kind, new)
      PROVE  /\ changes' = changes + 1 /\ held' = new
             /\ UNCHANGED <<role, deploy, log, ordered>>
             /\ unsteady' = IF Steady(held) /\ Steady(new) THEN unsteady ELSE changes + 1
             /\ sure' => sure /\ Steady(held) /\ Steady(new)
  BY <1>1 DEF Lands
<1>2. "missing" \notin Doc
  BY SentinelsAssumption DEF Unservable
<1> QED BY <1>1, <1>2 DEF ChangeLands

(* Whatever a change altered that nothing later reset is as the document   *)
(* has it, or altered again by a change that is later too.                 *)
DeltasSettle ==
  deploy.plane /\ held \in Doc =>
    \A x \in DeltasOf(log, pending, 0) :
      x.of > unsteady /\ (\A r \in ResetsOf(log, pending, 0) : r <= x.of) =>
        \A a \in Everywhere :
          \/ Val(deploy.cap, x.new, a) = Val(deploy.cap, held, a)
          \/ \E y \in DeltasOf(log, pending, 0) : y.of > x.of /\ Alters(deploy.cap, y, a)

LEMMA DeltasSettleHolds ==
  /\ Init => DeltasSettle
  /\ Feeding /\ DeltasSettle /\ [Next]_vars => DeltasSettle'
<1>1. ASSUME Init PROVE DeltasSettle
  <2>1. Len(pending) = 0 /\ Len(log) = 0
    BY <1>1, EmptySeq DEF Init
  <2>2. DeltasOf(log, pending, 0) = {}
    BY <2>1 DEF DeltasOf
  <2> QED BY <2>2 DEF DeltasSettle
<1>2. ASSUME Feeding, DeltasSettle, [Next]_vars PROVE DeltasSettle'
  <2>1. CASE UNCHANGED <<held, deploy, unsteady, feed>>
    BY <1>2, <2>1 DEF DeltasSettle, feed
  <2>2. CASE Restart
    <3>1. Len(pending') = 0 /\ Len(log') = 0
      BY <2>2, EmptySeq DEF Restart
    <3>2. DeltasOf(log', pending', 0) = {}
      BY <3>1 DEF DeltasOf
    <3> QED BY <3>2 DEF DeltasSettle
  <2>3. CASE \E i \in DOMAIN pending : Announce(i) \/ AnnounceComputed(i)
    <3>1. PICK i \in DOMAIN pending : Announce(i) \/ AnnounceComputed(i)
      BY <2>3
    <3>2. UNCHANGED <<held, deploy, unsteady>>
      BY <3>1 DEF Announce, AnnounceComputed, world
    <3> SUFFICES ASSUME deploy.plane, held \in Doc, NEW x \in DeltasOf(log', pending', 0),
                        x.of > unsteady, \A r \in ResetsOf(log', pending', 0) : r <= x.of,
                        NEW a \in Everywhere
                 PROVE  \/ Val(deploy.cap, x.new, a) = Val(deploy.cap, held, a)
                        \/ \E y \in DeltasOf(log', pending', 0) : y.of > x.of /\ Alters(deploy.cap, y, a)
      BY <3>2 DEF DeltasSettle
    <3>3. 0 \in 0..Len(log)
      BY <1>2, LenProperties DEF Feeding, FeedTypes
    <3>4. /\ ResetsOf(log', pending', 0) = ResetsOf(log, pending, 0)
          /\ DeltasOf(log', pending', 0) \subseteq DeltasOf(log, pending, 0)
          /\ \A y \in DeltasOf(log, pending, 0) :
               \/ y \in DeltasOf(log', pending', 0)
               \/ y.of > unsteady => ~Alters(deploy.cap, y, a)
      BY <1>2, <3>1, <3>3, AnnouncementKeepsComing
    <3>5. \/ Val(deploy.cap, x.new, a) = Val(deploy.cap, held, a)
          \/ \E y \in DeltasOf(log, pending, 0) : y.of > x.of /\ Alters(deploy.cap, y, a)
      BY <1>2, <3>4 DEF DeltasSettle
    <3>6. ASSUME NEW y \in DeltasOf(log, pending, 0), y.of > x.of, Alters(deploy.cap, y, a)
          PROVE  y \in DeltasOf(log', pending', 0)
      <4>1. y.of \in Nat /\ x.of \in Nat /\ unsteady \in Nat
        BY <1>2, <3>4, ComingNumbers DEF Feeding, WorldTypes
      <4>2. y.of > unsteady
        BY <3>6, <4>1
      <4> QED BY <3>4, <3>6, <4>2
    <3> QED BY <3>5, <3>6
  <2>4. CASE ChangeLands
    <3>1. PICK kind, new :
           /\ Lands(kind, new) /\ changes' = changes + 1 /\ held' = new
           /\ UNCHANGED <<role, deploy, log, ordered>>
           /\ unsteady' = IF Steady(held) /\ Steady(new) THEN unsteady ELSE changes + 1
           /\ role = "follows" =>
                \/ kind = "changed" /\ held \in Doc
                \/ kind = "reset" \/ (kind = "deleted" /\ new \notin Doc)
      BY <1>2, <2>4, Landings DEF Feeding
    <3>2. 0 \in Nat /\ changes \in Nat /\ unsteady \in 0..changes
      BY <1>2 DEF Feeding, WorldTypes
    <3>3. CASE role # "follows"
      <4>1. DeltasOf(log', pending', 0) = {}
        BY <1>2, <3>1, <3>3, LandingComes
      <4> QED BY <4>1 DEF DeltasSettle
    <3>4. CASE role = "follows"
      <4> DEFINE c == [old |-> held, new |-> new, of |-> changes + 1]
      <4>0. c.of = changes + 1 /\ c.old = held /\ c.new = new
        OBVIOUS
      <4>1. /\ DeltasOf(log', pending', 0) = DeltasOf(log, pending, 0) \cup
                  IF kind \in {"changed", "computed"} THEN {c} ELSE {}
            /\ ResetsOf(log', pending', 0) = ResetsOf(log, pending, 0) \cup
                  IF kind = "reset" THEN {changes + 1} ELSE {}
        BY <1>2, <3>1, <3>2, <3>4, LandingComes
      <4> HIDE DEF c
      <4> SUFFICES ASSUME deploy.plane, new \in Doc, NEW x \in DeltasOf(log', pending', 0),
                          x.of > unsteady', \A r \in ResetsOf(log', pending', 0) : r <= x.of,
                          NEW a \in Everywhere
                   PROVE  \/ Val(deploy.cap, x.new, a) = Val(deploy.cap, new, a)
                          \/ \E y \in DeltasOf(log', pending', 0) : y.of > x.of /\ Alters(deploy.cap, y, a)
        BY <3>1 DEF DeltasSettle
      <4>2. x.of \in Nat /\ x.of <= changes + 1 /\ (x # c => x.of <= changes)
        BY <1>2, <3>2, <4>0, <4>1, ComingNumbers
      <4>3. unsteady' = unsteady /\ kind = "changed" /\ held \in Doc
        <5>1. unsteady' = unsteady
          BY <3>1, <3>2, <4>2
        <5>2. ASSUME kind = "reset" PROVE FALSE
          <6>1. x \in DeltasOf(log, pending, 0) /\ changes + 1 \in ResetsOf(log', pending', 0)
            BY <4>1, <5>2
          <6>2. x.of \in Nat /\ x.of <= changes /\ changes + 1 <= x.of
            BY <1>2, <6>1, ComingNumbers
          <6> QED BY <3>2, <6>2
        <5> QED BY <3>1, <3>4, <5>1, <5>2
      <4>4. CASE x = c
        BY <4>0, <4>4
      <4>5. CASE x # c
        <5>1. x \in DeltasOf(log, pending, 0) /\ x.of > unsteady
              /\ \A r \in ResetsOf(log, pending, 0) : r <= x.of
          BY <4>1, <4>3, <4>5
        <5>2. CASE Val(deploy.cap, x.new, a) = Val(deploy.cap, held, a)
          <6>1. c \in DeltasOf(log', pending', 0) /\ c.of > x.of
            BY <3>2, <4>0, <4>1, <4>2, <4>3, <4>5
          <6>2. Alters(deploy.cap, c, a) \/ Val(deploy.cap, held, a) = Val(deploy.cap, new, a)
            BY <4>0 DEF Alters
          <6> QED BY <5>2, <6>1, <6>2
        <5>3. CASE \E y \in DeltasOf(log, pending, 0) : y.of > x.of /\ Alters(deploy.cap, y, a)
          BY <4>1, <5>3
        <5> QED BY <1>2, <4>3, <5>1, <5>2, <5>3 DEF DeltasSettle
      <4> QED BY <4>4, <4>5
    <3> QED BY <3>3, <3>4
  <2> QED BY <1>2, <2>1, <2>2, <2>3, <2>4, FollowSteps DEF Unmoved, Feeding
<1> QED BY <1>1, <1>2

(* A copy: cells that show something. *)
CopyOf(cells) ==
  /\ cells = [a \in DOMAIN cells |-> cells[a]] /\ DOMAIN cells \subseteq Everywhere
  /\ \A a \in DOMAIN cells : cells[a] # Empty

CopyAt(cells, a) == IF a \in DOMAIN cells THEN cells[a] ELSE Empty

LEMMA CopyOfShown ==
  ASSUME NEW grid \in Grid(STRING)
  PROVE  /\ CopyOf(Shown(grid))
         /\ \A a \in Everywhere : CopyAt(Shown(grid), a) = ValueAt(grid, a[1], a[2])
         /\ \A cells : CopyOf(cells) /\ (\A a \in Everywhere : CopyAt(cells, a) = ValueAt(grid, a[1], a[2]))
                         => cells = Shown(grid)
<1> DEFINE there == {a \in Everywhere : ValueAt(grid, a[1], a[2]) # Empty}
           shown == Shown(grid)
<1>1. shown = [at \in there |-> ValueAt(grid, at[1], at[2])]
  BY ShownCells
<1>2. there \subseteq Everywhere
  OBVIOUS
<1> HIDE DEF shown
<1>3. CopyOf(shown)
  <2>1. DOMAIN shown = there /\ \A a \in there : shown[a] # Empty
    BY <1>1
  <2>2. shown = [at \in DOMAIN shown |-> shown[at]]
    BY <1>1
  <2> QED BY <1>2, <2>1, <2>2 DEF CopyOf
<1>4. ASSUME NEW a \in Everywhere PROVE CopyAt(shown, a) = ValueAt(grid, a[1], a[2])
  BY <1>1 DEF CopyAt
<1>5. ASSUME NEW cells, CopyOf(cells), \A a \in Everywhere : CopyAt(cells, a) = ValueAt(grid, a[1], a[2])
      PROVE  cells = shown
  <2>1. DOMAIN cells = there
    <3>1. \A a \in DOMAIN cells : a \in there
      BY <1>5 DEF CopyOf, CopyAt
    <3>2. \A a \in there : a \in DOMAIN cells
      BY <1>5 DEF CopyAt
    <3> QED BY <3>1, <3>2
  <2> HIDE DEF there
  <2>2. \A a \in there : cells[a] = ValueAt(grid, a[1], a[2])
    BY <1>2, <1>5, <2>1 DEF CopyAt
  <2>3. cells = [a \in there |-> cells[a]]
    BY <1>5, <2>1 DEF CopyOf
  <2> QED BY <1>1, <2>2, <2>3
<1> QED BY <1>3, <1>4, <1>5 DEF shown

(* A copy with the difference of two grids applied has the new values of   *)
(* the cells that differ, and its own elsewhere.                           *)
LEMMA CopyPatched ==
  ASSUME NEW cells, CopyOf(cells), NEW old \in Grid(STRING), NEW next \in Grid(STRING)
  PROVE  /\ CopyOf(Patched(cells, CellsDelta(old, next)))
         /\ \A a \in Everywhere :
              CopyAt(Patched(cells, CellsDelta(old, next)), a) =
                IF ValueAt(old, a[1], a[2]) # ValueAt(next, a[1], a[2])
                THEN ValueAt(next, a[1], a[2]) ELSE CopyAt(cells, a)
<1> DEFINE delta == CellsDelta(old, next)
           value(at) == IF at \in DOMAIN delta THEN delta[at] ELSE cells[at]
           left == {a \in DOMAIN cells \cup DOMAIN delta : value(a) # Empty}
           patched == Patched(cells, delta)
<1>1. /\ DOMAIN delta = Differing(old, next)
      /\ \A a \in DOMAIN delta : delta[a] = ValueAt(next, a[1], a[2])
  <2>1. delta = [at \in Differing(old, next) |-> ValueAt(next, at[1], at[2])]
    BY ChangedCells
  <2> HIDE DEF delta
  <2> QED BY <2>1
<1>2. patched = [at \in left |-> value(at)]
  BY DEF Patched
<1>3. left \subseteq Everywhere
  BY <1>1 DEF CopyOf, Differing
<1> HIDE DEF delta
<1>4. CopyOf(patched)
  <2>1. \A a \in left : value(a) # Empty
    OBVIOUS
  <2> HIDE DEF left, value, patched
  <2>2. DOMAIN patched = left /\ \A a \in left : patched[a] = value(a)
    BY <1>2
  <2>3. patched = [at \in DOMAIN patched |-> patched[at]]
    BY <1>2
  <2> QED BY <1>3, <2>1, <2>2, <2>3 DEF CopyOf
<1>5. ASSUME NEW a \in Everywhere
      PROVE  CopyAt(patched, a) = IF ValueAt(old, a[1], a[2]) # ValueAt(next, a[1], a[2])
                                  THEN ValueAt(next, a[1], a[2]) ELSE CopyAt(cells, a)
  <2>1. a \in DOMAIN delta <=> ValueAt(old, a[1], a[2]) # ValueAt(next, a[1], a[2])
    BY <1>1 DEF Differing
  <2>2. CopyAt(patched, a) = IF a \in left THEN value(a) ELSE Empty
    <3> HIDE DEF left, value, patched
    <3> QED BY <1>2 DEF CopyAt
  <2> QED BY <1>1, <2>1, <2>2 DEF CopyAt
<1> QED BY <1>4, <1>5 DEF patched, delta

(* Up to which event a reader has them, and whether it goes on from there. *)
Place == IF conn = "open" THEN Heard ELSE lastId

Resumes ==
  IF conn = "open" THEN wire = <<>> \/ wire[1].field = "id"
  ELSE lastId > 0 /\ ~dated /\ ~gone

(* A copy that goes on has the values of the document, but for those that  *)
(* what is to come alters.                                                 *)
CopySettles ==
  /\ copy # Nothing => CopyOf(copy)
  /\ sure => deploy.plane /\ (held \in Doc => Steady(held))
  /\ copy # Nothing /\ sure /\ Resumes =>
       /\ \A y \in DeltasOf(log, pending, Place) : y.of > unsteady
       /\ ordered /\ held \in Doc /\ ResetsOf(log, pending, Place) = {} =>
            \A a \in Everywhere :
              \/ CopyAt(copy, a) = Val(deploy.cap, held, a)
              \/ \E y \in DeltasOf(log, pending, Place) : Alters(deploy.cap, y, a)

LEMMA SettledStays ==
  ASSUME CopySettles, UNCHANGED <<held, deploy, unsteady, log, pending, ordered>>, copy' \in {copy, Nothing},
         sure' => sure,
         copy' # Nothing /\ sure' /\ Resumes' => Resumes /\ Place' = Place
  PROVE  CopySettles'
<1>1. CASE copy' = Nothing
  BY <1>1 DEF CopySettles
<1>2. CASE copy' # Nothing
  <2>1. copy' = copy
    BY <1>2
  <2> HIDE DEF Place, Resumes
  <2>2. CASE ~(sure' /\ Resumes')
    BY <2>1, <2>2 DEF CopySettles
  <2>3. CASE sure' /\ Resumes'
    <3>1. Place' = Place /\ Resumes /\ sure
      BY <1>2, <2>3
    <3> QED BY <2>1, <2>3, <3>1 DEF CopySettles
  <2> QED BY <2>2, <2>3
<1> QED BY <1>1, <1>2

(* The values of an event that has passed are no longer to come. *)
LEMMA PassedBy ==
  ASSUME Feeding, NEW j \in 1..Len(log)
  PROVE  /\ DeltasOf(log, pending, j - 1) = DeltasOf(log, pending, j) \cup
              IF log[j].name = "computed" THEN {Core(log[j])} ELSE {}
         /\ ResetsOf(log, pending, j) \subseteq ResetsOf(log, pending, j - 1)
<1>0. PICK M \in Nat : M = Len(log)
  BY LenProperties DEF Feeding, FeedTypes
<1>1. \A i \in 1..M : (i > j - 1 <=> i > j \/ i = j) /\ j > j - 1
  BY <1>0
<1> HIDE DEF Core
<1>2. ASSUME NEW x \in DeltasOf(log, pending, j - 1)
      PROVE  x \in DeltasOf(log, pending, j) \/ (log[j].name = "computed" /\ x = Core(log[j]))
  BY <1>0, <1>1, <1>2 DEF DeltasOf
<1>3. ASSUME NEW x, x \in DeltasOf(log, pending, j) \/ (log[j].name = "computed" /\ x = Core(log[j]))
      PROVE  x \in DeltasOf(log, pending, j - 1)
  BY <1>0, <1>1, <1>3 DEF DeltasOf
<1>4. ResetsOf(log, pending, j) \subseteq ResetsOf(log, pending, j - 1)
  BY <1>0, <1>1 DEF ResetsOf
<1> QED BY <1>2, <1>3, <1>4

(* What a computed event tells has no line end but newlines. *)
LEMMA ComputedUnbroken ==
  ASSUME NEW e, Telling(e), e.name = "computed"
  PROVE  Unbroken(e.data)
<1>1. PICK old \in Grid(STRING), next \in Grid(STRING) :
        e.new \in Doc /\ e.data = DeltaText(e, CellsDelta(old, next))
  BY DEF Telling
<1> QED BY <1>1, DeltaTellable, DeltaSaid

(* What a computed event does to a copy. *)
LEMMA DeltaApplied ==
  ASSUME Feeding, CopySettles, copy # Nothing,
         NEW j \in 1..Len(log), log[j].name = "computed",
         NEW patched, patched = Patched(copy, DeltaOf(SplitDataLines(log[j].data)))
  PROVE  /\ CopyOf(patched)
         /\ log[j].of > unsteady =>
              \A a \in Everywhere :
                CopyAt(patched, a) = IF Alters(deploy.cap, Core(log[j]), a)
                                     THEN Val(deploy.cap, log[j].new, a) ELSE CopyAt(copy, a)
<1> DEFINE e == log[j]
<1>1. e \in Event /\ Telling(e)
  BY ElementOfSeq DEF Feeding, FeedTypes, FeedSays
<1>2. e.new \in Doc /\ Core(e).old = e.old /\ Core(e).new = e.new
  BY <1>1 DEF Telling, Core
<1>3. PICK old \in Grid(STRING), next \in Grid(STRING) :
         /\ e.data = DeltaText(e, CellsDelta(old, next))
         /\ e.of > unsteady => old = Values(e.old, deploy.cap) /\ next = Values(e.new, deploy.cap)
  BY <1>1 DEF Telling
<1>4. CopyOf(copy)
  BY DEF CopySettles
<1> HIDE DEF e
<1>5. DeltaOf(SplitDataLines(e.data)) = CellsDelta(old, next)
  BY <1>2, <1>3, DeltaTellable, DeltaSaid
<1>6. patched = Patched(copy, CellsDelta(old, next))
  BY <1>5 DEF e
<1>7. /\ CopyOf(patched)
      /\ \A a \in Everywhere :
           CopyAt(patched, a) = IF ValueAt(old, a[1], a[2]) # ValueAt(next, a[1], a[2])
                                THEN ValueAt(next, a[1], a[2]) ELSE CopyAt(copy, a)
  BY <1>4, <1>6, CopyPatched
<1> QED BY <1>2, <1>3, <1>7 DEF Alters, Val, e

(* A delta brings a copy to what the document has, but for what is altered *)
(* still later: whatever it overwrites was settled when it was announced.  *)
LEMMA DeltaSettles ==
  ASSUME Feeding, InOrder, DeltasSettle, CopySettles,
         NEW j \in 1..Len(log), log[j].name = "computed",
         copy # Nothing, deploy.plane, ordered, held \in Doc,
         \A y \in DeltasOf(log, pending, j - 1) : y.of > unsteady,
         ResetsOf(log, pending, j - 1) = {},
         \A a \in Everywhere :
           \/ CopyAt(copy, a) = Val(deploy.cap, held, a)
           \/ \E y \in DeltasOf(log, pending, j - 1) : Alters(deploy.cap, y, a),
         NEW patched, patched = Patched(copy, DeltaOf(SplitDataLines(log[j].data)))
  PROVE  \A a \in Everywhere :
           \/ CopyAt(patched, a) = Val(deploy.cap, held, a)
           \/ \E y \in DeltasOf(log, pending, j) : Alters(deploy.cap, y, a)
<1> DEFINE x == Core(log[j])
<1>0. PICK N \in Nat, M \in Nat : N = Len(pending) /\ M = Len(log)
  BY LenProperties DEF Feeding, FeedTypes
<1>1. x.of = log[j].of /\ x.old = log[j].old /\ x.new = log[j].new
  BY DEF Core
<1>2. \A y : y \in DeltasOf(log, pending, j - 1) <=> y = x \/ y \in DeltasOf(log, pending, j)
  BY PassedBy
<1> HIDE DEF x
<1>3. \A a \in Everywhere :
        CopyAt(patched, a) = IF Alters(deploy.cap, x, a) THEN Val(deploy.cap, x.new, a) ELSE CopyAt(copy, a)
  <2>1. log[j].of > unsteady
    BY <1>1, <1>2
  <2> QED BY <1>1, <2>1, DeltaApplied DEF x
<1>4. /\ \A i, k \in 1..M :
           i < k /\ log[i].name # "changed" /\ log[k].name # "changed" => log[i].of < log[k].of
      /\ \A i \in 1..M : log[i].of \in Nat
  BY <1>0, Numbers DEF InOrder
<1>5. ASSUME NEW r \in ResetsOf(log, pending, 0) PROVE r <= x.of
  <2>1. PICK i \in 1..M : log[i].name = "reset" /\ r = log[i].of
    <3>1. CASE \E k \in 1..N : pending[k].kind = "reset" /\ r = pending[k].of
      <4>1. r \in ResetsOf(log, pending, j - 1)
        BY <1>0, <3>1 DEF ResetsOf
      <4> QED BY <4>1
    <3> QED BY <1>0, <1>5, <3>1 DEF ResetsOf
  <2>2. ~(i > j - 1)
    <3>1. i > j - 1 => r \in ResetsOf(log, pending, j - 1)
      BY <1>0, <2>1 DEF ResetsOf
    <3> QED BY <3>1
  <2>3. i < j
    BY <1>0, <2>2
  <2>4. log[i].of < log[j].of
    BY <1>0, <1>4, <2>1, <2>3
  <2> QED BY <1>0, <1>1, <1>4, <2>1, <2>4
<1>6. x \in DeltasOf(log, pending, 0) /\ x.of > unsteady
  <2>1. j > 0
    OBVIOUS
  <2>2. x \in DeltasOf(log, pending, 0)
    BY <2>1 DEF DeltasOf, x
  <2> QED BY <1>2, <2>2
<1>7. ASSUME NEW y \in DeltasOf(log, pending, 0), y.of > x.of PROVE y \in DeltasOf(log, pending, j)
  <2>1. CASE \E k \in 1..N : pending[k].kind \in {"changed", "computed"} /\ y = Core(pending[k])
    BY <1>0, <2>1 DEF DeltasOf
  <2>2. CASE \E i \in 1..M : log[i].name = "computed" /\ y = Core(log[i])
    <3>1. PICK i \in 1..M : log[i].name = "computed" /\ y = Core(log[i])
      BY <2>2
    <3>2. y.of = log[i].of
      BY <3>1 DEF Core
    <3>3. ~(i < j) /\ i # j
      BY <1>0, <1>1, <1>4, <1>7, <3>1, <3>2
    <3>4. i > j
      BY <1>0, <3>3
    <3> QED BY <1>0, <3>1, <3>4 DEF DeltasOf
  <2> QED BY <1>0, <1>7, <2>1, <2>2 DEF DeltasOf
<1> SUFFICES ASSUME NEW a \in Everywhere
             PROVE  \/ CopyAt(patched, a) = Val(deploy.cap, held, a)
                    \/ \E y \in DeltasOf(log, pending, j) : Alters(deploy.cap, y, a)
  OBVIOUS
<1>8. CASE Alters(deploy.cap, x, a)
  <2>1. CopyAt(patched, a) = Val(deploy.cap, x.new, a)
    BY <1>3, <1>8
  <2>2. \/ Val(deploy.cap, x.new, a) = Val(deploy.cap, held, a)
        \/ \E y \in DeltasOf(log, pending, 0) : y.of > x.of /\ Alters(deploy.cap, y, a)
    BY <1>5, <1>6 DEF DeltasSettle
  <2> QED BY <1>7, <2>1, <2>2
<1>9. CASE ~Alters(deploy.cap, x, a)
  BY <1>2, <1>3, <1>9
<1> QED BY <1>8, <1>9

LEMMA ReceiveSettles ==
  ASSUME Feeding, InOrder, Streaming, DeltasSettle, CopySettles, Receive
  PROVE  CopySettles'
<1>1. UNCHANGED <<held, deploy, unsteady, log, pending, ordered, sure>>
  BY DEF Receive, FollowOnly, world, feed
<1>2. copy' = CASE Received.data # <<>> /\ Received.name = "reset" -> Nothing
               [] Received.name = "computed" /\ copy # Nothing ->
                    Patched(copy, DeltaOf(Received.data))
               [] OTHER -> copy
  BY DEF Receive
<1>3. CASE Received.data # <<>> /\ Received.name = "reset"
  <2>1. copy' = Nothing
    BY <1>2, <1>3
  <2> QED BY <1>1, <2>1 DEF CopySettles
<1>4. CASE ~(Received.data # <<>> /\ Received.name = "reset")
  <2>1. /\ conn = "open" /\ wire # <<>> /\ Delivering /\ wire[1].field = "id" /\ lastId' = sent
        /\ log[sent] \in Event /\ Telling(log[sent])
        /\ Received.name = log[sent].name
        /\ Unbroken(log[sent].data) => Received.data = SplitDataLines(log[sent].data)
        /\ Received.data = <<>> <=> log[sent].data = <<>>
        /\ \/ Hangup
           \/ /\ wire' = <<>> /\ UNCHANGED <<conn, head, joined, sent>>
    BY <1>4, Receiving
  <2>2. PICK j \in 1..Len(log) : j = sent
    BY <2>1 DEF Delivering
  <2>3. Resumes /\ Place = j - 1
    BY <2>1, <2>2 DEF Resumes, Place, Heard
  <2>4. Place' = j
    BY <2>1, <2>2 DEF Place, Heard, Hangup
  <2>5. log[j].name # "reset"
    <3>1. log[j].name = "reset" => log[j].data = <<<<"rev", log[j].new>>>>
      BY <2>1, <2>2 DEF Telling
    <3>2. \A t : <<t>> # <<>>
      OBVIOUS
    <3> QED BY <1>4, <2>1, <2>2, <3>1, <3>2
  <2>6. /\ DeltasOf(log, pending, j - 1) = DeltasOf(log, pending, j) \cup
             IF log[j].name = "computed" THEN {Core(log[j])} ELSE {}
        /\ ResetsOf(log, pending, j) = ResetsOf(log, pending, j - 1)
    <3>1. ResetsOf(log, pending, j - 1) \subseteq ResetsOf(log, pending, j)
      <4>0. Len(log) \in Nat
        BY LenProperties DEF Feeding, FeedTypes
      <4>1. \A i \in 1..Len(log) : i > j - 1 => i > j \/ i = j
        BY <4>0
      <4> QED BY <2>5, <4>1 DEF ResetsOf
    <3> QED BY <3>1, PassedBy
  <2> HIDE DEF Place, Resumes
  <2>7. CASE log[j].name = "computed" /\ copy # Nothing
    <3> DEFINE patched == Patched(copy, DeltaOf(SplitDataLines(log[j].data)))
    <3>1. copy' = patched
      <4>1. Unbroken(log[j].data)
        BY <2>1, <2>2, <2>7, ComputedUnbroken
      <4> QED BY <1>2, <1>4, <2>1, <2>2, <2>7, <4>1
    <3> HIDE DEF patched
    <3>2. CopyOf(patched)
      BY <2>7, DeltaApplied DEF patched
    <3>3. sure => deploy.plane /\ (held \in Doc => Steady(held))
      BY DEF CopySettles
    <3>4. ASSUME sure
          PROVE  /\ \A y \in DeltasOf(log, pending, j) : y.of > unsteady
                 /\ ordered /\ held \in Doc /\ ResetsOf(log, pending, j) = {} =>
                      \A a \in Everywhere :
                        \/ CopyAt(patched, a) = Val(deploy.cap, held, a)
                        \/ \E y \in DeltasOf(log, pending, j) : Alters(deploy.cap, y, a)
      <4>1. \A y \in DeltasOf(log, pending, j - 1) : y.of > unsteady
        BY <2>3, <2>7, <3>4 DEF CopySettles
      <4>2. ASSUME ordered, held \in Doc, ResetsOf(log, pending, j) = {}
            PROVE  \A a \in Everywhere :
                     \/ CopyAt(patched, a) = Val(deploy.cap, held, a)
                     \/ \E y \in DeltasOf(log, pending, j) : Alters(deploy.cap, y, a)
        <5>1. \A a \in Everywhere :
                \/ CopyAt(copy, a) = Val(deploy.cap, held, a)
                \/ \E y \in DeltasOf(log, pending, j - 1) : Alters(deploy.cap, y, a)
          BY <2>3, <2>6, <2>7, <3>4, <4>2 DEF CopySettles
        <5>2. ResetsOf(log, pending, j - 1) = {}
          BY <2>6, <4>2
        <5> QED BY <2>7, <3>3, <3>4, <4>1, <4>2, <5>1, <5>2, DeltaSettles DEF patched
      <4> QED BY <2>6, <4>1, <4>2
    <3> QED BY <1>1, <2>4, <3>1, <3>2, <3>3, <3>4 DEF CopySettles
  <2>8. CASE ~(log[j].name = "computed" /\ copy # Nothing)
    <3>1. copy' = copy
      BY <1>2, <1>4, <2>1, <2>2, <2>8
    <3>2. copy # Nothing => DeltasOf(log, pending, j - 1) = DeltasOf(log, pending, j)
      BY <2>6, <2>8
    <3> QED BY <1>1, <2>3, <2>4, <2>6, <3>1, <3>2 DEF CopySettles
  <2> QED BY <2>7, <2>8
<1> QED BY <1>3, <1>4

LEMMA LandingSettles ==
  ASSUME Feeding, Streaming, CopySettles, ChangeLands,
         UNCHANGED <<stream, lastId, dated, gone, got, copy>>
  PROVE  CopySettles'
<1>1. PICK kind, new :
        /\ Lands(kind, new) /\ changes' = changes + 1 /\ held' = new
        /\ UNCHANGED <<role, deploy, log, ordered>>
        /\ unsteady' = IF Steady(held) /\ Steady(new) THEN unsteady ELSE changes + 1
        /\ sure' => sure /\ Steady(held) /\ Steady(new)
        /\ role = "follows" =>
             \/ kind = "changed" /\ held \in Doc
             \/ kind = "reset" \/ (kind = "deleted" /\ new \notin Doc)
  BY Landings DEF Feeding
<1>2. Place' = Place /\ (Resumes' <=> Resumes)
  BY DEF Place, Resumes, Heard, stream
<1>3. copy' # Nothing => CopyOf(copy')
  BY DEF CopySettles
<1>4. sure' => deploy'.plane /\ (held' \in Doc => Steady(held'))
  BY <1>1 DEF CopySettles
<1>5. ASSUME copy # Nothing, sure', Resumes
      PROVE  /\ \A y \in DeltasOf(log', pending', Place) : y.of > unsteady'
             /\ ordered /\ new \in Doc /\ ResetsOf(log', pending', Place) = {} =>
                  \A a \in Everywhere :
                    \/ CopyAt(copy, a) = Val(deploy.cap, new, a)
                    \/ \E y \in DeltasOf(log', pending', Place) : Alters(deploy.cap, y, a)
  <2>1. unsteady' = unsteady /\ sure
    BY <1>1, <1>5
  <2>2. role = "follows" /\ Place \in Nat
    <3>1. CASE conn = "open"
      <4>1. wire = <<>> \/ Delivering
        BY <1>5, <3>1, ResetRead DEF Streaming, StreamSays, Connected, Resetting, Resumes
      <4>2. sent \in Nat /\ (Delivering => sent - 1 \in Nat)
        BY DEF Streaming, StreamTypes, Delivering
      <4>3. Heard \in Nat
        BY <4>1, <4>2 DEF Heard
      <4>4. role = "follows"
        BY <3>1 DEF Streaming, StreamTypes, Feeding, WorldTypes
      <4> QED BY <3>1, <4>3, <4>4 DEF Place
    <3>2. CASE conn # "open"
      <4>1. lastId \in Nat /\ lastId > 0
        BY <1>5, <3>2 DEF Resumes, Streaming, StreamTypes
      <4>2. role = "follows"
        BY <4>1 DEF Streaming, StreamTypes, Feeding, WorldTypes
      <4> QED BY <3>2, <4>1, <4>2 DEF Place
    <3> QED BY <3>1, <3>2
  <2> HIDE DEF Place, Resumes
  <2> DEFINE c == [old |-> held, new |-> new, of |-> changes + 1]
  <2>3. c.of = changes + 1 /\ c.old = held /\ c.new = new
    OBVIOUS
  <2>4. /\ DeltasOf(log', pending', Place) = DeltasOf(log, pending, Place) \cup
             IF kind \in {"changed", "computed"} THEN {c} ELSE {}
        /\ ResetsOf(log', pending', Place) = ResetsOf(log, pending, Place) \cup
             IF kind = "reset" THEN {changes + 1} ELSE {}
    BY <1>1, <2>2, LandingComes
  <2> HIDE DEF c
  <2>5. \A y \in DeltasOf(log, pending, Place) : y.of > unsteady
    BY <1>5, <2>1 DEF CopySettles
  <2>6. c.of > unsteady
    BY <2>3 DEF Feeding, WorldTypes
  <2>7. ASSUME ordered, new \in Doc, ResetsOf(log', pending', Place) = {}, NEW a \in Everywhere
        PROVE  \/ CopyAt(copy, a) = Val(deploy.cap, new, a)
               \/ \E y \in DeltasOf(log', pending', Place) : Alters(deploy.cap, y, a)
    <3>1. kind = "changed" /\ held \in Doc /\ ResetsOf(log, pending, Place) = {}
      BY <1>1, <2>2, <2>4, <2>7
    <3>2. \/ CopyAt(copy, a) = Val(deploy.cap, held, a)
          \/ \E y \in DeltasOf(log, pending, Place) : Alters(deploy.cap, y, a)
      BY <1>5, <2>1, <2>7, <3>1 DEF CopySettles
    <3>3. Val(deploy.cap, held, a) = Val(deploy.cap, new, a) \/ Alters(deploy.cap, c, a)
      BY <2>3 DEF Alters
    <3> QED BY <2>4, <3>1, <3>2, <3>3
  <2> QED BY <2>1, <2>4, <2>5, <2>6, <2>7
<1> HIDE DEF Place, Resumes
<1> QED BY <1>1, <1>2, <1>3, <1>4, <1>5 DEF CopySettles

LEMMA AnnouncementSettles ==
  ASSUME Feeding, Streaming, CopySettles, NEW i \in DOMAIN pending, Announce(i) \/ AnnounceComputed(i)
  PROVE  CopySettles'
<1>1. /\ UNCHANGED <<held, deploy, unsteady, stream, reader>> /\ (ordered' => ordered)
  <2>1. ordered \in BOOLEAN
    BY DEF Feeding, FeedTypes
  <2> QED BY <2>1 DEF Announce, AnnounceComputed, world
<1>2. Place' = Place /\ (Resumes' <=> Resumes) /\ UNCHANGED <<copy, sure>>
  BY <1>1 DEF Place, Resumes, Heard, stream, reader
<1>3. ASSUME copy # Nothing, sure, Resumes
      PROVE  /\ \A y \in DeltasOf(log', pending', Place) : y.of > unsteady
             /\ ordered' /\ held \in Doc /\ ResetsOf(log', pending', Place) = {} =>
                  \A a \in Everywhere :
                    \/ CopyAt(copy, a) = Val(deploy.cap, held, a)
                    \/ \E y \in DeltasOf(log', pending', Place) : Alters(deploy.cap, y, a)
  <2>1. Place \in 0..Len(log)
    <3>0. Len(log) \in Nat
      BY LenProperties DEF Feeding, FeedTypes
    <3>1. CASE conn = "open"
      <4>1. wire = <<>> \/ Delivering
        BY <1>3, <3>1, ResetRead DEF Streaming, StreamSays, Connected, Resetting, Resumes
      <4>2. sent \in 0..Len(log) /\ (Delivering => sent - 1 \in 0..Len(log))
        BY <3>0 DEF Streaming, StreamTypes, Delivering
      <4> QED BY <3>1, <4>1, <4>2 DEF Place, Heard
    <3>2. CASE conn # "open"
      <4>1. lastId \in Nat /\ lastId <= Len(log)
        BY <1>3, <3>2 DEF Resumes, Streaming, StreamTypes, StreamSays
      <4> QED BY <3>0, <3>2, <4>1 DEF Place
    <3> QED BY <3>1, <3>2
  <2> HIDE DEF Place, Resumes
  <2>2. deploy.plane
    BY <1>3 DEF CopySettles
  <2>3. /\ ResetsOf(log', pending', Place) = ResetsOf(log, pending, Place)
        /\ DeltasOf(log', pending', Place) \subseteq DeltasOf(log, pending, Place)
        /\ \A y \in DeltasOf(log, pending, Place) :
             \/ y \in DeltasOf(log', pending', Place)
             \/ y.of > unsteady => \A a \in Everywhere : ~Alters(deploy.cap, y, a)
    BY <2>1, <2>2, AnnouncementKeepsComing
  <2>4. \A y \in DeltasOf(log, pending, Place) : y.of > unsteady
    BY <1>3 DEF CopySettles
  <2>5. ASSUME ordered', held \in Doc, ResetsOf(log', pending', Place) = {}, NEW a \in Everywhere
        PROVE  \/ CopyAt(copy, a) = Val(deploy.cap, held, a)
               \/ \E y \in DeltasOf(log', pending', Place) : Alters(deploy.cap, y, a)
    <3>1. \/ CopyAt(copy, a) = Val(deploy.cap, held, a)
          \/ \E y \in DeltasOf(log, pending, Place) : Alters(deploy.cap, y, a)
      BY <1>1, <1>3, <2>3, <2>5 DEF CopySettles
    <3> QED BY <2>3, <2>4, <3>1
  <2> QED BY <2>3, <2>4, <2>5
<1> HIDE DEF Place, Resumes
<1> QED BY <1>1, <1>2, <1>3 DEF CopySettles

LEMMA FetchSettles ==
  ASSUME Feeding, CopySettles, Fetch
  PROVE  CopySettles'
<1>1. /\ conn = "open" /\ held \in Doc /\ deploy.plane
      /\ copy' = Shown(GridOf(held, clock))
      /\ sure' = (Steady(held) /\ \A e \in Coming : e.of > unsteady)
      /\ UNCHANGED <<stream, lastId, dated, gone, held, deploy, unsteady, log, pending, ordered>>
  BY DEF Fetch, FollowOnly, world, feed
<1>2. clock \in 0..MaxClock
  BY DEF Feeding, WorldTypes
<1>3. /\ GridOf(held, clock) \in Grid(STRING)
      /\ Steady(held) => GridOf(held, clock) = Values(held, deploy.cap)
  BY <1>1, <1>2, SteadyValues DEF Feeding
<1>4. CopyOf(copy') /\ \A a \in Everywhere : CopyAt(copy', a) = ValueAt(GridOf(held, clock), a[1], a[2])
  BY <1>1, <1>3, CopyOfShown
<1>5. ASSUME sure' PROVE Steady(held) /\ \A e \in Coming : e.of > unsteady
  BY <1>1, <1>5
<1>6. ASSUME sure', NEW y \in DeltasOf(log, pending, Heard) PROVE y.of > unsteady
  <2>1. DOMAIN log = 1..Len(log) /\ DOMAIN pending = 1..Len(pending)
    BY LenProperties DEF Feeding, FeedTypes
  <2>2. PICK e \in Coming : y = Core(e)
    BY <1>6, <2>1 DEF DeltasOf, Coming
  <2> QED BY <1>5, <1>6, <2>2 DEF Core
<1>7. Place' = Heard
  BY <1>1 DEF Place, Heard, stream
<1>8. sure' => \A a \in Everywhere : CopyAt(copy', a) = Val(deploy.cap, held, a)
  BY <1>3, <1>4, <1>5 DEF Val
<1> HIDE DEF Place, Resumes
<1> QED BY <1>1, <1>4, <1>5, <1>6, <1>7, <1>8 DEF CopySettles

LEMMA FollowingSettles ==
  ASSUME Feeding, InOrder, Streaming, DeltasSettle, CopySettles, Following,
         UNCHANGED <<role, held, deploy, changes, unsteady, feed, clock>>
  PROVE  CopySettles'
<1>1. UNCHANGED <<held, deploy, unsteady, log, pending, ordered>>
  BY DEF feed
<1>2. CASE FeedGet
  <2>1. conn = "away" /\ conn' = "found" /\ UNCHANGED <<lastId, dated, gone, copy, sure>>
    BY <1>2 DEF FeedGet, reader
  <2>2. Place' = Place /\ (Resumes' => Resumes)
    BY <2>1 DEF Place, Resumes
  <2> HIDE DEF Place, Resumes
  <2> QED BY <1>1, <2>1, <2>2, SettledStays
<1>3. CASE FeedSubscribe
  <2>1. conn = "found" /\ conn' = "open" /\ UNCHANGED <<lastId, dated, got>>
    BY <1>3 DEF FeedSubscribe
  <2>2. CASE lastId = 0 /\ copy' = Nothing /\ UNCHANGED sure
    BY <1>1, <2>2 DEF CopySettles
  <2>3. CASE /\ lastId \in 1..Len(log) /\ ~gone /\ sent' = lastId /\ wire' = <<>>
             /\ sure' = (sure /\ ~dated)
             /\ UNCHANGED <<gone, copy>>
    <3>1. Place' = Place
      BY <2>1, <2>3 DEF Place, Heard
    <3>2. sure' => sure /\ ~dated
      BY <2>3
    <3>3. lastId > 0
      BY <2>3
    <3>4. sure' => Resumes
      BY <2>1, <2>3, <3>2, <3>3 DEF Resumes
    <3> HIDE DEF Place, Resumes
    <3> QED BY <1>1, <2>3, <3>1, <3>2, <3>4, SettledStays
  <2>4. CASE /\ wire' = WriteEvent([id |-> 0, name |-> "reset", data |-> <<<<"rev", head>>>>])
             /\ UNCHANGED <<copy, sure>>
    <3>1. wire' = WriteEvent(Reset(head)) /\ head \in Doc
      BY <2>1, <2>4 DEF Reset, Streaming, StreamSays
    <3>2. wire' # <<>> /\ wire'[1].field # "id"
      BY <3>1, ResetRead
    <3>3. ~Resumes'
      BY <2>1, <3>2 DEF Resumes
    <3> HIDE DEF Place, Resumes
    <3> QED BY <1>1, <2>4, <3>3, SettledStays
  <2> QED BY <1>3, <2>2, <2>3, <2>4 DEF FeedSubscribe
<1>4. CASE Send
  <2>1. /\ conn = "open" /\ wire = <<>> /\ sent < Len(log) /\ sent' = sent + 1
        /\ UNCHANGED <<conn, lastId, dated, gone, copy, sure>>
        /\ wire' = WriteEvent(log[sent + 1])
    BY <1>4 DEF Send, reader
  <2>2. sent \in Nat /\ sent + 1 \in 1..Len(log) /\ lastId \in Nat
    BY <2>1, LenProperties DEF Streaming, StreamTypes, Feeding, FeedTypes
  <2>3. log[sent + 1].id \in Nat /\ log[sent + 1].data \in Seq(Token)
    <3>1. log[sent + 1] \in Event
      BY <2>2, ElementOfSeq DEF Feeding, FeedTypes
    <3> QED BY <3>1 DEF Event
  <2>4. wire' # <<>>
    BY <2>1, <2>2, <2>3, FrameRead
  <2>5. Place' = Place /\ Resumes
    BY <2>1, <2>2, <2>4 DEF Place, Heard, Resumes
  <2> HIDE DEF Place, Resumes
  <2> QED BY <1>1, <2>1, <2>5, SettledStays
<1>5. CASE Receive
  BY <1>5, ReceiveSettles
<1>6. CASE Cut
  <2>1. conn # "away" /\ conn' = "away" /\ UNCHANGED <<lastId, dated, gone, copy, sure>>
    BY <1>6 DEF Cut, Hangup
  <2>2. Place' = lastId /\ (Resumes' <=> lastId > 0 /\ ~dated /\ ~gone)
    BY <2>1 DEF Place, Resumes
  <2>3. ASSUME Resumes' PROVE Resumes /\ Place = lastId
    <3>0. lastId # 0 /\ lastId > 0 /\ ~dated /\ ~gone
      BY <2>2, <2>3 DEF Streaming, StreamTypes
    <3>1. CASE conn # "open"
      BY <2>2, <2>3, <3>1 DEF Place, Resumes
    <3>2. CASE conn = "open"
      <4>1. Connected /\ ~Excused /\ ~Resetting
        BY <3>0, <3>2 DEF Streaming, StreamSays, Excused, Resetting
      <4>2. CASE wire = <<>>
        BY <3>2, <4>1, <4>2 DEF Connected, Place, Heard, Resumes
      <4>3. CASE wire # <<>>
        <5>1. lastId = sent - 1 /\ sent \in 1..Len(log) /\ wire = WriteEvent(log[sent]) /\ lastId \in Nat
          BY <4>1, <4>3 DEF Connected, Delivering, Streaming, StreamTypes
        <5>2. log[sent].id \in Nat /\ log[sent].id > 0 /\ log[sent].data \in Seq(Token)
          <6>1. log[sent] \in Event
            BY <5>1, ElementOfSeq DEF Feeding, FeedTypes
          <6> QED BY <6>1 DEF Event
        <5>3. wire[1].field = "id"
          BY <5>1, <5>2, FrameRead
        <5> QED BY <3>2, <4>3, <5>1, <5>3 DEF Place, Heard, Resumes
      <4> QED BY <4>2, <4>3
    <3> QED BY <3>1, <3>2
  <2> HIDE DEF Place, Resumes
  <2> QED BY <1>1, <2>1, <2>2, <2>3, SettledStays
<1>7. CASE Fetch
  BY <1>7, FetchSettles
<1> QED BY <1>2, <1>3, <1>4, <1>5, <1>6, <1>7 DEF Following

LEMMA CopySettlesHolds ==
  /\ Init => CopySettles
  /\ Feeding /\ InOrder /\ Streaming /\ DeltasSettle /\ CopySettles /\ [Next]_vars => CopySettles'
<1>1. ASSUME Init PROVE CopySettles
  BY <1>1 DEF Init, CopySettles
<1>2. ASSUME Feeding, InOrder, Streaming, DeltasSettle, CopySettles, [Next]_vars PROVE CopySettles'
  <2>1. CASE Unmoved
    <3>1. UNCHANGED <<held, deploy, unsteady, log, pending, ordered, copy, sure>>
      BY <2>1 DEF Unmoved, feed, reader
    <3>2. Place' = Place /\ (Resumes' <=> Resumes)
      BY <2>1 DEF Unmoved, Place, Resumes, Heard, stream, reader
    <3> HIDE DEF Place, Resumes
    <3> QED BY <1>2, <3>1, <3>2, SettledStays
  <2>2. CASE Restart
    <3>1. sure' = FALSE /\ copy' = copy
      BY <2>2 DEF Restart
    <3> QED BY <1>2, <3>1 DEF CopySettles
  <2>3. CASE ChangeLands /\ UNCHANGED <<stream, lastId, dated, gone, got, copy>>
    BY <1>2, <2>3, LandingSettles
  <2>4. CASE \E i \in DOMAIN pending : Announce(i) \/ AnnounceComputed(i)
    BY <1>2, <2>4, AnnouncementSettles
  <2>5. CASE Following /\ UNCHANGED <<role, held, deploy, changes, unsteady, feed, clock>>
    BY <1>2, <2>5, FollowingSettles
  <2> QED BY <1>2, <2>1, <2>2, <2>3, <2>4, <2>5, FollowSteps DEF Feeding
<1> QED BY <1>1, <1>2
-----------------------------------------------------------------------------
FollowInv == Feeding /\ InOrder /\ Streaming /\ DeltasSettle /\ CopySettles

LEMMA FollowInvariance == Spec => []FollowInv
<1>1. Init => FollowInv
  BY FeedingHolds, InOrderHolds, StreamingHolds, DeltasSettleHolds, CopySettlesHolds DEF FollowInv
<1>2. FollowInv /\ [Next]_vars => FollowInv'
  BY FeedingHolds, InOrderHolds, StreamingHolds, DeltasSettleHolds, CopySettlesHolds DEF FollowInv
<1> QED BY <1>1, <1>2, PTL DEF Spec

(* Every variable holds a value of its kind, events are numbered as they   *)
(* are broadcast, and a request is answered exactly when it has a status.  *)
THEOREM TypesHold == Spec => []TypeOK
<1>1. Init => AskTypes
  BY AskTypesHold
<1>2. Placed /\ AskTypes /\ [Next]_vars => AskTypes'
  BY AskTypesHold
<1>3. Spec => []Placed
  <2>1. IInv => Placed
    BY DEF IInv
  <2> QED BY <2>1, Invariance, PTL
<1>4. Spec => []AskTypes
  BY <1>1, <1>2, <1>3, PTL DEF Spec
<1>5. FollowInv /\ AskTypes => TypeOK
  <2> SUFFICES ASSUME FollowInv, AskTypes PROVE TypeOK
    OBVIOUS
  <2>1. /\ role \in Role /\ held \in Doc \cup Unservable /\ clock \in 0..MaxClock
        /\ deploy \in Deployment /\ unsteady \in 0..changes /\ ordered \in BOOLEAN
    BY DEF FollowInv, Feeding, WorldTypes, FeedTypes
  <2>2. \A i \in DOMAIN log : log[i].id = i
    <3>1. DOMAIN log = 1..Len(log)
      BY LenProperties DEF FollowInv, Feeding, FeedTypes
    <3> QED BY <3>1 DEF FollowInv, Feeding, FeedSays
  <2>3. /\ conn \in {"away", "found", "open"} /\ joined \in 0..Len(log) /\ sent \in 0..Len(log)
        /\ lastId \in Nat /\ dated \in BOOLEAN /\ gone \in BOOLEAN /\ sure \in BOOLEAN
    BY DEF FollowInv, Streaming, StreamTypes
  <2>4. /\ pc \in {"idle", "asked", "loaded", "answered"}
        /\ ask \in Asks \cup {Nothing} /\ snap \in Doc \cup {Nothing}
        /\ pc = "answered" <=> ans.status \in {200, 204, 404, 405, 406, 413, 500}
        /\ ans.status >= 400 <=> ans.slug # Nothing
    BY DEF AskTypes, Whether, Statuses
  <2> QED BY <2>1, <2>2, <2>3, <2>4 DEF TypeOK
<1> QED BY <1>4, <1>5, FollowInvariance, PTL

(* A reader is handed the events in order, each once, wherever the         *)
(* connection is cut: its last id moves only by the event that follows it, *)
(* or past what it was told by a reset that it missed, and the payload it  *)
(* is handed is the one that was broadcast, unless a carriage return       *)
(* breaks that one (stream.go:63-94).                                      *)
THEOREM EventsAreIntact == Spec => EventsIntact
<1> DEFINE Step ==
      lastId' # lastId =>
        /\ lastId' = sent
        /\ \/ lastId = sent - 1
           \/ joined = sent - 1 /\ (lastId = 0 \/ got.name = "reset")
        /\ IF log[sent].data = <<>> THEN got' \in {got, Nothing}
           ELSE /\ got'.id = sent /\ got'.name = log[sent].name
                /\ Unbroken(log[sent].data) =>
                     log[sent].data \in {Joined(got'.data), Joined(got'.data) \o <<Newline>>}
<1>1. FollowInv /\ [Next]_vars => [Step]_vars
  <2> SUFFICES ASSUME FollowInv, [Next]_vars, lastId' # lastId
               PROVE  /\ lastId' = sent
                      /\ \/ lastId = sent - 1
                         \/ joined = sent - 1 /\ (lastId = 0 \/ got.name = "reset")
                      /\ IF log[sent].data = <<>> THEN got' \in {got, Nothing}
                         ELSE /\ got'.id = sent /\ got'.name = log[sent].name
                              /\ Unbroken(log[sent].data) =>
                                   log[sent].data \in {Joined(got'.data), Joined(got'.data) \o <<Newline>>}
    OBVIOUS
  <2>1. Receive
    <3>1. ~StreamLasts /\ ~Restart
      BY DEF StreamLasts, Restart
    <3>2. Following
      BY <3>1, StreamSteps DEF FollowInv
    <3> QED BY <3>2 DEF Following, FeedGet, FeedSubscribe, Send, Cut, Fetch, reader
  <2>2. /\ Delivering /\ lastId' = sent
        /\ log[sent] \in Event /\ Telling(log[sent])
        /\ Received.id = sent /\ Received.name = log[sent].name
        /\ Unbroken(log[sent].data) => Received.data = SplitDataLines(log[sent].data)
        /\ Received.data = <<>> <=> log[sent].data = <<>>
        /\ \/ Hangup /\ log[sent].name = "deleted"
           \/ got' = IF Received.data = <<>> THEN got ELSE Received
    BY <2>1, Receiving DEF FollowInv
  <2>3. \/ lastId = sent - 1
        \/ joined = sent - 1 /\ (lastId = 0 \/ got.name = "reset")
    BY <2>2 DEF Delivering, Excused
  <2>4. CASE log[sent].data = <<>>
    BY <2>2, <2>3, <2>4 DEF Hangup
  <2>5. CASE log[sent].data # <<>>
    <3>1. got' = Received
      BY <2>2, <2>5 DEF Telling
    <3>2. log[sent].data \in Seq(Token) /\ Newline \in Token
      BY <2>2, Tokens DEF Event
    <3>3. log[sent].data \in {Joined(SplitDataLines(log[sent].data)),
                              Joined(SplitDataLines(log[sent].data)) \o <<Newline>>}
      BY <2>5, <3>2, SplitJoins
    <3> QED BY <2>2, <2>3, <2>5, <3>1, <3>3
  <2> QED BY <2>4, <2>5
<1>2. Spec => [][Step]_vars
  BY <1>1, FollowInvariance, PTL DEF Spec
<1> QED BY <1>2 DEF EventsIntact

(* A reader that has applied every delta to what it fetched has the values *)
(* the server computes, whichever events preceded its fetch and were       *)
(* applied on top of it, and wherever its connection was cut, as long as   *)
(* no volatile document passed, values were announced in order and it was  *)
(* not resumed by an id of before a restart (write.go:117-120,             *)
(* compute.go:159-176).                                                    *)
THEOREM ValuesAreTracked == Spec => []ValuesTrack
<1>1. FollowInv => ValuesTrack
  <2> SUFFICES ASSUME FollowInv, conn = "open", wire = <<>>, sent = Len(log), pending = <<>>,
                      copy # Nothing, sure, ordered, held \in Doc
               PROVE  copy = Shown(GridOf(held, clock))
    BY DEF ValuesTrack
  <2>1. Len(pending) = 0 /\ Len(log) \in Nat
    BY LenProperties, EmptySeq DEF FollowInv, Feeding, FeedTypes
  <2>2. Place = Len(log) /\ Resumes
    BY DEF Place, Resumes, Heard
  <2>3. DeltasOf(log, pending, Len(log)) = {} /\ ResetsOf(log, pending, Len(log)) = {}
    BY <2>1 DEF DeltasOf, ResetsOf
  <2>4. CopyOf(copy) /\ Steady(held) /\ \A a \in Everywhere : CopyAt(copy, a) = Val(deploy.cap, held, a)
    <3> HIDE DEF Place, Resumes
    <3> QED BY <2>2, <2>3 DEF FollowInv, CopySettles
  <2>5. clock \in 0..MaxClock /\ WorldTypes
    BY DEF FollowInv, Feeding, WorldTypes
  <2>6. GridOf(held, clock) \in Grid(STRING) /\ GridOf(held, clock) = Values(held, deploy.cap)
    BY <2>4, <2>5, SteadyValues
  <2> QED BY <2>4, <2>6, CopyOfShown DEF Val
<1> QED BY <1>1, FollowInvariance, PTL
=============================================================================
