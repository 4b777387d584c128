----------------------------- MODULE ClientProofs -----------------------------
(***************************************************************************)
(* Proofs about the remote adapter, for any number of frontends, any       *)
(* documents and batches, and any changes by others.  Inv is what a call   *)
(* still knows, at each exchange, of what it asked, read and changed.      *)
(***************************************************************************)
EXTENDS Client, TLAPS

(* A call that is under way has seen what is served now, and that only if  *)
(* it was alone.                                                           *)
Watches(c) ==
  /\ stage[c] = "idle" <=> call[c] = Nothing
  /\ Underway(c) => held \in seen[c] /\ (alone[c] => seen[c] = {held})

(* Which exchange stands before which call, and what has landed by then. *)
Tracks(c) ==
  /\ stage[c] \in {"reading", "sending", "checking"} => Valid(call[c].name)
  /\ stage[c] = "reading" => Op(c) \in {"get", "apply"}
  /\ stage[c] = "sending" => Op(c) # "get"
  /\ stage[c] \in {"idle", "entered", "reading", "sending"} => landed[c] = Nothing
  /\ stage[c] = "checking" =>
       /\ Op(c) \in {"put", "apply"}
       /\ landed[c] # Nothing /\ landed[c].new \in Resident
       /\ Effect(call[c], landed[c].old, landed[c].new)
       /\ got[c].rev = Revision[landed[c].new]
       /\ got[c].created = (landed[c].old = "missing")

(* What the call has made of the document stands if it is alone. *)
LandedStands(c) == stage[c] = "checking" /\ alone[c] => held = landed[c].new

(* Apply has read a document, the one it is about to change if alone. *)
HasRead(c) ==
  stage[c] \in {"sending", "checking"} /\ Op(c) = "apply" =>
    /\ before[c] \in Resident
    /\ alone[c] => before[c] = IF stage[c] = "sending" THEN held ELSE landed[c].old

Truthful(c) == Success(c) /\ Refusing(c) /\ Conforming(c)

Sound(c) == Watches(c) /\ Tracks(c) /\ LandedStands(c) /\ HasRead(c) /\ Truthful(c)

Inv == TypeOK /\ \A c \in Caller : Sound(c)

Answers == Answer \cup {Refusal("unavailable")}

(* Every request is one of the four calls, with the fields of its call. *)
LEMMA RequestFields ==
  ASSUME NEW r \in Requests
  PROVE  /\ r # Nothing /\ r.op \in {"get", "put", "apply", "delete"}
         /\ r.op = "put" => r.body \in Raw /\ r.expect \in Expect
         /\ r.op = "apply" => r.batch \in Batch /\ r.expect \in Rev
         /\ r.op = "delete" => r.expect \in Rev
  BY RequestAssumption, NothingAssumption DEF Request

(* What a call may answer is an answer, and none of it is no answer. *)
LEMMA AnswerTypes ==
  /\ \A why \in Reason \cup {"unavailable"} : Refusal(why) \in Answers
  /\ \A d \in Doc : \A b \in BOOLEAN : Snapped(d, b) \in Answers
  /\ \A d, e \in Doc : Applied(d, e) \in Answers
  /\ Done \in Answers
  BY DEF Answers, Answer, Refusal, Snapped, Applied, Done

(* What a mutation leaves behind: nothing after a deletion, else a document. *)
LEMMA EffectType ==
  ASSUME NEW r \in Requests, NEW h, NEW h2, Effect(r, h, h2)
  PROVE  /\ r.op \in {"put", "apply"} => h2 \in Resident
         /\ r.op = "delete" => h2 = "missing"
         /\ r.op = "apply" => h \in Doc /\ h2 = Fold[h][r.batch]
  BY RequestFields, ExpectAssumption DEF Effect, Met

LEMMA Initially == Init => Inv
  <1> SUFFICES ASSUME Init PROVE Inv
    OBVIOUS
  <1>1. TypeOK
    BY ElsewhereAssumption, DocAssumption DEF Init, TypeOK, NoMutation, State
  <1>2. \A c \in Caller : Sound(c)
    BY DEF Init, Sound, Watches, Tracks, LandedStands, HasRead, Truthful, Success, Refusing, Conforming,
           Returns, Underway
  <1> QED
    BY <1>1, <1>2 DEF Inv

(* A caller whose own call does not move keeps what it knows, provided that *)
(* what becomes of the document is noticed.                                 *)
LEMMA BystanderKeeps ==
  ASSUME Inv, NEW c \in Caller,
         stage'[c] = stage[c], call'[c] = call[c], before'[c] = before[c], got'[c] = got[c],
         ans'[c] = ans[c], landed'[c] = landed[c], faulted'[c] = faulted[c],
         ~Underway(c) => seen'[c] = seen[c] /\ alone'[c] = alone[c],
         Underway(c) => /\ held' \in seen'[c]
                        /\ alone'[c] => alone[c] /\ held' = held /\ seen'[c] = {held}
  PROVE  Sound(c)'
  <1> USE DEF Inv, Sound
  <1>1. Watches(c)'
    BY DEF Watches, Underway
  <1>2. Tracks(c)'
    BY DEF Tracks, Op
  <1>3. HasRead(c)'
    BY DEF HasRead, Underway, Op
  <1>4. LandedStands(c)'
    BY DEF LandedStands, Underway
  <1>5. Truthful(c)'
    <2>1. CASE stage[c] = "answered"
      <3>1. seen'[c] = seen[c] /\ alone'[c] = alone[c]
        BY <2>1 DEF Underway
      <3> QED
        BY <3>1 DEF Truthful, Success, Refusing, Conforming, Returns, Op, ZeroExpect, Expressible
    <2>2. CASE stage[c] # "answered"
      BY <2>2 DEF Truthful, Success, Refusing, Conforming, Returns
    <2> QED
      BY <2>1, <2>2
  <1> QED
    BY <1>1, <1>2, <1>3, <1>4, <1>5

(* A call that answers without touching the document. *)
LEMMA AnswerKeeps ==
  ASSUME Inv, NEW c \in Caller, Underway(c), NEW a \in Answers, Answered(c, a),
         NEW f \in BOOLEAN, faulted' = [faulted EXCEPT ![c] = f],
         UNCHANGED <<held, local, history, elsewhere>>,
         Truthful(c)'
  PROVE  Inv'
  <1> USE DEF Inv, local, history
  <1>1. TypeOK'
    BY DEF TypeOK, Answered, Goto, Answers
  <1>2. ASSUME NEW d \in Caller PROVE Sound(d)'
    <2>1. CASE d = c
      BY <2>1 DEF Sound, Watches, Tracks, LandedStands, HasRead, Underway, TypeOK, Answered, Goto
    <2>2. CASE d # c
      <3>1. stage'[d] = stage[d] /\ ans'[d] = ans[d] /\ faulted'[d] = faulted[d]
        BY <2>2 DEF TypeOK, Answered, Goto
      <3> QED
        BY <3>1, BystanderKeeps DEF Sound, Watches
    <2> QED
      BY <2>1, <2>2
  <1> QED
    BY <1>1, <1>2

(* The entries of the acting call after it has answered a. *)
LEMMA AnsweredEntries ==
  ASSUME Inv, NEW c \in Caller, NEW a, Answered(c, a)
  PROVE  stage'[c] = "answered" /\ ans'[c] = a
  BY DEF Inv, TypeOK, Answered, Goto

(* A refusal for a reason that is true of what is served now, by a call    *)
(* that has not landed or is a put's read-back.                            *)
LEMMA RefusalKeeps ==
  ASSUME Inv, NEW c \in Caller, Underway(c), NEW why \in Reason, Refused(c, why),
         UNCHANGED <<held, local, history, elsewhere>>,
         Valid(call[c].name), TrueReason(call[c], held, why),
         Op(c) # "put" => landed[c] = Nothing,
         alone[c] => landed[c] = Nothing \/ why \in {"corrupt", "read", "write"}
  PROVE  Inv'
  <1> DEFINE a == Refusal(Sentinel(why))
             f == faulted[c] \/ why \in {"corrupt", "read", "write"}
  <1> USE DEF Inv, local, history
  <1>1. a \in Answers /\ a.result = Sentinel(why) /\ a.result # "ok" /\ f \in BOOLEAN
    BY AnswerTypes DEF Sentinel, Refusal, Reason, Unservable, TypeOK
  <1>2. faulted' = [faulted EXCEPT ![c] = f] /\ Answered(c, a)
    BY DEF Refused
  <1>3. stage'[c] = "answered" /\ ans'[c] = a /\ faulted'[c] = f
    BY <1>2, AnsweredEntries DEF TypeOK
  <1>4. held \in seen[c] /\ (a.result # "unavailable" => a.result = why)
    BY <1>1 DEF Sound, Watches, Sentinel
  <1>5. Success(c)'
    BY <1>1, <1>3 DEF Success, Returns
  <1>6. Refusing(c)'
    BY <1>1, <1>3, <1>4 DEF Refusing, Op
  <1>7. Conforming(c)'
    <2>1. why \in {"corrupt", "read", "write"} => faulted'[c]
      BY <1>3
    <2>2. why \notin {"corrupt", "read", "write"} => a.result = why
      BY <1>1 DEF Sentinel
    <2> QED
      BY <1>1, <1>3, <1>4, <2>1, <2>2 DEF Conforming
  <1> QED
    BY <1>1, <1>2, <1>5, <1>6, <1>7, AnswerKeeps DEF Truthful

(* The refusals before anything is sent. *)
LEMMA UnsentKeeps ==
  ASSUME Inv, NEW c \in Caller, RefuseZero(c) \/ RefusePath(c)
  PROVE  Inv'
  <1> USE DEF Inv, local, history
  <1>1. stage[c] = "entered" /\ Underway(c) /\ landed[c] = Nothing /\ held \in seen[c]
    BY DEF RefuseZero, RefusePath, Underway, Sound, Tracks, Watches
  <1>2. faulted' = [faulted EXCEPT ![c] = faulted[c]] /\ faulted[c] \in BOOLEAN
    BY DEF RefuseZero, RefusePath, TypeOK
  <1>3. CASE RefuseZero(c)
    <2> DEFINE a == Refusal("precondition")
    <2>1. a \in Answers /\ a.result = "precondition" /\ Answered(c, a)
      BY <1>3, AnswerTypes DEF RefuseZero, Refusal, Reason
    <2>2. stage'[c] = "answered" /\ ans'[c] = a
      BY <2>1, AnsweredEntries
    <2>3. TrueReason(call[c], held, "precondition")
      BY <1>3 DEF RefuseZero, ZeroExpect, Op, TrueReason
    <2>4. Truthful(c)'
      BY <1>1, <1>3, <2>1, <2>2, <2>3
      DEF RefuseZero, Truthful, Success, Refusing, Conforming, Returns, Op, ZeroExpect
    <2> QED
      BY <1>1, <1>2, <1>3, <2>1, <2>4, AnswerKeeps DEF RefuseZero
  <1>4. CASE RefusePath(c)
    <2> DEFINE a == Refusal("missing")
    <2>1. a \in Answers /\ a.result = "missing" /\ Answered(c, a)
      BY <1>4, AnswerTypes DEF RefusePath, Refusal, Reason, Unservable
    <2>2. stage'[c] = "answered" /\ ans'[c] = a
      BY <2>1, AnsweredEntries
    <2>3. Truthful(c)'
      BY <1>1, <1>4, <2>1, <2>2
      DEF RefusePath, Truthful, Success, Refusing, Conforming, Returns, Op
    <2> QED
      BY <1>1, <1>2, <1>4, <2>1, <2>3, AnswerKeeps DEF RefusePath
  <1> QED
    BY <1>3, <1>4

(* A fault: whatever it hides, nothing is claimed. *)
LEMMA FaultIsTruthful ==
  ASSUME Inv, NEW c \in Caller, Unavailable(c)
  PROVE  Truthful(c)' /\ Refusal("unavailable") \in Answers
  <1>1. Answered(c, Refusal("unavailable")) /\ Refusal("unavailable").result = "unavailable"
    BY DEF Unavailable, Refusal
  <1>2. stage'[c] = "answered" /\ ans'[c] = Refusal("unavailable") /\ faulted'[c]
    BY <1>1, AnsweredEntries DEF Unavailable, Inv, TypeOK
  <1> QED
    BY <1>1, <1>2, AnswerTypes DEF Truthful, Success, Refusing, Conforming, Returns

LEMMA LostKeeps ==
  ASSUME Inv, NEW c \in Caller, Lost(c)
  PROVE  Inv'
  BY FaultIsTruthful, AnswerKeeps DEF Lost, Unavailable, Underway

LEMMA BeginKeeps ==
  ASSUME Inv, NEW c \in Caller, Begin(c)
  PROVE  Inv'
  <1> USE DEF Inv, local, history
  <1>1. TypeOK'
    BY DEF TypeOK, Begin, Goto
  <1>2. ASSUME NEW d \in Caller PROVE Sound(d)'
    <2>1. CASE d = c
      <3>1. call[c] \in Requests /\ stage[c] = "entered"
        BY DEF TypeOK, Begin, Sound, Watches
      <3>2. stage'[c] = IF Op(c) \in {"get", "apply"} THEN "reading" ELSE "sending"
        BY DEF Begin, Goto, TypeOK
      <3>3. call' = call /\ held' = held /\ seen' = seen /\ alone' = alone /\ landed' = landed
        BY DEF Begin
      <3>4. Watches(c)'
        BY <3>1, <3>2, <3>3 DEF Sound, Watches, Underway
      <3>5. Tracks(c)'
        BY <3>1, <3>2, <3>3 DEF Begin, Sound, Tracks, Op
      <3>6. HasRead(c)'
        BY <3>1, <3>2, <3>3 DEF HasRead, Op
      <3>7. Truthful(c)'
        BY <3>2 DEF Truthful, Success, Refusing, Conforming, Returns
      <3> QED
        BY <2>1, <3>2, <3>4, <3>5, <3>6, <3>7 DEF Sound, LandedStands
    <2>2. CASE d # c
      <3>1. stage'[d] = stage[d]
        BY <2>2 DEF TypeOK, Begin, Goto
      <3> QED
        BY <3>1, BystanderKeeps DEF Begin, Sound, Watches
    <2> QED
      BY <2>1, <2>2
  <1> QED
    BY <1>1, <1>2

LEMMA InvokeKeeps ==
  ASSUME Inv, NEW c \in Caller, Invoke(c)
  PROVE  Inv'
  <1> USE DEF Inv, local, history
  <1>1. PICK r \in Requests : call' = [call EXCEPT ![c] = r]
    BY DEF Invoke
  <1>2. TypeOK'
    BY <1>1 DEF TypeOK, Invoke, Goto
  <1>3. ASSUME NEW d \in Caller PROVE Sound(d)'
    <2>1. CASE d = c
      BY <1>1, <2>1, RequestFields
      DEF Invoke, Goto, TypeOK, Sound, Watches, Tracks, LandedStands, HasRead, Truthful, Success, Refusing,
          Conforming, Returns, Underway
    <2>2. CASE d # c
      <3>1. /\ stage'[d] = stage[d] /\ call'[d] = call[d] /\ seen'[d] = seen[d]
            /\ UNCHANGED <<held, before, got, ans, landed, faulted, alone>>
        BY <1>1, <2>2 DEF TypeOK, Invoke, Goto
      <3> QED
        BY <3>1, BystanderKeeps DEF Sound, Watches
    <2> QED
      BY <2>1, <2>2
  <1> QED
    BY <1>2, <1>3

LEMMA ReturnKeeps ==
  ASSUME Inv, NEW c \in Caller, Return(c)
  PROVE  Inv'
  <1> USE DEF Inv, local, history
  <1>1. TypeOK'
    BY DEF TypeOK, Return, Goto, NoMutation
  <1>2. ASSUME NEW d \in Caller PROVE Sound(d)'
    <2>1. CASE d = c
      BY <2>1
      DEF Return, Goto, TypeOK, Sound, Watches, Tracks, LandedStands, HasRead, Truthful, Success, Refusing,
          Conforming, Returns, Underway
    <2>2. CASE d # c
      <3>1. /\ stage'[d] = stage[d] /\ call'[d] = call[d] /\ seen'[d] = seen[d]
            /\ before'[d] = before[d] /\ got'[d] = got[d] /\ ans'[d] = ans[d]
            /\ landed'[d] = landed[d] /\ alone'[d] = alone[d] /\ faulted'[d] = faulted[d]
            /\ held' = held
        BY <2>2 DEF TypeOK, Return, Goto
      <3> QED
        BY <3>1, BystanderKeeps DEF Sound, Watches
    <2> QED
      BY <2>1, <2>2
  <1> QED
    BY <1>1, <1>2

LEMMA ElsewhereKeeps ==
  ASSUME Inv, Elsewhere
  PROVE  Inv'
  <1> USE DEF Inv, local, history
  <1>1. PICK h2 \in Resident \cup Unservable : h2 # held /\ Becomes(Nothing, h2)
    BY DEF Elsewhere
  <1>2. TypeOK'
    <2>1. h2 \in State /\ elsewhere' \in 0..MaxElsewhere
      BY <1>1, ElsewhereAssumption, DocAssumption DEF Elsewhere, TypeOK, State
    <2>2. seen' \in [Caller -> SUBSET State] /\ alone' \in [Caller -> BOOLEAN]
      BY <1>1, <2>1 DEF TypeOK, Becomes
    <2> QED
      BY <1>1, <2>1, <2>2 DEF TypeOK, Elsewhere, Becomes
  <1>3. ASSUME NEW d \in Caller PROVE Sound(d)'
    <2>1. /\ Underway(d) => held' \in seen'[d] /\ ~alone'[d]
          /\ ~Underway(d) => seen'[d] = seen[d] /\ alone'[d] = alone[d]
      BY <1>1, CallerAssumption DEF Becomes, TypeOK
    <2> QED
      BY <2>1, BystanderKeeps DEF Elsewhere
  <1> QED
    BY <1>2, <1>3

LEMMA ReadRefusedKeeps ==
  ASSUME Inv, NEW c \in Caller, ReadRefused(c)
  PROVE  Inv'
  <1> USE DEF Inv, local, history
  <1>1. PICK why \in Unservable \cup {"read"} : why \in {held, "read"} /\ Refused(c, why)
    BY DEF ReadRefused
  <1>2. Underway(c) /\ Valid(call[c].name)
    BY DEF ReadRefused, Underway, Sound, Tracks
  <1>3. why \in Reason /\ TrueReason(call[c], held, why)
    BY <1>1 DEF Reason, TrueReason
  <1>4. Op(c) # "put" => landed[c] = Nothing
    BY DEF ReadRefused, Sound, Tracks
  <1>5. alone[c] => landed[c] = Nothing \/ why \in {"corrupt", "read", "write"}
    <2>1. CASE stage[c] = "reading"
      BY <2>1 DEF Sound, Tracks
    <2>2. CASE stage[c] = "checking" /\ alone[c]
      <3>1. held = landed[c].new /\ held \in Resident
        BY <2>2 DEF Sound, Watches, Tracks, LandedStands
      <3> QED
        BY <1>1, <3>1, DocAssumption
    <2> QED
      BY <2>1, <2>2 DEF ReadRefused
  <1> QED
    BY <1>1, <1>2, <1>3, <1>4, <1>5, RefusalKeeps DEF ReadRefused

LEMMA SendRefusedKeeps ==
  ASSUME Inv, NEW c \in Caller, SendRefused(c)
  PROVE  Inv'
  <1> USE DEF Inv, local, history
  <1>1. Underway(c) /\ Valid(call[c].name) /\ landed[c] = Nothing
    BY DEF SendRefused, Underway, Sound, Tracks
  <1>2. CASE Expressible(c)
    BY <1>1, <1>2, RefusalKeeps DEF SendRefused
  <1>3. CASE ~Expressible(c)
    <2> DEFINE a == Refusal("unavailable")
    <2>1. a \in Answers /\ a.result = "unavailable" /\ Answered(c, a)
      BY <1>3, AnswerTypes DEF SendRefused, Refusal
    <2>2. stage'[c] = "answered" /\ ans'[c] = a
      BY <2>1, AnsweredEntries
    <2>3. ~Expressible(c)'
      BY <1>3 DEF SendRefused, Expressible, Op
    <2>4. Truthful(c)'
      BY <2>1, <2>2, <2>3 DEF Truthful, Success, Refusing, Conforming, Returns
    <2>5. faulted' = [faulted EXCEPT ![c] = faulted[c]] /\ faulted[c] \in BOOLEAN
      BY <1>3 DEF SendRefused, TypeOK
    <2> QED
      BY <1>1, <2>1, <2>4, <2>5, AnswerKeeps DEF SendRefused
  <1> QED
    BY <1>2, <1>3

LEMMA ReadKeeps ==
  ASSUME Inv, NEW c \in Caller, Read(c)
  PROVE  Inv'
  <1> USE DEF Inv, local, history
  <1>1. /\ Underway(c) /\ held \in seen[c] /\ landed[c] = Nothing /\ call[c] # Nothing
        /\ stage[c] = "reading" /\ Valid(call[c].name) /\ held \in Resident /\ held \in Doc
    BY DocAssumption DEF Read, Underway, Sound, Tracks, Watches
  <1>2. CASE Op(c) = "get"
    <2> DEFINE a == Snapped(held, FALSE)
    <2>1. /\ a \in Answers /\ a.result = "ok" /\ a.new = held /\ Answered(c, a)
          /\ faulted' = [faulted EXCEPT ![c] = faulted[c]] /\ faulted[c] \in BOOLEAN
          /\ UNCHANGED <<held, local, history, elsewhere>>
      BY <1>1, <1>2, AnswerTypes DEF Read, Snapped, TypeOK
    <2>2. stage'[c] = "answered" /\ ans'[c] = a
      BY <2>1, AnsweredEntries
    <2>3. Effect(call[c], held, held) /\ a = Reply(call[c], held, held)
      BY <1>1, <1>2 DEF Effect, Reply, Op
    <2>4. Truthful(c)'
      BY <1>1, <1>2, <2>1, <2>2, <2>3
      DEF Truthful, Success, Refusing, Conforming, Returns, Op
    <2> QED
      BY <1>1, <2>1, <2>4, AnswerKeeps
  <1>3. CASE Op(c) # "get"
    <2>1. /\ before' = [before EXCEPT ![c] = held] /\ Goto(c, "sending")
          /\ UNCHANGED <<held, call, got, ans, landed, seen, alone, faulted, elsewhere>>
      BY <1>3 DEF Read
    <2>2. TypeOK'
      BY <1>1, <2>1 DEF TypeOK, Goto
    <2>3. ASSUME NEW d \in Caller PROVE Sound(d)'
      <3>1. CASE d = c
        <4>1. stage'[c] = "sending" /\ before'[c] = held
          BY <2>1 DEF TypeOK, Goto
        <4> QED
          BY <1>1, <1>3, <2>1, <3>1, <4>1
          DEF Sound, Watches, Tracks, LandedStands, HasRead, Truthful, Success, Refusing, Conforming,
              Returns, Underway, LandedStands, Op
      <3>2. CASE d # c
        <4>1. stage'[d] = stage[d] /\ before'[d] = before[d]
          BY <2>1, <3>2 DEF TypeOK, Goto
        <4> QED
          BY <2>1, <4>1, BystanderKeeps DEF Sound, Watches
      <3> QED
        BY <3>1, <3>2
    <2> QED
      BY <2>2, <2>3
  <1> QED
    BY <1>2, <1>3

LEMMA VerifyKeeps ==
  ASSUME Inv, NEW c \in Caller, Verify(c)
  PROVE  Inv'
  <1> USE DEF Inv, local, history
  <1> DEFINE next == Fold[before[c]][call[c].batch]
             good == next \in Resident /\ Revision[next] = got[c].rev
             a == IF good THEN Applied(before[c], next) ELSE Refusal("unavailable")
  <1>1. /\ stage[c] = "checking" /\ Op(c) = "apply" /\ Underway(c) /\ Valid(call[c].name)
        /\ call[c] \in Requests /\ landed[c] # Nothing /\ before[c] \in Resident
        /\ landed[c].new \in Resident /\ got[c].rev = Revision[landed[c].new]
        /\ Effect(call[c], landed[c].old, landed[c].new) /\ held \in seen[c]
    BY DEF Verify, Underway, Sound, Watches, Tracks, HasRead, TypeOK
  <1>2. good => next = landed[c].new
    BY <1>1, RevisionAssumption, DocAssumption
  <1>3. a \in Answers /\ Answered(c, a)
    BY <1>1, AnswerTypes, DocAssumption DEF Verify
  <1>4. stage'[c] = "answered" /\ ans'[c] = a
    BY <1>3, AnsweredEntries
  <1>5. /\ faulted' = [faulted EXCEPT ![c] = faulted[c]] /\ faulted[c] \in BOOLEAN
        /\ UNCHANGED <<held, local, history, elsewhere>>
    BY DEF Verify, TypeOK
  <1>6. CASE ~good
    <2>1. a.result = "unavailable"
      BY <1>6 DEF Refusal
    <2>2. ~alone[c]
      <3>1. alone[c] => before[c] = landed[c].old
        BY <1>1 DEF Sound, HasRead
      <3>2. landed[c].new = Fold[landed[c].old][call[c].batch]
        BY <1>1, EffectType DEF Op
      <3> QED
        BY <1>1, <1>6, <3>1, <3>2
    <2>3. Truthful(c)'
      BY <1>4, <1>5, <2>1, <2>2 DEF Truthful, Success, Refusing, Conforming, Returns
    <2> QED
      BY <1>1, <1>3, <1>5, <2>3, AnswerKeeps
  <1>7. CASE good
    <2>1. a = Applied(before[c], landed[c].new) /\ a.result = "ok" /\ a.new = landed[c].new
      BY <1>2, <1>7 DEF Applied
    <2>2. alone[c] => /\ before[c] = landed[c].old /\ landed[c].new \in seen[c]
                      /\ a = Reply(call[c], landed[c].old, landed[c].new)
      BY <1>1, <2>1 DEF Sound, HasRead, LandedStands, Reply, Op
    <2>3. Truthful(c)'
      BY <1>1, <1>4, <1>5, <2>1, <2>2
      DEF Truthful, Success, Refusing, Conforming, Returns, Op
    <2> QED
      BY <1>1, <1>3, <1>5, <2>3, AnswerKeeps
  <1> QED
    BY <1>6, <1>7

LEMMA ReadBackKeeps ==
  ASSUME Inv, NEW c \in Caller, ReadBack(c)
  PROVE  Inv'
  <1> USE DEF Inv, local, history
  <1> DEFINE a == Snapped(held, got[c].created)
  <1>1. /\ stage[c] = "checking" /\ Op(c) = "put" /\ Underway(c) /\ held \in Resident
        /\ landed[c] # Nothing /\ got[c].created = (landed[c].old = "missing")
        /\ Effect(call[c], landed[c].old, landed[c].new) /\ held \in seen[c]
    BY DEF ReadBack, Underway, Sound, Watches, Tracks
  <1>2. a \in Answers /\ Answered(c, a)
    BY <1>1, AnswerTypes, DocAssumption DEF ReadBack, TypeOK
  <1>3. stage'[c] = "answered" /\ ans'[c] = a
    BY <1>2, AnsweredEntries
  <1>4. /\ faulted' = [faulted EXCEPT ![c] = faulted[c]] /\ faulted[c] \in BOOLEAN
        /\ UNCHANGED <<held, local, history, elsewhere>>
    BY DEF ReadBack, TypeOK
  <1>5. a.result = "ok" /\ a.new = held /\ a.created = (landed[c].old = "missing")
    BY <1>1 DEF Snapped
  <1>6. alone[c] => held = landed[c].new /\ a = Reply(call[c], landed[c].old, landed[c].new)
    BY <1>1 DEF Sound, LandedStands, Reply, Op
  <1>7. Truthful(c)'
    BY <1>1, <1>3, <1>4, <1>5, <1>6
    DEF Truthful, Success, Refusing, Conforming, Returns, Op
  <1> QED
    BY <1>1, <1>2, <1>4, <1>7, AnswerKeeps

(* A change by c: the others notice it. *)
LEMMA OthersNotice ==
  ASSUME Inv, NEW c \in Caller, NEW h2, Lands(c, h2),
         NEW d \in Caller, d # c, stage'[d] = stage[d], ans'[d] = ans[d],
         got'[d] = got[d], faulted'[d] = faulted[d]
  PROVE  Sound(d)'
  <1>1. call'[d] = call[d] /\ before'[d] = before[d] /\ landed'[d] = landed[d]
    BY DEF Lands, Inv, TypeOK
  <1>2. /\ held' = h2
        /\ Underway(d) => seen'[d] = seen[d] \cup {h2} /\ alone'[d] = (alone[d] /\ h2 = held)
        /\ ~Underway(d) => seen'[d] = seen[d] /\ alone'[d] = alone[d]
    BY DEF Lands, Becomes, Inv, TypeOK
  <1>3. Underway(d) => held \in seen[d] /\ (alone[d] => seen[d] = {held})
    BY DEF Inv, Sound, Watches
  <1> QED
    BY <1>1, <1>2, <1>3, BystanderKeeps

(* The entries of the call that lands. *)
LEMMA LandedEntries ==
  ASSUME Inv, NEW c \in Caller, NEW h2 \in Resident \cup {"missing"}, Lands(c, h2)
  PROVE  /\ call[c] \in Requests /\ Op(c) \in {"put", "apply", "delete"}
         /\ Valid(call[c].name) /\ stage[c] = "sending"
         /\ held' = h2 /\ seen'[c] = {h2} /\ alone'[c] = alone[c]
         /\ landed'[c] = [old |-> held, new |-> h2] /\ landed'[c] # Nothing
         /\ landed'[c].old = held /\ landed'[c].new = h2
         /\ Effect(call[c], held, h2) /\ UNCHANGED <<call, before, elsewhere>>
         /\ held' \in State
         /\ landed' \in [Caller -> Change \cup {Nothing}]
         /\ seen' \in [Caller -> SUBSET State] /\ alone' \in [Caller -> BOOLEAN]
  <1> USE DEF Inv, Sound
  <1>1. /\ call[c] \in Requests /\ Valid(call[c].name) /\ stage[c] = "sending"
        /\ Effect(call[c], held, h2) /\ UNCHANGED <<call, before, elsewhere>>
    BY DEF Lands, Tracks, Watches, TypeOK
  <1>2. Op(c) \in {"put", "apply", "delete"}
    BY <1>1, RequestFields DEF Tracks, Op
  <1>3. held' = h2 /\ seen'[c] = {h2} /\ alone'[c] = alone[c]
    BY <1>1 DEF Lands, Becomes, TypeOK, Underway
  <1>4. h2 \in State /\ held \in State
    BY DocAssumption DEF TypeOK, State, Unservable
  <1>5. landed'[c] = [old |-> held, new |-> h2]
    BY DEF Lands, TypeOK
  <1>6. landed'[c] # Nothing /\ landed' \in [Caller -> Change \cup {Nothing}]
    BY <1>4, <1>5, CallerAssumption DEF Lands, TypeOK, Change
  <1>7. seen' \in [Caller -> SUBSET State] /\ alone' \in [Caller -> BOOLEAN]
    BY <1>4 DEF Lands, Becomes, TypeOK
  <1> QED
    BY <1>1, <1>2, <1>3, <1>4, <1>5, <1>6, <1>7

LEMMA AnswerLostKeeps ==
  ASSUME Inv, NEW c \in Caller, AnswerLost(c)
  PROVE  Inv'
  <1>1. PICK h2 \in Resident \cup {"missing"} : Lands(c, h2)
    BY DEF AnswerLost
  <1>2. /\ stage' = [stage EXCEPT ![c] = "answered"]
        /\ ans' = [ans EXCEPT ![c] = Refusal("unavailable")]
        /\ faulted' = [faulted EXCEPT ![c] = TRUE] /\ got' = got
    BY DEF AnswerLost, Unavailable, Answered, Goto
  <1>3. TypeOK'
    BY <1>1, <1>2, LandedEntries DEF Inv, TypeOK
  <1>4. Sound(c)'
    <2>1. Truthful(c)'
      BY FaultIsTruthful DEF AnswerLost
    <2>2. stage'[c] = "answered" /\ call'[c] # Nothing
      BY <1>1, <1>2, LandedEntries, RequestFields DEF Inv, TypeOK
    <2> QED
      BY <2>1, <2>2 DEF Sound, Watches, Tracks, LandedStands, HasRead, Underway
  <1>5. ASSUME NEW d \in Caller, d # c PROVE Sound(d)'
    BY <1>1, <1>2, <1>5, OthersNotice DEF Inv, TypeOK
  <1> QED
    BY <1>3, <1>4, <1>5 DEF Inv

LEMMA SendKeeps ==
  ASSUME Inv, NEW c \in Caller, Send(c)
  PROVE  Inv'
  <1>1. PICK h2 \in Resident \cup {"missing"} :
          /\ Lands(c, h2)
          /\ got' = [got EXCEPT ![c] =
               [rev |-> IF h2 = "missing" THEN Nothing ELSE Revision[h2],
                created |-> held = "missing"]]
    BY DEF Send
  <1>2. /\ call[c] \in Requests /\ Op(c) \in {"put", "apply", "delete"} /\ call' = call
        /\ Valid(call[c].name) /\ stage[c] = "sending" /\ Effect(call[c], held, h2)
        /\ held' = h2 /\ seen'[c] = {h2} /\ alone'[c] = alone[c]
        /\ landed'[c] # Nothing /\ landed'[c].old = held /\ landed'[c].new = h2
        /\ UNCHANGED <<before, elsewhere, faulted>>
    BY <1>1, LandedEntries DEF Send
  <1>3. got' \in [Caller -> [rev : Rev \cup {Nothing}, created : BOOLEAN]]
    <2>1. h2 # "missing" => Revision[h2] \in Rev
      BY RevisionAssumption, DocAssumption
    <2> QED
      BY <1>1, <2>1 DEF Inv, TypeOK
  <1>4. stage' \in [Caller -> {"idle", "entered", "reading", "sending", "checking", "answered"}]
    BY DEF Send, Answered, Goto, Inv, TypeOK
  <1>5. ans' \in [Caller -> Answer \cup {Refusal("unavailable"), Nothing}]
    BY AnswerTypes DEF Answers, Send, Answered, Inv, TypeOK
  <1>6. TypeOK'
    BY <1>1, <1>2, <1>3, <1>4, <1>5, LandedEntries DEF Inv, TypeOK
  <1>7. Sound(c)'
    <2>1. CASE Op(c) = "delete"
      <3>1. stage'[c] = "answered" /\ ans'[c] = Done
        BY <2>1, AnsweredEntries DEF Send
      <3>2. Done.result = "ok" /\ Reply(call[c], held, h2) = Done
        BY <2>1 DEF Done, Reply, Op
      <3>3. Truthful(c)'
        BY <1>2, <2>1, <3>1, <3>2
        DEF Truthful, Success, Refusing, Conforming, Returns, Op
      <3> QED
        BY <1>2, <3>1, <3>3, RequestFields
        DEF Sound, Watches, Tracks, LandedStands, HasRead, Underway
    <2>2. CASE Op(c) # "delete"
      <3>1. stage'[c] = "checking"
        BY <2>2 DEF Send, Goto, Inv, TypeOK
      <3>2. Op(c) \in {"put", "apply"} /\ h2 \in Resident
        BY <1>2, <2>2, EffectType DEF Op
      <3>3. got'[c].rev = Revision[h2] /\ got'[c].created = (held = "missing")
        BY <1>1, <3>2, DocAssumption DEF Inv, TypeOK, Unservable
      <3>4. Op(c) = "apply" => before[c] \in Resident /\ (alone[c] => before[c] = held)
        BY <1>2 DEF Inv, Sound, HasRead
      <3>5. Watches(c)' /\ LandedStands(c)'
        BY <1>2, <3>1, RequestFields DEF Watches, LandedStands, Underway
      <3>6. Tracks(c)'
        BY <1>2, <3>1, <3>2, <3>3 DEF Tracks, Op
      <3>7. HasRead(c)'
        BY <1>2, <3>1, <3>4 DEF HasRead, Op
      <3>8. Truthful(c)'
        BY <3>1 DEF Truthful, Success, Refusing, Conforming, Returns
      <3> QED
        BY <3>5, <3>6, <3>7, <3>8 DEF Sound
    <2> QED
      BY <2>1, <2>2
  <1>8. ASSUME NEW d \in Caller, d # c PROVE Sound(d)'
    <2>1. /\ stage'[d] = stage[d] /\ ans'[d] = ans[d] /\ got'[d] = got[d]
          /\ faulted'[d] = faulted[d]
      BY <1>1, <1>8 DEF Send, Answered, Goto, Inv, TypeOK
    <2> QED
      BY <1>1, <1>8, <2>1, OthersNotice
  <1> QED
    BY <1>6, <1>7, <1>8 DEF Inv

LEMMA NextKeeps == Inv /\ [Next]_vars => Inv'
  <1> SUFFICES ASSUME Inv, [Next]_vars PROVE Inv'
    OBVIOUS
  <1>1. CASE UNCHANGED vars
    <2>1. TypeOK'
      BY <1>1 DEF vars, Inv, TypeOK
    <2>2. ASSUME NEW d \in Caller PROVE Sound(d)'
      BY <1>1, BystanderKeeps DEF vars, Inv, Sound, Watches
    <2> QED
      BY <2>1, <2>2 DEF Inv
  <1>2. CASE Elsewhere
    BY <1>2, ElsewhereKeeps
  <1>3. ASSUME NEW c \in Caller,
               \/ Invoke(c) \/ RefuseZero(c) \/ RefusePath(c) \/ Begin(c)
               \/ Exchange(c) \/ Verify(c) \/ ReadBack(c) \/ Return(c)
        PROVE  Inv'
    BY <1>3, InvokeKeeps, UnsentKeeps, BeginKeeps, ReadKeeps, ReadRefusedKeeps, SendKeeps,
       SendRefusedKeeps, LostKeeps, AnswerLostKeeps, VerifyKeeps, ReadBackKeeps, ReturnKeeps
    DEF Exchange
  <1> QED
    BY <1>1, <1>2, <1>3 DEF Next

(* The inductive invariant holds of every execution of the remote adapter. *)
THEOREM Invariance == Spec => []Inv
  <1> QED
    BY Initially, NextKeeps, PTL DEF Spec

(* Every variable keeps its type; a snapshot that is returned is a document *)
(* (client.go:101-124).                                                     *)
THEOREM TypeCorrect == Spec => []TypeOK
  <1>1. Inv => TypeOK
    BY DEF Inv
  <1> QED
    BY <1>1, Invariance, PTL

(* What a call reports to have done it did, whoever else was writing: the  *)
(* local fold never takes another batch's result for its own               *)
(* (client.go:91-100, :144-151).                                           *)
THEOREM SuccessesAreTrue == Spec => []SuccessIsTrue
  <1>1. Inv => SuccessIsTrue
    BY DEF Inv, Sound, Truthful, SuccessIsTrue
  <1> QED
    BY <1>1, Invariance, PTL

(* A refusal was true while the call ran, and neither a lost answer nor a  *)
(* failing server is turned into one (problem.go:49-58).                   *)
THEOREM RefusalsAreTrue == Spec => []RefusalIsTrue
  <1>1. Inv => RefusalIsTrue
    BY DEF Inv, Sound, Truthful, RefusalIsTrue
  <1> QED
    BY <1>1, Invariance, PTL

(* With the document to itself and no exchange lost, a call answers as the *)
(* contract says the embedded port does (conformance/conformance.go).      *)
THEOREM UndisturbedConforms == Spec => []Conforms
  <1>1. Inv => Conforms
    BY DEF Inv, Sound, Truthful, Conforms
  <1> QED
    BY <1>1, Invariance, PTL
=============================================================================
