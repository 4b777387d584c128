-------------------------------- MODULE Client --------------------------------
(***************************************************************************)
(* The remote adapter (client/client.go, client/transport.go,              *)
(* client/problem.go): a document port made of HTTP exchanges.  A call is  *)
(* up to two exchanges, and the document is anybody's between them.  The   *)
(* server is the contract of its port (Documents), one instant per         *)
(* exchange; an exchange may be lost on its way there or on its way back.  *)
(***************************************************************************)
EXTENDS Documents, Naturals

CONSTANTS
  Caller,        \* frontends, one call at a time each
  Quotable,      \* revisions that make a well-formed If-Match: all but ""
  MaxElsewhere   \* bound on changes made by others

ASSUME QuotableAssumption ==
  Quotable \subseteq Rev /\ \A d \in Doc : Revision[d] \in Quotable
(* A put at the revision "" is a put at the zero Expect, which is "none". *)
ASSUME PutAssumption ==
  \A r \in Requests : r.op = "put" => r.expect \in Quotable \cup {"absent", "none"}

(* What the document may be for its readers, and a change of it. *)
State == Doc \cup Unservable
Change == [old : State, new : State]

ASSUME CallerAssumption == Nothing \notin Caller \cup Change
ASSUME ElsewhereAssumption == MaxElsewhere \in Nat

VARIABLES
  held,       \* what the server's port serves
  call,       \* the call each frontend has open
  stage,      \* the exchange it stands before
  before,     \* Apply's first read
  got,        \* the entity tag and status of an accepted mutation
  ans,        \* what the call returns
  landed,     \* the change the call made: what it was, what it is
  seen,       \* what has been served since the call began, or since it landed
  alone,      \* whether nobody else changed the document meanwhile
  faulted,    \* whether an exchange was lost or the server failed
  elsewhere   \* changes made by others

history == <<landed, seen, alone>>
local == <<call, before, got>>
vars == <<held, call, stage, before, got, ans, landed, seen, alone, faulted, elsewhere>>

NoMutation == [rev |-> Nothing, created |-> FALSE]

Init ==
  /\ held \in Resident \cup Unservable
  /\ call = [c \in Caller |-> Nothing]
  /\ stage = [c \in Caller |-> "idle"]
  /\ before = [c \in Caller |-> Nothing]
  /\ got = [c \in Caller |-> NoMutation]
  /\ ans = [c \in Caller |-> Nothing]
  /\ landed = [c \in Caller |-> Nothing]
  /\ seen = [c \in Caller |-> {}]
  /\ alone = [c \in Caller |-> TRUE]
  /\ faulted = [c \in Caller |-> FALSE]
  /\ elsewhere = 0

Goto(c, label) == stage' = [stage EXCEPT ![c] = label]
Op(c) == call[c].op

Invoke(c) ==
  /\ stage[c] = "idle"
  /\ \E r \in Requests : call' = [call EXCEPT ![c] = r]
  /\ Goto(c, "entered")
  /\ seen' = [seen EXCEPT ![c] = {held}]
  /\ UNCHANGED <<held, before, got, ans, landed, alone, faulted, elsewhere>>

(* The call returns a. *)
Answered(c, a) ==
  /\ ans' = [ans EXCEPT ![c] = a]
  /\ Goto(c, "answered")

(* Put states its precondition before its path is looked at. *)
ZeroExpect(c) == Op(c) = "put" /\ call[c].expect = "none"

RefuseZero(c) ==
  /\ stage[c] = "entered" /\ ZeroExpect(c)
  /\ Answered(c, Refusal("precondition"))
  /\ UNCHANGED <<held, local, history, faulted, elsewhere>>

(* A path is checked before it is joined to the base, and nothing is sent. *)
RefusePath(c) ==
  /\ stage[c] = "entered" /\ ~ZeroExpect(c) /\ ~Valid(call[c].name)
  /\ Answered(c, Refusal("missing"))
  /\ UNCHANGED <<held, local, history, faulted, elsewhere>>

(* Get and Apply begin by reading, Put and Delete by writing.  Names here   *)
(* hold no percent escapes, which url.JoinPath would decode: a call on      *)
(* such a name goes to another document (transport.go:90).                  *)
Begin(c) ==
  /\ stage[c] = "entered" /\ ~ZeroExpect(c) /\ Valid(call[c].name)
  /\ Goto(c, IF Op(c) \in {"get", "apply"} THEN "reading" ELSE "sending")
  /\ UNCHANGED <<held, local, ans, history, faulted, elsewhere>>

(* Slips: the refusals of one status are taken for one of them, or what is *)
(* not recognised is guessed to be a missing document.                     *)
SentinelByStatus(why) ==
  CASE why \in {"syntax", "base", "refused"} -> "refused"
    [] why \in {"corrupt", "read", "write"} -> "unavailable"
    [] OTHER -> why
SentinelGuessed(why) == IF why \in {"corrupt", "read", "write"} THEN "missing" ELSE why

(* problemError: the sentinel of a problem; the server's own failures have *)
(* no slug of their own, and what is not recognised is not guessed.        *)
Sentinel(why) == IF why \in {"corrupt", "read", "write"} THEN "unavailable" ELSE why

(* The server refuses for the reason why. *)
Refused(c, why) ==
  /\ Answered(c, Refusal(Sentinel(why)))
  /\ faulted' = [faulted EXCEPT ![c] = @ \/ why \in {"corrupt", "read", "write"}]

(* A GET is served, or refused. *)
Read(c) ==
  /\ stage[c] = "reading"
  /\ held \in Resident
  /\ IF Op(c) = "get"
     THEN Answered(c, Snapped(held, FALSE)) /\ UNCHANGED before
     ELSE before' = [before EXCEPT ![c] = held] /\ Goto(c, "sending") /\ UNCHANGED ans
  /\ UNCHANGED <<held, call, got, history, faulted, elsewhere>>

ReadRefused(c) ==
  /\ stage[c] = "reading" \/ (stage[c] = "checking" /\ Op(c) = "put")
  /\ \E why \in Unservable \cup {"read"} : why \in {held, "read"} /\ Refused(c, why)
  /\ UNCHANGED <<held, local, history, elsewhere>>

(* Whether the server can read the precondition the call states. *)
Expressible(c) == Op(c) \in {"apply", "delete"} => call[c].expect \in Quotable

Underway(c) == stage[c] \notin {"idle", "answered"}

(* The document becomes h2, as by asked: a caller or, as Nothing, another. *)
Becomes(by, h2) ==
  /\ held' = h2
  /\ seen' = [c \in Caller |->
       IF c = by THEN {h2} ELSE IF Underway(c) THEN seen[c] \cup {h2} ELSE seen[c]]
  /\ alone' = [c \in Caller |-> alone[c] /\ (Underway(c) => c = by \/ h2 = held)]

(* The server makes the change; what it answers is its tag and status. *)
Lands(c, h2) ==
  /\ stage[c] = "sending" /\ Expressible(c)
  /\ Effect(call[c], held, h2)
  /\ Becomes(c, h2)
  /\ landed' = [landed EXCEPT ![c] = [old |-> held, new |-> h2]]
  /\ UNCHANGED <<call, before, elsewhere>>

(* Put goes on to read back, Apply to fold what it read; Delete is done. *)
Send(c) ==
  /\ \E h2 \in Resident \cup {"missing"} :
       /\ Lands(c, h2)
       /\ got' = [got EXCEPT ![c] =
            [rev |-> IF h2 = "missing" THEN Nothing ELSE Revision[h2],
             created |-> held = "missing"]]
  /\ IF Op(c) = "delete" THEN Answered(c, Done)
                         ELSE Goto(c, "checking") /\ UNCHANGED ans
  /\ UNCHANGED faulted

SendRefused(c) ==
  /\ stage[c] = "sending"
  /\ IF Expressible(c)
     THEN \E why \in Reason : TrueReason(call[c], held, why) /\ Refused(c, why)
     ELSE Answered(c, Refusal("unavailable")) /\ UNCHANGED faulted
  /\ UNCHANGED <<held, local, history, elsewhere>>

Unavailable(c) ==
  /\ Answered(c, Refusal("unavailable"))
  /\ faulted' = [faulted EXCEPT ![c] = TRUE]

(* The exchange fails with nothing done: the request did not arrive, or was *)
(* a read whose answer was lost, unverifiable or unintelligible.            *)
Lost(c) ==
  /\ stage[c] \in {"reading", "sending"} \/ (stage[c] = "checking" /\ Op(c) = "put")
  /\ Unavailable(c)
  /\ UNCHANGED <<held, local, history, elsewhere>>

(* The change is made and the answer to it lost. *)
AnswerLost(c) ==
  /\ \E h2 \in Resident \cup {"missing"} : Lands(c, h2)
  /\ Unavailable(c)
  /\ UNCHANGED got

(* Slips: the result is what the document is by now, or the fold of the *)
(* first read, unverified.                                              *)
VerifyByReading(c) ==
  /\ stage[c] = "checking" /\ Op(c) = "apply"
  /\ held \in Resident
  /\ Answered(c, Applied(before[c], held))
  /\ UNCHANGED <<held, local, history, faulted, elsewhere>>
VerifyTrusting(c) ==
  /\ stage[c] = "checking" /\ Op(c) = "apply"
  /\ Answered(c, Applied(before[c], Fold[before[c]][call[c].batch]))
  /\ UNCHANGED <<held, local, history, faulted, elsewhere>>

(* applied: the batch is folded over the first read, and believed if the   *)
(* result has the revision the server named.                               *)
Verify(c) ==
  /\ stage[c] = "checking" /\ Op(c) = "apply"
  /\ LET next == Fold[before[c]][call[c].batch] IN
       Answered(c, IF next \in Resident /\ Revision[next] = got[c].rev
                   THEN Applied(before[c], next)
                   ELSE Refusal("unavailable"))
  /\ UNCHANGED <<held, local, history, faulted, elsewhere>>

(* Slip: the status of a creation is read the other way round. *)
ReadBackCreated(c) ==
  /\ stage[c] = "checking" /\ Op(c) = "put"
  /\ held \in Resident
  /\ Answered(c, Snapped(held, ~got[c].created))
  /\ UNCHANGED <<held, local, history, faulted, elsewhere>>

(* Put answers with what the server holds by now. *)
ReadBack(c) ==
  /\ stage[c] = "checking" /\ Op(c) = "put"
  /\ held \in Resident
  /\ Answered(c, Snapped(held, got[c].created))
  /\ UNCHANGED <<held, local, history, faulted, elsewhere>>

Return(c) ==
  /\ stage[c] = "answered"
  /\ Goto(c, "idle")
  /\ call' = [call EXCEPT ![c] = Nothing]
  /\ before' = [before EXCEPT ![c] = Nothing]
  /\ got' = [got EXCEPT ![c] = NoMutation]
  /\ ans' = [ans EXCEPT ![c] = Nothing]
  /\ landed' = [landed EXCEPT ![c] = Nothing]
  /\ seen' = [seen EXCEPT ![c] = {}]
  /\ alone' = [alone EXCEPT ![c] = TRUE]
  /\ faulted' = [faulted EXCEPT ![c] = FALSE]
  /\ UNCHANGED <<held, elsewhere>>

(* Anyone else: another frontend, or an editor of the files. *)
Elsewhere ==
  /\ elsewhere < MaxElsewhere
  /\ elsewhere' = elsewhere + 1
  /\ \E h2 \in (Resident \cup Unservable) \ {held} : Becomes(Nothing, h2)
  /\ UNCHANGED <<stage, local, ans, landed, faulted>>

Exchange(c) == Read(c) \/ ReadRefused(c) \/ Send(c) \/ SendRefused(c) \/ Lost(c) \/ AnswerLost(c)

Next ==
  \/ \E c \in Caller :
       \/ Invoke(c) \/ RefuseZero(c) \/ RefusePath(c) \/ Begin(c)
       \/ Exchange(c) \/ Verify(c) \/ ReadBack(c) \/ Return(c)
  \/ Elsewhere

Spec == Init /\ [][Next]_vars
------------------------------------------------------------------------------
(* Every variable holds a value of its kind; in particular a snapshot a    *)
(* call returns is a document (client.go:101-124).                         *)
TypeOK ==
  /\ held \in State
  /\ call \in [Caller -> Requests \cup {Nothing}]
  /\ stage \in [Caller -> {"idle", "entered", "reading", "sending", "checking", "answered"}]
  /\ before \in [Caller -> Doc \cup {Nothing}]
  /\ got \in [Caller -> [rev : Rev \cup {Nothing}, created : BOOLEAN]]
  /\ ans \in [Caller -> Answer \cup {Refusal("unavailable"), Nothing}]
  /\ landed \in [Caller -> Change \cup {Nothing}]
  /\ seen \in [Caller -> SUBSET State]
  /\ alone \in [Caller -> BOOLEAN] /\ faulted \in [Caller -> BOOLEAN]
  /\ elsewhere \in 0..MaxElsewhere

Returns(c, result) == stage[c] = "answered" /\ ans[c].result = result

(* A success: the change it reports is the one it made, and what it shows  *)
(* was served while it ran.                                                *)
Success(c) ==
  Returns(c, "ok") =>
    /\ (Op(c) = "get") = (landed[c] = Nothing)
    /\ Op(c) \in {"get", "put"} => ans[c].new \in seen[c]
    /\ Op(c) = "put" => ans[c].created = (landed[c].old = "missing")
    /\ Op(c) = "apply" => ans[c].new = landed[c].new

(* What a call reports to have done it did, whoever else was writing: a    *)
(* batch's result is the state it produced and not one some other batch    *)
(* produced, a creation is a creation, and what a read or a read-back      *)
(* shows was served while the call was under way (client.go:91-100,        *)
(* :144-151).                                                              *)
SuccessIsTrue == \A c \in Caller : Success(c)

(* A refusal: its reason held, and only a put may have landed before it.   *)
Refusing(c) ==
  stage[c] = "answered" /\ ans[c].result \notin {"ok", "unavailable"} =>
    /\ Op(c) # "put" => landed[c] = Nothing
    /\ IF Valid(call[c].name)
       THEN \E h \in seen[c] : TrueReason(call[c], h, ans[c].result)
       ELSE ans[c].result = "missing" \/ ZeroExpect(c)

(* A refusal names a reason that held of the document while the call was   *)
(* under way, and a refused batch or deletion has not landed; what the     *)
(* server did not say of the document is never made a statement about it   *)
(* (problem.go:49-58).                                                     *)
RefusalIsTrue == \A c \in Caller : Refusing(c)

(* An answer the contract allows: a true reason, or the result of an effect. *)
Conforming(c) ==
  /\ stage[c] = "answered" /\ alone[c] /\ ~faulted[c]
  /\ Valid(call[c].name) /\ Expressible(c)
  => IF ans[c].result # "ok"
     THEN landed[c] = Nothing /\ \E h \in seen[c] : TrueReason(call[c], h, ans[c].result)
     ELSE \E h2 \in seen[c] :
            LET h == IF landed[c] = Nothing THEN h2 ELSE landed[c].old
            IN Effect(call[c], h, h2) /\ ans[c] = Reply(call[c], h, h2)

(* With the document to itself and no exchange lost, a call answers as the *)
(* embedded port would (the conformance suite): the contract's result for  *)
(* the change it made, or a reason that is true.  A zero precondition on a *)
(* refused path, and a precondition the header cannot carry, are answered  *)
(* differently.                                                            *)
Conforms == \A c \in Caller : Conforming(c)

(* A batch that no fault touched is reported as the transition it caused   *)
(* if it landed, and is refused for a reason if it did not, whoever else   *)
(* was writing (client.go:8-10, :77-100; document.go:36-37).               *)
ApplyReportsItsTransition ==
  \A c \in Caller :
    /\ stage[c] = "answered" /\ Op(c) = "apply" /\ ~faulted[c] /\ Expressible(c)
    => IF landed[c] = Nothing
       THEN ans[c].result \in Reason
       ELSE ans[c] = Applied(landed[c].old, landed[c].new)
=============================================================================
