----------------------------- MODULE DocumentPort -----------------------------
(***************************************************************************)
(* What document.Port promises its callers, whichever implementation is in *)
(* hand: every call takes effect at one instant between its invocation and *)
(* its return, a mutation lands only on the state its precondition names,  *)
(* a refusal states a true reason and changes nothing, and a crash loses   *)
(* calls but no document.                                                  *)
(***************************************************************************)
EXTENDS Documents

CONSTANT Caller

VARIABLES
  held,   \* [Path -> Doc \cup Unservable]: the state each path serves
  call,   \* the request each caller has open
  ans     \* its answer, once the call has taken effect

vars == <<held, call, ans>>

Init ==
  /\ held \in [Path -> Doc \cup Unservable]
  /\ call = [t \in Caller |-> Nothing]
  /\ ans = [t \in Caller |-> Nothing]

Open(t) == call[t] # Nothing /\ ans[t] = Nothing

Invoke(t) ==
  /\ call[t] = Nothing
  /\ \E r \in Requests : call' = [call EXCEPT ![t] = r]
  /\ UNCHANGED <<held, ans>>

Succeed(t) ==
  /\ Open(t)
  /\ Valid(call[t].name)
  /\ \E h2 \in Doc \cup Unservable :
       /\ Effect(call[t], held[call[t].name], h2)
       /\ held' = [held EXCEPT ![call[t].name] = h2]
       /\ ans' = [ans EXCEPT ![t] = Reply(call[t], held[call[t].name], h2)]
  /\ UNCHANGED call

Refuse(t) ==
  /\ Open(t)
  /\ \E why \in Reason :
       /\ IF Valid(call[t].name) THEN TrueReason(call[t], held[call[t].name], why)
                                 ELSE why = "missing"
       /\ ans' = [ans EXCEPT ![t] = Refusal(why)]
  /\ UNCHANGED <<held, call>>

Return(t) ==
  /\ ans[t] # Nothing
  /\ call' = [call EXCEPT ![t] = Nothing]
  /\ ans' = [ans EXCEPT ![t] = Nothing]
  /\ UNCHANGED held

Crash ==
  /\ call' = [t \in Caller |-> Nothing]
  /\ ans' = [t \in Caller |-> Nothing]
  /\ UNCHANGED held

Next == Crash \/ \E t \in Caller : Invoke(t) \/ Succeed(t) \/ Refuse(t) \/ Return(t)

Spec == Init /\ [][Next]_vars
=============================================================================
