--------------------------------- MODULE Feed ---------------------------------
(***************************************************************************)
(* What a document's change feed promises a reader (api/feed.go,           *)
(* api/replayfeed.go): it follows the events one by one and skips none,    *)
(* unless it is told to fetch the document again, and then what it fetches *)
(* includes every event so far.                                            *)
(***************************************************************************)
EXTENDS Naturals

CONSTANT Reader

VARIABLES
  head,    \* events published
  pos,     \* the event up to which each reader's copy is complete
  stale    \* readers whose copy must be fetched before events extend it

vars == <<head, pos, stale>>

Init ==
  /\ head = 0
  /\ pos = [s \in Reader |-> 0]
  /\ stale = Reader

Publish == head' = head + 1 /\ UNCHANGED <<pos, stale>>

Follow(s) ==
  /\ s \notin stale
  /\ pos[s] < head
  /\ pos' = [pos EXCEPT ![s] = @ + 1]
  /\ UNCHANGED <<head, stale>>

Expire(s) == stale' = stale \cup {s} /\ UNCHANGED <<head, pos>>

Fetch(s) ==
  /\ s \in stale
  /\ pos' = [pos EXCEPT ![s] = head]
  /\ stale' = stale \ {s}
  /\ UNCHANGED head

Next == Publish \/ \E s \in Reader : Follow(s) \/ Expire(s) \/ Fetch(s)

Spec == Init /\ [][Next]_vars
=============================================================================
