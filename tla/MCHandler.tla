------------------------------ MODULE MCHandler ------------------------------
(* Two workers on one document of two states that a batch toggles, so that *)
(* a revision can come back; two keys, one of them retried and reused; and *)
(* a cache of one outcome.                                                 *)
EXTENDS Handler, TLC

CONSTANTS p, d1, d2, dbig, r1, r2, rbig, x1, x2, xbad, xbig, toggle, refusedOp,
          k1, k2, w1, w2

MCTarget == (p :> p)
MCDoc == {d1, d2, dbig}
MCResident == {d1, d2}
MCRev == {r1, r2, rbig}
MCRevision == (d1 :> r1) @@ (d2 :> r2) @@ (dbig :> rbig)
MCRaw == {x1, x2, xbad, xbig}
MCParse == (x1 :> d1) @@ (x2 :> d2) @@ (xbad :> "corrupt") @@ (xbig :> dbig)
MCText == (d1 :> x1) @@ (d2 :> x2) @@ (dbig :> xbig)
MCBatch == {toggle, refusedOp}
MCFold ==
  [d \in MCDoc |-> [b \in MCBatch |->
    IF b = refusedOp THEN "refused" ELSE IF d = d1 THEN d2 ELSE d1]]

Edit(b, e) == [op |-> "apply", name |-> p, batch |-> b, expect |-> e]
Store(x, e) == [op |-> "put", name |-> p, body |-> x, expect |-> e]
Drop(e) == [op |-> "delete", name |-> p, expect |-> e]

MCRequests ==
  {Edit(toggle, r1), Edit(toggle, r2), Edit(refusedOp, r1),
   Store(x1, "absent"), Store(x2, r1), Store(xbig, r1), Drop(r1), Drop(r2)}

Sent(form, key, call) == [form |-> form, key |-> key, call |-> call]

(* Changes of every kind without keys, for the runs about the feed. *)
FeedWorkload ==
  {Sent("wellformed", Nothing, c) :
     c \in {Edit(toggle, r1), Edit(toggle, r2), Store(x1, "absent"), Drop(r1)}}

(* Two keyed edits that undo each other, one key reused for another batch, *)
(* edits without a key, a replacement, and requests refused by their form. *)
RetryWorkload ==
  {Sent("wellformed", k1, Edit(toggle, r1)), Sent("wellformed", k2, Edit(toggle, r2)),
   Sent("wellformed", k1, Edit(refusedOp, r1)), Sent("badedits", k1, Edit(toggle, r2)),
   Sent("wellformed", Nothing, Edit(toggle, r2)), Sent("wellformed", Nothing, Store(x2, r1)),
   Sent("unconditioned", Nothing, Drop(r1))}

Swaps == Permutations({w1, w2})
=============================================================================
