------------------------------- MODULE MCClient -------------------------------
(* Two frontends on one document of two states, a refused path, a batch    *)
(* that undoes itself and one that leads to one result from either state.  *)
EXTENDS Client, TLC

CONSTANTS p, alias, d1, d2, dbig, r1, r2, rbig, blank, x1loose, x1, x2, xbad, xbig,
          toggle, settle, baseless, refusedOp, c1, c2

MCTarget == (p :> p) @@ (alias :> p)
MCDoc == {d1, d2, dbig}
MCResident == {d1, d2}
MCRev == {r1, r2, rbig, blank}
MCRevision == (d1 :> r1) @@ (d2 :> r2) @@ (dbig :> rbig)
MCRaw == {x1, x1loose, x2, xbad, xbig}
MCParse == (x1 :> d1) @@ (x1loose :> d1) @@ (x2 :> d2) @@ (xbad :> "corrupt") @@ (xbig :> dbig)
MCText == (d1 :> x1) @@ (d2 :> x2) @@ (dbig :> xbig)
MCBatch == {toggle, settle, baseless, refusedOp}
MCFold ==
  [d \in MCDoc |-> [b \in MCBatch |->
    CASE b = baseless -> IF d = d1 THEN d2 ELSE "base"
      [] b = refusedOp -> "refused"
      [] b = settle -> d2
      [] b = toggle -> IF d = d1 THEN d2 ELSE d1]]

MCRequests ==
  {[op |-> "get", name |-> n] : n \in {p, alias}}
    \cup {[op |-> "put", name |-> n, body |-> x2, expect |-> "none"] : n \in {p, alias}}
    \cup {[op |-> "put", name |-> p, body |-> x1loose, expect |-> e] : e \in {"absent", r2}}
    \cup {[op |-> "put", name |-> p, body |-> b, expect |-> "absent"] : b \in {xbad, xbig}}
    \cup {[op |-> "apply", name |-> p, batch |-> b, expect |-> r1] : b \in {toggle, settle, baseless}}
    \cup {[op |-> "apply", name |-> p, batch |-> b, expect |-> r2] : b \in {baseless, refusedOp}}
    \cup {[op |-> "delete", name |-> p, expect |-> e] : e \in {r1, blank}}

Swaps == Permutations({c1, c2})
=============================================================================
