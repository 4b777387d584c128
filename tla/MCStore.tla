------------------------------- MODULE MCStore -------------------------------
(* One document and an unclean alias of it; a file in a spelling the engine *)
(* would rewrite, one that does not parse and one over the budget.         *)
EXTENDS Store, TLC

CONSTANTS p, alias, d1, d2, dbig, r1, r2, rbig, x1, x1loose, x2, xbad, xbig,
          toggle, baseless, refusedOp, t1, t2

MCName == {p, alias}
MCPath == {p}
MCTarget == (p :> p) @@ (alias :> p)
MCDoc == {d1, d2, dbig}
MCResident == {d1, d2}
MCRev == {r1, r2, rbig}
MCRevision == (d1 :> r1) @@ (d2 :> r2) @@ (dbig :> rbig)
MCRaw == {x1, x1loose, x2, xbad, xbig}
MCParse == (x1 :> d1) @@ (x1loose :> d1) @@ (x2 :> d2) @@ (xbad :> "corrupt") @@ (xbig :> dbig)
MCText == (d1 :> x1) @@ (d2 :> x2) @@ (dbig :> xbig)
MCBatch == {toggle, baseless, refusedOp}
MCFold ==
  [d \in MCDoc |-> [b \in MCBatch |->
    CASE b = baseless -> "base"
      [] b = refusedOp -> "refused"
      [] b = toggle -> IF d = d1 THEN d2 ELSE d1]]

(* Every kind of request and refusal once, and two that conflict of each. *)
MCRequests ==
  {[op |-> "get", name |-> n] : n \in MCName}
    \cup {[op |-> "put", name |-> p, body |-> x2, expect |-> e] : e \in {"absent", "none", r1}}
    \cup {[op |-> "put", name |-> p, body |-> b, expect |-> "absent"] :
            b \in {x1loose, xbad, xbig}}
    \cup {[op |-> "put", name |-> alias, body |-> x2, expect |-> "absent"]}
    \cup {[op |-> "apply", name |-> p, batch |-> b, expect |-> r1] : b \in MCBatch}
    \cup {[op |-> "apply", name |-> n, batch |-> toggle, expect |-> r2] : n \in MCName}
    \cup {[op |-> "delete", name |-> p, expect |-> e] : e \in {r1, r2}}
    \cup {[op |-> "delete", name |-> alias, expect |-> r1]}
=============================================================================
