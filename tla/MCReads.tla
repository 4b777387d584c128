------------------------------- MODULE MCReads -------------------------------
(* Two documents of different extents, one of them ragged, and a volatile  *)
(* one; two caps, of which the lower turns a value into #LIMIT!.           *)
EXTENDS Reads, TLC

CONSTANTS d1, d2, dv

MCDoc == {d1, d2, dv}
Flags(plane, cap) == [plane |-> plane, cap |-> cap]
MCDeployment == {Flags(TRUE, "high"), Flags(TRUE, "low"), Flags(FALSE, "high")}

MCComputed ==
  [d \in MCDoc |-> [time \in 0..MaxClock |-> [cap \in {"high", "low"} |->
    CASE d = d1 -> <<<<"1", "2">>>>
      [] d = d2 -> <<<<"1">>, <<Empty, IF cap = "low" THEN "#LIMIT!" ELSE "3">>>>
      [] d = dv -> <<<<IF time = 0 THEN "0:00" ELSE "0:01">>>>]]]

(* A batch with an empty line and no newline at its end, and one with a    *)
(* carriage return in a line.                                              *)
MCBody ==
  [d \in MCDoc |-> {IF d = d2 THEN <<<<"op">>, Return, <<"op">>, Newline>>
                             ELSE <<Newline, <<"op">>>>}]

At(row, col) == [row |-> row, col |-> col]

MCRefs ==
  {<<At(1, 1)>>, <<At(4, 4)>>, <<At(2, 2), At(1, 1)>>, <<At(1, 2), At(1, 1)>>,
   <<At(1, 1), At(4, 1)>>, <<At(1, 1), BadRef>>}

Request(method, ref, rev, accept) ==
  [named |-> TRUE, method |-> method, ref |-> ref, rev |-> rev, accept |-> accept]

MCAsks ==
  {Request("GET", Nothing, Nothing, a) :
     a \in {{}, {"any"}, {"sheet"}, {"tsv", "csv"}, {"csv", "any"}, {"doc", "sheet"}, {"cell"}}}
  \cup {Request("HEAD", Nothing, Nothing, a) : a \in {{"sheet"}, {"stream", "doc"}}}
  \cup {Request("GET", ref, Nothing, {"cell", "range"}) : ref \in MCRefs}
  \cup {Request("GET", ref, Nothing, {"row", "any"}) :
          ref \in {<<At(1, 2), At(1, 1)>>, <<At(1, 1), At(4, 1)>>}}
  \cup {Request("GET", ref, d1, {"doc", "any"}) : ref \in {Nothing, <<At(1, 1)>>}}
  \cup {Request(m, <<At(1, 1)>>, Nothing, {}) : m \in {"DELETE", "OPTIONS"}}
  \cup {Request(m, Nothing, Nothing, {}) : m \in {"OPTIONS", "PATCH"}}
  \cup {[Request("GET", Nothing, Nothing, {}) EXCEPT !.named = FALSE]}
=============================================================================
