------------------------------- MODULE Compute -------------------------------
(***************************************************************************)
(* The compute plane's own arithmetic (api/compute.go): references into a  *)
(* grid of computed values, the fragment one serves, and the difference of *)
(* two grids.  A grid is a sequence of rows, not all equally long; rows    *)
(* and columns count from 1, as in A1.  The values are the engine's.       *)
(***************************************************************************)
EXTENDS Integers, Sequences

CONSTANT BadRef   \* an address the engine refuses, and what comes of it

Empty == ""

Address == [row : Nat \ {0}, col : Nat \ {0}]

Lesser(a, b) == IF a <= b THEN a ELSE b
Greater(a, b) == IF a >= b THEN a ELSE b

(* A reference is one address or two, any of which the engine may refuse. *)
ParseRef(ref) ==
  IF \E i \in DOMAIN ref : ref[i] = BadRef THEN BadRef
  ELSE [from |-> ref[1], to |-> ref[Len(ref)]]

Normalized(span) ==
  [from |-> [row |-> Lesser(span.from.row, span.to.row), col |-> Lesser(span.from.col, span.to.col)],
   to |-> [row |-> Greater(span.from.row, span.to.row), col |-> Greater(span.from.col, span.to.col)]]

ShapeOf(span) ==
  LET s == Normalized(span)
      oneRow == s.from.row = s.to.row
      oneCol == s.from.col = s.to.col
  IN CASE oneRow /\ oneCol -> "cell"
       [] oneRow /\ ~oneCol -> "row"
       [] ~oneRow /\ oneCol -> "column"
       [] OTHER -> "range"

RowWidth(grid, row) == IF row \in DOMAIN grid THEN Len(grid[row]) ELSE 0

WidestRow(grid) ==
  LET widths == {0} \cup {Len(grid[row]) : row \in DOMAIN grid}
  IN CHOOSE w \in widths : \A v \in widths : v <= w

ValueAt(grid, row, col) ==
  IF row \in DOMAIN grid /\ col \in DOMAIN grid[row] THEN grid[row][col] ELSE Empty

(* Slip: the corners are taken in the order they were written. *)
ClippedAsWritten(span, grid) ==
  [span EXCEPT !.to = [row |-> Lesser(@.row, Greater(span.from.row, Len(grid))),
                       col |-> Lesser(@.col, Greater(span.from.col, WidestRow(grid)))]]

(* The far corner comes back to the grid's extent, or to the near one. *)
Clipped(span, grid) ==
  LET s == Normalized(span) IN
  [s EXCEPT !.to = [row |-> Lesser(@.row, Greater(s.from.row, Len(grid))),
                    col |-> Lesser(@.col, Greater(s.from.col, WidestRow(grid)))]]

(* The fragment: the rows of the clipped span. *)
RenderSpan(grid, span) ==
  LET s == Clipped(span, grid) IN
  [i \in 1..(s.to.row - s.from.row + 1) |->
    [j \in 1..(s.to.col - s.from.col + 1) |->
      ValueAt(grid, s.from.row + i - 1, s.from.col + j - 1)]]

(* Slip: only the cells the new grid has are looked at. *)
CellsDeltaOfNext(old, next) ==
  LET changed == {at \in (1..Len(next)) \X (1..WidestRow(next)) :
                    /\ at[2] <= RowWidth(next, at[1])
                    /\ ValueAt(old, at[1], at[2]) # ValueAt(next, at[1], at[2])}
  IN [at \in changed |-> ValueAt(next, at[1], at[2])]

(* The cells that differ, over the extent of both grids, each with its new *)
(* value; a cell the new grid lacks is empty.                              *)
CellsDelta(old, next) ==
  LET rows == Greater(Len(old), Len(next))
      cols == Greater(WidestRow(old), WidestRow(next))
      changed == {at \in (1..rows) \X (1..cols) :
                    /\ at[2] <= Greater(RowWidth(old, at[1]), RowWidth(next, at[1]))
                    /\ ValueAt(old, at[1], at[2]) # ValueAt(next, at[1], at[2])}
  IN [at \in changed |-> ValueAt(next, at[1], at[2])]
-----------------------------------------------------------------------------
(* What a reader makes of them. *)

(* The cells of a grid that show something. *)
Shown(grid) ==
  LET cells == {at \in (1..Len(grid)) \X (1..WidestRow(grid)) :
                  ValueAt(grid, at[1], at[2]) # Empty}
  IN [at \in cells |-> ValueAt(grid, at[1], at[2])]

(* A copy of the shown cells with a delta applied. *)
Patched(copy, delta) ==
  LET value(at) == IF at \in DOMAIN delta THEN delta[at] ELSE copy[at]
  IN [at \in {a \in DOMAIN copy \cup DOMAIN delta : value(a) # Empty} |-> value(at)]
=============================================================================
