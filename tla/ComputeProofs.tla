---------------------------- MODULE ComputeProofs ----------------------------
(***************************************************************************)
(* Theorems about Compute, for grids and references of any extent: what a  *)
(* fragment shows, and what a difference of grids does to a copy.          *)
(***************************************************************************)
EXTENDS Compute, SequenceTheorems, WellFoundedInduction, TLAPS

(* The least of any natural numbers. *)
LEMMA LeastNat ==
  ASSUME NEW S \in SUBSET Nat, S # {}
  PROVE  \E n \in S : \A m \in S : n <= m
<1>1. PICK n \in S : \A m \in S : <<m, n>> \notin OpToRel(<, Nat)
  BY WFMin, NatLessThanWellFounded, Zenon
<1>2. ASSUME NEW m \in S PROVE n <= m
  <2>1. ~(m < n)
    BY <1>1, Zenon DEF OpToRel
  <2> QED BY <2>1
<1> QED BY <1>2

Grid(V) == Seq(Seq(V))
Span == [from : Address, to : Address]

LEMMA GridRows ==
  ASSUME NEW V, NEW grid \in Grid(V)
  PROVE  /\ Len(grid) \in Nat /\ DOMAIN grid = 1..Len(grid)
         /\ \A row \in 1..Len(grid) :
              /\ Len(grid[row]) \in Nat /\ DOMAIN grid[row] = 1..Len(grid[row])
BY LenProperties, ElementOfSeq DEF Grid

(* No row of a grid is wider than the widest, and some row is that wide, or *)
(* the grid shows nothing.                                                  *)
LEMMA WidestRowIsWidest ==
  ASSUME NEW V, NEW grid \in Grid(V)
  PROVE  /\ WidestRow(grid) \in Nat
         /\ \A row \in 1..Len(grid) : Len(grid[row]) <= WidestRow(grid)
<1> DEFINE bounds(n) == {b \in Nat : \A row \in 1..n : Len(grid[row]) <= b}
           boundless == {n \in 0..Len(grid) : bounds(n) = {}}
           widths == {0} \cup {Len(grid[row]) : row \in DOMAIN grid}
<1>1. Len(grid) \in Nat /\ \A row \in 1..Len(grid) : Len(grid[row]) \in Nat
  BY GridRows
<1>2. boundless = {}
  <2> SUFFICES ASSUME boundless # {} PROVE FALSE
    OBVIOUS
  <2>1. PICK n \in boundless : \A m \in boundless : n <= m
    <3>1. boundless \in SUBSET Nat
      BY <1>1
    <3> HIDE DEF boundless
    <3> QED BY <3>1, LeastNat
  <2>2. n \in 0..Len(grid) /\ bounds(n) = {}
    OBVIOUS
  <2>3. CASE n = 0
    <3>1. 0 \in bounds(n)
      BY <2>3
    <3> QED BY <2>2, <3>1
  <2>4. CASE n # 0
    <3>1. n - 1 \in 0..Len(grid) /\ n - 1 < n /\ n \in 1..Len(grid)
      BY <1>1, <2>2, <2>4
    <3>2. bounds(n - 1) # {}
      <4> SUFFICES ASSUME bounds(n - 1) = {} PROVE FALSE
        OBVIOUS
      <4>1. n - 1 \in boundless
        BY <3>1
      <4>2. n <= n - 1
        <5> HIDE DEF boundless
        <5> QED BY <2>1, <4>1
      <4> QED BY <3>1, <4>2
    <3>3. PICK b \in Nat : \A row \in 1..(n - 1) : Len(grid[row]) <= b
      BY <3>2
    <3> DEFINE c == Greater(b, Len(grid[n]))
    <3>4. c \in Nat /\ b <= c /\ Len(grid[n]) <= c
      BY <1>1, <3>1 DEF Greater
    <3> HIDE DEF c
    <3>5. ASSUME NEW row \in 1..n PROVE Len(grid[row]) <= c
      <4>1. CASE row = n
        BY <3>4, <4>1
      <4>2. CASE row # n
        <5>1. row \in 1..(n - 1) /\ Len(grid[row]) \in Nat
          BY <1>1, <3>1, <4>2
        <5> QED BY <3>3, <3>4, <5>1
      <4> QED BY <4>1, <4>2
    <3> QED BY <2>2, <3>4, <3>5
  <2> QED BY <2>3, <2>4
<1>3. bounds(Len(grid)) # {}
  BY <1>1, <1>2
<1>4. PICK w \in bounds(Len(grid)) : \A b \in bounds(Len(grid)) : w <= b
  <2>1. bounds(Len(grid)) \in SUBSET Nat
    OBVIOUS
  <2> HIDE DEF bounds
  <2> QED BY <1>3, <2>1, LeastNat
<1>5. w \in Nat /\ \A v \in widths : v \in Nat /\ v <= w
  BY <1>1, GridRows
<1>6. w \in widths
  <2> SUFFICES ASSUME w \notin widths PROVE FALSE
    OBVIOUS
  <2>1. w - 1 \in Nat
    BY <1>5
  <2>2. ASSUME NEW row \in 1..Len(grid) PROVE Len(grid[row]) <= w - 1
    <3>1. Len(grid[row]) \in widths
      BY GridRows
    <3>2. Len(grid[row]) # w /\ Len(grid[row]) <= w /\ Len(grid[row]) \in Nat
      BY <1>5, <3>1
    <3> QED BY <1>5, <3>2
  <2>3. w - 1 \in bounds(Len(grid))
    BY <2>1, <2>2
  <2>4. w <= w - 1
    <3> HIDE DEF bounds
    <3> QED BY <1>4, <2>3
  <2>5. w \in Nat
    BY <1>5
  <2> HIDE DEF bounds, widths
  <2> QED BY <2>4, <2>5
<1>7. WidestRow(grid) \in widths /\ \A v \in widths : v <= WidestRow(grid)
  <2>1. WidestRow(grid) = CHOOSE x \in widths : \A v \in widths : v <= x
    BY DEF WidestRow
  <2> HIDE DEF widths
  <2> QED BY <1>5, <1>6, <2>1
<1> QED BY <1>1, <1>7, GridRows
-----------------------------------------------------------------------------
(* A value outside a grid is empty. *)
LEMMA ValueInside ==
  ASSUME NEW V, NEW grid \in Grid(V), NEW row \in Nat \ {0}, NEW col \in Nat \ {0},
         row > Len(grid) \/ col > WidestRow(grid)
  PROVE  ValueAt(grid, row, col) = Empty
<1>1. Len(grid) \in Nat /\ DOMAIN grid = 1..Len(grid)
  BY GridRows
<1>2. CASE row \notin DOMAIN grid
  BY <1>2 DEF ValueAt
<1>3. CASE row \in DOMAIN grid
  <2>1. Len(grid[row]) \in Nat /\ DOMAIN grid[row] = 1..Len(grid[row])
    BY <1>1, <1>3, GridRows
  <2>2. Len(grid[row]) <= WidestRow(grid) /\ WidestRow(grid) \in Nat
    BY <1>1, <1>3, WidestRowIsWidest
  <2>3. col \notin DOMAIN grid[row]
    BY <1>1, <1>3, <2>1, <2>2
  <2> QED BY <2>3 DEF ValueAt
<1> QED BY <1>2, <1>3

(* A clipped side is never empty, never longer than the grid, and what is  *)
(* clipped of it lies outside the grid.                                    *)
LEMMA ClippedSide ==
  ASSUME NEW from \in Nat \ {0}, NEW to \in Nat \ {0}, from <= to, NEW extent \in Nat,
         NEW end, end = Lesser(to, Greater(from, extent))
  PROVE  /\ end \in Nat /\ from <= end /\ end <= to
         /\ end - from + 1 \in 1..Greater(1, extent)
         /\ \A at \in Nat : end < at /\ at <= to => extent < at
BY DEF Lesser, Greater

(* Whichever corner comes first. *)
LEMMA NormalizedSpan ==
  ASSUME NEW span \in Span
  PROVE  /\ Normalized(span) \in Span
         /\ Normalized(span).from.row <= Normalized(span).to.row
         /\ Normalized(span).from.col <= Normalized(span).to.col
BY DEF Span, Address, Normalized, Lesser, Greater

LEMMA ClippedSpan ==
  ASSUME NEW span \in Span, NEW grid
  PROVE  LET s == Normalized(span)
             c == Clipped(span, grid)
         IN /\ c.from = s.from
            /\ c.to.row = Lesser(s.to.row, Greater(s.from.row, Len(grid)))
            /\ c.to.col = Lesser(s.to.col, Greater(s.from.col, WidestRow(grid)))
BY NormalizedSpan DEF Span, Address, Clipped
-----------------------------------------------------------------------------
Everywhere == (Nat \ {0}) \X (Nat \ {0})

(* The cells a grid shows are those whose value is not empty, wherever     *)
(* they are.                                                               *)
LEMMA ShownCells ==
  ASSUME NEW V, NEW grid \in Grid(V)
  PROVE  Shown(grid) =
           [at \in {a \in Everywhere : ValueAt(grid, a[1], a[2]) # Empty} |->
              ValueAt(grid, at[1], at[2])]
<1> DEFINE here == {a \in (1..Len(grid)) \X (1..WidestRow(grid)) : ValueAt(grid, a[1], a[2]) # Empty}
           anywhere == {a \in Everywhere : ValueAt(grid, a[1], a[2]) # Empty}
<1>1. Len(grid) \in Nat /\ WidestRow(grid) \in Nat
  BY GridRows, WidestRowIsWidest
<1>2. ASSUME NEW a \in anywhere PROVE a \in here
  <2>1. a \in (Nat \ {0}) \X (Nat \ {0}) /\ ValueAt(grid, a[1], a[2]) # Empty
    BY DEF Everywhere
  <2>2. a[1] <= Len(grid) /\ a[2] <= WidestRow(grid)
    BY <1>1, <2>1, ValueInside
  <2> QED BY <1>1, <2>1, <2>2
<1>3. here \subseteq anywhere
  BY <1>1 DEF Everywhere
<1>4. here = anywhere
  BY <1>2, <1>3
<1>5. Shown(grid) = [at \in here |-> ValueAt(grid, at[1], at[2])]
  BY DEF Shown
<1> HIDE DEF here
<1> QED BY <1>4, <1>5

(* The cells, wherever they are, in which two grids differ. *)
Differing(old, next) ==
  {a \in Everywhere : ValueAt(old, a[1], a[2]) # ValueAt(next, a[1], a[2])}

(* A difference has every cell in which two grids differ, and no other.    *)
LEMMA ChangedCells ==
  ASSUME NEW V, NEW old \in Grid(V), NEW next \in Grid(V)
  PROVE  CellsDelta(old, next) =
           [at \in Differing(old, next) |-> ValueAt(next, at[1], at[2])]
<1> DEFINE rows == Greater(Len(old), Len(next))
           cols == Greater(WidestRow(old), WidestRow(next))
           here == {a \in (1..rows) \X (1..cols) :
                      /\ a[2] <= Greater(RowWidth(old, a[1]), RowWidth(next, a[1]))
                      /\ ValueAt(old, a[1], a[2]) # ValueAt(next, a[1], a[2])}
           anywhere == Differing(old, next)
<1>1. /\ Len(old) \in Nat /\ Len(next) \in Nat
      /\ WidestRow(old) \in Nat /\ WidestRow(next) \in Nat
  BY GridRows, WidestRowIsWidest
<1>2. /\ rows \in Nat /\ Len(old) <= rows /\ Len(next) <= rows
      /\ cols \in Nat /\ WidestRow(old) <= cols /\ WidestRow(next) <= cols
  BY <1>1 DEF Greater
<1>3. ASSUME NEW grid \in Grid(V), NEW row \in Nat \ {0}, NEW col \in Nat \ {0},
             RowWidth(grid, row) < col
      PROVE  ValueAt(grid, row, col) = Empty
  <2>1. CASE row \notin DOMAIN grid
    BY <2>1 DEF ValueAt
  <2>2. CASE row \in DOMAIN grid
    <3>1. Len(grid[row]) \in Nat /\ DOMAIN grid[row] = 1..Len(grid[row])
      BY <2>2, GridRows
    <3> QED BY <1>3, <2>2, <3>1 DEF RowWidth, ValueAt
  <2> QED BY <2>1, <2>2
<1>4. ASSUME NEW grid \in Grid(V), NEW row PROVE RowWidth(grid, row) \in Nat
  BY GridRows DEF RowWidth
<1>5. ASSUME NEW a \in anywhere PROVE a \in here
  <2>1. /\ a \in (Nat \ {0}) \X (Nat \ {0})
        /\ ValueAt(old, a[1], a[2]) # ValueAt(next, a[1], a[2])
    BY DEF Differing, Everywhere
  <2>2. PICK grid \in {old, next} : ValueAt(grid, a[1], a[2]) # Empty
    BY <2>1
  <2>3. a[1] <= Len(grid) /\ a[2] <= WidestRow(grid)
    BY <1>1, <2>1, <2>2, ValueInside
  <2>4. a[2] <= RowWidth(grid, a[1]) /\ RowWidth(grid, a[1]) \in Nat
    BY <1>3, <1>4, <2>1, <2>2
  <2>5. a[2] <= Greater(RowWidth(old, a[1]), RowWidth(next, a[1]))
    BY <1>4, <2>1, <2>2, <2>4 DEF Greater
  <2>6. a[1] \in 1..rows /\ a[2] \in 1..cols
    <3> HIDE DEF rows, cols
    <3> QED BY <1>1, <1>2, <2>1, <2>2, <2>3
  <2> QED BY <2>1, <2>5, <2>6
<1>6. here \subseteq anywhere
  <2> HIDE DEF rows, cols
  <2> QED BY <1>2 DEF Differing, Everywhere
<1>7. here = anywhere
  BY <1>5, <1>6
<1>8. CellsDelta(old, next) = [at \in here |-> ValueAt(next, at[1], at[2])]
  BY DEF CellsDelta
<1> HIDE DEF here
<1> QED BY <1>7, <1>8

(* A reader that applies the difference of two grids to a copy of what the *)
(* first shows has what the second shows, however the extents of the two   *)
(* differ (write.go:117-120, compute.go:159-176).                          *)
THEOREM DeltaTransforms ==
  ASSUME NEW V, NEW old \in Grid(V), NEW next \in Grid(V)
  PROVE  Patched(Shown(old), CellsDelta(old, next)) = Shown(next)
<1> DEFINE copy == Shown(old)
           delta == CellsDelta(old, next)
           value(at) == IF at \in DOMAIN delta THEN delta[at] ELSE copy[at]
           before == {a \in Everywhere : ValueAt(old, a[1], a[2]) # Empty}
           left == {a \in DOMAIN copy \cup DOMAIN delta : value(a) # Empty}
           right == {a \in Everywhere : ValueAt(next, a[1], a[2]) # Empty}
<1>1. /\ DOMAIN copy = before
      /\ \A a \in DOMAIN copy : copy[a] = ValueAt(old, a[1], a[2])
  <2>1. copy = [at \in before |-> ValueAt(old, at[1], at[2])]
    BY ShownCells
  <2> HIDE DEF copy, before
  <2> QED BY <2>1
<1>2. /\ DOMAIN delta = Differing(old, next)
      /\ \A a \in DOMAIN delta : delta[a] = ValueAt(next, a[1], a[2])
  <2>1. delta = [at \in Differing(old, next) |-> ValueAt(next, at[1], at[2])]
    BY ChangedCells
  <2> HIDE DEF delta
  <2> QED BY <2>1
<1>3. Patched(copy, delta) = [at \in left |-> value(at)]
  BY DEF Patched
<1>4. Shown(next) = [at \in right |-> ValueAt(next, at[1], at[2])]
  BY ShownCells
<1> HIDE DEF copy, delta
<1>5. ASSUME NEW a \in DOMAIN copy \cup DOMAIN delta PROVE value(a) = ValueAt(next, a[1], a[2])
  BY <1>1, <1>2 DEF Differing
<1>6. left = right
  <2>1. ASSUME NEW a \in left PROVE a \in right
    BY <1>1, <1>2, <1>5 DEF Differing
  <2>2. ASSUME NEW a \in right PROVE a \in left
    <3>1. a \in DOMAIN copy \cup DOMAIN delta
      BY <1>1, <1>2 DEF Differing
    <3> QED BY <1>5, <3>1
  <2> QED BY <2>1, <2>2
<1>7. ASSUME NEW a \in left PROVE value(a) = ValueAt(next, a[1], a[2])
  BY <1>5
<1>8. [at \in left |-> value(at)] = [at \in right |-> ValueAt(next, at[1], at[2])]
  <2> HIDE DEF left, right, value
  <2> QED BY <1>6, <1>7
<1> QED BY <1>3, <1>4, <1>8 DEF copy, delta
=============================================================================
