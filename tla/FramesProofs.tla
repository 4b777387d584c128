---------------------------- MODULE FramesProofs ----------------------------
(***************************************************************************)
(* Theorems about Frames, for events of any size: what a reader makes of a *)
(* frame is the event it was written from.                                 *)
(***************************************************************************)
EXTENDS Frames, SequenceTheorems, FiniteSetTheorems, WellFoundedInduction, TLAPS

(* Induction up to a number, for a set of numbers. *)
LEMMA UpTo ==
  ASSUME NEW N \in Nat, NEW P, 0 \in P, \A n \in 0..(N - 1) : n \in P => n + 1 \in P
  PROVE  \A n \in 0..N : n \in P
<1> DEFINE missing == {n \in 0..N : n \notin P}
<1> SUFFICES ASSUME missing # {} PROVE FALSE
  OBVIOUS
<1>1. PICK n \in missing : \A m \in missing : <<m, n>> \notin OpToRel(<, Nat)
  <2>1. missing \in SUBSET Nat
    OBVIOUS
  <2> HIDE DEF missing
  <2> QED BY <2>1, WFMin, NatLessThanWellFounded, Zenon
<1>2. n \in 1..N /\ n \notin P
  OBVIOUS
<1>3. n - 1 \in P
  <2>1. n - 1 \in Nat /\ n \in Nat /\ n - 1 < n /\ n - 1 \in 0..N
    BY <1>2
  <2>2. n - 1 \notin missing
    <3> HIDE DEF missing
    <3>1. <<n - 1, n>> \in OpToRel(<, Nat)
      BY <2>1, Zenon DEF OpToRel
    <3> QED BY <1>1, <3>1
  <2> QED BY <2>1, <2>2
<1>4. n - 1 \in 0..(N - 1) /\ (n - 1) + 1 = n
  BY <1>2
<1> QED BY <1>2, <1>3, <1>4

(* A function can be defined by recursion on the numbers up to one. *)
Recurses(f, N, base, step) ==
  f[0] = base /\ \A n \in 1..N : f[n] = step[<<f[n - 1], n>>]

LEMMA Recursion ==
  ASSUME NEW N \in Nat, NEW S, NEW base \in S, NEW step \in [S \X (1..N) -> S]
  PROVE  \E f \in [0..N -> S] : Recurses(f, N, base, step)
<1> DEFINE Upto(f, m) == f[0] = base /\ \A n \in 1..m : f[n] = step[<<f[n - 1], n>>]
           P == {m \in 0..N : \E f \in [0..m -> S] : Upto(f, m)}
<1>1. 0 \in P
  <2> DEFINE f == [n \in 0..0 |-> base]
  <2>1. f \in [0..0 -> S] /\ f[0] = base /\ 1..0 = {}
    OBVIOUS
  <2> HIDE DEF f
  <2>2. Upto(f, 0)
    BY <2>1
  <2> QED BY <2>1, <2>2
<1>2. ASSUME NEW m \in 0..(N - 1), m \in P PROVE m + 1 \in P
  <2>1. PICK f \in [0..m -> S] : Upto(f, m)
    BY <1>2
  <2> DEFINE v == step[<<f[m], m + 1>>]
             g == [n \in 0..(m + 1) |-> IF n = m + 1 THEN v ELSE f[n]]
  <2>2. m \in 0..m /\ m + 1 \in 1..N /\ m + 1 \in 0..N /\ m \in Nat
    OBVIOUS
  <2>3. <<f[m], m + 1>> \in S \X (1..N)
    BY <2>2
  <2>4. v \in S
    BY <2>3
  <2>5. g \in [0..(m + 1) -> S]
    <3> HIDE DEF v
    <3> QED BY <2>2, <2>4
  <2>6. g[m + 1] = v /\ \A n \in 0..m : g[n] = f[n]
    BY <2>2
  <2> HIDE DEF g
  <2>7. ASSUME NEW n \in 1..(m + 1) PROVE g[n] = step[<<g[n - 1], n>>]
    <3>1. CASE n = m + 1
      <4>1. n - 1 = m /\ g[n - 1] = f[m]
        BY <2>2, <2>6, <3>1
      <4> QED BY <2>6, <3>1, <4>1
    <3>2. CASE n # m + 1
      <4>1. n \in 1..m /\ n \in 0..m /\ n - 1 \in 0..m
        BY <2>2, <3>2
      <4> QED BY <2>1, <2>6, <4>1
    <3> QED BY <3>1, <3>2
  <2>8. g[0] = base
    BY <2>1, <2>2, <2>6
  <2> HIDE DEF v
  <2> QED BY <2>2, <2>5, <2>7, <2>8
<1>3. N \in P
  <2>1. N \in 0..N
    OBVIOUS
  <2> HIDE DEF P
  <2> QED BY <1>1, <1>2, <2>1, UpTo
<1> QED BY <1>3 DEF Recurses
-----------------------------------------------------------------------------
(* The loop over a payload. *)

Scan(T) == [lines : Seq(Seq(T)), start : Nat \ {0}]

ScanOf(data, scan) ==
  /\ scan[0] = [lines |-> <<>>, start |-> 1]
  /\ \A n \in 1..Len(data) :
       scan[n] = IF data[n] # Newline THEN scan[n - 1]
                 ELSE [lines |-> Append(scan[n - 1].lines, SubSeq(data, scan[n - 1].start, n - 1)),
                       start |-> n + 1]

LEMMA ScannedIs ==
  ASSUME NEW T, NEW data \in Seq(T)
  PROVE  \E scan \in [0..Len(data) -> Scan(T)] :
           ScanOf(data, scan) /\ Scanned(data) = scan[Len(data)]
<1> DEFINE N == Len(data)
           next(s, n) == IF data[n] # Newline THEN s
                         ELSE [lines |-> Append(s.lines, SubSeq(data, s.start, n - 1)), start |-> n + 1]
           step == [at \in Scan(T) \X (1..N) |-> next(at[1], at[2])]
           base == [lines |-> <<>>, start |-> 1]
           Eq(g) == g = [n \in 0..N |-> IF n = 0 THEN base ELSE next(g[n - 1], n)]
           scan == CHOOSE g : Eq(g)
<1>1. N \in Nat
  BY LenProperties
<1>2. base \in Scan(T)
  BY DEF Scan
<1>3. ASSUME NEW s \in Scan(T), NEW n \in 1..N PROVE next(s, n) \in Scan(T)
  <2>1. s.lines \in Seq(Seq(T)) /\ s.start \in Nat \ {0}
    BY DEF Scan
  <2>2. \A i \in (s.start)..(n - 1) : data[i] \in T
    <3>1. \A i \in (s.start)..(n - 1) : i \in 1..N
      BY <1>1, <2>1
    <3> QED BY <3>1, ElementOfSeq
  <2>3. SubSeq(data, s.start, n - 1) \in Seq(T)
    BY <1>1, <2>1, <2>2, SubSeqProperties
  <2>4. n + 1 \in Nat \ {0}
    BY <1>1
  <2> QED BY <2>1, <2>3, <2>4 DEF Scan
<1>4. Scanned(data) = scan[N]
  BY DEF Scanned
<1> HIDE DEF N, next, base
<1>5. step \in [Scan(T) \X (1..N) -> Scan(T)]
  BY <1>3
<1>6. \E g : Eq(g)
  <2>1. PICK f \in [0..N -> Scan(T)] : Recurses(f, N, base, step)
    <3> HIDE DEF step
    <3> QED BY <1>1, <1>2, <1>5, Recursion
  <2>2. ASSUME NEW n \in 1..N PROVE f[n] = next(f[n - 1], n)
    <3>1. f[n] = step[<<f[n - 1], n>>]
      BY <2>1 DEF Recurses
    <3>2. f[n - 1] \in Scan(T)
      BY <1>1
    <3> QED BY <3>1, <3>2
  <2>3. \A n \in 0..N : f[n] = IF n = 0 THEN base ELSE next(f[n - 1], n)
    BY <1>1, <2>1, <2>2 DEF Recurses
  <2>4. Eq(f)
    BY <2>3
  <2> QED BY <2>4
<1>7. scan = [n \in 0..N |-> IF n = 0 THEN base ELSE next(scan[n - 1], n)]
  <2>1. Eq(scan)
    <3> HIDE DEF Eq
    <3> QED BY <1>6
  <2> QED BY <2>1
<1> HIDE DEF scan, step
<1>8. \A n \in 0..N : scan[n] = IF n = 0 THEN base ELSE next(scan[n - 1], n)
  BY <1>7
<1>9. \A n \in 0..N : scan[n] \in Scan(T)
  <2> DEFINE P == {n \in 0..N : scan[n] \in Scan(T)}
  <2>1. 0 \in P
    BY <1>1, <1>2, <1>8
  <2>2. ASSUME NEW n \in 0..(N - 1), n \in P PROVE n + 1 \in P
    <3>1. n + 1 \in 1..N /\ n + 1 \in 0..N /\ (n + 1) - 1 = n /\ n + 1 # 0
      BY <1>1
    <3>2. scan[n + 1] = next(scan[n], n + 1)
      BY <1>8, <3>1
    <3> QED BY <1>3, <2>2, <3>1, <3>2
  <2> HIDE DEF P
  <2>3. \A n \in 0..N : n \in P
    BY <1>1, <2>1, <2>2, UpTo
  <2> QED BY <2>3 DEF P
<1>10. scan \in [0..N -> Scan(T)]
  BY <1>7, <1>9
<1>11. \A n \in 1..N : scan[n] = next(scan[n - 1], n)
  BY <1>1, <1>8
<1>12. scan[0] = base
  BY <1>1, <1>8
<1>13. ScanOf(data, scan)
  BY <1>11, <1>12 DEF ScanOf, N, next, base
<1> QED BY <1>4, <1>10, <1>13 DEF N
-----------------------------------------------------------------------------
(* Payloads and their lines. *)

JoinOf(lines, text) ==
  /\ text[0] = <<>>
  /\ \A n \in 1..Len(lines) :
       text[n] = IF n = 1 THEN lines[1] ELSE text[n - 1] \o <<Newline>> \o lines[n]

LEMMA JoinedIs ==
  ASSUME NEW T, Newline \in T, NEW lines \in Seq(Seq(T))
  PROVE  \E text \in [0..Len(lines) -> Seq(T)] :
           JoinOf(lines, text) /\ Joined(lines) = text[Len(lines)]
<1> DEFINE N == Len(lines)
           next(s, n) == IF n = 1 THEN lines[1] ELSE s \o <<Newline>> \o lines[n]
           step == [at \in Seq(T) \X (1..N) |-> next(at[1], at[2])]
           base == <<>>
           Eq(g) == g = [n \in 0..N |-> IF n = 0 THEN base ELSE next(g[n - 1], n)]
           text == CHOOSE g : Eq(g)
<1>1. N \in Nat
  BY LenProperties
<1>2. base \in Seq(T)
  BY EmptySeq
<1>3. ASSUME NEW s \in Seq(T), NEW n \in 1..N PROVE next(s, n) \in Seq(T)
  <2>1. lines[1] \in Seq(T) /\ lines[n] \in Seq(T) /\ <<Newline>> \in Seq(T)
    BY <1>1, ElementOfSeq
  <2>2. s \o <<Newline>> \in Seq(T)
    BY <2>1, ConcatProperties
  <2>3. s \o <<Newline>> \o lines[n] \in Seq(T)
    BY <2>1, <2>2, ConcatProperties
  <2> QED BY <2>1, <2>3
<1>4. Joined(lines) = text[N]
  BY DEF Joined
<1> HIDE DEF N, next, base
<1>5. step \in [Seq(T) \X (1..N) -> Seq(T)]
  BY <1>3
<1>6. \E g : Eq(g)
  <2>1. PICK f \in [0..N -> Seq(T)] : Recurses(f, N, base, step)
    <3> HIDE DEF step
    <3> QED BY <1>1, <1>2, <1>5, Recursion
  <2>2. ASSUME NEW n \in 1..N PROVE f[n] = next(f[n - 1], n)
    <3>1. f[n] = step[<<f[n - 1], n>>]
      BY <2>1 DEF Recurses
    <3>2. f[n - 1] \in Seq(T)
      BY <1>1
    <3> QED BY <3>1, <3>2
  <2>3. \A n \in 0..N : f[n] = IF n = 0 THEN base ELSE next(f[n - 1], n)
    BY <1>1, <2>1, <2>2 DEF Recurses
  <2>4. Eq(f)
    BY <2>3
  <2> QED BY <2>4
<1>7. text = [n \in 0..N |-> IF n = 0 THEN base ELSE next(text[n - 1], n)]
  <2>1. Eq(text)
    <3> HIDE DEF Eq
    <3> QED BY <1>6
  <2> QED BY <2>1
<1> HIDE DEF text, step
<1>8. \A n \in 0..N : text[n] = IF n = 0 THEN base ELSE next(text[n - 1], n)
  BY <1>7
<1>9. \A n \in 0..N : text[n] \in Seq(T)
  <2> DEFINE P == {n \in 0..N : text[n] \in Seq(T)}
  <2>1. 0 \in P
    BY <1>1, <1>2, <1>8
  <2>2. ASSUME NEW n \in 0..(N - 1), n \in P PROVE n + 1 \in P
    <3>1. n + 1 \in 1..N /\ n + 1 \in 0..N /\ (n + 1) - 1 = n /\ n + 1 # 0
      BY <1>1
    <3>2. text[n + 1] = next(text[n], n + 1)
      BY <1>8, <3>1
    <3> QED BY <1>3, <2>2, <3>1, <3>2
  <2> HIDE DEF P
  <2>3. \A n \in 0..N : n \in P
    BY <1>1, <2>1, <2>2, UpTo
  <2> QED BY <2>3 DEF P
<1>10. text \in [0..N -> Seq(T)]
  BY <1>7, <1>9
<1>11. \A n \in 1..N : text[n] = next(text[n - 1], n)
  BY <1>1, <1>8
<1>12. text[0] = base
  BY <1>1, <1>8
<1>13. JoinOf(lines, text)
  BY <1>11, <1>12 DEF JoinOf, N, next, base
<1> QED BY <1>4, <1>10, <1>13 DEF N

(* Another line adds itself, behind a newline unless it is the first. *)
LEMMA JoinedGrows ==
  ASSUME NEW T, Newline \in T, NEW lines \in Seq(Seq(T)), NEW line \in Seq(T)
  PROVE  /\ Joined(lines) \in Seq(T)
         /\ Joined(Append(lines, line)) =
              IF lines = <<>> THEN line ELSE Joined(lines) \o <<Newline>> \o line
<1> DEFINE N == Len(lines)
           more == Append(lines, line)
<1>1. N \in Nat
  BY LenProperties
<1>2. /\ more \in Seq(Seq(T)) /\ Len(more) = N + 1
      /\ more[N + 1] = line /\ \A n \in 1..N : more[n] = lines[n]
  BY AppendProperties
<1>3. PICK text \in [0..N -> Seq(T)] : JoinOf(lines, text) /\ Joined(lines) = text[N]
  BY JoinedIs
<1> HIDE DEF more
<1>4. PICK long \in [0..(N + 1) -> Seq(T)] : JoinOf(more, long) /\ Joined(more) = long[N + 1]
  BY <1>2, JoinedIs
<1> HIDE DEF N
<1>5. \A n \in 0..N : long[n] = text[n]
  <2> DEFINE P == {n \in 0..N : long[n] = text[n]}
  <2>1. 0 \in P
    BY <1>1, <1>3, <1>4 DEF JoinOf
  <2>2. ASSUME NEW n \in 0..(N - 1), n \in P PROVE n + 1 \in P
    <3>1. /\ n + 1 \in 1..N /\ n + 1 \in 1..(N + 1) /\ n + 1 \in 0..N /\ (n + 1) - 1 = n
          /\ 1 \in 1..N
      BY <1>1
    <3>2. long[n + 1] = IF n + 1 = 1 THEN more[1] ELSE long[n] \o <<Newline>> \o more[n + 1]
      BY <1>2, <1>4, <3>1 DEF JoinOf
    <3>3. text[n + 1] = IF n + 1 = 1 THEN lines[1] ELSE text[n] \o <<Newline>> \o lines[n + 1]
      BY <1>3, <3>1 DEF JoinOf, N
    <3>4. long[n] = text[n] /\ more[n + 1] = lines[n + 1] /\ more[1] = lines[1]
      BY <1>2, <2>2, <3>1
    <3> QED BY <3>1, <3>2, <3>3, <3>4
  <2> HIDE DEF P
  <2>3. \A n \in 0..N : n \in P
    BY <1>1, <2>1, <2>2, UpTo
  <2> QED BY <2>3 DEF P
<1>6. long[N + 1] = IF N + 1 = 1 THEN more[1] ELSE long[N] \o <<Newline>> \o more[N + 1]
  <2>1. N + 1 \in 1..(N + 1) /\ (N + 1) - 1 = N
    BY <1>1
  <2> QED BY <1>2, <1>4, <2>1 DEF JoinOf
<1>7. long[N] = text[N] /\ text[N] \in Seq(T)
  BY <1>1, <1>3, <1>5
<1>8. lines = <<>> <=> N = 0
  BY <1>1, EmptySeq DEF N
<1>9. N + 1 = 1 <=> N = 0
  BY <1>1
<1>10. more[N + 1] = line
  BY <1>2
<1>11. Joined(more) = IF lines = <<>> THEN line ELSE Joined(lines) \o <<Newline>> \o line
  BY <1>3, <1>4, <1>6, <1>7, <1>8, <1>9, <1>10
<1> QED BY <1>3, <1>7, <1>11 DEF more

LEMMA Longer ==
  ASSUME NEW S, NEW seq \in Seq(S), NEW e \in S
  PROVE  Append(seq, e) \in Seq(S) /\ Append(seq, e) # <<>>
BY AppendProperties

(* The lines of a payload, joined, are the payload but for a newline at    *)
(* its end; and only an empty payload has none.                            *)
LEMMA SplitJoins ==
  ASSUME NEW T, Newline \in T, NEW data \in Seq(T)
  PROVE  /\ SplitDataLines(data) \in Seq(Seq(T))
         /\ data = <<>> <=> SplitDataLines(data) = <<>>
         /\ data # <<>> => data \in {Joined(SplitDataLines(data)),
                                     Joined(SplitDataLines(data)) \o <<Newline>>}
<1> DEFINE N == Len(data)
<1>1. N \in Nat /\ DOMAIN data = 1..N
  BY LenProperties
<1>2. PICK scan \in [0..N -> Scan(T)] : ScanOf(data, scan) /\ Scanned(data) = scan[N]
  BY ScannedIs
<1> DEFINE Told(n) == LET s == scan[n] IN
                      /\ s.start \in 1..(n + 1)
                      /\ s.lines = <<>> => s.start = 1
                      /\ s.lines # <<>> =>
                           /\ s.start > 1
                           /\ SubSeq(data, 1, s.start - 1) = Joined(s.lines) \o <<Newline>>
<1>3. \A n \in 0..N : scan[n].lines \in Seq(Seq(T)) /\ scan[n].start \in Nat \ {0}
  BY <1>2 DEF Scan
<1>4. ASSUME NEW m \in 1..N, NEW k \in m..N
      PROVE  SubSeq(data, m, k) \in Seq(T) /\ Len(SubSeq(data, m, k)) = k - m + 1
  <2>1. \A i \in m..k : data[i] \in T
    <3>1. \A i \in m..k : i \in 1..N
      BY <1>1
    <3> QED BY <3>1, ElementOfSeq
  <2> QED BY <1>1, <2>1, SubSeqProperties
<1>5. \A n \in 0..N : Told(n)
  <2> DEFINE P == {n \in 0..N : Told(n)}
  <2>1. 0 \in P
    <3>1. scan[0] = [lines |-> <<>>, start |-> 1] /\ 0 \in 0..N
      BY <1>1, <1>2 DEF ScanOf
    <3> QED BY <3>1
  <2>2. ASSUME NEW n \in 0..(N - 1), n \in P PROVE n + 1 \in P
    <3> DEFINE was == scan[n]
               k == n + 1
    <3>1. k \in 1..N /\ k \in 0..N /\ k - 1 = n /\ n \in 0..N /\ n \in Nat
      BY <1>1
    <3>2. Told(n) /\ was.lines \in Seq(Seq(T)) /\ was.start \in Nat \ {0}
      BY <1>3, <2>2, <3>1
    <3>3. scan[k] = IF data[k] # Newline THEN was
                    ELSE [lines |-> Append(was.lines, SubSeq(data, was.start, n)), start |-> k + 1]
      BY <1>2, <3>1 DEF ScanOf
    <3>4. CASE data[k] # Newline
      <4>1. scan[k] = was
        BY <3>3, <3>4
      <4>2. was.start \in 1..(k + 1)
        BY <3>1, <3>2
      <4> QED BY <3>1, <3>2, <4>1, <4>2
    <3>5. CASE data[k] = Newline
      <4> DEFINE line == SubSeq(data, was.start, n)
      <4>1. scan[k].lines = Append(was.lines, line) /\ scan[k].start = k + 1
        <5>1. scan[k] = [lines |-> Append(was.lines, line), start |-> k + 1]
          BY <3>3, <3>5
        <5> DEFINE longer == Append(was.lines, line)
        <5> HIDE DEF longer
        <5>2. scan[k].lines = longer /\ scan[k].start = k + 1
          <6>1. scan[k] = [lines |-> longer, start |-> k + 1]
            BY <5>1 DEF longer
          <6> HIDE DEF k
          <6> QED BY <6>1
        <5> QED BY <5>2 DEF longer
      <4>2. line \in Seq(T)
        <5>1. CASE was.start = n + 1
          <6>1. line = <<>>
            BY <3>1, <5>1, SubSeqEmpty
          <6> QED BY <6>1, EmptySeq
        <5>2. CASE was.start # n + 1
          <6>1. was.start \in 1..N /\ n \in (was.start)..N
            BY <1>1, <3>1, <3>2, <5>2
          <6> QED BY <1>4, <6>1
        <5> QED BY <5>1, <5>2
      <4>3. SubSeq(data, 1, k) = SubSeq(data, 1, n) \o <<Newline>>
        <5>1. 1 \in 1..N /\ k \in 1..N
          BY <3>1
        <5>2. SubSeq(data, 1, k) = SubSeq(data, 1, k - 1) \o <<data[k]>>
          BY <5>1, SubSeqRecursiveSecond
        <5> QED BY <3>1, <3>5, <5>2
      <4>4. SubSeq(data, 1, n) = Joined(Append(was.lines, line))
        <5>1. CASE was.lines = <<>>
          <6>1. was.start = 1
            BY <3>2, <5>1
          <6>2. Joined(Append(was.lines, line)) = line
            BY <3>2, <4>2, <5>1, JoinedGrows
          <6> QED BY <6>1, <6>2
        <5>2. CASE was.lines # <<>>
          <6> DEFINE j == was.start - 1
          <6>1. was.start \in 1..(n + 1) /\ was.start > 1 /\ SubSeq(data, 1, j) = Joined(was.lines) \o <<Newline>>
            BY <3>2, <5>2
          <6>2. 1 \in 1..(N + 1) /\ j \in 0..N /\ n \in j..N /\ j + 1 = was.start /\ 1 - 1 = 0
            BY <1>1, <3>1, <6>1
          <6>3. SubSeq(data, 1, j) \o SubSeq(data, j + 1, n) = SubSeq(data, 1, n)
            <7> HIDE DEF N, j
            <7>1. j \in (1 - 1)..Len(data) /\ n \in j..Len(data) /\ 1 \in 1..(Len(data) + 1)
              BY <6>2 DEF N
            <7> QED BY <7>1, ConcatAdjacentSubSeq
          <6>4. Joined(Append(was.lines, line)) = Joined(was.lines) \o <<Newline>> \o line
            BY <3>2, <4>2, <5>2, JoinedGrows
          <6> QED BY <6>1, <6>2, <6>3, <6>4
        <5> QED BY <5>1, <5>2
      <4>5. Append(was.lines, line) # <<>>
        <5> HIDE DEF line, was
        <5> QED BY <3>2, <4>2, Longer
      <4>6. k + 1 \in 1..(k + 1) /\ k + 1 > 1 /\ (k + 1) - 1 = k
        BY <3>1
      <4> HIDE DEF line
      <4>7. Told(k)
        BY <4>1, <4>3, <4>4, <4>5, <4>6
      <4> QED BY <3>1, <4>7
    <3> QED BY <3>4, <3>5
  <2> HIDE DEF P
  <2>3. \A n \in 0..N : n \in P
    BY <1>1, <2>1, <2>2, UpTo
  <2> QED BY <2>3 DEF P
<1> DEFINE s == scan[N]
<1>6. Told(N) /\ s.lines \in Seq(Seq(T)) /\ s.start \in Nat \ {0} /\ s.start \in 1..(N + 1)
  <2>1. N \in 0..N
    BY <1>1
  <2> QED BY <1>3, <1>5, <2>1
<1>7. SplitDataLines(data) = IF s.start <= N THEN Append(s.lines, SubSeq(data, s.start, N)) ELSE s.lines
  BY <1>2 DEF SplitDataLines
<1>8. SubSeq(data, 1, N) = data /\ (data = <<>> <=> N = 0)
  BY <1>1, SubSeqFull, EmptySeq
<1>9. CASE s.start <= N
  <2> DEFINE line == SubSeq(data, s.start, N)
             all == Append(s.lines, line)
  <2>1. s.start \in 1..N /\ N \in (s.start)..N
    BY <1>1, <1>6, <1>9
  <2>2. line \in Seq(T)
    BY <1>4, <2>1
  <2>3. all \in Seq(Seq(T)) /\ all # <<>>
    <3> HIDE DEF line
    <3>1. s.lines \in Seq(Seq(T))
      BY <1>6
    <3> HIDE DEF s
    <3> QED BY <2>2, <3>1, Longer
  <2>4. Joined(all) = IF s.lines = <<>> THEN line ELSE Joined(s.lines) \o <<Newline>> \o line
    BY <1>6, <2>2, JoinedGrows
  <2>5. Joined(all) = data
    <3>1. CASE s.lines = <<>>
      BY <1>6, <1>8, <2>4, <3>1
    <3>2. CASE s.lines # <<>>
      <4> DEFINE j == s.start - 1
      <4>1. SubSeq(data, 1, j) = Joined(s.lines) \o <<Newline>> /\ s.start > 1
        BY <1>6, <3>2
      <4>2. j \in 0..N /\ N \in j..N /\ 1 \in 1..(N + 1) /\ j + 1 = s.start /\ 1 - 1 = 0
        BY <1>1, <2>1
      <4>3. SubSeq(data, 1, j) \o SubSeq(data, j + 1, N) = SubSeq(data, 1, N)
        <5> HIDE DEF N, j
        <5>1. j \in (1 - 1)..Len(data) /\ N \in j..Len(data) /\ 1 \in 1..(Len(data) + 1)
          BY <4>2 DEF N
        <5> QED BY <5>1, ConcatAdjacentSubSeq
      <4> QED BY <1>8, <2>4, <3>2, <4>1, <4>2, <4>3
    <3> QED BY <3>1, <3>2
  <2>6. N # 0
    BY <1>1, <2>1
  <2> QED BY <1>7, <1>8, <1>9, <2>3, <2>5, <2>6
<1>10. CASE ~(s.start <= N)
  <2>1. s.start = N + 1 /\ s.start - 1 = N
    BY <1>1, <1>6, <1>10
  <2>2. CASE s.lines = <<>>
    <3>1. N = 0
      BY <1>1, <1>6, <2>1, <2>2
    <3> QED BY <1>6, <1>7, <1>8, <1>10, <2>2, <3>1
  <2>3. CASE s.lines # <<>>
    <3>0. s.start > 1 /\ SubSeq(data, 1, s.start - 1) = Joined(s.lines) \o <<Newline>>
      BY <1>6, <2>3
    <3>1. data = Joined(s.lines) \o <<Newline>> /\ N # 0
      <4>1. N # 0
        <5>1. s.start > 1 /\ s.start = N + 1
          BY <2>1, <3>0
        <5> HIDE DEF s, N
        <5> QED BY <1>1, <5>1
      <4>2. SubSeq(data, 1, s.start - 1) = SubSeq(data, 1, N)
        BY <2>1
      <4> HIDE DEF s
      <4> QED BY <1>8, <3>0, <4>1, <4>2
    <3> QED BY <1>6, <1>7, <1>8, <1>10, <2>3, <3>1
  <2> QED BY <2>2, <2>3
<1> QED BY <1>9, <1>10
(* A payload of lines of one token each. *)
LEMMA LineByLine ==
  ASSUME NEW T, NEW data \in Seq(T), NEW n \in Nat, Len(data) = 2 * n,
         \A i \in 1..n : data[2 * i] = Newline /\ data[2 * i - 1] # Newline
  PROVE  SplitDataLines(data) = [i \in 1..n |-> <<data[2 * i - 1]>>]
<1> DEFINE line(i) == <<data[2 * i - 1]>>
           upto(i) == [k \in 1..i |-> line(k)]
<1>1. PICK scan \in [0..(2 * n) -> Scan(T)] : ScanOf(data, scan) /\ Scanned(data) = scan[2 * n]
  BY ScannedIs
<1>2. \A i \in 0..n : scan[2 * i] = [lines |-> upto(i), start |-> 2 * i + 1]
  <2> DEFINE P == {i \in 0..n : scan[2 * i] = [lines |-> upto(i), start |-> 2 * i + 1]}
  <2>1. 0 \in P
    <3>1. upto(0) = <<>> /\ 2 * 0 = 0 /\ 2 * 0 + 1 = 1 /\ 0 \in 0..n
      OBVIOUS
    <3>2. scan[0] = [lines |-> <<>>, start |-> 1]
      BY <1>1 DEF ScanOf
    <3> HIDE DEF upto
    <3> QED BY <3>1, <3>2
  <2>2. ASSUME NEW i \in 0..(n - 1), i \in P PROVE i + 1 \in P
    <3> DEFINE k == i + 1
               a == 2 * i
    <3>1. /\ k \in 1..n /\ k \in 0..n /\ i \in Nat /\ 2 * k = a + 2 /\ 2 * k - 1 = a + 1
          /\ a + 1 \in 1..(2 * n) /\ a + 2 \in 1..(2 * n) /\ (a + 1) - 1 = a /\ (a + 2) - 1 = a + 1
          /\ a \in Nat
      OBVIOUS
    <3>2. scan[a] = [lines |-> upto(i), start |-> a + 1]
      BY <2>2
    <3>3. data[a + 1] # Newline /\ data[a + 2] = Newline
      BY <3>1
    <3> HIDE DEF a, k, upto, line
    <3>4. scan[a + 1] = scan[a]
      BY <1>1, <3>1, <3>3 DEF ScanOf
    <3>5. scan[a + 2] = [lines |-> Append(scan[a + 1].lines, SubSeq(data, scan[a + 1].start, a + 1)),
                         start |-> a + 3]
      <4>1. (a + 2) + 1 = a + 3
        BY <3>1
      <4> QED BY <1>1, <3>1, <3>3, <4>1 DEF ScanOf
    <3>6. scan[a + 1].lines = upto(i) /\ scan[a + 1].start = a + 1
      BY <3>2, <3>4
    <3>7. SubSeq(data, a + 1, a + 1) = <<data[a + 1]>>
      <4>1. SubSeq(data, a + 1, a + 1) = SubSeq(data, a + 1, (a + 1) - 1) \o <<data[a + 1]>>
        <5>1. a + 1 \in 1..Len(data) /\ a + 1 \in (a + 1)..Len(data)
          BY <3>1
        <5> QED BY <5>1, SubSeqRecursiveSecond
      <4>2. SubSeq(data, a + 1, (a + 1) - 1) = <<>>
        BY <3>1, SubSeqEmpty
      <4>3. data[a + 1] \in T
        BY <3>1, ElementOfSeq
      <4>4. <<data[a + 1]>> \in Seq(T)
        BY <4>3
      <4>5. <<>> \o <<data[a + 1]>> = <<data[a + 1]>>
        BY <4>4, ConcatEmptySeq
      <4> QED BY <4>1, <4>2, <4>5
    <3>8. Append(upto(i), line(k)) = upto(k)
      <4> DEFINE L == {line(m) : m \in Nat}
      <4>2. \A m \in Nat : line(m) \in L
        OBVIOUS
      <4> HIDE DEF L
      <4>3. upto(i) \in [1..i -> L] /\ upto(i) \in Seq(L) /\ Len(upto(i)) = i
            /\ \A j \in 1..i : upto(i)[j] = line(j)
        BY <3>1, <4>2 DEF upto
      <4>4. upto(k) \in Seq(L) /\ Len(upto(k)) = k /\ \A j \in 1..k : upto(k)[j] = line(j)
        BY <3>1, <4>2 DEF upto
      <4>5. line(k) \in L /\ k = i + 1
        BY <3>1, <4>2 DEF k
      <4>6. /\ Append(upto(i), line(k)) \in Seq(L) /\ Len(Append(upto(i), line(k))) = i + 1
            /\ \A j \in 1..i : Append(upto(i), line(k))[j] = upto(i)[j]
            /\ Append(upto(i), line(k))[i + 1] = line(k)
        BY <4>3, <4>5, AppendProperties
      <4> DEFINE s == Append(upto(i), line(k))
                 t == upto(k)
      <4>7. \A j \in 1..k : s[j] = t[j]
        <5> SUFFICES ASSUME NEW j \in 1..k PROVE s[j] = t[j]
          OBVIOUS
        <5>1. CASE j = k
          BY <4>4, <4>5, <4>6, <5>1
        <5>2. CASE j # k
          <6>1. j \in 1..i
            BY <3>1, <4>5, <5>2
          <6> QED BY <4>3, <4>4, <4>6, <6>1
        <5> QED BY <5>1, <5>2
      <4>8. s \in Seq(L) /\ t \in Seq(L) /\ Len(s) = k /\ Len(t) = k
        BY <4>4, <4>5, <4>6
      <4> HIDE DEF s, t
      <4>9. s = t
        BY <4>7, <4>8, SeqEqual
      <4> QED BY <4>9 DEF s, t
    <3>9. line(k) = <<data[a + 1]>>
      BY <3>1 DEF line
    <3>10. scan[a + 2] = [lines |-> upto(k), start |-> a + 3]
      BY <3>5, <3>6, <3>7, <3>8, <3>9
    <3>11. 2 * k + 1 = a + 3
      BY <3>1
    <3>12. k \in P
      BY <3>1, <3>10, <3>11
    <3> QED BY <3>12 DEF k
  <2> HIDE DEF P
  <2>3. \A i \in 0..n : i \in P
    BY <2>1, <2>2, UpTo
  <2> QED BY <2>3 DEF P
<1>3. Scanned(data) = [lines |-> upto(n), start |-> 2 * n + 1]
  <2>1. n \in 0..n
    OBVIOUS
  <2> QED BY <1>1, <1>2, <2>1
<1> HIDE DEF upto
<1>4. Scanned(data).lines = upto(n) /\ Scanned(data).start = 2 * n + 1
  BY <1>3
<1>5. ~(2 * n + 1 <= 2 * n)
  OBVIOUS
<1>6. SplitDataLines(data) = upto(n)
  BY <1>4, <1>5 DEF SplitDataLines
<1> QED BY <1>6 DEF upto
-----------------------------------------------------------------------------
(* Frames and events. *)

Line(T, name) ==
  [field : {"id"}, value : Nat] \cup [field : {"event"}, value : {name}]
    \cup [field : {"data"}, value : Seq(T)] \cup {Blank}

IdLines(event) == IF event.id > 0 THEN 1 ELSE 0

(* A frame, line by line. *)
LEMMA FrameLines ==
  ASSUME NEW T, Newline \in T, NEW event, event.id \in Nat, event.data \in Seq(T)
  PROVE  LET lines == SplitDataLines(event.data)
             frame == WriteEvent(event)
             o == IdLines(event)
         IN  /\ frame \in Seq(Line(T, event.name)) /\ Len(frame) = o + Len(lines) + 2
             /\ o = 1 => frame[1] = [field |-> "id", value |-> event.id]
             /\ frame[o + 1] = [field |-> "event", value |-> event.name]
             /\ \A i \in 1..Len(lines) : frame[o + 1 + i] = [field |-> "data", value |-> lines[i]]
             /\ frame[o + Len(lines) + 2] = Blank
<1> DEFINE lines == SplitDataLines(event.data)
           L == Len(lines)
           o == IdLines(event)
           S == Line(T, event.name)
           a == IF event.id > 0 THEN <<[field |-> "id", value |-> event.id]>> ELSE <<>>
           b == <<[field |-> "event", value |-> event.name]>>
           c == [i \in 1..L |-> [field |-> "data", value |-> lines[i]]]
           d == <<Blank>>
<1>1. lines \in Seq(Seq(T)) /\ L \in Nat /\ DOMAIN lines = 1..L
  <2>1. lines \in Seq(Seq(T))
    BY SplitJoins
  <2> HIDE DEF lines
  <2> QED BY <2>1, LenProperties
<1>2. o \in {0, 1} /\ o \in Nat
  BY DEF IdLines
<1>3. a \in Seq(S) /\ Len(a) = o
  <2>1. CASE event.id > 0
    <3>1. [field |-> "id", value |-> event.id] \in S
      BY DEF Line
    <3> HIDE DEF S
    <3> QED BY <2>1, <3>1 DEF IdLines
  <2>2. CASE ~(event.id > 0)
    <3> HIDE DEF S
    <3> QED BY <2>2, EmptySeq DEF IdLines
  <2> QED BY <2>1, <2>2
<1>4. b \in Seq(S) /\ Len(b) = 1 /\ d \in Seq(S) /\ Len(d) = 1
  <2>1. [field |-> "event", value |-> event.name] \in S /\ Blank \in S
    BY DEF Line, Blank
  <2> HIDE DEF S
  <2> QED BY <2>1
<1>5. c \in Seq(S) /\ Len(c) = L
  <2>1. ASSUME NEW i \in 1..L PROVE [field |-> "data", value |-> lines[i]] \in S
    <3>1. lines[i] \in Seq(T)
      <4> HIDE DEF lines
      <4> QED BY <1>1, ElementOfSeq
    <3> QED BY <3>1 DEF Line
  <2>2. c \in [1..L -> S]
    <3> HIDE DEF S, L, lines
    <3> QED BY <2>1
  <2> HIDE DEF S, L, lines, c
  <2> QED BY <1>1, <2>2
<1>6. WriteEvent(event) = a \o b \o c \o d
  BY <1>1 DEF WriteEvent
<1> HIDE DEF lines, L, o, S, a, c
<1>7. a \o b \in Seq(S) /\ Len(a \o b) = o + 1 /\ (a \o b)[o + 1] = b[1] /\ (o = 1 => (a \o b)[1] = a[1])
  <2>1. /\ a \o b \in Seq(S) /\ Len(a \o b) = Len(a) + Len(b)
        /\ \A i \in 1..(Len(a) + Len(b)) : (a \o b)[i] = IF i <= Len(a) THEN a[i] ELSE b[i - Len(a)]
    BY <1>3, <1>4, ConcatProperties
  <2>2. o + 1 \in 1..(o + 1) /\ ~(o + 1 <= o) /\ (o + 1) - o = 1 /\ (o = 1 => 1 \in 1..(o + 1) /\ 1 <= o)
    BY <1>2
  <2> HIDE DEF b
  <2> QED BY <1>2, <1>3, <1>4, <2>1, <2>2
<1> DEFINE ab == a \o b
<1> HIDE DEF ab
<1>8. /\ ab \o c \in Seq(S) /\ Len(ab \o c) = o + 1 + L
      /\ \A i \in 1..(o + 1) : (ab \o c)[i] = ab[i]
      /\ \A i \in 1..L : (ab \o c)[o + 1 + i] = c[i]
  <2>1. ab \in Seq(S) /\ Len(ab) = o + 1
    BY <1>7 DEF ab
  <2>2. /\ ab \o c \in Seq(S) /\ Len(ab \o c) = Len(ab) + Len(c)
        /\ \A i \in 1..(Len(ab) + Len(c)) : (ab \o c)[i] = IF i <= Len(ab) THEN ab[i] ELSE c[i - Len(ab)]
    BY <1>5, <2>1, ConcatProperties
  <2>3. \A i \in 1..(o + 1) : i \in 1..(o + 1 + L) /\ i <= o + 1
    BY <1>1, <1>2
  <2>4. \A i \in 1..L : o + 1 + i \in 1..(o + 1 + L) /\ ~(o + 1 + i <= o + 1) /\ (o + 1 + i) - (o + 1) = i
    BY <1>1, <1>2
  <2> QED BY <1>5, <2>1, <2>2, <2>3, <2>4
<1> DEFINE abc == ab \o c
<1> HIDE DEF abc
<1>9. /\ abc \o d \in Seq(S) /\ Len(abc \o d) = o + 2 + L
      /\ \A i \in 1..(o + 1 + L) : (abc \o d)[i] = abc[i]
      /\ (abc \o d)[o + L + 2] = d[1]
  <2>1. abc \in Seq(S) /\ Len(abc) = o + 1 + L
    BY <1>8 DEF abc
  <2>2. /\ abc \o d \in Seq(S) /\ Len(abc \o d) = Len(abc) + Len(d)
        /\ \A i \in 1..(Len(abc) + Len(d)) : (abc \o d)[i] = IF i <= Len(abc) THEN abc[i] ELSE d[i - Len(abc)]
    BY <1>4, <2>1, ConcatProperties
  <2>3. \A i \in 1..(o + 1 + L) : i \in 1..(o + 1 + L + 1) /\ i <= o + 1 + L
    BY <1>1, <1>2
  <2>4. /\ o + L + 2 \in 1..(o + 1 + L + 1) /\ ~(o + L + 2 <= o + 1 + L)
        /\ (o + L + 2) - (o + 1 + L) = 1 /\ o + 1 + L + 1 = o + 2 + L
    BY <1>1, <1>2
  <2> HIDE DEF d
  <2> QED BY <1>4, <2>1, <2>2, <2>3, <2>4
<1>10. WriteEvent(event) = abc \o d
  BY <1>6 DEF abc, ab
<1> DEFINE frame == abc \o d
<1>11. d[1] = Blank /\ b[1] = [field |-> "event", value |-> event.name]
  OBVIOUS
<1> HIDE DEF frame, b, d
<1>12. frame \in Seq(S) /\ Len(frame) = o + L + 2 /\ frame[o + L + 2] = Blank
  <2>1. o + 2 + L = o + L + 2
    BY <1>1, <1>2
  <2> QED BY <1>9, <1>11, <2>1 DEF frame
<1>13. o = 1 => frame[1] = [field |-> "id", value |-> event.id]
  <2> SUFFICES ASSUME o = 1 PROVE frame[1] = [field |-> "id", value |-> event.id]
    OBVIOUS
  <2>1. 1 \in 1..(o + 1) /\ 1 \in 1..(o + 1 + L)
    BY <1>1
  <2>2. frame[1] = a[1]
    <3>1. frame[1] = abc[1]
      BY <1>9, <2>1 DEF frame
    <3>2. abc[1] = ab[1]
      BY <1>8, <2>1 DEF abc
    <3>3. ab[1] = a[1]
      BY <1>7 DEF ab
    <3> QED BY <3>1, <3>2, <3>3
  <2>3. event.id > 0
    BY DEF o, IdLines
  <2> QED BY <2>2, <2>3 DEF a
<1>14. frame[o + 1] = [field |-> "event", value |-> event.name]
  <2>1. o + 1 \in 1..(o + 1) /\ o + 1 \in 1..(o + 1 + L)
    BY <1>1, <1>2
  <2>2. frame[o + 1] = abc[o + 1]
    BY <1>9, <2>1 DEF frame
  <2>3. abc[o + 1] = ab[o + 1]
    BY <1>8, <2>1 DEF abc
  <2>4. ab[o + 1] = b[1]
    BY <1>7 DEF ab
  <2> QED BY <1>11, <2>2, <2>3, <2>4
<1>15. ASSUME NEW i \in 1..L PROVE frame[o + 1 + i] = [field |-> "data", value |-> lines[i]]
  <2>1. o + 1 + i \in 1..(o + 1 + L)
    BY <1>1, <1>2
  <2>2. frame[o + 1 + i] = abc[o + 1 + i]
    BY <1>9, <2>1 DEF frame
  <2>3. abc[o + 1 + i] = c[i]
    BY <1>8 DEF abc
  <2> QED BY <2>2, <2>3 DEF c
<1> QED BY <1>10, <1>12, <1>13, <1>14, <1>15 DEF frame, lines, L, o, S

(* What a reader has after each line. *)
AfterLines(lastId, lines, after) ==
  /\ after[0] = NoEvent(lastId)
  /\ \A n \in 1..Len(lines) : after[n] = Taken(after[n - 1], lines[n])

LEMMA EventOfIs ==
  ASSUME NEW lastId, NEW S, NEW lines \in Seq(S), NEW E, NoEvent(lastId) \in E,
         \A event \in E, line \in S : Taken(event, line) \in E
  PROVE  \E after : AfterLines(lastId, lines, after) /\ EventOf(lastId, lines) = after[Len(lines)]
<1> DEFINE N == Len(lines)
           step == [at \in E \X (1..N) |-> Taken(at[1], lines[at[2]])]
           base == NoEvent(lastId)
           Eq(g) == g = [n \in 0..N |-> IF n = 0 THEN base ELSE Taken(g[n - 1], lines[n])]
           after == CHOOSE g : Eq(g)
<1>1. N \in Nat
  BY LenProperties
<1>2. \A n \in 1..N : lines[n] \in S
  BY ElementOfSeq
<1>3. EventOf(lastId, lines) = after[N]
  BY DEF EventOf
<1> HIDE DEF N, base
<1>4. step \in [E \X (1..N) -> E]
  BY <1>2
<1>5. \E g : Eq(g)
  <2>1. PICK f \in [0..N -> E] : Recurses(f, N, base, step)
    <3>1. base \in E
      BY DEF base
    <3> HIDE DEF step
    <3> QED BY <1>1, <1>4, <3>1, Recursion
  <2>2. ASSUME NEW n \in 1..N PROVE f[n] = Taken(f[n - 1], lines[n])
    <3>1. f[n] = step[<<f[n - 1], n>>]
      BY <2>1 DEF Recurses
    <3>2. f[n - 1] \in E
      BY <1>1
    <3> QED BY <3>1, <3>2
  <2>3. \A n \in 0..N : f[n] = IF n = 0 THEN base ELSE Taken(f[n - 1], lines[n])
    BY <1>1, <2>1, <2>2 DEF Recurses
  <2>4. Eq(f)
    BY <2>3
  <2> QED BY <2>4
<1>6. after = [n \in 0..N |-> IF n = 0 THEN base ELSE Taken(after[n - 1], lines[n])]
  <2>1. Eq(after)
    <3> HIDE DEF Eq
    <3> QED BY <1>5
  <2> QED BY <2>1
<1> HIDE DEF after, step
<1>7. \A n \in 0..N : after[n] = IF n = 0 THEN base ELSE Taken(after[n - 1], lines[n])
  BY <1>6
<1>8. \A n \in 1..N : after[n] = Taken(after[n - 1], lines[n])
  BY <1>1, <1>7
<1>9. after[0] = base
  BY <1>1, <1>7
<1>10. AfterLines(lastId, lines, after)
  BY <1>8, <1>9 DEF AfterLines, N, base
<1> QED BY <1>3, <1>10 DEF N

(* What is left of a line whose end may come early, and of one whose end   *)
(* does not.                                                               *)
LEMMA UpToReturnIs ==
  ASSUME NEW T, NEW value \in Seq(T)
  PROVE  UpToReturn(value) \in Seq(T) /\ (Unbroken(value) => UpToReturn(value) = value)
<1> DEFINE N == Len(value)
           clear == {n \in DOMAIN value : \A i \in 1..n : value[i] # Return}
           k == Cardinality(clear)
<1>1. N \in Nat /\ DOMAIN value = 1..N
  BY LenProperties
<1>2. IsFiniteSet(1..N) /\ Cardinality(1..N) = N
  <2> HIDE DEF N
  <2>1. 1 \in Int /\ N \in Int
    BY <1>1
  <2>2. IsFiniteSet(1..N) /\ Cardinality(1..N) = IF 1 > N THEN 0 ELSE N - 1 + 1
    BY <2>1, FS_Interval
  <2> QED BY <1>1, <2>2
<1>3. clear \in SUBSET (1..N)
  BY <1>1
<1> HIDE DEF clear, N
<1>4. k \in 0..N
  <2>1. IsFiniteSet(clear) /\ k <= N
    BY <1>2, <1>3, FS_Subset
  <2>2. k \in Nat
    BY <2>1, FS_CardinalityType
  <2> QED BY <1>1, <2>1, <2>2
<1>5. UpToReturn(value) = SubSeq(value, 1, k)
  BY DEF UpToReturn, clear
<1> HIDE DEF k
<1>6. SubSeq(value, 1, k) \in Seq(T)
  <2>1. \A i \in 1..k : i \in 1..Len(value)
    BY <1>1, <1>4 DEF N
  <2>2. \A i \in 1..k : value[i] \in T
    BY <2>1, ElementOfSeq
  <2>3. 1 \in Int /\ k \in Int
    BY <1>4
  <2> QED BY <2>2, <2>3, SubSeqProperties
<1>7. ASSUME Unbroken(value) PROVE SubSeq(value, 1, k) = value
  <2>1. \A n \in 1..N : \A i \in 1..n : i \in DOMAIN value
    BY <1>1
  <2>2. clear = 1..N
    BY <1>1, <1>7, <2>1 DEF clear, Unbroken
  <2>3. k = Len(value)
    BY <1>2, <2>2 DEF k, N
  <2> QED BY <2>3, SubSeqFull
<1> QED BY <1>5, <1>6, <1>7

LEMMA DataTaken ==
  ASSUME NEW id, NEW name, NEW data, NEW value
  PROVE  Taken([id |-> id, name |-> name, data |-> data], [field |-> "data", value |-> value]) =
           [id |-> id, name |-> name, data |-> Append(data, UpToReturn(value))]
<1> DEFINE event == [id |-> id, name |-> name, data |-> data]
           more == Append(data, UpToReturn(value))
<1>1. Taken(event, [field |-> "data", value |-> value]) = [event EXCEPT !.data = more]
  BY DEF Taken
<1> HIDE DEF more
<1>2. [event EXCEPT !.data = more] = [id |-> id, name |-> name, data |-> more]
  OBVIOUS
<1> QED BY <1>1, <1>2 DEF more

(* What a reader makes of a frame is the event it was written from, with   *)
(* its own last id if the event has none, and the payload as its lines,    *)
(* each cut at a carriage return if it has one (stream.go:63-94).          *)
THEOREM FramesAreWhole ==
  ASSUME NEW T, Newline \in T, NEW lastId \in Nat,
         NEW event, event.id \in Nat, event.data \in Seq(T)
  PROVE  LET lines == SplitDataLines(event.data)
             read == EventOf(lastId, WriteEvent(event))
         IN  /\ read = [id |-> IF event.id > 0 THEN event.id ELSE lastId, name |-> event.name,
                        data |-> [i \in DOMAIN lines |-> UpToReturn(lines[i])]]
             /\ Unbroken(event.data) => read.data = lines
<1> DEFINE lines == SplitDataLines(event.data)
           kept == [i \in DOMAIN lines |-> UpToReturn(lines[i])]
           L == Len(lines)
           frame == WriteEvent(event)
           o == IdLines(event)
           id == IF event.id > 0 THEN event.id ELSE lastId
           name == event.name
           S == Line(T, name)
           E == [id : Nat, name : {name, "message"}, data : Seq(Seq(T))]
<1>1. /\ frame \in Seq(S) /\ Len(frame) = o + L + 2
      /\ o = 1 => frame[1] = [field |-> "id", value |-> event.id]
      /\ frame[o + 1] = [field |-> "event", value |-> name]
      /\ \A i \in 1..L : frame[o + 1 + i] = [field |-> "data", value |-> lines[i]]
      /\ frame[o + L + 2] = Blank
  BY FrameLines
<1>2. lines \in Seq(Seq(T)) /\ L \in Nat /\ DOMAIN lines = 1..L
  <2>1. lines \in Seq(Seq(T))
    BY SplitJoins
  <2> HIDE DEF lines
  <2> QED BY <2>1, LenProperties
<1>3. o \in {0, 1} /\ o \in Nat /\ (o = 1 <=> event.id > 0)
  BY DEF IdLines
<1>12. ASSUME Unbroken(event.data) PROVE \A i \in DOMAIN lines : UpToReturn(lines[i]) = lines[i]
  <2> DEFINE U == T \ {Return}
  <2>1. Newline \in U /\ event.data \in Seq(U)
    <3>1. \A i \in 1..Len(event.data) : event.data[i] \in U
      BY <1>12, ElementOfSeq, LenProperties DEF Unbroken
    <3>2. Newline \in U
      BY FramesAssumption
    <3> HIDE DEF U
    <3>3. event.data \in [1..Len(event.data) -> U] /\ Len(event.data) \in Nat
      BY <3>1, LenProperties
    <3> QED BY <3>2, <3>3, SeqDef
  <2>2. lines \in Seq(Seq(U))
    <3> HIDE DEF U
    <3> QED BY <2>1, SplitJoins
  <2> HIDE DEF lines
  <2>3. ASSUME NEW i \in DOMAIN lines PROVE UpToReturn(lines[i]) = lines[i]
    <3>1. lines[i] \in Seq(U)
      <4> HIDE DEF U
      <4> QED BY <2>2, ElementOfSeq, LenProperties
    <3>2. Unbroken(lines[i])
      BY <3>1, ElementOfSeq, LenProperties DEF Unbroken
    <3> QED BY <3>1, <3>2, UpToReturnIs
  <2> QED BY <2>3
<1> HIDE DEF lines, L, frame, o
<1>13. /\ kept \in Seq(Seq(T)) /\ Len(kept) = L
       /\ \A i \in 1..L : kept[i] = UpToReturn(lines[i]) /\ kept[i] \in Seq(T)
  <2>1. \A i \in 1..L : UpToReturn(lines[i]) \in Seq(T)
    <3> SUFFICES ASSUME NEW i \in 1..L PROVE UpToReturn(lines[i]) \in Seq(T)
      OBVIOUS
    <3>1. lines[i] \in Seq(T)
      BY <1>2, ElementOfSeq DEF L
    <3> QED BY <3>1, UpToReturnIs
  <2>2. kept = [i \in 1..L |-> kept[i]] /\ \A i \in 1..L : kept[i] = UpToReturn(lines[i])
    BY <1>2
  <2> HIDE DEF kept
  <2>3. kept \in [1..L -> Seq(T)]
    BY <2>1, <2>2
  <2> QED BY <1>2, <2>2, <2>3
<1> HIDE DEF kept
<1>4. \A e \in E, line \in S : Taken(e, line) \in E
  <2> SUFFICES ASSUME NEW e \in E, NEW line \in S PROVE Taken(e, line) \in E
    OBVIOUS
  <2>1. CASE line \in [field : {"id"}, value : Nat]
    BY <2>1 DEF Taken
  <2>2. CASE line \in [field : {"event"}, value : {name}]
    BY <2>2 DEF Taken
  <2>3. CASE line \in [field : {"data"}, value : Seq(T)]
    <3> DEFINE value == UpToReturn(line.value)
               more == Append(e.data, value)
    <3>1. Taken(e, line) = [e EXCEPT !.data = more]
      BY <2>3 DEF Taken
    <3>2. e.data \in Seq(Seq(T)) /\ value \in Seq(T)
      BY <2>3, UpToReturnIs
    <3> HIDE DEF value
    <3>3. more \in Seq(Seq(T))
      BY <3>2, AppendProperties
    <3> HIDE DEF more
    <3>4. [e EXCEPT !.data = more] \in E
      BY <3>3 DEF more
    <3> QED BY <3>1, <3>4
  <2>4. CASE line = Blank
    BY <2>4 DEF Taken, Blank
  <2> QED BY <2>1, <2>2, <2>3, <2>4 DEF Line
<1>5. NoEvent(lastId) \in E
  BY EmptySeq DEF NoEvent
<1>6. PICK after : AfterLines(lastId, frame, after) /\ EventOf(lastId, frame) = after[Len(frame)]
  <2> HIDE DEF S, E
  <2> QED BY <1>1, <1>4, <1>5, EventOfIs
<1> HIDE DEF S, E
<1>7. /\ after[0] = NoEvent(lastId)
      /\ \A n \in 1..(o + L + 2) : after[n] = Taken(after[n - 1], frame[n])
  BY <1>1, <1>6 DEF AfterLines
<1>8. after[o] = [id |-> id, name |-> "message", data |-> <<>>]
  <2>1. CASE o = 0
    BY <1>3, <1>7, <2>1 DEF NoEvent
  <2>2. CASE o = 1
    <3>1. 1 \in 1..(o + L + 2) /\ 1 - 1 = 0
      BY <1>2, <2>2
    <3>2. after[1] = Taken(after[0], frame[1])
      BY <1>7, <3>1
    <3>3. frame[1] = [field |-> "id", value |-> event.id] /\ id = event.id
      BY <1>1, <1>3, <2>2
    <3> QED BY <1>7, <2>2, <3>2, <3>3 DEF Taken, NoEvent
  <2> QED BY <1>3, <2>1, <2>2
<1>9. after[o + 1] = [id |-> id, name |-> name, data |-> <<>>]
  <2>1. o + 1 \in 1..(o + L + 2) /\ (o + 1) - 1 = o
    BY <1>2, <1>3
  <2>2. after[o + 1] = Taken(after[o], frame[o + 1])
    BY <1>7, <2>1
  <2> HIDE DEF id, name
  <2> QED BY <1>1, <1>8, <2>2 DEF Taken
<1> HIDE DEF id, name
<1>10. \A i \in 0..L : after[o + 1 + i] = [id |-> id, name |-> name, data |-> SubSeq(kept, 1, i)]
  <2> DEFINE P == {i \in 0..L : after[o + 1 + i] = [id |-> id, name |-> name, data |-> SubSeq(kept, 1, i)]}
  <2>1. 0 \in P
    <3>1. o + 1 + 0 = o + 1 /\ SubSeq(kept, 1, 0) = <<>> /\ 0 \in 0..L
      BY <1>2, <1>3, SubSeqEmpty
    <3> QED BY <1>9, <3>1
  <2>2. ASSUME NEW i \in 0..(L - 1), i \in P PROVE i + 1 \in P
    <3> DEFINE k == i + 1
    <3>1. /\ k \in 1..L /\ k \in 0..L /\ i \in 0..L /\ k - 1 = i /\ 1 \in 1..L
          /\ o + 1 + k \in 1..(o + L + 2) /\ (o + 1 + k) - 1 = o + 1 + i
      BY <1>2, <1>3
    <3>2. after[o + 1 + k] = Taken(after[o + 1 + i], frame[o + 1 + k])
      BY <1>7, <3>1
    <3>3. frame[o + 1 + k] = [field |-> "data", value |-> lines[k]]
      BY <1>1, <3>1
    <3>4. after[o + 1 + i] = [id |-> id, name |-> name, data |-> SubSeq(kept, 1, i)]
      BY <2>2
    <3> HIDE DEF k
    <3>5. after[o + 1 + k] = [id |-> id, name |-> name, data |-> Append(SubSeq(kept, 1, i), kept[k])]
      <4>1. kept[k] = UpToReturn(lines[k])
        BY <1>13, <3>1
      <4>2. after[o + 1 + k] =
              [id |-> id, name |-> name, data |-> Append(SubSeq(kept, 1, i), UpToReturn(lines[k]))]
        <5> DEFINE value == lines[k]
                   data == SubSeq(kept, 1, i)
        <5>1. Taken([id |-> id, name |-> name, data |-> data], [field |-> "data", value |-> value]) =
                [id |-> id, name |-> name, data |-> Append(data, UpToReturn(value))]
          <6> HIDE DEF value, data
          <6> QED BY DataTaken
        <5> QED BY <3>2, <3>3, <3>4, <5>1
      <4> QED BY <4>1, <4>2
    <3>6. Append(SubSeq(kept, 1, i), kept[k]) = SubSeq(kept, 1, k)
      <4>1. SubSeq(kept, 1, k) = SubSeq(kept, 1, k - 1) \o <<kept[k]>>
        <5>1. 1 \in 1..Len(kept) /\ k \in 1..Len(kept)
          BY <1>13, <3>1
        <5> QED BY <1>13, <5>1, SubSeqRecursiveSecond
      <4>2. SubSeq(kept, 1, i) \in Seq(Seq(T)) /\ kept[k] \in Seq(T)
        <5>1. \A j \in 1..i : kept[j] \in Seq(T)
          <6>1. \A j \in 1..i : j \in 1..Len(kept)
            BY <1>2, <1>13, <3>1
          <6> QED BY <1>13, <6>1
        <5>2. i \in Int /\ 1 \in Int
          BY <3>1
        <5>3. SubSeq(kept, 1, i) \in Seq(Seq(T))
          BY <5>1, <5>2, SubSeqProperties
        <5> QED BY <1>13, <3>1, <5>3
      <4>3. Append(SubSeq(kept, 1, i), kept[k]) = SubSeq(kept, 1, i) \o <<kept[k]>>
        BY <4>2, AppendIsConcat
      <4> QED BY <3>1, <4>1, <4>3
    <3>7. after[o + 1 + k] = [id |-> id, name |-> name, data |-> SubSeq(kept, 1, k)]
      BY <3>5, <3>6
    <3>8. k \in P
      BY <3>1, <3>7
    <3> QED BY <3>8 DEF k
  <2> HIDE DEF P
  <2>3. \A i \in 0..L : i \in P
    BY <1>2, <2>1, <2>2, UpTo
  <2> QED BY <2>3 DEF P
<1>11. after[o + L + 2] = [id |-> id, name |-> name, data |-> kept]
  <2>1. o + L + 2 \in 1..(o + L + 2) /\ (o + L + 2) - 1 = o + 1 + L /\ L \in 0..L
    BY <1>2, <1>3
  <2>2. after[o + L + 2] = Taken(after[o + 1 + L], Blank)
    BY <1>1, <1>7, <2>1
  <2>3. SubSeq(kept, 1, L) = kept
    BY <1>13, SubSeqFull
  <2>4. \A e : Taken(e, Blank) = e
    BY DEF Taken, Blank
  <2>5. after[o + 1 + L] = [id |-> id, name |-> name, data |-> SubSeq(kept, 1, L)]
    BY <1>10, <2>1
  <2> QED BY <2>2, <2>3, <2>4, <2>5
<1>14. EventOf(lastId, frame) = [id |-> id, name |-> name, data |-> kept]
  BY <1>1, <1>6, <1>11
<1>15. Unbroken(event.data) => kept = lines
  <2>1. ASSUME Unbroken(event.data) PROVE \A i \in 1..L : kept[i] = lines[i]
    BY <1>2, <1>12, <1>13, <2>1
  <2> QED BY <1>2, <1>13, <2>1, SeqEqual DEF L
<1> QED BY <1>14, <1>15 DEF frame, id, name, lines, kept
=============================================================================
