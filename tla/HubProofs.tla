----------------------------- MODULE HubProofs -----------------------------
(***************************************************************************)
(* Theorems about Hub, for any readers, payloads, caps and bounds: types,  *)
(* the journal as the newest stretch of what was published, streams        *)
(* without gaps, resets only for what is lost, and the feed's promise step *)
(* by step.                                                                *)
(***************************************************************************)
EXTENDS Hub, FiniteSetTheorems, SequenceTheorems, WellFoundedInduction, TLAPS

(* Numbers. *)

LEMMA LeastIsLeast ==
  ASSUME NEW S \in SUBSET Nat, S # {}
  PROVE  Least(S) \in S /\ \A m \in S : Least(S) <= m
<1>1. PICK n \in S : \A m \in S : <<m, n>> \notin OpToRel(<, Nat)
  BY WFMin, NatLessThanWellFounded, Zenon
<1>2. ASSUME NEW m \in S PROVE n <= m
  <2>1. ~(m < n)
    BY <1>1, Zenon DEF OpToRel
  <2> QED BY <2>1
<1> QED BY <1>2 DEF Least

-----------------------------------------------------------------------------
(* Payloads. *)

Bytes(r) == UNION {{i} \X (1..r[i].size) : i \in DOMAIN r}

LEMMA EventTypes ==
  ASSUME NEW e \in Event
  PROVE  e.id \in Nat /\ e.size \in Nat
<1>1. e.id \in Nat /\ e.size \in Size \cup {0}
  BY DEF Event
<1>2. \A n \in Size : n \in Nat
  BY SizeAssumption
<1>3. e.size \in Nat
  BY <1>1, <1>2
<1> QED BY <1>1, <1>3

LEMMA BytesMember ==
  ASSUME NEW r, NEW x
  PROVE  x \in Bytes(r) <=> \E i \in DOMAIN r, k \in Nat : k \in 1..r[i].size /\ x = <<i, k>>
BY DEF Bytes

LEMMA BytesFinite ==
  ASSUME NEW r \in Seq(Event)
  PROVE  IsFiniteSet(Bytes(r)) /\ Payload(r) \in Nat /\ Payload(r) = Cardinality(Bytes(r))
<1> DEFINE f == [i \in 1..Len(r) |-> {i} \X (1..r[i].size)]
           T == {{i} \X (1..r[i].size) : i \in DOMAIN r}
<1>1. DOMAIN r = 1..Len(r) /\ Len(r) \in Nat
  BY LenProperties
<1>2. f \in Surjection(1..Len(r), T)
  BY <1>1 DEF Surjection
<1>3. IsFiniteSet(1..Len(r))
  BY <1>1, FS_Interval
<1>4. IsFiniteSet(T)
  BY <1>2, <1>3, FS_Surjection
<1>5. ASSUME NEW i \in DOMAIN r PROVE IsFiniteSet({i} \X (1..r[i].size))
  <2>1. r[i].size \in Nat
    <3>1. r[i] \in Event
      BY <1>1, ElementOfSeq
    <3> QED BY <3>1, EventTypes
  <2>2. IsFiniteSet({i}) /\ IsFiniteSet(1..r[i].size)
    <3>1. r[i].size \in Int /\ 1 \in Int
      BY <2>1
    <3> QED BY <3>1, FS_Singleton, FS_Interval
  <2> QED BY <2>2, FS_Product
<1>6. \A s \in T : IsFiniteSet(s)
  BY <1>5
<1>7. IsFiniteSet(UNION T)
  BY <1>4, <1>6, FS_UNION
<1>8. IsFiniteSet(Bytes(r))
  BY <1>7 DEF Bytes
<1> QED BY <1>8, FS_CardinalityType DEF Payload, Bytes

(* What is left of a sequence without its first events. *)
LEMMA SuffixIs ==
  ASSUME NEW q \in Seq(Event), NEW n \in Nat, n <= Len(q)
  PROVE  /\ SubSeq(q, n + 1, Len(q)) \in Seq(Event)
         /\ Len(SubSeq(q, n + 1, Len(q))) = Len(q) - n
         /\ \A i \in 1..(Len(q) - n) : SubSeq(q, n + 1, Len(q))[i] = q[n + i]
<1>1. Len(q) \in Nat /\ \A i \in 1..Len(q) : q[i] \in Event
  BY LenProperties, ElementOfSeq
<1> QED BY <1>1, SubSeqProperties

(* A journal cut in two. *)
LEMMA PayloadOfParts ==
  ASSUME NEW r \in Seq(Event), NEW front \in Seq(Event), NEW back \in Seq(Event),
         Len(r) = Len(front) + Len(back),
         \A i \in 1..Len(front) : front[i] = r[i],
         \A i \in 1..Len(back) : back[i] = r[Len(front) + i]
  PROVE  Payload(r) = Payload(front) + Payload(back)
<1> DEFINE n == Len(front)
           rest == Bytes(r) \ Bytes(front)
           f == [x \in Bytes(back) |-> <<x[1] + n, x[2]>>]
<1>1. /\ DOMAIN r = 1..Len(r) /\ Len(r) \in Nat /\ n \in Nat /\ Len(back) = Len(r) - n
      /\ Len(back) \in Nat
  BY LenProperties
<1>2. DOMAIN front = 1..n /\ \A i \in 1..n : front[i] = r[i]
  BY LenProperties
<1>3. DOMAIN back = 1..(Len(r) - n) /\ \A i \in 1..(Len(r) - n) : back[i] = r[n + i]
  BY <1>1, LenProperties
<1> HIDE DEF n
<1>4. Bytes(front) \subseteq Bytes(r)
  <2> SUFFICES ASSUME NEW x \in Bytes(front) PROVE x \in Bytes(r)
    OBVIOUS
  <2>1. PICK i \in DOMAIN front, k \in Nat : k \in 1..front[i].size /\ x = <<i, k>>
    BY BytesMember
  <2>2. i \in DOMAIN r /\ k \in 1..r[i].size
    BY <1>1, <1>2, <2>1
  <2> QED BY <2>1, <2>2, BytesMember
<1>5. ASSUME NEW x \in rest PROVE \E i \in (n + 1)..Len(r), k \in Nat : k \in 1..r[i].size /\ x = <<i, k>>
  <2>0. PICK i \in DOMAIN r, k \in Nat : k \in 1..r[i].size /\ x = <<i, k>>
    BY BytesMember
  <2>1. i \in 1..Len(r) /\ k \in 1..r[i].size /\ x = <<i, k>>
    BY <1>1, <2>0
  <2>2. i \notin 1..n
    BY <1>2, <2>1, BytesMember
  <2>3. i \in (n + 1)..Len(r)
    BY <1>1, <2>2
  <2> QED BY <2>1, <2>3
<1>6. ASSUME NEW i \in (n + 1)..Len(r), NEW k \in 1..r[i].size PROVE <<i, k>> \in rest
  <2>0. i \in DOMAIN r /\ k \in Nat
    BY <1>1
  <2>1. <<i, k>> \in Bytes(r)
    BY <2>0, BytesMember
  <2>2. ~ \E j \in 1..n, l \in Nat : l \in 1..front[j].size /\ <<i, k>> = <<j, l>>
    BY <1>1
  <2> QED BY <1>2, <2>1, <2>2, BytesMember
<1>7. ASSUME NEW x \in Bytes(back)
      PROVE \E j \in 1..(Len(r) - n), k \in Nat : k \in 1..r[n + j].size /\ x = <<j, k>> /\ f[x] = <<n + j, k>>
  <2>0. PICK j \in DOMAIN back, k \in Nat : k \in 1..back[j].size /\ x = <<j, k>>
    BY BytesMember
  <2>1. j \in 1..(Len(r) - n) /\ k \in 1..r[n + j].size /\ x = <<j, k>>
    BY <1>3, <2>0
  <2>2. x[1] = j /\ x[2] = k
    BY <2>1
  <2>3. f[x] = <<j + n, k>> /\ j + n = n + j
    BY <1>1, <2>2
  <2> QED BY <2>1, <2>3
<1>8. \A x \in Bytes(back) : f[x] \in rest
  BY <1>1, <1>6, <1>7
<1>9. \A x, y \in Bytes(back) : f[x] = f[y] => x = y
  <2> SUFFICES ASSUME NEW x \in Bytes(back), NEW y \in Bytes(back), f[x] = f[y] PROVE x = y
    OBVIOUS
  <2>1. PICK i \in 1..(Len(r) - n), k \in Nat : k \in 1..r[n + i].size /\ x = <<i, k>> /\ f[x] = <<n + i, k>>
    BY <1>7
  <2>2. PICK j \in 1..(Len(r) - n), l \in Nat : l \in 1..r[n + j].size /\ y = <<j, l>> /\ f[y] = <<n + j, l>>
    BY <1>7
  <2>3. n + i = n + j /\ k = l
    BY <2>1, <2>2
  <2> QED BY <1>1, <2>1, <2>2, <2>3
<1>10. \A z \in rest : \E x \in Bytes(back) : f[x] = z
  <2> SUFFICES ASSUME NEW z \in rest PROVE \E x \in Bytes(back) : f[x] = z
    OBVIOUS
  <2>1. PICK i \in (n + 1)..Len(r), k \in Nat : k \in 1..r[i].size /\ z = <<i, k>>
    BY <1>5
  <2>2. i - n \in 1..(Len(r) - n) /\ back[i - n] = r[i]
    BY <1>1, <1>3
  <2>3. <<i - n, k>> \in Bytes(back)
    BY <1>3, <2>1, <2>2, BytesMember
  <2>4. f[<<i - n, k>>] = z
    BY <1>1, <2>1, <2>3
  <2> QED BY <2>3, <2>4
<1>11. ExistsBijection(Bytes(back), rest)
  <2>1. f \in [Bytes(back) -> rest]
    BY <1>8
  <2>2. f \in Injection(Bytes(back), rest)
    BY <1>9, <2>1 DEF Injection, IsInjective
  <2>3. f \in Surjection(Bytes(back), rest)
    BY <1>10, <2>1 DEF Surjection
  <2> QED BY <2>2, <2>3 DEF ExistsBijection, Bijection
<1>12. Cardinality(rest) = Cardinality(Bytes(back))
  <2>1. IsFiniteSet(Bytes(back))
    BY BytesFinite
  <2> QED BY <1>11, <2>1, FS_Bijection
<1>13. Cardinality(rest) = Cardinality(Bytes(r)) - Cardinality(Bytes(front))
  <2>1. Bytes(r) \cap Bytes(front) = Bytes(front)
    BY <1>4
  <2>2. IsFiniteSet(Bytes(r))
    BY BytesFinite
  <2>3. Cardinality(rest) = Cardinality(Bytes(r)) - Cardinality(Bytes(r) \cap Bytes(front))
    BY <2>2, FS_Difference
  <2> QED BY <2>1, <2>3
<1>14. /\ Payload(r) \in Nat /\ Payload(r) = Cardinality(Bytes(r))
       /\ Payload(front) \in Nat /\ Payload(front) = Cardinality(Bytes(front))
       /\ Payload(back) \in Nat /\ Payload(back) = Cardinality(Bytes(back))
  BY BytesFinite
<1> QED BY <1>12, <1>13, <1>14

LEMMA PayloadSplits ==
  ASSUME NEW r \in Seq(Event), NEW n \in 0..Len(r)
  PROVE  Payload(r) = Payload(SubSeq(r, 1, n)) + Payload(SubSeq(r, n + 1, Len(r)))
<1> DEFINE front == SubSeq(r, 1, n)
           back == SubSeq(r, n + 1, Len(r))
<1>1. /\ Len(r) \in Nat /\ n \in Nat /\ n <= Len(r)
      /\ \A i \in 1..Len(r) : r[i] \in Event
  BY LenProperties, ElementOfSeq
<1>2. /\ front \in Seq(Event) /\ Len(front) = n
      /\ \A i \in 1..n : front[i] = r[i]
  BY <1>1, SubSeqProperties
<1>3. /\ back \in Seq(Event) /\ Len(back) = Len(r) - n
      /\ \A i \in 1..(Len(r) - n) : back[i] = r[n + i]
  BY <1>1, SuffixIs
<1> HIDE DEF front, back
<1>4. /\ Len(r) = Len(front) + Len(back)
      /\ \A i \in 1..Len(front) : front[i] = r[i]
      /\ \A i \in 1..Len(back) : back[i] = r[Len(front) + i]
  BY <1>1, <1>2, <1>3
<1>5. Payload(r) = Payload(front) + Payload(back)
  BY <1>2, <1>3, <1>4, PayloadOfParts
<1> QED BY <1>5 DEF front, back

LEMMA EmptyPayload == Payload(<<>>) = 0
<1>1. \A x : x \notin Bytes(<<>>)
  BY BytesMember
<1>2. Bytes(<<>>) = {}
  BY <1>1
<1> QED BY <1>2, FS_EmptySet DEF Payload, Bytes

LEMMA OnePayload ==
  ASSUME NEW e \in Event
  PROVE  Payload(<<e>>) = e.size
<1>1. e.size \in Nat
  BY EventTypes
<1>2. Bytes(<<e>>) = {1} \X (1..e.size)
  BY DEF Bytes
<1>3. IsFiniteSet({1}) /\ Cardinality({1}) = 1
  BY FS_Singleton
<1>4. IsFiniteSet(1..e.size) /\ Cardinality(1..e.size) = IF 1 > e.size THEN 0 ELSE e.size - 1 + 1
  <2>1. 1 \in Int /\ e.size \in Int
    BY <1>1
  <2> QED BY <2>1, FS_Interval
<1>5. Cardinality(1..e.size) = e.size
  BY <1>1, <1>4
<1>6. Cardinality({1} \X (1..e.size)) = Cardinality({1}) * Cardinality(1..e.size)
  BY <1>3, <1>4, FS_Product
<1>7. Cardinality({1} \X (1..e.size)) = e.size
  <2>1. 1 * e.size = e.size
    BY <1>1
  <2> QED BY <1>3, <1>5, <1>6, <2>1
<1> QED BY <1>2, <1>7 DEF Payload, Bytes
-----------------------------------------------------------------------------
(* Runs of consecutive events. *)

LEMMA RunAppend ==
  ASSUME NEW q \in Seq(Event), NEW n \in Nat, EndsAt(q, n), NEW e \in Event, e.id = n + 1
  PROVE  EndsAt(Append(q, e), n + 1)
<1>1. /\ Append(q, e) \in Seq(Event) /\ Len(Append(q, e)) = Len(q) + 1
      /\ Len(q) \in Nat /\ DOMAIN q = 1..Len(q)
      /\ DOMAIN Append(q, e) = 1..(Len(q) + 1)
      /\ Append(q, e)[Len(q) + 1] = e
      /\ \A i \in 1..Len(q) : Append(q, e)[i] = q[i]
  BY AppendProperties, LenProperties
<1> QED BY <1>1 DEF EndsAt

LEMMA RunSuffix ==
  ASSUME NEW q \in Seq(Event), NEW n \in Nat, EndsAt(q, n), NEW cut \in 0..Len(q)
  PROVE  /\ SubSeq(q, cut + 1, Len(q)) \in Seq(Event)
         /\ Len(SubSeq(q, cut + 1, Len(q))) = Len(q) - cut
         /\ EndsAt(SubSeq(q, cut + 1, Len(q)), n)
<1> DEFINE s == SubSeq(q, cut + 1, Len(q))
<1>1. /\ Len(q) \in Nat /\ cut \in Nat /\ cut <= Len(q)
      /\ DOMAIN q = 1..Len(q) /\ \A i \in 1..Len(q) : q[i] \in Event
  BY LenProperties, ElementOfSeq
<1>2. /\ s \in Seq(Event) /\ Len(s) = Len(q) - cut
      /\ \A i \in 1..(Len(q) - cut) : s[i] = q[cut + i]
  BY <1>1, SuffixIs
<1>3. DOMAIN s = 1..(Len(q) - cut)
  BY <1>2, LenProperties
<1> HIDE DEF s
<1>4. \A i \in 1..(Len(q) - cut) : q[cut + i].id = n - Len(q) + (cut + i)
  BY <1>1 DEF EndsAt
<1>5. \A i \in 1..(Len(q) - cut) : s[i].id = n - Len(s) + i
  BY <1>1, <1>2, <1>4
<1>6. EndsAt(s, n)
  BY <1>3, <1>5 DEF EndsAt
<1> QED BY <1>2, <1>6 DEF s

LEMMA RunHead ==
  ASSUME NEW q \in Seq(Event), q # <<>>, NEW n \in Nat, EndsAt(q, n)
  PROVE  Head(q).id = n - Len(q) + 1
<1>1. 1 \in DOMAIN q /\ Head(q) = q[1]
  BY LenProperties, EmptySeq
<1> QED BY <1>1 DEF EndsAt

LEMMA RunTail ==
  ASSUME NEW q \in Seq(Event), q # <<>>, NEW n \in Nat, EndsAt(q, n)
  PROVE  /\ Tail(q) \in Seq(Event) /\ Len(Tail(q)) = Len(q) - 1
         /\ EndsAt(Tail(q), n)
<1>1. Tail(q) = SubSeq(q, 1 + 1, Len(q)) /\ 1 \in 0..Len(q)
  BY TailIsSubSeq, EmptySeq
<1> QED BY <1>1, RunSuffix
-----------------------------------------------------------------------------
(* The journal. *)

Longer(size, last) == Append(ring, [id |-> seq + 1, size |-> size, last |-> last])

(* What trimming leaves: never nothing, and too much only when it is the   *)
(* one event that is too much by itself.                                   *)
LEMMA TrimmedLeaves ==
  ASSUME NEW r, NEW b, Len(r) \in Nat \ {0}
  PROVE  /\ Trimmed(r, b) \in 0..(Len(r) - 1)
         /\ \/ Trimmed(r, b) = Len(r) - 1
            \/ /\ Len(r) - Trimmed(r, b) <= RingCap
               /\ b - Payload(SubSeq(r, 1, Trimmed(r, b))) <= RingBytes
<1> DEFINE S == {n \in 0..(Len(r) - 1) :
                   \/ n = Len(r) - 1
                   \/ Len(r) - n <= RingCap /\ b - Payload(SubSeq(r, 1, n)) <= RingBytes}
<1>1. S \in SUBSET Nat
  OBVIOUS
<1>2. Len(r) - 1 \in S
  OBVIOUS
<1>3. Least(S) \in S
  BY <1>1, <1>2, LeastIsLeast
<1>4. Trimmed(r, b) \in S
  BY <1>3 DEF Trimmed
<1> QED BY <1>4

LEMMA JournalStep ==
  ASSUME TypeOK, RingIsTail, NEW size \in Size \cup {0}, NEW last \in BOOLEAN,
         Broadcast(size, last)
  PROVE  /\ seq' = seq + 1 /\ ring' \in Seq(Event) /\ bytes' \in Nat
         /\ RingIsTail'
<1> DEFINE e == [id |-> seq + 1, size |-> size, last |-> last]
           r == Append(ring, e)
           b == bytes + size
           cut == Trimmed(r, bytes + size)
<1>1. seq \in Nat /\ bytes \in Nat /\ ring \in Seq(Event) /\ Len(ring) \in Nat
  BY LenProperties DEF TypeOK
<1>2. e \in Event /\ e.id = seq + 1 /\ e.size = size
  BY <1>1 DEF Event
<1>3. /\ seq' = seq + 1
      /\ ring' = SubSeq(r, cut + 1, Len(r))
      /\ bytes' = bytes + size - Payload(SubSeq(r, 1, cut))
  BY DEF Broadcast
<1> HIDE DEF e
<1>4. /\ r \in Seq(Event) /\ Len(r) = Len(ring) + 1
      /\ EndsAt(r, seq + 1)
  BY <1>1, <1>2, AppendProperties, RunAppend DEF RingIsTail
<1>5. Payload(r) = b
  <2>1. <<e>> \in Seq(Event) /\ Len(<<e>>) = 1 /\ <<e>>[1] = e
    BY <1>2
  <2>2. /\ \A i \in 1..Len(ring) : ring[i] = r[i]
        /\ \A i \in 1..1 : <<e>>[i] = r[Len(ring) + i]
    BY <1>1, <1>2, <2>1, AppendProperties
  <2>3. Payload(r) = Payload(ring) + Payload(<<e>>)
    BY <1>1, <1>4, <2>1, <2>2, PayloadOfParts
  <2> QED BY <1>2, <2>3, OnePayload DEF RingIsTail
<1>6. /\ cut \in 0..(Len(r) - 1)
      /\ \/ cut = Len(r) - 1
         \/ Len(r) - cut <= RingCap /\ b - Payload(SubSeq(r, 1, cut)) <= RingBytes
  <2> HIDE DEF r
  <2>1. Len(r) \in Nat \ {0}
    BY <1>1, <1>4
  <2>2. cut = Trimmed(r, b)
    OBVIOUS
  <2> HIDE DEF cut, b
  <2> QED BY <2>1, <2>2, TrimmedLeaves
<1> HIDE DEF cut, r
<1>7. cut \in 0..Len(r) /\ cut \in Nat /\ cut < Len(r)
  BY <1>1, <1>4, <1>6
<1>12. Payload(SubSeq(r, 1, cut)) \in Nat
  <2>1. SubSeq(r, 1, cut) \in Seq(Event)
    BY <1>4, <1>7, SubSeqProperties, ElementOfSeq, LenProperties
  <2> QED BY <2>1, BytesFinite
<1>13. bytes' = b - Payload(SubSeq(r, 1, cut)) /\ b \in Nat
  BY <1>1, <1>2, <1>3, <1>12, EventTypes
<1> HIDE DEF b
<1>8. /\ ring' \in Seq(Event) /\ Len(ring') = Len(r) - cut
      /\ EndsAt(ring', seq')
  BY <1>1, <1>3, <1>4, <1>7, RunSuffix
<1>9. bytes' = Payload(ring') /\ bytes' \in Nat
  <2>1. Payload(r) = Payload(SubSeq(r, 1, cut)) + Payload(ring')
    BY <1>3, <1>4, <1>7, PayloadSplits
  <2>2. Payload(ring') \in Nat
    BY <1>8, BytesFinite
  <2> QED BY <1>5, <1>12, <1>13, <2>1, <2>2
<1>10. ring' # <<>> /\ Len(ring') <= seq' /\ Len(ring') <= RingCap
  <2>1. Len(ring') \in Nat /\ Len(ring') >= 1
    BY <1>1, <1>4, <1>7, <1>8
  <2>2. Len(ring) <= seq
    BY DEF RingIsTail
  <2>3. Len(ring') <= RingCap
    BY <1>1, <1>4, <1>6, <1>8, CapAssumption
  <2>4. Len(ring') <= seq'
    BY <1>1, <1>3, <1>4, <1>7, <1>8, <2>2
  <2> QED BY <2>1, <2>3, <2>4
<1>11. bytes' <= RingBytes \/ Len(ring') = 1
  BY <1>1, <1>4, <1>6, <1>8, <1>13
<1> QED BY <1>3, <1>8, <1>9, <1>10, <1>11 DEF RingIsTail

(* What a resumed stream is owed: all after its resume point. *)
LEMMA AfterIs ==
  ASSUME TypeOK, RingIsTail, NEW id \in Nat, ~OutOfWindow(id)
  PROVE  /\ After(id) \in Seq(Event) /\ EndsAt(After(id), seq)
         /\ After(id) = <<>> => id = seq
         /\ After(id) # <<>> => Head(After(id)).id = id + 1
<1> DEFINE newer == {i \in DOMAIN ring : ring[i].id > id}
<1>1. /\ seq \in Nat /\ ring \in Seq(Event) /\ Len(ring) \in Nat
      /\ DOMAIN ring = 1..Len(ring)
      /\ \A i \in 1..Len(ring) : ring[i].id = seq - Len(ring) + i
  BY LenProperties DEF TypeOK, RingIsTail, EndsAt
<1>2. seq - Len(ring) <= id /\ id <= seq /\ (seq > 0 => Len(ring) # 0)
  BY <1>1, EmptySeq DEF OutOfWindow, RingIsTail
<1>3. CASE newer = {}
  <2>1. After(id) = <<>>
    BY <1>3 DEF After
  <2>2. id = seq
    <3>1. CASE Len(ring) = 0
      BY <1>1, <1>2, <3>1
    <3>2. CASE Len(ring) # 0
      <4>1. Len(ring) \in DOMAIN ring /\ Len(ring) \notin newer
        BY <1>1, <1>3, <3>2
      <4> QED BY <1>1, <1>2, <4>1
    <3> QED BY <3>1, <3>2
  <2> QED BY <1>1, <2>1, <2>2, EmptySeq DEF EndsAt
<1>4. CASE newer # {}
  <2> DEFINE k == Least(newer)
             j == id - seq + Len(ring) + 1
  <2>1. k \in newer /\ \A i \in newer : k <= i
    <3>1. newer \in SUBSET Nat
      BY <1>1
    <3> HIDE DEF newer
    <3> QED BY <1>4, <3>1, LeastIsLeast
  <2>2. k \in 1..Len(ring) /\ seq - Len(ring) + k > id
    BY <1>1, <2>1
  <2>3. j \in newer
    <3>1. j \in 1..Len(ring)
      BY <1>1, <1>2, <2>2
    <3> QED BY <1>1, <3>1
  <2>4. k = j
    <3> HIDE DEF k, newer
    <3>1. k <= j
      BY <2>1, <2>3
    <3> QED BY <1>1, <2>2, <3>1
  <2>5. After(id) = SubSeq(ring, (k - 1) + 1, Len(ring))
    <3>1. After(id) = SubSeq(ring, k, Len(ring))
      BY <1>4 DEF After
    <3>2. k = (k - 1) + 1
      BY <2>2
    <3> QED BY <3>1, <3>2
  <2> HIDE DEF k
  <2>6. k - 1 \in 0..Len(ring)
    BY <1>1, <2>2
  <2>7. /\ After(id) \in Seq(Event) /\ Len(After(id)) = Len(ring) - (k - 1)
        /\ EndsAt(After(id), seq)
    BY <1>1, <2>5, <2>6, RunSuffix DEF RingIsTail
  <2>8. After(id) # <<>> /\ Len(After(id)) = seq - id
    BY <1>1, <1>2, <2>2, <2>4, <2>7
  <2>9. Head(After(id)).id = id + 1
    BY <1>1, <2>7, <2>8, RunHead
  <2> QED BY <2>7, <2>8, <2>9
<1> QED BY <1>3, <1>4
-----------------------------------------------------------------------------
(* The streams and their readers. *)

Idle(s) == phase[s] \notin {"reset", "open"} => s \notin subs /\ replay[s] = <<>> /\ live[s] = <<>>

(* What is still to be sent is a run of events that were published, up to  *)
(* the newest while the hub knows the stream.                              *)
Runs(s) ==
  /\ Owed(s) # <<>> =>
       /\ Head(Owed(s)).id >= 1
       /\ EndsAt(Owed(s), Head(Owed(s)).id + (Len(Owed(s)) - 1))
       /\ Head(Owed(s)).id + (Len(Owed(s)) - 1) <= seq
  /\ s \in subs => EndsAt(Owed(s), seq)

(* A reader's copy is of what was published, and holds what it received    *)
(* unless it is stale; its resume point is from this run of the server or  *)
(* dated.                                                                  *)
Knows(s) ==
  /\ era[s] <= past /\ pos[s] <= past + seq
  /\ lastId[s] # 0 /\ ~Dated(s) =>
       lastId[s] <= seq /\ (s \notin stale => past + lastId[s] <= pos[s])

(* What is still to be sent begins no later than the copy ends, unless the *)
(* copy was already old when its reader subscribed.                        *)
Joins(s) ==
  phase[s] = "open" /\ s \notin stale \cup late /\ ~Dated(s) =>
    IF Owed(s) = <<>> THEN s \in subs => pos[s] = past + seq
                      ELSE past + Head(Owed(s)).id <= pos[s] + 1

Served(s) == Idle(s) /\ Runs(s) /\ Knows(s) /\ Joins(s)

Inv == TypeOK /\ RingIsTail /\ \A s \in Reader : Served(s)

LEMMA OwedTypes ==
  ASSUME TypeOK, NEW s \in Reader
  PROVE  Owed(s) \in Seq(Event) /\ Len(Owed(s)) \in Nat
         /\ (Owed(s) = <<>> <=> replay[s] = <<>> /\ live[s] = <<>>)
<1>1. replay[s] \in Seq(Event) /\ live[s] \in Seq(Event)
  BY DEF TypeOK
<1>2. Owed(s) \in Seq(Event) /\ (Owed(s) = <<>> <=> replay[s] = <<>> /\ live[s] = <<>>)
  BY <1>1, ConcatProperties, ConcatEqualIffEmpty DEF Owed
<1> QED BY <1>2, LenProperties

LEMMA InitInv == Init => Inv
<1> SUFFICES ASSUME Init PROVE Inv
  OBVIOUS
<1>1. TypeOK
  BY EmptySeq, CapAssumption DEF Init, TypeOK
<1>2. RingIsTail
  BY EmptyPayload, CapAssumption DEF Init, RingIsTail, EndsAt
<1>3. ASSUME NEW s \in Reader PROVE Served(s)
  <2>1. Owed(s) = <<>>
    BY <1>1, OwedTypes DEF Init
  <2> QED BY <2>1 DEF Init, Served, Idle, Runs, Knows, Joins, Dated
<1> QED BY <1>1, <1>2, <1>3 DEF Inv

(* A reader whose entries do not move, while the journal does not. *)
LEMMA Bystander ==
  ASSUME NEW s \in Reader, Served(s), UNCHANGED <<seq, past>>,
         phase'[s] = phase[s], replay'[s] = replay[s], live'[s] = live[s],
         lastId'[s] = lastId[s], pos'[s] = pos[s], era'[s] = era[s],
         s \in subs' <=> s \in subs, s \in stale' <=> s \in stale,
         s \in late' <=> s \in late
  PROVE  Served(s)'
<1>1. Owed(s)' = Owed(s) /\ Dated(s)' = Dated(s)
  BY DEF Owed, Dated
<1>2. \A q, n : EndsAt(q, n)' = EndsAt(q, n)
  OBVIOUS
<1> QED BY <1>1 DEF Served, Idle, Runs, Knows, Joins, EndsAt
-----------------------------------------------------------------------------
(* Types. *)

LEMMA RegisterTypes ==
  ASSUME TypeOK, NEW s \in Reader, NEW next \in {"reset", "open"},
         NEW owed \in Seq(Event), Register(s, next, owed),
         stale' \subseteq Reader, late' \subseteq Reader
  PROVE  TypeOK'
BY EmptySeq, CapAssumption DEF TypeOK, Register, journal

LEMMA ReceiveTypes ==
  ASSUME TypeOK, NEW s \in Reader, NEW e \in Event, Receive(s, e)
  PROVE  /\ lastId' \in [Reader -> Nat] /\ pos' \in [Reader -> Nat] /\ era' \in [Reader -> Nat]
BY EventTypes DEF TypeOK, Receive

LEMMA CloseTypes ==
  ASSUME TypeOK, NEW s \in Reader, Close(s)
  PROVE  /\ phase' \in [Reader -> {"away", "found", "refused", "reset", "open"}]
         /\ subs' \subseteq Reader
         /\ replay' \in [Reader -> Seq(Event)] /\ live' \in [Reader -> Seq(Event)]
         /\ \A t \in Reader : Len(live'[t]) <= SubCap
BY EmptySeq, CapAssumption DEF TypeOK, Close

LEMMA BroadcastTypes ==
  ASSUME TypeOK, RingIsTail, NEW size \in Size \cup {0}, NEW last \in BOOLEAN,
         Broadcast(size, last)
  PROVE  TypeOK'
<1> DEFINE e == [id |-> seq + 1, size |-> size, last |-> last]
<1>1. e \in Event
  BY DEF Event, TypeOK
<1>2. seq' = seq + 1 /\ ring' \in Seq(Event) /\ bytes' \in Nat
  BY JournalStep
<1>3. /\ subs' \subseteq Reader
      /\ UNCHANGED <<present, phase, replay, lastId, pos, stale, late, era, past, drops, restarts>>
      /\ \E room \in SUBSET Reader :
           /\ \A s \in room : Len(live[s]) < SubCap
           /\ live' = [s \in Reader |-> IF s \in room THEN Append(live[s], e) ELSE live[s]]
  BY DEF Broadcast, reader, TypeOK
<1> HIDE DEF e
<1>4. \A s \in Reader : /\ Append(live[s], e) \in Seq(Event) /\ live[s] \in Seq(Event)
                        /\ Len(Append(live[s], e)) = Len(live[s]) + 1
                        /\ Len(live[s]) \in Nat /\ Len(live[s]) <= SubCap
  BY <1>1, AppendProperties, LenProperties DEF TypeOK
<1>5. live' \in [Reader -> Seq(Event)] /\ \A s \in Reader : Len(live'[s]) <= SubCap
  BY <1>3, <1>4, CapAssumption
<1> QED BY <1>2, <1>3, <1>5 DEF TypeOK

LEMMA StepTypes == TypeOK /\ RingIsTail /\ [Next]_vars => TypeOK'
<1> SUFFICES ASSUME TypeOK, RingIsTail, [Next]_vars PROVE TypeOK'
  OBVIOUS
<1>1. ASSUME NEW size \in Size, Broadcast(size, FALSE) PROVE TypeOK'
  BY <1>1, BroadcastTypes
<1>2. CASE Broadcast(0, TRUE)
  BY <1>2, BroadcastTypes
<1>3. ASSUME NEW s \in Reader, Connect(s) PROVE TypeOK'
  <2>1. CASE SubscribeFresh(s)
    <3>1. stale' \subseteq Reader /\ late' \subseteq Reader
      BY <2>1 DEF SubscribeFresh, TypeOK
    <3> QED BY <2>1, <3>1, RegisterTypes, EmptySeq DEF SubscribeFresh
  <2>2. CASE SubscribeReset(s)
    <3>1. stale' \subseteq Reader /\ late' \subseteq Reader
      BY <2>2 DEF SubscribeReset, TypeOK
    <3> QED BY <2>2, <3>1, RegisterTypes, EmptySeq DEF SubscribeReset
  <2>3. CASE Resume(s)
    <3>1. stale' \subseteq Reader /\ late' \subseteq Reader /\ lastId[s] \in Nat
      BY <2>3 DEF Resume, TypeOK
    <3>2. After(lastId[s]) \in Seq(Event)
      BY <2>3, <3>1, AfterIs DEF Resume
    <3> QED BY <2>3, <3>1, <3>2, RegisterTypes DEF Resume
  <2> QED BY <1>3, <2>1, <2>2, <2>3 DEF Connect
<1>4. ASSUME NEW s \in Reader, Send(s) PROVE TypeOK'
  <2>1. CASE SendReset(s)
    BY <2>1 DEF SendReset, TypeOK, journal
  <2>2. CASE SendReplay(s)
    <3>1. Head(replay[s]) \in Event /\ Tail(replay[s]) \in Seq(Event)
      BY <2>2, HeadTailProperties DEF SendReplay, TypeOK
    <3>2. lastId' \in [Reader -> Nat] /\ pos' \in [Reader -> Nat] /\ era' \in [Reader -> Nat]
      BY <2>2, <3>1, ReceiveTypes DEF SendReplay
    <3> QED BY <2>2, <3>1, <3>2 DEF SendReplay, Receive, TypeOK, journal
  <2>3. CASE SendLive(s)
    <3>1. /\ Head(live[s]) \in Event /\ Tail(live[s]) \in Seq(Event)
          /\ Len(Tail(live[s])) = Len(live[s]) - 1 /\ Len(live[s]) \in Nat
          /\ Len(live[s]) <= SubCap
      BY <2>3, HeadTailProperties, LenProperties DEF SendLive, TypeOK
    <3>2. lastId' \in [Reader -> Nat] /\ pos' \in [Reader -> Nat] /\ era' \in [Reader -> Nat]
      BY <2>3, <3>1, ReceiveTypes DEF SendLive
    <3>3. UNCHANGED <<present, journal, stale, late, past, drops, restarts>>
      BY <2>3 DEF SendLive, Receive
    <3>4. CASE Close(s)
      BY <3>2, <3>3, <3>4, CloseTypes DEF TypeOK, journal
    <3>5. CASE live' = [live EXCEPT ![s] = Tail(@)] /\ UNCHANGED <<subs, phase, replay>>
      <4>1. \A t \in Reader : Len(live'[t]) <= SubCap
        BY <3>1, <3>5, CapAssumption DEF TypeOK
      <4>2. live' \in [Reader -> Seq(Event)]
        BY <3>1, <3>5 DEF TypeOK
      <4> QED BY <3>2, <3>3, <3>5, <4>1, <4>2 DEF TypeOK, journal
    <3> QED BY <2>3, <3>4, <3>5 DEF SendLive
  <2>4. CASE EndDropped(s)
    BY <2>4, CloseTypes DEF EndDropped, TypeOK, journal, reader
  <2> QED BY <1>4, <2>1, <2>2, <2>3, <2>4 DEF Send
<1>5. ASSUME NEW s \in Reader, Disconnect(s) PROVE TypeOK'
  <2>1. Close(s) /\ drops' = drops + 1 /\ UNCHANGED <<present, journal, reader, past, restarts>>
    BY <1>5 DEF Disconnect
  <2>2. drops' \in Nat
    BY <2>1 DEF TypeOK
  <2> QED BY <2>1, <2>2, CloseTypes DEF TypeOK, journal, reader
<1>6. ASSUME NEW s \in Reader, Fetch(s) PROVE TypeOK'
  BY <1>6 DEF Fetch, TypeOK, journal, stream
<1>7. CASE Restart
  BY <1>7, EmptySeq, CapAssumption DEF Restart, TypeOK, reader
<1>9. ASSUME NEW s \in Reader, FeedGet(s) PROVE TypeOK'
  BY <1>9 DEF FeedGet, TypeOK, journal, reader
<1>10. CASE Turn
  BY <1>10 DEF Turn, TypeOK, journal, stream, reader
<1>8. CASE UNCHANGED vars
  BY <1>8 DEF vars, journal, stream, reader, TypeOK
<1> QED BY <1>1, <1>2, <1>3, <1>4, <1>5, <1>6, <1>7, <1>8, <1>9, <1>10 DEF Next
-----------------------------------------------------------------------------
(* What each action does to the readers. *)

LEMMA InvParts ==
  ASSUME Inv, NEW s \in Reader
  PROVE  /\ TypeOK /\ RingIsTail /\ Served(s)
         /\ seq \in Nat /\ past \in Nat /\ pos[s] \in Nat /\ lastId[s] \in Nat /\ era[s] \in Nat
BY DEF Inv, TypeOK

LEMMA RunsTo ==
  ASSUME NEW q \in Seq(Event), q # <<>>, NEW n \in Nat, EndsAt(q, n)
  PROVE  /\ Head(q).id + (Len(q) - 1) = n
         /\ EndsAt(q, Head(q).id + (Len(q) - 1))
<1>1. Len(q) \in Nat /\ Head(q).id = n - Len(q) + 1
  BY LenProperties, RunHead
<1>2. Head(q).id + (Len(q) - 1) = n
  BY <1>1
<1> QED BY <1>2

LEMMA ConcatAppend ==
  ASSUME NEW S, NEW a \in Seq(S), NEW b \in Seq(S), NEW e \in S
  PROVE  a \o Append(b, e) = Append(a \o b, e)
<1>1. /\ <<e>> \in Seq(S) /\ a \o b \in Seq(S)
      /\ Append(b, e) = b \o <<e>> /\ Append(a \o b, e) = (a \o b) \o <<e>>
  BY ConcatProperties, AppendIsConcat
<1>2. a \o (b \o <<e>>) = (a \o b) \o <<e>>
  BY <1>1, ConcatAssociative
<1> QED BY <1>1, <1>2

LEMMA BroadcastServes ==
  ASSUME Inv, NEW size \in Size \cup {0}, NEW last \in BOOLEAN, Broadcast(size, last),
         NEW s \in Reader
  PROVE  Served(s)'
<1> DEFINE e == [id |-> seq + 1, size |-> size, last |-> last]
           q == Owed(s)
<1>1. /\ TypeOK /\ Served(s) /\ seq \in Nat /\ past \in Nat /\ pos[s] \in Nat
      /\ q \in Seq(Event) /\ Len(q) \in Nat
  BY InvParts, OwedTypes
<1>2. e \in Event /\ e.id = seq + 1
  BY <1>1 DEF Event
<1>3. /\ seq' = seq + 1 /\ past' = past /\ phase' = phase /\ replay' = replay
      /\ lastId' = lastId /\ pos' = pos /\ stale' = stale /\ late' = late /\ era' = era
  BY DEF Broadcast, reader
<1>4. \/ /\ s \in subs /\ s \in subs'
         /\ live'[s] = Append(live[s], e)
      \/ /\ s \notin subs'
         /\ live'[s] = live[s]
         /\ s \in subs => Len(live[s]) >= SubCap
  BY <1>1, CapAssumption, LenProperties DEF Broadcast, TypeOK
<1>5. Dated(s)' = Dated(s)
  BY <1>3 DEF Dated
<1> HIDE DEF e
<1>6. CASE s \in subs /\ s \in subs' /\ live'[s] = Append(live[s], e)
  <2>1. Owed(s)' = Append(q, e)
    <3>1. replay[s] \in Seq(Event) /\ live[s] \in Seq(Event)
      BY <1>1 DEF TypeOK
    <3>2. replay[s] \o Append(live[s], e) = Append(replay[s] \o live[s], e)
      <4> DEFINE a == replay[s]
                 b == live[s]
      <4>1. a \in Seq(Event) /\ b \in Seq(Event) /\ e \in Event
        BY <1>2, <3>1
      <4> HIDE DEF a, b
      <4>2. a \o Append(b, e) = Append(a \o b, e)
        BY <4>1, ConcatAppend
      <4> QED BY <4>2 DEF a, b
    <3> QED BY <1>3, <1>6, <3>2 DEF Owed
  <2>2. EndsAt(q, seq)
    BY <1>1, <1>6 DEF Served, Runs
  <2> HIDE DEF q
  <2>3. /\ Append(q, e) \in Seq(Event) /\ Append(q, e) # <<>>
        /\ Len(Append(q, e)) = Len(q) + 1
        /\ EndsAt(Append(q, e), seq + 1)
    BY <1>1, <1>2, <2>2, AppendProperties, RunAppend
  <2>4. Head(Append(q, e)) = IF q = <<>> THEN e ELSE Head(q)
    BY <1>1, HeadTailAppend
  <2>5. /\ Head(Append(q, e)).id + (Len(Append(q, e)) - 1) = seq + 1
        /\ EndsAt(Append(q, e), Head(Append(q, e)).id + (Len(Append(q, e)) - 1))
    <3>1. seq + 1 \in Nat
      BY <1>1
    <3> QED BY <2>3, <3>1, RunsTo
  <2>6. Head(Append(q, e)).id >= 1
    BY <1>1, <1>2, <2>4 DEF Served, Runs, q
  <2>7. Runs(s)'
    <3> DEFINE longer == Append(q, e)
    <3>1. /\ Owed(s)' = longer /\ EndsAt(longer, seq') /\ Head(longer).id >= 1
          /\ EndsAt(longer, Head(longer).id + (Len(longer) - 1))
          /\ Head(longer).id + (Len(longer) - 1) = seq'
      BY <1>3, <2>1, <2>3, <2>5, <2>6
    <3>2. seq' \in Nat
      BY <1>1, <1>3
    <3> HIDE DEF longer
    <3> QED BY <3>1, <3>2 DEF Runs, EndsAt
  <2>8. Idle(s)' /\ Knows(s)'
    BY <1>1, <1>3, <1>5, <1>6 DEF Served, Idle, Knows, Inv, TypeOK
  <2>9. Joins(s)'
    <3> SUFFICES ASSUME phase[s] = "open", s \notin stale \cup late, ~Dated(s)
                 PROVE past + Head(Append(q, e)).id <= pos[s] + 1
      BY <1>3, <1>5, <2>1, <2>3 DEF Joins
    <3> QED BY <1>1, <1>2, <1>6, <2>4 DEF Served, Joins, q
  <2> QED BY <2>7, <2>8, <2>9 DEF Served
<1>7. CASE s \notin subs' /\ live'[s] = live[s] /\ (s \in subs => Len(live[s]) >= SubCap)
  <2>1. Owed(s)' = Owed(s)
    BY <1>3, <1>7 DEF Owed
  <2>2. q # <<>> => Head(q).id + (Len(q) - 1) <= seq + 1
    <3>1. q # <<>> => Head(q).id \in Nat
      BY <1>1, HeadTailProperties, EventTypes
    <3> QED BY <1>1, <3>1 DEF Served, Runs
  <2>3. Runs(s)'
    BY <1>1, <1>3, <1>7, <2>1, <2>2 DEF Served, Runs, EndsAt
  <2>4. Idle(s)' /\ Knows(s)' /\ Joins(s)'
    BY <1>1, <1>3, <1>5, <1>7, <2>1 DEF Served, Idle, Knows, Joins, Inv, TypeOK
  <2> QED BY <2>3, <2>4 DEF Served
<1> QED BY <1>4, <1>6, <1>7

LEMMA RegisterServes ==
  ASSUME Inv, NEW s \in Reader, NEW next \in {"reset", "open"}, NEW owed \in Seq(Event),
         Register(s, next, owed), EndsAt(owed, seq),
         s \in stale => s \in stale',
         next = "open" /\ s \notin stale' \cup late' /\ ~Dated(s) =>
           \/ owed = <<>> /\ pos[s] = past + seq
           \/ lastId[s] # 0 /\ IF owed = <<>> THEN lastId[s] = seq
                                             ELSE Head(owed).id = lastId[s] + 1,
         owed # <<>> => Head(owed).id >= 1
  PROVE  Served(s)'
<1>1. /\ TypeOK /\ Served(s) /\ seq \in Nat /\ past \in Nat /\ pos[s] \in Nat
      /\ lastId[s] \in Nat
  BY InvParts
<1>2. /\ seq' = seq /\ past' = past /\ lastId' = lastId /\ pos' = pos /\ era' = era
      /\ phase'[s] = next /\ s \in subs' /\ replay'[s] = owed /\ live'[s] = <<>>
  BY <1>1 DEF Register, journal, TypeOK
<1>3. Owed(s)' = owed /\ Dated(s)' = Dated(s)
  BY <1>2, ConcatEmptySeq DEF Owed, Dated
<1>4. owed # <<>> =>
        /\ EndsAt(owed, Head(owed).id + (Len(owed) - 1))
        /\ Head(owed).id + (Len(owed) - 1) = seq
  BY <1>1, RunsTo
<1>5. Runs(s)'
  BY <1>1, <1>2, <1>3, <1>4 DEF Runs, EndsAt
<1>6. Idle(s)' /\ Knows(s)'
  BY <1>1, <1>2, <1>3 DEF Served, Idle, Knows
<1>7. Joins(s)'
  <2> SUFFICES ASSUME next = "open", s \notin stale' \cup late', ~Dated(s)
               PROVE IF owed = <<>> THEN pos[s] = past + seq
                                    ELSE past + Head(owed).id <= pos[s] + 1
    BY <1>2, <1>3 DEF Joins
  <2>0. CASE owed = <<>> /\ pos[s] = past + seq
    BY <2>0
  <2> SUFFICES ASSUME lastId[s] # 0, IF owed = <<>> THEN lastId[s] = seq
                                                   ELSE Head(owed).id = lastId[s] + 1
               PROVE IF owed = <<>> THEN pos[s] = past + seq
                                    ELSE past + Head(owed).id <= pos[s] + 1
    BY <2>0
  <2>1. s \notin stale
    OBVIOUS
  <2>2. past + lastId[s] <= pos[s] /\ pos[s] <= past + seq
    BY <1>1, <2>1 DEF Served, Knows
  <2>3. CASE owed = <<>>
    BY <1>1, <2>2, <2>3
  <2>4. CASE owed # <<>>
    BY <1>1, <2>2, <2>4
  <2> QED BY <2>3, <2>4
<1> QED BY <1>5, <1>6, <1>7 DEF Served

(* A stream only found, or refused, is owed nothing yet. *)
LEMMA GetServes ==
  ASSUME Inv, NEW s \in Reader, FeedGet(s)
  PROVE  Served(s)'
<1>1. /\ TypeOK /\ Served(s)
  BY InvParts
<1>2. /\ phase[s] = "away" /\ phase'[s] \in {"found", "refused"}
      /\ UNCHANGED <<seq, past, subs, replay, live, lastId, pos, stale, late, era>>
  BY <1>1 DEF FeedGet, TypeOK, journal, reader
<1>3. Owed(s)' = Owed(s) /\ Dated(s)' = Dated(s)
  BY <1>2 DEF Owed, Dated
<1> QED BY <1>1, <1>2, <1>3 DEF Served, Idle, Runs, Knows, Joins, EndsAt

LEMMA ConnectServes ==
  ASSUME Inv, NEW s \in Reader, Connect(s)
  PROVE  Served(s)'
<1>0. TypeOK /\ RingIsTail /\ lastId[s] \in Nat /\ seq \in Nat
  BY InvParts
<1>1. EndsAt(<<>>, seq) /\ <<>> \in Seq(Event)
  BY EmptySeq DEF EndsAt
<1>2. CASE SubscribeFresh(s)
  <2>1. /\ Register(s, "open", <<>>) /\ (s \in stale => s \in stale')
        /\ s \in stale' \cup late' \/ pos[s] = past + seq
    BY <1>2 DEF SubscribeFresh
  <2> QED BY <1>1, <2>1, RegisterServes
<1>3. CASE SubscribeReset(s)
  <2>1. Register(s, "reset", <<>>) /\ stale' = stale
    BY <1>3 DEF SubscribeReset
  <2> QED BY <1>1, <2>1, RegisterServes
<1>4. CASE Resume(s)
  <2> DEFINE owed == After(lastId[s])
  <2>1. Register(s, "open", owed) /\ stale' = stale /\ lastId[s] # 0
    BY <1>4 DEF Resume
  <2>2. /\ owed \in Seq(Event) /\ EndsAt(owed, seq)
        /\ owed = <<>> => lastId[s] = seq
        /\ owed # <<>> => Head(owed).id = lastId[s] + 1
    BY <1>0, <1>4, AfterIs DEF Resume
  <2> HIDE DEF owed
  <2>3. owed # <<>> => Head(owed).id >= 1
    BY <1>0, <2>2
  <2> QED BY <2>1, <2>2, <2>3, RegisterServes
<1> QED BY <1>2, <1>3, <1>4 DEF Connect

(* A frame sent: the reader has what it says, and its resume point is new. *)
LEMMA Received ==
  ASSUME Inv, NEW s \in Reader, Owed(s) # <<>>, phase[s] = "open",
         Receive(s, Head(Owed(s)))
  PROVE  /\ Knows(s)' /\ ~Dated(s)'
         /\ seq' = seq /\ past' = past /\ stale' = stale
         /\ Head(Owed(s)).id \in 1..seq
         /\ s \notin stale => past + Head(Owed(s)).id <= pos'[s]
<1> DEFINE id == Head(Owed(s)).id
<1>1. /\ TypeOK /\ Served(s) /\ seq \in Nat /\ past \in Nat /\ pos[s] \in Nat
      /\ Owed(s) \in Seq(Event) /\ Len(Owed(s)) \in Nat
  BY InvParts, OwedTypes
<1>2. id \in 1..seq
  <2>1. Len(Owed(s)) >= 1 /\ id \in Nat
    BY <1>1, EmptySeq, HeadTailProperties, EventTypes
  <2>2. id >= 1 /\ id + (Len(Owed(s)) - 1) <= seq
    BY <1>1 DEF Served, Runs
  <2> QED BY <1>1, <2>1, <2>2
<1>3. /\ lastId'[s] = id /\ era'[s] = past
      /\ pos'[s] = IF s \notin stale /\ past + id > pos[s] THEN past + id ELSE pos[s]
      /\ seq' = seq /\ past' = past /\ stale' = stale
  BY <1>1 DEF Receive, TypeOK, journal
<1> HIDE DEF id
<1>4. ~Dated(s)'
  BY <1>3 DEF Dated
<1>5. s \notin stale => past + id <= pos'[s]
  BY <1>1, <1>2, <1>3
<1>6. pos[s] <= past + seq
  BY <1>1 DEF Served, Knows
<1>7. pos'[s] <= past + seq
  BY <1>1, <1>2, <1>3, <1>6
<1>8. Knows(s)'
  BY <1>1, <1>2, <1>3, <1>5, <1>7 DEF Knows
<1> QED BY <1>2, <1>3, <1>4, <1>5, <1>8 DEF id

(* A frame sent from a stream that goes on. *)
LEMMA Drained ==
  ASSUME Inv, NEW s \in Reader, Owed(s) # <<>>, phase[s] = "open",
         Receive(s, Head(Owed(s))), Owed(s)' = Tail(Owed(s)),
         UNCHANGED <<subs, phase>>
  PROVE  Served(s)'
<1> DEFINE q == Owed(s)
           id == Head(q).id
           rest == Tail(q)
<1>1. /\ TypeOK /\ Served(s) /\ seq \in Nat /\ past \in Nat /\ pos[s] \in Nat
      /\ q \in Seq(Event) /\ Len(q) \in Nat
  BY InvParts, OwedTypes
<1>2. /\ Knows(s)' /\ ~Dated(s)' /\ seq' = seq /\ past' = past /\ stale' = stale
      /\ id \in 1..seq /\ (s \notin stale => past + id <= pos'[s])
  BY Received
<1>3. Owed(s)' = rest
  OBVIOUS
<1>4. EndsAt(q, id + (Len(q) - 1)) /\ id + (Len(q) - 1) <= seq
      /\ (s \in subs => EndsAt(q, seq))
  BY <1>1 DEF Served, Runs
<1>5. q # <<>> /\ Len(q) >= 1 /\ id + (Len(q) - 1) \in Nat
  BY <1>1, <1>2, EmptySeq
<1> HIDE DEF q
<1>6. /\ rest \in Seq(Event) /\ Len(rest) = Len(q) - 1
      /\ EndsAt(rest, id + (Len(q) - 1))
      /\ s \in subs => EndsAt(rest, seq)
  BY <1>1, <1>4, <1>5, RunTail
<1> HIDE DEF rest
<1>7. rest # <<>> =>
        /\ Head(rest).id = id + 1
        /\ EndsAt(rest, Head(rest).id + (Len(rest) - 1))
        /\ Head(rest).id + (Len(rest) - 1) = id + (Len(q) - 1)
  <2> SUFFICES ASSUME rest # <<>>
               PROVE  /\ Head(rest).id = id + 1
                      /\ EndsAt(rest, Head(rest).id + (Len(rest) - 1))
                      /\ Head(rest).id + (Len(rest) - 1) = id + (Len(q) - 1)
    OBVIOUS
  <2>1. Head(rest).id = (id + (Len(q) - 1)) - Len(rest) + 1
    BY <1>5, <1>6, RunHead
  <2>2. id \in Nat
    BY <1>2
  <2> HIDE DEF id
  <2> QED BY <1>1, <1>5, <1>6, <2>1, <2>2, RunsTo
<1>8. rest = <<>> => id = seq \/ s \notin subs
  <2> SUFFICES ASSUME rest = <<>>, s \in subs PROVE id = seq
    OBVIOUS
  <2>1. Len(q) = 1
    BY <1>1, <1>6, EmptySeq
  <2>2. id = seq - Len(q) + 1
    BY <1>1, <1>4, <1>5, RunHead
  <2>3. seq \in Nat
    BY <1>1
  <2> HIDE DEF id
  <2> QED BY <2>1, <2>2, <2>3
<1> HIDE DEF id
<1>9. Runs(s)'
  <2>1. rest # <<>> =>
          /\ Head(rest).id >= 1
          /\ EndsAt(rest, Head(rest).id + (Len(rest) - 1))
          /\ Head(rest).id + (Len(rest) - 1) <= seq'
    BY <1>1, <1>2, <1>4, <1>7
  <2>2. s \in subs' => EndsAt(rest, seq')
    BY <1>2, <1>6
  <2> QED BY <1>3, <2>1, <2>2 DEF Runs, EndsAt
<1>10. Idle(s)'
  BY DEF Idle
<1>11. Joins(s)'
  <2> SUFFICES ASSUME s \notin stale
               PROVE IF rest = <<>> THEN s \in subs => pos'[s] = past + seq
                                    ELSE past + Head(rest).id <= pos'[s] + 1
    BY <1>2, <1>3 DEF Joins
  <2>1. pos'[s] \in Nat
    BY <1>1, ReceiveTypes, HeadTailProperties DEF q, Receive, TypeOK
  <2>2. pos'[s] <= past + seq
    BY <1>2 DEF Knows
  <2>3. CASE rest = <<>>
    <3> SUFFICES ASSUME s \in subs PROVE pos'[s] = past + seq
      BY <2>3
    <3>1. id = seq /\ past + id <= pos'[s]
      BY <1>2, <1>8, <2>3
    <3>2. seq \in Nat /\ past \in Nat
      BY <1>1
    <3> QED BY <2>1, <2>2, <3>1, <3>2
  <2>4. CASE rest # <<>>
    BY <1>1, <1>2, <1>7, <2>1, <2>4
  <2> QED BY <2>3, <2>4
<1> QED BY <1>2, <1>9, <1>10, <1>11 DEF Served

(* A stream that ends. *)
LEMMA Ended ==
  ASSUME Inv, NEW s \in Reader, Close(s), Knows(s)'
  PROVE  Served(s)'
<1>1. TypeOK
  BY DEF Inv
<1>2. phase'[s] = "away" /\ s \notin subs' /\ replay'[s] = <<>> /\ live'[s] = <<>>
  BY <1>1 DEF Close, TypeOK
<1>3. Owed(s)' = <<>>
  BY <1>2 DEF Owed
<1> QED BY <1>2, <1>3 DEF Served, Idle, Runs, Joins

LEMMA OthersServed ==
  ASSUME Inv, NEW s \in Reader, NEW t \in Reader, t # s,
         FeedGet(s) \/ Connect(s) \/ Send(s) \/ Disconnect(s) \/ Fetch(s)
  PROVE  Served(t)'
<1>1. TypeOK /\ Served(t)
  BY InvParts
<1>2. /\ seq' = seq /\ past' = past
      /\ phase'[t] = phase[t] /\ replay'[t] = replay[t] /\ live'[t] = live[t]
      /\ lastId'[t] = lastId[t] /\ pos'[t] = pos[t] /\ era'[t] = era[t]
      /\ (t \in subs' <=> t \in subs) /\ (t \in stale' <=> t \in stale)
      /\ (t \in late' <=> t \in late)
  <2> USE <1>1 DEF TypeOK, journal, stream, reader
  <2>1. CASE Connect(s)
    BY <2>1 DEF Connect, SubscribeFresh, SubscribeReset, Resume, Register
  <2>2. CASE SendReset(s)
    BY <2>2 DEF SendReset
  <2>3. CASE SendReplay(s)
    BY <2>3 DEF SendReplay, Receive
  <2>4. CASE SendLive(s)
    BY <2>4 DEF SendLive, Receive, Close
  <2>5. CASE EndDropped(s)
    BY <2>5 DEF EndDropped, Close
  <2>6. CASE Disconnect(s)
    BY <2>6 DEF Disconnect, Close
  <2>7. CASE Fetch(s)
    BY <2>7 DEF Fetch
  <2>8. CASE FeedGet(s)
    BY <2>8 DEF FeedGet
  <2> QED BY <2>1, <2>2, <2>3, <2>4, <2>5, <2>6, <2>7, <2>8 DEF Send
<1> QED BY <1>1, <1>2, Bystander

(* Sending drains the replay before the live channel. *)
LEMMA ReplayFirst ==
  ASSUME TypeOK, NEW s \in Reader, replay[s] # <<>>
  PROVE  /\ Owed(s) # <<>> /\ Head(Owed(s)) = Head(replay[s])
         /\ Tail(replay[s]) \o live[s] = Tail(Owed(s))
<1> DEFINE a == replay[s]
           b == live[s]
<1>1. a \in Seq(Event) /\ b \in Seq(Event) /\ a # <<>>
  BY DEF TypeOK
<1> HIDE DEF a, b
<1>2. a \o b # <<>>
  BY <1>1, ConcatEqualIffEmpty
<1>3. Head(a \o b) = Head(a) /\ Tail(a \o b) = Tail(a) \o b
  BY <1>1, <1>2
<1> QED BY <1>2, <1>3 DEF a, b, Owed

LEMMA LiveNext ==
  ASSUME TypeOK, NEW s \in Reader, replay[s] = <<>>
  PROVE  Owed(s) = live[s]
BY ConcatEmptySeq DEF TypeOK, Owed

LEMMA SendServes ==
  ASSUME Inv, NEW s \in Reader, Send(s)
  PROVE  Served(s)'
<1>0. TypeOK /\ Served(s)
  BY InvParts
<1>1. CASE SendReset(s)
  <2>1. /\ phase'[s] = "open" /\ s \in stale' /\ phase[s] = "reset"
        /\ UNCHANGED <<seq, past, subs, replay, live, lastId, pos, late, era>>
    BY <1>0, <1>1 DEF SendReset, TypeOK, journal
  <2>2. Owed(s)' = Owed(s) /\ Dated(s)' = Dated(s)
    BY <2>1 DEF Owed, Dated
  <2> QED BY <1>0, <2>1, <2>2 DEF Served, Idle, Runs, Knows, Joins, EndsAt
<1>2. CASE SendReplay(s)
  <2>1. /\ phase[s] = "open" /\ replay[s] # <<>> /\ Receive(s, Head(replay[s]))
        /\ replay'[s] = Tail(replay[s]) /\ UNCHANGED <<subs, phase, live>>
    BY <1>0, <1>2 DEF SendReplay, TypeOK
  <2>2. /\ Owed(s) # <<>> /\ Head(Owed(s)) = Head(replay[s])
        /\ Tail(replay[s]) \o live[s] = Tail(Owed(s))
    BY <1>0, <2>1, ReplayFirst
  <2>3. Owed(s)' = Tail(Owed(s))
    BY <2>1, <2>2 DEF Owed
  <2>4. Receive(s, Head(Owed(s)))
    BY <2>1, <2>2
  <2> QED BY <2>1, <2>2, <2>3, <2>4, Drained
<1>3. CASE SendLive(s)
  <2>1. /\ phase[s] = "open" /\ replay[s] = <<>> /\ live[s] # <<>>
        /\ Receive(s, Head(live[s]))
        /\ \/ Close(s)
           \/ /\ live'[s] = Tail(live[s]) /\ UNCHANGED <<subs, phase, replay>>
    BY <1>0, <1>3 DEF SendLive, TypeOK
  <2>2. Owed(s) = live[s]
    BY <1>0, <2>1, LiveNext
  <2>3. Receive(s, Head(Owed(s))) /\ Owed(s) # <<>>
    BY <2>1, <2>2
  <2>4. CASE Close(s)
    BY <2>1, <2>3, <2>4, Received, Ended
  <2>5. CASE live'[s] = Tail(live[s]) /\ UNCHANGED <<subs, phase, replay>>
    <3>1. live[s] \in Seq(Event) /\ Tail(live[s]) \in Seq(Event)
      BY <1>0, <2>1, HeadTailProperties DEF TypeOK
    <3>2. Owed(s)' = Tail(Owed(s))
      BY <2>1, <2>2, <2>5, <3>1, ConcatEmptySeq DEF Owed
    <3> QED BY <2>1, <2>3, <2>5, <3>2, Drained
  <2> QED BY <2>1, <2>4, <2>5
<1>4. CASE EndDropped(s)
  <2>1. Knows(s)' /\ Close(s)
    BY <1>0, <1>4 DEF EndDropped, Served, Knows, Dated, journal, reader
  <2> QED BY <2>1, Ended
<1> QED BY <1>1, <1>2, <1>3, <1>4 DEF Send

LEMMA FetchServes ==
  ASSUME Inv, NEW s \in Reader, Fetch(s)
  PROVE  Served(s)'
<1>1. /\ TypeOK /\ Served(s) /\ seq \in Nat /\ past \in Nat /\ Owed(s) \in Seq(Event)
      /\ Len(Owed(s)) \in Nat
  BY InvParts, OwedTypes
<1>2. /\ pos'[s] = past + seq /\ s \notin stale'
      /\ UNCHANGED <<seq, past, subs, phase, replay, live, lastId, era>>
  BY <1>1 DEF Fetch, TypeOK, journal, stream
<1>3. Owed(s)' = Owed(s) /\ Dated(s)' = Dated(s)
  BY <1>2 DEF Owed, Dated
<1>4. Owed(s) # <<>> => Head(Owed(s)).id \in Nat /\ Head(Owed(s)).id <= seq
  <2>1. Owed(s) # <<>> => Len(Owed(s)) >= 1 /\ Head(Owed(s)).id \in Nat
    BY <1>1, EmptySeq, HeadTailProperties, EventTypes
  <2> QED BY <1>1, <2>1 DEF Served, Runs
<1>5. lastId[s] # 0 /\ ~Dated(s) => lastId[s] <= seq
  BY <1>1 DEF Served, Knows
<1>6. Knows(s)' /\ Joins(s)'
  BY <1>1, <1>2, <1>3, <1>4, <1>5 DEF Served, Knows, Joins, TypeOK
<1>7. Idle(s)' /\ Runs(s)'
  BY <1>1, <1>2, <1>3 DEF Served, Idle, Runs, EndsAt
<1> QED BY <1>6, <1>7 DEF Served

(* After a restart every resume point is dated, unless nothing was         *)
(* published since the one before.                                         *)
LEMMA RestartServes ==
  ASSUME Inv, Restart, NEW s \in Reader
  PROVE  Served(s)'
<1>1. /\ TypeOK /\ Served(s) /\ seq \in Nat /\ past \in Nat /\ pos[s] \in Nat
      /\ lastId[s] \in Nat /\ era[s] \in Nat
  BY InvParts
<1>2. /\ past' = past + seq /\ seq' = 0 /\ subs' = {} /\ phase'[s] \in {"away", "refused"}
      /\ replay'[s] = <<>> /\ live'[s] = <<>>
      /\ UNCHANGED <<lastId, pos, stale, era>>
  BY DEF Restart, reader
<1>3. Owed(s)' = <<>>
  BY <1>2 DEF Owed
<1>4. lastId[s] # 0 => Dated(s)'
  BY <1>1, <1>2 DEF Served, Knows, Dated
<1>5. Knows(s)'
  BY <1>1, <1>2, <1>4 DEF Served, Knows, Dated
<1> QED BY <1>2, <1>3, <1>5 DEF Served, Idle, Runs, Joins
-----------------------------------------------------------------------------
LEMMA StepKeepsInv == Inv /\ [Next]_vars => Inv'
<1> SUFFICES ASSUME Inv, [Next]_vars PROVE Inv'
  OBVIOUS
<1>0. TypeOK /\ RingIsTail /\ TypeOK'
  BY StepTypes DEF Inv
<1>1. ASSUME NEW size \in Size, Broadcast(size, FALSE) PROVE Inv'
  BY <1>0, <1>1, JournalStep, BroadcastServes DEF Inv
<1>2. CASE Broadcast(0, TRUE)
  BY <1>0, <1>2, JournalStep, BroadcastServes DEF Inv
<1>3. ASSUME NEW s \in Reader, FeedGet(s) \/ Connect(s) \/ Send(s) \/ Disconnect(s) \/ Fetch(s)
      PROVE Inv'
  <2>1. UNCHANGED journal
    BY <1>3 DEF FeedGet, Connect, SubscribeFresh, SubscribeReset, Resume, Register, Send, SendReset,
                SendReplay, SendLive, Receive, EndDropped, Disconnect, Fetch
  <2>2. RingIsTail'
    BY <1>0, <2>1 DEF RingIsTail, EndsAt, Payload, journal
  <2>3. Served(s)'
    <3>1. CASE Disconnect(s)
      <4>1. Knows(s)' /\ Close(s)
        BY <3>1 DEF Inv, Disconnect, Served, Knows, Dated, journal, reader
      <4> QED BY <4>1, Ended
    <3> QED BY <1>3, <3>1, GetServes, ConnectServes, SendServes, FetchServes
  <2>4. \A t \in Reader : Served(t)'
    BY <1>3, <2>3, OthersServed
  <2> QED BY <1>0, <2>2, <2>4 DEF Inv
<1>4. CASE Restart
  <2>1. RingIsTail'
    BY <1>4, EmptyPayload, CapAssumption DEF Restart, RingIsTail, EndsAt
  <2> QED BY <1>0, <1>4, <2>1, RestartServes DEF Inv
<1>5. CASE UNCHANGED vars
  <2>1. \A t \in Reader : Served(t)'
    BY <1>5, Bystander DEF Inv, vars, journal, stream, reader
  <2>2. RingIsTail'
    BY <1>0, <1>5 DEF RingIsTail, EndsAt, Payload, vars, journal
  <2> QED BY <1>0, <2>1, <2>2 DEF Inv
<1>6. CASE Turn
  <2>1. \A t \in Reader : Served(t)'
    BY <1>6, Bystander DEF Inv, Turn, journal, stream, reader
  <2>2. RingIsTail'
    BY <1>0, <1>6 DEF RingIsTail, EndsAt, Payload, Turn, journal
  <2> QED BY <1>0, <2>1, <2>2 DEF Inv
<1> QED BY <1>1, <1>2, <1>3, <1>4, <1>5, <1>6 DEF Next

(* The inductive invariant holds throughout. *)
THEOREM Invariance == Spec => []Inv
BY InitInv, StepKeepsInv, PTL DEF Spec

(* Every reachable state has the declared types, and no channel holds more *)
(* events than its buffer takes (feed.go:91-98).                           *)
THEOREM TypeCorrect == Spec => []TypeOK
<1>1. Inv => TypeOK
  BY DEF Inv
<1> QED BY <1>1, Invariance, PTL

(* The journal is the newest stretch of what was published, within both    *)
(* bounds but for one event, and its byte count is exact (feed.go:47-57,   *)
(* :84-90).                                                                *)
THEOREM JournalIsTail == Spec => []RingIsTail
<1>1. Inv => RingIsTail
  BY DEF Inv
<1> QED BY <1>1, Invariance, PTL

(* What a stream has still to send joins what its reader has and runs      *)
(* without a gap across replay and live channel, dropped or not            *)
(* (feed.go:91-98, replayfeed.go:23-33).                                   *)
THEOREM StreamsHaveNoGap == Spec => []NoGap
<1>1. Inv => NoGap
  <2> SUFFICES ASSUME Inv PROVE NoGap
    OBVIOUS
  <2>1. ASSUME NEW s \in Reader, Owed(s) # <<>>
        PROVE EndsAt(Owed(s), Head(Owed(s)).id + Len(Owed(s)) - 1)
    <3>1. Len(Owed(s)) \in Nat /\ Head(Owed(s)).id \in Nat
      BY <2>1, InvParts, OwedTypes, HeadTailProperties, EventTypes
    <3>2. Head(Owed(s)).id + Len(Owed(s)) - 1 = Head(Owed(s)).id + (Len(Owed(s)) - 1)
      BY <3>1
    <3> QED BY <2>1, <3>2 DEF Inv, Served, Runs
  <2> QED BY <2>1 DEF Inv, Served, Runs, Joins, NoGap
<1> QED BY <1>1, Invariance, PTL
-----------------------------------------------------------------------------
(* What a step shows of a reader. *)

(* Only a subscription from outside the window leads to a reset. *)
LEMMA ResetsAreSubscriptions ==
  ASSUME Inv, [Next]_vars, NEW s \in Reader, phase'[s] = "reset", phase[s] # "reset"
  PROVE  SubscribeReset(s)
<1>0. TypeOK /\ phase \in [Reader -> {"away", "found", "refused", "reset", "open"}]
  BY DEF Inv, TypeOK
<1>1. ASSUME NEW t \in Reader, Connect(t) PROVE SubscribeReset(s)
  BY <1>0, <1>1 DEF Connect, SubscribeFresh, SubscribeReset, Resume, Register
<1>2. ASSUME NEW t \in Reader, FeedGet(t) \/ Send(t) \/ Disconnect(t) \/ Fetch(t) PROVE FALSE
  BY <1>0, <1>2 DEF FeedGet, Send, SendReset, SendReplay, SendLive, Close, EndDropped, Disconnect,
                    Fetch, stream
<1>3. ASSUME NEW size, NEW last, Broadcast(size, last) PROVE FALSE
  BY <1>3 DEF Broadcast
<1>4. CASE Restart
  BY <1>4 DEF Restart
<1>5. CASE Turn \/ UNCHANGED vars
  BY <1>5 DEF Turn, vars, stream
<1> QED BY <1>1, <1>2, <1>3, <1>4, <1>5 DEF Next

(* A reader is told to start over only if an event it missed is gone       *)
(* (replayfeed.go:21-26).                                                  *)
THEOREM ResetsAreNeeded == Spec => ResetOnlyWhenLost
<1> DEFINE Step ==
             \A s \in Reader : phase'[s] = "reset" /\ phase[s] # "reset" =>
               \/ lastId[s] > seq
               \/ \E id \in (lastId[s] + 1)..seq : \A i \in DOMAIN ring : ring[i].id # id
<1>1. Inv /\ [Next]_vars => [Step]_vars
  <2> SUFFICES ASSUME Inv, [Next]_vars, NEW s \in Reader,
                      phase'[s] = "reset", phase[s] # "reset", ~(lastId[s] > seq)
               PROVE  \E id \in (lastId[s] + 1)..seq : \A i \in DOMAIN ring : ring[i].id # id
    OBVIOUS
  <2>1. OutOfWindow(lastId[s])
    BY ResetsAreSubscriptions DEF SubscribeReset
  <2>2. /\ seq \in Nat /\ lastId[s] \in Nat /\ Len(ring) \in Nat /\ Len(ring) <= seq
        /\ DOMAIN ring = 1..Len(ring)
        /\ \A i \in DOMAIN ring : ring[i].id = seq - Len(ring) + i
    BY LenProperties DEF Inv, TypeOK, RingIsTail, EndsAt
  <2>3. lastId[s] < seq - Len(ring)
    BY <2>1, <2>2 DEF OutOfWindow
  <2>4. seq - Len(ring) \in (lastId[s] + 1)..seq
    BY <2>2, <2>3
  <2>5. \A i \in DOMAIN ring : ring[i].id # seq - Len(ring)
    BY <2>2
  <2> QED BY <2>4, <2>5
<1> QED BY <1>1, Invariance, PTL DEF Spec, ResetOnlyWhenLost

(* A frame that reaches a reader with a resume point from this run of the  *)
(* server, and a copy no older than its subscription, extends the copy by  *)
(* one event or changes nothing.                                           *)
LEMMA ReceivingFollows ==
  ASSUME Inv, NEW s \in Reader, Owed(s) # <<>>, phase[s] = "open",
         ~Dated(s), s \notin late, Receive(s, Head(Owed(s)))
  PROVE  [ReaderFeed!Follow(s)]_(ReaderFeed!vars)
<1> DEFINE id == Head(Owed(s)).id
<1>1. /\ TypeOK /\ Served(s) /\ seq \in Nat /\ past \in Nat /\ pos[s] \in Nat
  BY InvParts
<1>2. seq' = seq /\ past' = past /\ stale' = stale /\ id \in 1..seq
  BY Received
<1> HIDE DEF id
<1>3. pos' = IF s \notin stale /\ past + id > pos[s]
             THEN [pos EXCEPT ![s] = past + id] ELSE pos
  BY DEF Receive, id
<1>4. CASE s \notin stale /\ past + id > pos[s]
  <2>1. past + id <= pos[s] + 1
    BY <1>1, <1>4 DEF Served, Joins, id
  <2>2. past + id = pos[s] + 1 /\ pos[s] < past + seq
    BY <1>1, <1>2, <1>4, <2>1
  <2> QED BY <1>2, <1>3, <1>4, <2>2 DEF ReaderFeed!Follow
<1>5. CASE ~(s \notin stale /\ past + id > pos[s])
  BY <1>2, <1>3, <1>5 DEF ReaderFeed!vars
<1> QED BY <1>4, <1>5

LEMMA StepIsFeedStep ==
  ASSUME Inv, [Next]_vars
  PROVE  \/ [ReaderFeed!Next]_(ReaderFeed!vars)
         \/ \E s \in Reader : (Dated(s) \/ s \in late) /\ Send(s)
<1>0. TypeOK /\ seq \in Nat /\ past \in Nat
  BY DEF Inv, TypeOK
<1> USE DEF ReaderFeed!Next, ReaderFeed!vars
<1>1. ASSUME NEW size, NEW last, Broadcast(size, last) PROVE ReaderFeed!Publish
  BY <1>0, <1>1 DEF Broadcast, reader, ReaderFeed!Publish
<1>2. ASSUME NEW s \in Reader, Connect(s) PROVE [ReaderFeed!Expire(s)]_(ReaderFeed!vars)
  BY <1>2 DEF Connect, SubscribeFresh, SubscribeReset, Resume, Register, journal,
              ReaderFeed!Expire
<1>3. ASSUME NEW s \in Reader, Send(s), ~Dated(s), s \notin late
      PROVE [ReaderFeed!Follow(s) \/ ReaderFeed!Expire(s)]_(ReaderFeed!vars)
  <2>1. CASE SendReset(s)
    BY <2>1 DEF SendReset, journal, ReaderFeed!Expire
  <2>2. CASE SendReplay(s)
    <3>1. replay[s] # <<>> /\ phase[s] = "open" /\ Receive(s, Head(replay[s]))
      BY <2>2 DEF SendReplay
    <3>2. Owed(s) # <<>> /\ Receive(s, Head(Owed(s)))
      BY <1>0, <3>1, ReplayFirst
    <3> QED BY <1>3, <3>1, <3>2, ReceivingFollows
  <2>3. CASE SendLive(s)
    <3>1. /\ replay[s] = <<>> /\ live[s] # <<>> /\ phase[s] = "open"
          /\ Receive(s, Head(live[s]))
      BY <2>3 DEF SendLive
    <3>2. Owed(s) # <<>> /\ Receive(s, Head(Owed(s)))
      BY <1>0, <3>1, LiveNext
    <3> QED BY <1>3, <3>1, <3>2, ReceivingFollows
  <2>4. CASE EndDropped(s)
    BY <2>4 DEF EndDropped, journal, reader
  <2> QED BY <1>3, <2>1, <2>2, <2>3, <2>4 DEF Send
<1>4. ASSUME NEW s \in Reader, Disconnect(s) PROVE UNCHANGED ReaderFeed!vars
  BY <1>4 DEF Disconnect, journal, reader
<1>5. ASSUME NEW s \in Reader, Fetch(s) PROVE ReaderFeed!Fetch(s)
  BY <1>5 DEF Fetch, journal, ReaderFeed!Fetch
<1>6. CASE Restart
  BY <1>0, <1>6 DEF Restart, reader
<1>7. CASE Turn \/ UNCHANGED vars
  BY <1>7 DEF Turn, vars, journal, reader
<1>8. ASSUME NEW s \in Reader, FeedGet(s) PROVE UNCHANGED ReaderFeed!vars
  BY <1>8 DEF FeedGet, journal, reader
<1> QED BY <1>1, <1>2, <1>3, <1>4, <1>5, <1>6, <1>7, <1>8 DEF Next

(* Whatever is lost, dropped or restarted, a reader follows event by event *)
(* or is told to fetch, unless it resumes by an id from before a restart   *)
(* or subscribed with a copy that was already old (feed.go:33-36, :91-98,  *)
(* replayfeed.go:15-33).                                                   *)
THEOREM FollowsOrRefetches == Spec => SkipsOnlyDatedOrLate
<1> DEFINE Step == \/ [ReaderFeed!Next]_(ReaderFeed!vars)
                   \/ \E s \in Reader : (Dated(s) \/ s \in late) /\ Send(s)
<1>1. Init => ReaderFeed!Init
  BY DEF Init, ReaderFeed!Init
<1>2. Inv /\ [Next]_vars => [Step]_vars
  BY StepIsFeedStep
<1> QED BY <1>1, <1>2, Invariance, PTL DEF Spec, SkipsOnlyDatedOrLate
=============================================================================
