-------------------------- MODULE QueueOrderProofs --------------------------
(***************************************************************************)
(* What the operations of QueueOrder do to a queue, place by place, and    *)
(* that each of them keeps the delivery order.                             *)
(*                                                                         *)
(* The second half is about queues sorted by a relation between their      *)
(* entries, as the table sorts its rows and orderQueue its mirror: there   *)
(* is exactly one such queue for a finite set of entries, and the          *)
(* operations lead from the sorted queue of one order to that of the next. *)
(***************************************************************************)
EXTENDS QueueOrder, SequenceTheorems, FiniteSetTheorems, WellFoundedInduction, TLAPS

-----------------------------------------------------------------------------
(* Places *)

\* Every nonempty set of naturals has a least element.
LEMMA LeastNatural ==
  ASSUME NEW T \in SUBSET Nat, T # {}
  PROVE  \E x \in T : \A y \in T : x <= y
<1> DEFINE R == OpToRel(<, Nat)
<1>1. PICK x \in T : \A y \in T : ~ (<<y, x>> \in R)
  <2> HIDE DEF R
  <2>1. IsWellFoundedOn(R, Nat)
    BY NatLessThanWellFounded DEF R
  <2> QED
    BY <2>1, WFMin
<1>2. \A y \in T : ~ (y < x)
  BY <1>1 DEF OpToRel
<1> QED
  BY <1>2

\* A set of places of a sequence has a last and a first one.
LEMMA FirstAndLastPlace ==
  ASSUME NEW n \in Nat, NEW T \in SUBSET (1 .. n), T # {}
  PROVE  /\ Max(T) \in T /\ \A y \in T : Max(T) >= y
         /\ Min(T) \in T /\ \A y \in T : Min(T) <= y
<1>1. \E x \in T : \A y \in T : x <= y
  BY LeastNatural
<1>2. \E x \in T : \A y \in T : x >= y
  <2> DEFINE U == {n - t : t \in T}
  <2>1. U \in SUBSET Nat /\ U # {}
    <3>1. \A t \in T : n - t \in Nat
      OBVIOUS
    <3> QED
      BY <3>1
  <2>2. PICK u \in U : \A v \in U : u <= v
    <3> HIDE DEF U
    <3> QED
      BY <2>1, LeastNatural
  <2>3. PICK x \in T : u = n - x
    BY <2>2
  <2>4. \A y \in T : n - x <= n - y
    BY <2>2, <2>3
  <2> QED
    BY <2>3, <2>4
<1> QED
  BY <1>1, <1>2 DEF Max, Min

\* An entry of the queue is where IndexOf says.
LEMMA IndexOfEntry ==
  ASSUME NEW S, NEW queue \in Seq(S), NEW entry \in ToSet(queue)
  PROVE  /\ IndexOf(queue, entry) \in 1 .. Len(queue)
         /\ queue[IndexOf(queue, entry)] = entry
  BY LenProperties DEF IndexOf, ToSet

\* RemoveAt closes the gap.
LEMMA RemoveAtPlaces ==
  ASSUME NEW S, NEW queue \in Seq(S), NEW n \in 1 .. Len(queue)
  PROVE  /\ RemoveAt(queue, n) \in Seq(S)
         /\ Len(RemoveAt(queue, n)) = Len(queue) - 1
         /\ \A j \in 1 .. Len(queue) - 1 :
              RemoveAt(queue, n)[j] = IF j < n THEN queue[j] ELSE queue[j + 1]
<1> DEFINE before == SubSeq(queue, 1, n - 1)
           after == SubSeq(queue, n + 1, Len(queue))
<1>1. /\ before \in Seq(S)
      /\ Len(before) = n - 1
      /\ \A i \in 1 .. n - 1 : before[i] = queue[i]
  BY LenProperties, ElementOfSeq, SubSeqProperties
<1>2. /\ after \in Seq(S)
      /\ Len(after) = Len(queue) - n
      /\ \A i \in 1 .. Len(queue) - n : after[i] = queue[n + i]
  <2>1. Len(queue) \in Nat /\ \A i \in (n + 1) .. Len(queue) : queue[i] \in S
    BY LenProperties, ElementOfSeq
  <2>2. /\ after \in Seq(S)
        /\ Len(after) = IF n + 1 <= Len(queue) THEN Len(queue) - (n + 1) + 1 ELSE 0
        /\ \A i \in 1 .. Len(queue) - (n + 1) + 1 : after[i] = queue[(n + 1) + i - 1]
    BY <2>1, SubSeqProperties
  <2> QED
    BY <2>1, <2>2
<1> HIDE DEF before, after
<1>3. /\ before \o after \in Seq(S)
      /\ Len(before \o after) = Len(before) + Len(after)
      /\ \A i \in 1 .. Len(before) + Len(after) :
           (before \o after)[i] = IF i <= Len(before) THEN before[i]
                                  ELSE after[i - Len(before)]
  BY <1>1, <1>2, ConcatProperties
<1>4. RemoveAt(queue, n) = before \o after
  BY DEF RemoveAt, before, after
<1>5. Len(queue) \in Nat
  BY LenProperties
<1>6. ASSUME NEW j \in 1 .. Len(queue) - 1
      PROVE  (before \o after)[j] = IF j < n THEN queue[j] ELSE queue[j + 1]
  <2>1. CASE j < n
    BY <2>1, <1>1, <1>2, <1>3, <1>5
  <2>2. CASE j >= n
    <3>1. (before \o after)[j] = after[j - (n - 1)]
      BY <2>2, <1>1, <1>2, <1>3, <1>5
    <3>2. j - (n - 1) \in 1 .. Len(queue) - n /\ n + (j - (n - 1)) = j + 1
      BY <2>2, <1>5
    <3> QED
      BY <2>2, <3>1, <3>2, <1>2
  <2>3. j < n \/ j >= n
    BY <1>5
  <2> QED
    BY <2>1, <2>2, <2>3
<1>7. Len(before \o after) = Len(queue) - 1
  BY <1>1, <1>2, <1>3, <1>5
<1> QED
  BY <1>3, <1>4, <1>6, <1>7

\* InsertAt opens a gap.
LEMMA InsertAtPlaces ==
  ASSUME NEW S, NEW queue \in Seq(S), NEW n \in 1 .. Len(queue) + 1, NEW entry \in S
  PROVE  /\ InsertAt(queue, n, entry) \in Seq(S)
         /\ Len(InsertAt(queue, n, entry)) = Len(queue) + 1
         /\ \A j \in 1 .. Len(queue) + 1 :
              InsertAt(queue, n, entry)[j] =
                IF j < n THEN queue[j] ELSE IF j = n THEN entry ELSE queue[j - 1]
<1> DEFINE before == SubSeq(queue, 1, n - 1)
           after == SubSeq(queue, n, Len(queue))
           upto == before \o <<entry>>
<1>1. /\ before \in Seq(S)
      /\ Len(before) = n - 1
      /\ \A i \in 1 .. n - 1 : before[i] = queue[i]
  BY LenProperties, ElementOfSeq, SubSeqProperties
<1>2. /\ after \in Seq(S)
      /\ Len(after) = Len(queue) - n + 1
      /\ \A i \in 1 .. Len(queue) - n + 1 : after[i] = queue[n + i - 1]
  BY LenProperties, ElementOfSeq, SubSeqProperties
<1>3. <<entry>> \in Seq(S) /\ Len(<<entry>>) = 1 /\ <<entry>>[1] = entry
  OBVIOUS
<1> HIDE DEF before, after
<1>4. /\ upto \in Seq(S)
      /\ Len(upto) = n
      /\ \A i \in 1 .. n : upto[i] = IF i < n THEN queue[i] ELSE entry
  <2>1. /\ upto \in Seq(S)
        /\ Len(upto) = Len(before) + Len(<<entry>>)
        /\ \A i \in 1 .. Len(before) + Len(<<entry>>) :
             upto[i] = IF i <= Len(before) THEN before[i] ELSE <<entry>>[i - Len(before)]
    BY <1>1, <1>3, ConcatProperties
  <2> QED
    BY <2>1, <1>1, <1>3
<1> HIDE DEF upto
<1>5. /\ upto \o after \in Seq(S)
      /\ Len(upto \o after) = Len(upto) + Len(after)
      /\ \A i \in 1 .. Len(upto) + Len(after) :
           (upto \o after)[i] = IF i <= Len(upto) THEN upto[i] ELSE after[i - Len(upto)]
  BY <1>2, <1>4, ConcatProperties
<1>6. InsertAt(queue, n, entry) = upto \o after
  BY DEF InsertAt, before, after, upto
<1> QED
  BY <1>2, <1>4, <1>5, <1>6, LenProperties

\* Leaving the queue.
LEMMA WithoutPlaces ==
  ASSUME NEW S, NEW queue \in Seq(S), NEW entry
  PROVE  /\ Without(queue, entry) \in Seq(S)
         /\ entry \in ToSet(queue) => Len(Without(queue, entry)) = Len(queue) - 1
<1>1. CASE entry \in ToSet(queue)
  <2>1. IndexOf(queue, entry) \in 1 .. Len(queue)
    BY <1>1, IndexOfEntry
  <2> QED
    BY <1>1, <2>1, RemoveAtPlaces DEF Without
<1>2. CASE entry \notin ToSet(queue)
  BY <1>2 DEF Without
<1> QED
  BY <1>1, <1>2

\* The promoted places are fewer than the places, when a plain entry is there.
LEMMA BlockIsShorter ==
  ASSUME NEW S, NEW queue \in Seq(S), NEW promoted,
         NEW entry \in ToSet(queue) \ promoted
  PROVE  LET block == {k \in DOMAIN queue : queue[k] \in promoted}
         IN  /\ IsFiniteSet(block)
             /\ Cardinality(block) \in 0 .. Len(queue) - 1
<1> DEFINE places == 1 .. Len(queue)
           block == {k \in DOMAIN queue : queue[k] \in promoted}
           n == IndexOf(queue, entry)
<1>1. Len(queue) \in Nat /\ DOMAIN queue = places
  BY LenProperties
<1>2. n \in places /\ queue[n] \notin promoted
  BY IndexOfEntry
<1>3. block \in SUBSET (places \ {n})
  BY <1>1, <1>2
<1>4. IsFiniteSet(places) /\ Cardinality(places) = Len(queue)
  BY <1>1, FS_Interval
<1>5. IsFiniteSet(places \ {n}) /\ Cardinality(places \ {n}) = Len(queue) - 1
  BY <1>2, <1>4, FS_RemoveElement
<1> HIDE DEF places, block, n
<1>6. IsFiniteSet(block) /\ Cardinality(block) <= Len(queue) - 1
  BY <1>3, <1>5, FS_Subset
<1>7. Cardinality(block) \in Nat
  BY <1>6, FS_CardinalityType
<1> QED
  BY <1>1, <1>6, <1>7 DEF block

\* Joining the block.
LEMMA PromoteInType ==
  ASSUME NEW S, NEW queue \in Seq(S), NEW promoted,
         NEW entry \in ToSet(queue) \ promoted
  PROVE  PromoteIn(queue, promoted, entry) \in Seq(S)
<1> DEFINE block == {k \in DOMAIN queue : queue[k] \in promoted}
           rest == Without(queue, entry)
<1>1. Cardinality(block) \in 0 .. Len(queue) - 1
  BY BlockIsShorter
<1>2. rest \in Seq(S) /\ Len(rest) = Len(queue) - 1
  BY WithoutPlaces
<1>3. entry \in S
  BY LenProperties, ElementOfSeq DEF ToSet
<1>4. Len(queue) \in Nat
  BY LenProperties
<1> HIDE DEF block, rest
<1>5. Cardinality(block) + 1 \in 1 .. Len(rest) + 1
  BY <1>1, <1>2, <1>4
<1>6. InsertAt(rest, Cardinality(block) + 1, entry) \in Seq(S)
  BY <1>2, <1>3, <1>5, InsertAtPlaces
<1> QED
  BY <1>6 DEF PromoteIn, block, rest

\* Changing places with the nearest plain entry.
LEMMA ReorderedPlaces ==
  ASSUME NEW S, NEW queue \in Seq(S), NEW promoted, NEW entry, NEW up \in BOOLEAN,
         CanReorder(queue, promoted, entry, up)
  PROVE  LET here == IndexOf(queue, entry)
             near == PlainNeighbours(queue, promoted, entry, up)
             there == IF up THEN Max(near) ELSE Min(near)
             moved == Reordered(queue, promoted, entry, up)
         IN  /\ here \in 1 .. Len(queue) /\ queue[here] = entry
             /\ there \in near /\ there \in 1 .. Len(queue)
             /\ moved \in Seq(S)
             /\ Len(moved) = Len(queue)
             /\ \A j \in 1 .. Len(queue) :
                  moved[j] = IF j = there THEN entry
                             ELSE IF j = here THEN queue[there] ELSE queue[j]
<1> DEFINE here == IndexOf(queue, entry)
           near == PlainNeighbours(queue, promoted, entry, up)
           there == IF up THEN Max(near) ELSE Min(near)
           once == [queue EXCEPT ![here] = queue[there]]
           moved == Reordered(queue, promoted, entry, up)
<1>1. Len(queue) \in Nat /\ DOMAIN queue = 1 .. Len(queue)
  BY LenProperties
<1>2. here \in 1 .. Len(queue) /\ queue[here] = entry
  BY IndexOfEntry DEF CanReorder
<1>3. near \in SUBSET (1 .. Len(queue)) /\ near # {}
  BY <1>1 DEF CanReorder, PlainNeighbours
<1>4. there \in near /\ there \in 1 .. Len(queue)
  <2> HIDE DEF near
  <2> QED
    BY <1>1, <1>3, FirstAndLastPlace
<1>5. queue[here] \in S /\ queue[there] \in S
  <2> HIDE DEF here, there
  <2> QED
    BY <1>2, <1>4, ElementOfSeq
<1>6. moved = [once EXCEPT ![there] = entry]
  BY DEF Reordered
<1> HIDE DEF here, near, there, moved
<1>7. /\ once \in Seq(S)
      /\ Len(once) = Len(queue)
      /\ \A j \in 1 .. Len(queue) : once[j] = IF j = here THEN queue[there] ELSE queue[j]
  BY <1>2, <1>5, ExceptSeq
<1> HIDE DEF once
<1>8. /\ [once EXCEPT ![there] = entry] \in Seq(S)
      /\ Len([once EXCEPT ![there] = entry]) = Len(once)
      /\ \A j \in 1 .. Len(once) :
           [once EXCEPT ![there] = entry][j] = IF j = there THEN entry ELSE once[j]
  BY <1>2, <1>4, <1>5, <1>7, ExceptSeq
<1>9. /\ moved \in Seq(S)
      /\ Len(moved) = Len(queue)
      /\ \A j \in 1 .. Len(queue) :
           moved[j] = IF j = there THEN entry
                      ELSE IF j = here THEN queue[there] ELSE queue[j]
  BY <1>6, <1>7, <1>8
<1> QED
  BY <1>2, <1>4, <1>9 DEF here, near, there, moved

-----------------------------------------------------------------------------
(* The delivery order *)

\* A queue that grows at its end: the new entry is not queued yet and plain.
THEOREM AppendOrdered ==
  ASSUME NEW S, NEW queue \in Seq(S), NEW promoted, NEW entry \in S,
         Ordered(queue, promoted), entry \notin ToSet(queue), entry \notin promoted
  PROVE  /\ Ordered(Append(queue, entry), promoted)
         /\ ToSet(Append(queue, entry)) = ToSet(queue) \cup {entry}
<1> DEFINE longer == Append(queue, entry)
<1>1. /\ longer \in Seq(S)
      /\ Len(longer) = Len(queue) + 1
      /\ \A j \in 1 .. Len(queue) : longer[j] = queue[j]
      /\ longer[Len(queue) + 1] = entry
  BY AppendProperties
<1> HIDE DEF longer
<1>2. /\ Len(queue) \in Nat
      /\ DOMAIN queue = 1 .. Len(queue)
      /\ DOMAIN longer = 1 .. Len(queue) + 1
  BY <1>1, LenProperties
<1>3. Ordered(longer, promoted)
  <2> SUFFICES ASSUME NEW j \in 1 .. Len(queue) + 1, NEW k \in 1 .. Len(queue) + 1, j < k
               PROVE  /\ longer[j] # longer[k]
                      /\ longer[k] \in promoted => longer[j] \in promoted
    BY <1>2 DEF Ordered
  <2>1. j \in 1 .. Len(queue) /\ longer[j] = queue[j]
    BY <1>1, <1>2
  <2>2. CASE k = Len(queue) + 1
    BY <1>1, <1>2, <2>1, <2>2 DEF ToSet
  <2>3. CASE k \in 1 .. Len(queue)
    BY <1>1, <1>2, <2>1, <2>3 DEF Ordered
  <2> QED
    BY <1>2, <2>2, <2>3
<1>4. ToSet(longer) = ToSet(queue) \cup {entry}
  BY <1>1, <1>2 DEF ToSet
<1> QED
  BY <1>3, <1>4 DEF longer

\* A queue that loses an entry: the entry is gone, the others keep their order.
THEOREM WithoutOrdered ==
  ASSUME NEW S, NEW queue \in Seq(S), NEW promoted, NEW entry,
         Ordered(queue, promoted)
  PROVE  /\ Ordered(Without(queue, entry), promoted)
         /\ Ordered(Without(queue, entry), promoted \ {entry})
         /\ ToSet(Without(queue, entry)) = ToSet(queue) \ {entry}
<1>1. CASE entry \notin ToSet(queue)
  BY <1>1 DEF Without, Ordered, ToSet
<1>2. CASE entry \in ToSet(queue)
  <2> DEFINE n == IndexOf(queue, entry)
             rest == RemoveAt(queue, n)
             from(j) == IF j < n THEN j ELSE j + 1
  <2>1. n \in 1 .. Len(queue) /\ queue[n] = entry
    BY <1>2, IndexOfEntry
  <2>2. /\ rest \in Seq(S)
        /\ Len(rest) = Len(queue) - 1
        /\ \A j \in 1 .. Len(queue) - 1 : rest[j] = queue[from(j)]
    <3> HIDE DEF n
    <3>1. /\ rest \in Seq(S)
          /\ Len(rest) = Len(queue) - 1
          /\ \A j \in 1 .. Len(queue) - 1 :
               rest[j] = IF j < n THEN queue[j] ELSE queue[j + 1]
      BY <2>1, RemoveAtPlaces
    <3> QED
      BY <3>1
  <2> HIDE DEF n, rest
  <2>3. /\ Len(queue) \in Nat
        /\ DOMAIN queue = 1 .. Len(queue)
        /\ DOMAIN rest = 1 .. Len(queue) - 1
    BY <2>2, LenProperties
  <2>4. \A j \in 1 .. Len(queue) - 1 : from(j) \in 1 .. Len(queue) /\ from(j) # n
    BY <2>1, <2>3
  <2>5. \A j, k \in 1 .. Len(queue) - 1 : j < k => from(j) < from(k)
    BY <2>1, <2>3
  <2>6. \A k \in 1 .. Len(queue) :
          k # n => queue[k] # entry /\ \E j \in 1 .. Len(queue) - 1 : from(j) = k
    <3> SUFFICES ASSUME NEW k \in 1 .. Len(queue), k # n
                 PROVE  queue[k] # entry /\ \E j \in 1 .. Len(queue) - 1 : from(j) = k
      OBVIOUS
    <3>1. queue[k] # entry
      BY <2>1, <2>3 DEF Ordered
    <3>2. CASE k < n
      BY <2>1, <2>3, <3>1, <3>2
    <3>3. CASE k > n
      <4>1. k - 1 \in 1 .. Len(queue) - 1 /\ from(k - 1) = k
        BY <2>1, <2>3, <3>3
      <4> QED
        BY <3>1, <4>1
    <3> QED
      BY <2>1, <3>2, <3>3
  <2> HIDE DEF from
  <2>7. ToSet(rest) = ToSet(queue) \ {entry}
    <3>1. ASSUME NEW j \in 1 .. Len(queue) - 1
          PROVE  rest[j] \in ToSet(queue) \ {entry}
      <4>1. from(j) \in 1 .. Len(queue) /\ from(j) # n /\ rest[j] = queue[from(j)]
        BY <2>2, <2>4
      <4>2. queue[from(j)] # entry
        BY <2>6, <4>1
      <4> QED
        BY <2>3, <4>1, <4>2 DEF ToSet
    <3>2. ASSUME NEW k \in 1 .. Len(queue), queue[k] # entry
          PROVE  queue[k] \in ToSet(rest)
      <4>1. PICK j \in 1 .. Len(queue) - 1 : from(j) = k
        BY <2>1, <2>6, <3>2
      <4>2. rest[j] = queue[k]
        BY <2>2, <4>1
      <4> QED
        BY <2>3, <4>2 DEF ToSet
    <3> QED
      BY <2>3, <3>1, <3>2 DEF ToSet
  <2>8. ASSUME NEW j \in 1 .. Len(queue) - 1, NEW k \in 1 .. Len(queue) - 1, j < k
        PROVE  /\ rest[j] # rest[k] /\ rest[j] # entry
               /\ rest[k] \in promoted => rest[j] \in promoted
    <3>1. /\ from(j) \in 1 .. Len(queue) /\ from(k) \in 1 .. Len(queue)
          /\ from(j) < from(k) /\ from(j) # n
      BY <2>4, <2>5, <2>8
    <3>2. rest[j] = queue[from(j)] /\ rest[k] = queue[from(k)]
      BY <2>2
    <3>3. queue[from(j)] # entry
      BY <2>6, <3>1
    <3>4. /\ queue[from(j)] # queue[from(k)]
          /\ queue[from(k)] \in promoted => queue[from(j)] \in promoted
      BY <2>3, <3>1 DEF Ordered
    <3> QED
      BY <3>2, <3>3, <3>4
  <2>9. Ordered(rest, promoted) /\ Ordered(rest, promoted \ {entry})
    BY <2>3, <2>8 DEF Ordered
  <2> QED
    BY <1>2, <2>7, <2>9 DEF Without, rest, n
<1> QED
  BY <1>1, <1>2

\* Taking the head leaves the order of the rest.
THEOREM TailOrdered ==
  ASSUME NEW S, NEW queue \in Seq(S), NEW promoted,
         Ordered(queue, promoted), queue # <<>>
  PROVE  /\ Ordered(Tail(queue), promoted)
         /\ Ordered(Tail(queue), promoted \ {Head(queue)})
         /\ ToSet(Tail(queue)) = ToSet(queue) \ {Head(queue)}
<1> DEFINE rest == Tail(queue)
<1>1. /\ rest \in Seq(S)
      /\ Len(rest) = Len(queue) - 1
      /\ \A j \in 1 .. Len(rest) : rest[j] = queue[j + 1]
  BY HeadTailProperties
<1>2. Head(queue) = queue[1]
  OBVIOUS
<1> HIDE DEF rest
<1>3. /\ Len(queue) \in Nat
      /\ DOMAIN queue = 1 .. Len(queue)
      /\ DOMAIN rest = 1 .. Len(queue) - 1
      /\ Len(queue) >= 1
  BY <1>1, LenProperties, EmptySeq
<1>4. ASSUME NEW j \in 1 .. Len(queue) - 1
      PROVE  j + 1 \in 1 .. Len(queue) /\ rest[j] = queue[j + 1] /\ rest[j] # queue[1]
  BY <1>1, <1>3 DEF Ordered
<1>5. ASSUME NEW j \in 1 .. Len(queue) - 1, NEW k \in 1 .. Len(queue) - 1, j < k
      PROVE  rest[j] # rest[k] /\ (rest[k] \in promoted => rest[j] \in promoted)
  BY <1>3, <1>4, <1>5 DEF Ordered
<1>6. Ordered(rest, promoted) /\ Ordered(rest, promoted \ {queue[1]})
  BY <1>3, <1>4, <1>5 DEF Ordered
<1>7. ToSet(rest) = ToSet(queue) \ {queue[1]}
  <2>1. ASSUME NEW k \in 1 .. Len(queue), queue[k] # queue[1]
        PROVE  queue[k] \in ToSet(rest)
    <3>1. k - 1 \in 1 .. Len(queue) - 1 /\ rest[k - 1] = queue[k]
      BY <1>3, <1>4, <2>1
    <3> QED
      BY <1>3, <3>1 DEF ToSet
  <2>2. ASSUME NEW j \in 1 .. Len(queue) - 1
        PROVE  rest[j] \in ToSet(queue) /\ rest[j] # queue[1]
    BY <1>3, <1>4 DEF ToSet
  <2>3. /\ \A x \in ToSet(queue) : x # queue[1] => x \in ToSet(rest)
        /\ \A x \in ToSet(rest) : x \in ToSet(queue) /\ x # queue[1]
    BY <1>3, <2>1, <2>2 DEF ToSet
  <2> QED
    BY <2>3
<1> QED
  BY <1>2, <1>6, <1>7 DEF rest

\* In an ordered queue the promoted block is a prefix, as long as the block is big.
LEMMA BlockIsPrefix ==
  ASSUME NEW S, NEW queue \in Seq(S), NEW promoted, Ordered(queue, promoted)
  PROVE  \A k \in 1 .. Len(queue) :
           queue[k] \in promoted
             <=> k <= Cardinality({j \in DOMAIN queue : queue[j] \in promoted})
<1> DEFINE block == {j \in DOMAIN queue : queue[j] \in promoted}
<1>1. Len(queue) \in Nat /\ DOMAIN queue = 1 .. Len(queue)
  BY LenProperties
<1>2. \A k \in 1 .. Len(queue) : queue[k] \in promoted <=> k \in block
  BY <1>1
<1>3. CASE block = {}
  <2>1. Cardinality(block) = 0
    BY <1>3, FS_EmptySet
  <2> QED
    BY <1>1, <1>2, <1>3, <2>1
<1>4. CASE block # {}
  <2> DEFINE last == Max(block)
  <2>1. block \in SUBSET (1 .. Len(queue))
    BY <1>1
  <2>2. last \in block /\ \A y \in block : last >= y
    <3> HIDE DEF block
    <3> QED
      BY <1>1, <1>4, <2>1, FirstAndLastPlace
  <2> HIDE DEF last
  <2>3. block = 1 .. last
    <3>1. ASSUME NEW k \in 1 .. last
          PROVE  k \in block
      BY <1>1, <2>1, <2>2 DEF Ordered
    <3> QED
      BY <2>1, <2>2, <3>1
  <2>4. Cardinality(block) = last
    <3>1. last \in Nat \ {0}
      BY <1>1, <2>1, <2>2
    <3> HIDE DEF block
    <3> QED
      BY <2>3, <3>1, FS_Interval
  <2> QED
    BY <1>1, <1>2, <2>3, <2>4
<1> QED
  BY <1>3, <1>4

\* Where the entries are after a promotion: the block of c entries, the entry that
\* closes it, and the rest, as if the entry had left and joined again.
PromotedPlaces(S, queue, promoted, entry, rest, c, longer) ==
  /\ c \in 0 .. Len(queue) - 1
  /\ rest \in Seq(S) /\ DOMAIN rest = 1 .. Len(queue) - 1
  /\ Ordered(rest, promoted) /\ ToSet(rest) = ToSet(queue) \ {entry}
  /\ longer \in Seq(S) /\ DOMAIN longer = 1 .. Len(queue)
  /\ \A j \in 1 .. Len(queue) - 1 : rest[j] # entry /\ (rest[j] \in promoted <=> j <= c)
  /\ \A j \in 1 .. c : j \in 1 .. Len(queue) - 1 /\ longer[j] = rest[j]
  /\ longer[c + 1] = entry
  /\ \A j \in c + 2 .. Len(queue) :
       j - 1 \in 1 .. Len(queue) - 1 /\ longer[j] = rest[j - 1]

\* PromoteIn puts the entries there.
LEMMA PromoteInPlaces ==
  ASSUME NEW S, NEW queue \in Seq(S), NEW promoted,
         NEW entry \in ToSet(queue) \ promoted, Ordered(queue, promoted)
  PROVE  PromotedPlaces(S, queue, promoted, entry, Without(queue, entry),
                        Cardinality({j \in DOMAIN queue : queue[j] \in promoted}),
                        PromoteIn(queue, promoted, entry))
<1> DEFINE rest == Without(queue, entry)
           c == Cardinality({j \in DOMAIN queue : queue[j] \in promoted})
           n == IndexOf(queue, entry)
           longer == PromoteIn(queue, promoted, entry)
<1>1. Len(queue) \in Nat /\ DOMAIN queue = 1 .. Len(queue) /\ entry \in S
  BY LenProperties, ElementOfSeq DEF ToSet
<1>2. n \in 1 .. Len(queue) /\ queue[n] = entry
  BY IndexOfEntry
<1>3. c \in 0 .. Len(queue) - 1
  BY BlockIsShorter
<1>4. \A k \in 1 .. Len(queue) : queue[k] \in promoted <=> k <= c
  BY BlockIsPrefix
<1>5. /\ rest \in Seq(S)
      /\ Len(rest) = Len(queue) - 1
      /\ Ordered(rest, promoted)
      /\ ToSet(rest) = ToSet(queue) \ {entry}
  BY WithoutPlaces, WithoutOrdered
<1>6. \A j \in 1 .. Len(queue) - 1 :
        rest[j] = IF j < n THEN queue[j] ELSE queue[j + 1]
  BY <1>2, RemoveAtPlaces DEF Without
<1>7. longer = InsertAt(rest, c + 1, entry)
  BY DEF PromoteIn
<1> HIDE DEF rest, c, n, longer
<1>8. \A j \in 1 .. Len(queue) - 1 : rest[j] \in promoted <=> j <= c
  <2> SUFFICES ASSUME NEW j \in 1 .. Len(queue) - 1
               PROVE  rest[j] \in promoted <=> j <= c
    OBVIOUS
  <2>1. c < n
    BY <1>2, <1>3, <1>4
  <2>2. CASE j < n
    BY <1>1, <1>2, <1>4, <1>6, <2>2
  <2>3. CASE j >= n
    <3>1. rest[j] = queue[j + 1] /\ j + 1 \in 1 .. Len(queue)
      BY <1>1, <1>2, <1>6, <2>3
    <3> QED
      BY <1>1, <1>2, <1>3, <1>4, <2>1, <2>3, <3>1
  <2> QED
    BY <1>1, <1>2, <2>2, <2>3
<1>9. c + 1 \in 1 .. Len(rest) + 1
  BY <1>1, <1>3, <1>5
<1>10. /\ longer \in Seq(S)
       /\ Len(longer) = Len(rest) + 1
       /\ \A j \in 1 .. Len(rest) + 1 :
            longer[j] = IF j < c + 1 THEN rest[j]
                        ELSE IF j = c + 1 THEN entry ELSE rest[j - 1]
  <2> DEFINE at == c + 1
  <2>1. at \in 1 .. Len(rest) + 1
    BY <1>9
  <2> HIDE DEF at
  <2>2. /\ InsertAt(rest, at, entry) \in Seq(S)
        /\ Len(InsertAt(rest, at, entry)) = Len(rest) + 1
        /\ \A j \in 1 .. Len(rest) + 1 :
             InsertAt(rest, at, entry)[j] =
               IF j < at THEN rest[j] ELSE IF j = at THEN entry ELSE rest[j - 1]
    BY <1>1, <1>5, <2>1, InsertAtPlaces
  <2> QED
    BY <1>7, <2>2 DEF at
<1>11. DOMAIN longer = 1 .. Len(queue) /\ DOMAIN rest = 1 .. Len(queue) - 1
  BY <1>1, <1>5, <1>10, LenProperties
<1>12. /\ \A j \in 1 .. c : j \in 1 .. Len(queue) - 1 /\ longer[j] = rest[j]
       /\ longer[c + 1] = entry
       /\ \A j \in c + 2 .. Len(queue) :
            j - 1 \in 1 .. Len(queue) - 1 /\ longer[j] = rest[j - 1]
  BY <1>1, <1>3, <1>5, <1>10
<1>13. \A j \in 1 .. Len(queue) - 1 : rest[j] # entry
  BY <1>5, <1>11 DEF ToSet
<1>14. PromotedPlaces(S, queue, promoted, entry, rest, c, longer)
  BY <1>3, <1>5, <1>8, <1>10, <1>11, <1>12, <1>13 DEF PromotedPlaces
<1> QED
  BY <1>14 DEF rest, c, longer

\* Prioritizing: the entry closes the block, and nothing else changes its order.
THEOREM PromoteInOrdered ==
  ASSUME NEW S, NEW queue \in Seq(S), NEW promoted,
         NEW entry \in ToSet(queue) \ promoted, Ordered(queue, promoted)
  PROVE  /\ Ordered(PromoteIn(queue, promoted, entry), promoted \cup {entry})
         /\ ToSet(PromoteIn(queue, promoted, entry)) = ToSet(queue)
<1> DEFINE rest == Without(queue, entry)
           c == Cardinality({j \in DOMAIN queue : queue[j] \in promoted})
           longer == PromoteIn(queue, promoted, entry)
<1>1. Len(queue) \in Nat /\ DOMAIN queue = 1 .. Len(queue) /\ entry \in S
  BY LenProperties, ElementOfSeq DEF ToSet
<1>2. PromotedPlaces(S, queue, promoted, entry, rest, c, longer)
  BY PromoteInPlaces
<1> HIDE DEF rest, c, longer
<1>3. c \in 0 .. Len(queue) - 1
  BY <1>2 DEF PromotedPlaces
<1>4. rest \in Seq(S) /\ Ordered(rest, promoted) /\ ToSet(rest) = ToSet(queue) \ {entry}
  BY <1>2 DEF PromotedPlaces
<1>5. \A j \in 1 .. Len(queue) - 1 : rest[j] \in promoted <=> j <= c
  BY <1>2 DEF PromotedPlaces
<1>6. DOMAIN longer = 1 .. Len(queue) /\ DOMAIN rest = 1 .. Len(queue) - 1
  BY <1>2 DEF PromotedPlaces
<1>7. /\ \A j \in 1 .. c : j \in 1 .. Len(queue) - 1 /\ longer[j] = rest[j]
      /\ longer[c + 1] = entry
      /\ \A j \in c + 2 .. Len(queue) :
           j - 1 \in 1 .. Len(queue) - 1 /\ longer[j] = rest[j - 1]
  BY <1>2 DEF PromotedPlaces
<1>8. \A j \in 1 .. Len(queue) - 1 : rest[j] # entry
  BY <1>2 DEF PromotedPlaces
<1>9. ASSUME NEW j \in 1 .. Len(queue), NEW k \in 1 .. Len(queue), j < k
      PROVE  /\ longer[j] # longer[k]
             /\ longer[k] \in promoted \cup {entry} => longer[j] \in promoted \cup {entry}
  <2>1. CASE k <= c
    <3>1. /\ j \in 1 .. Len(queue) - 1 /\ longer[j] = rest[j]
          /\ k \in 1 .. Len(queue) - 1 /\ longer[k] = rest[k]
      BY <1>1, <1>3, <1>7, <1>9, <2>1
    <3>2. rest[j] # rest[k] /\ rest[j] \in promoted
      BY <1>1, <1>3, <1>4, <1>5, <1>6, <1>9, <2>1, <3>1 DEF Ordered
    <3> QED
      BY <3>1, <3>2
  <2>2. CASE k = c + 1
    BY <1>1, <1>3, <1>5, <1>7, <1>8, <1>9, <2>2
  <2>3. CASE k > c + 1
    <3>1. k - 1 \in 1 .. Len(queue) - 1 /\ longer[k] = rest[k - 1] /\ k - 1 > c
      BY <1>1, <1>3, <1>7, <2>3
    <3>2. longer[k] \notin promoted \cup {entry}
      BY <1>3, <1>5, <1>8, <3>1
    <3>3. CASE j <= c
      <4>1. j \in 1 .. Len(queue) - 1 /\ longer[j] = rest[j] /\ j < k - 1
        BY <1>1, <1>3, <1>7, <3>1, <3>3
      <4> QED
        BY <1>4, <1>6, <3>1, <3>2, <4>1 DEF Ordered
    <3>4. CASE j = c + 1
      BY <1>7, <3>2, <3>4
    <3>5. CASE j > c + 1
      <4>1. j - 1 \in 1 .. Len(queue) - 1 /\ longer[j] = rest[j - 1] /\ j - 1 < k - 1
        BY <1>1, <1>3, <1>7, <1>9, <3>5
      <4> QED
        BY <1>4, <1>6, <3>1, <3>2, <4>1 DEF Ordered
    <3> QED
      BY <1>3, <3>3, <3>4, <3>5
  <2> QED
    BY <1>3, <2>1, <2>2, <2>3
<1>10. Ordered(longer, promoted \cup {entry})
  BY <1>6, <1>9 DEF Ordered
<1>11. ToSet(longer) = ToSet(rest) \cup {entry}
  <2>1. ASSUME NEW j \in 1 .. Len(queue)
        PROVE  longer[j] \in ToSet(rest) \cup {entry}
    <3>1. \A i \in 1 .. Len(queue) - 1 : rest[i] \in ToSet(rest)
      BY <1>6 DEF ToSet
    <3>2. CASE j <= c
      BY <1>1, <1>3, <1>7, <3>1, <3>2
    <3>3. CASE j = c + 1
      BY <1>7, <3>3
    <3>4. CASE j > c + 1
      BY <1>1, <1>3, <1>7, <3>1, <3>4
    <3> QED
      BY <1>3, <3>2, <3>3, <3>4
  <2>2. ASSUME NEW j \in 1 .. Len(queue) - 1
        PROVE  \E k \in 1 .. Len(queue) : longer[k] = rest[j]
    <3>1. CASE j <= c
      BY <1>1, <1>3, <1>7, <3>1
    <3>2. CASE j > c
      <4>1. j + 1 \in c + 2 .. Len(queue) /\ (j + 1) - 1 = j /\ j + 1 \in 1 .. Len(queue)
        BY <1>1, <1>3, <3>2
      <4>2. longer[j + 1] = rest[(j + 1) - 1]
        BY <1>7, <4>1
      <4> QED
        BY <4>1, <4>2
    <3> QED
      BY <1>3, <3>1, <3>2
  <2>3. c + 1 \in 1 .. Len(queue)
    BY <1>1, <1>3
  <2>4. ToSet(longer) \subseteq ToSet(rest) \cup {entry}
    BY <1>6, <2>1 DEF ToSet
  <2>5. ToSet(rest) \subseteq ToSet(longer)
    BY <1>6, <2>2 DEF ToSet
  <2>6. entry \in ToSet(longer)
    BY <1>6, <1>7, <2>3 DEF ToSet
  <2> QED
    BY <2>4, <2>5, <2>6
<1> QED
  BY <1>4, <1>10, <1>11 DEF longer

\* Moving past a plain neighbour: the block and the set of entries stay.
THEOREM ReorderedOrdered ==
  ASSUME NEW S, NEW queue \in Seq(S), NEW promoted, NEW entry, NEW up \in BOOLEAN,
         CanReorder(queue, promoted, entry, up), Ordered(queue, promoted)
  PROVE  /\ Ordered(Reordered(queue, promoted, entry, up), promoted)
         /\ ToSet(Reordered(queue, promoted, entry, up)) = ToSet(queue)
<1> DEFINE here == IndexOf(queue, entry)
           near == PlainNeighbours(queue, promoted, entry, up)
           there == IF up THEN Max(near) ELSE Min(near)
           moved == Reordered(queue, promoted, entry, up)
           from(j) == IF j = there THEN here ELSE IF j = here THEN there ELSE j
<1>1. /\ here \in 1 .. Len(queue) /\ queue[here] = entry
      /\ there \in near /\ there \in 1 .. Len(queue)
      /\ moved \in Seq(S)
      /\ Len(moved) = Len(queue)
      /\ \A j \in 1 .. Len(queue) : moved[j] = queue[from(j)]
  <2> HIDE DEF here, near, there, moved
  <2>1. /\ here \in 1 .. Len(queue) /\ queue[here] = entry
        /\ there \in near /\ there \in 1 .. Len(queue)
        /\ moved \in Seq(S)
        /\ Len(moved) = Len(queue)
        /\ \A j \in 1 .. Len(queue) :
             moved[j] = IF j = there THEN entry
                        ELSE IF j = here THEN queue[there] ELSE queue[j]
    BY ReorderedPlaces DEF here, near, there, moved
  <2> QED
    BY <2>1
<1>2. queue[here] \notin promoted /\ queue[there] \notin promoted
  BY <1>1 DEF CanReorder, PlainNeighbours
<1> HIDE DEF here, near, there, moved
<1>3. /\ Len(queue) \in Nat
      /\ DOMAIN queue = 1 .. Len(queue) /\ DOMAIN moved = 1 .. Len(queue)
  BY <1>1, LenProperties
<1>4. \A j \in 1 .. Len(queue) : from(j) \in 1 .. Len(queue) /\ from(from(j)) = j
  BY <1>1
<1>5. \A j \in 1 .. Len(queue) :
        /\ moved[j] = queue[from(j)]
        /\ moved[j] \in promoted <=> queue[j] \in promoted
  BY <1>1, <1>2
<1>6. \A j, k \in 1 .. Len(queue) : j # k => queue[j] # queue[k]
  BY <1>3 DEF Ordered
<1> HIDE DEF from
<1>7. \A j, k \in 1 .. Len(queue) : j # k => moved[j] # moved[k]
  <2> SUFFICES ASSUME NEW j \in 1 .. Len(queue), NEW k \in 1 .. Len(queue), j # k
               PROVE  queue[from(j)] # queue[from(k)]
    BY <1>5
  <2>1. from(j) \in 1 .. Len(queue) /\ from(k) \in 1 .. Len(queue) /\ from(j) # from(k)
    BY <1>4
  <2> QED
    BY <1>6, <2>1
<1>8. Ordered(moved, promoted)
  <2> SUFFICES ASSUME NEW j \in 1 .. Len(queue), NEW k \in 1 .. Len(queue), j < k
               PROVE  /\ moved[j] # moved[k]
                      /\ moved[k] \in promoted => moved[j] \in promoted
    BY <1>3 DEF Ordered
  <2>1. moved[j] # moved[k]
    BY <1>3, <1>7
  <2>2. queue[k] \in promoted => queue[j] \in promoted
    BY <1>3 DEF Ordered
  <2> QED
    BY <1>5, <2>1, <2>2
<1>9. ToSet(moved) = ToSet(queue)
  <2>1. ASSUME NEW j \in 1 .. Len(queue)
        PROVE  moved[j] \in ToSet(queue) /\ queue[j] \in ToSet(moved)
    <3>1. moved[j] = queue[from(j)] /\ from(j) \in 1 .. Len(queue)
      BY <1>4, <1>5
    <3>2. queue[j] = moved[from(j)]
      BY <1>4, <1>5
    <3> QED
      BY <1>3, <3>1, <3>2 DEF ToSet
  <2> QED
    BY <1>3, <2>1 DEF ToSet
<1> QED
  BY <1>8, <1>9 DEF moved

-----------------------------------------------------------------------------
(* The order within the block *)

\* An entry that was promoted before another one, or that was promoted when the
\* other one was not, is before it if both are promoted in the next queue.
KeepsBlock(queue, promoted, next, block) ==
  \A i \in promoted \cap block : \A j \in block \ {i} :
    j \notin promoted \/ IndexOf(queue, i) < IndexOf(queue, j)
      => IndexOf(next, i) < IndexOf(next, j)

\* An entry has one place.
LEMMA IndexIs ==
  ASSUME NEW S, NEW queue \in Seq(S), NEW promoted, Ordered(queue, promoted),
         NEW k \in 1 .. Len(queue)
  PROVE  IndexOf(queue, queue[k]) = k
<1>1. Len(queue) \in Nat /\ DOMAIN queue = 1 .. Len(queue)
  BY LenProperties
<1>2. queue[k] \in ToSet(queue)
  BY <1>1 DEF ToSet
<1>3. /\ IndexOf(queue, queue[k]) \in 1 .. Len(queue)
      /\ queue[IndexOf(queue, queue[k])] = queue[k]
  BY <1>2, IndexOfEntry
<1> DEFINE n == IndexOf(queue, queue[k])
<1> HIDE DEF n
<1>4. n \in 1 .. Len(queue) /\ queue[n] = queue[k]
  BY <1>3 DEF n
<1>5. n = k
  BY <1>1, <1>4 DEF Ordered
<1> QED
  BY <1>5 DEF n

\* A queue that grows at its end.
LEMMA AppendKeepsBlock ==
  ASSUME NEW S, NEW queue \in Seq(S), NEW promoted, NEW entry \in S,
         Ordered(queue, promoted), entry \notin ToSet(queue), promoted \subseteq ToSet(queue)
  PROVE  KeepsBlock(queue, promoted, Append(queue, entry), promoted)
<1> DEFINE longer == Append(queue, entry)
<1>1. /\ longer \in Seq(S)
      /\ Len(longer) = Len(queue) + 1
      /\ \A j \in 1 .. Len(queue) : longer[j] = queue[j]
  BY AppendProperties
<1>2. Ordered(longer, promoted)
  BY AppendOrdered
<1> HIDE DEF longer
<1>3. ASSUME NEW i \in promoted
      PROVE  IndexOf(longer, i) = IndexOf(queue, i)
  <2>1. IndexOf(queue, i) \in 1 .. Len(queue) /\ queue[IndexOf(queue, i)] = i
    BY IndexOfEntry
  <2> DEFINE n == IndexOf(queue, i)
  <2> HIDE DEF n
  <2>2. n \in 1 .. Len(longer) /\ longer[n] = i
    BY <1>1, <2>1, LenProperties DEF n
  <2>3. IndexOf(longer, longer[n]) = n
    BY <1>1, <1>2, <2>2, IndexIs
  <2> QED
    BY <2>2, <2>3 DEF n
<1> QED
  BY <1>3 DEF KeepsBlock, longer

\* A queue that loses an entry.
LEMMA WithoutKeepsBlock ==
  ASSUME NEW S, NEW queue \in Seq(S), NEW promoted, NEW entry,
         Ordered(queue, promoted), promoted \subseteq ToSet(queue)
  PROVE  KeepsBlock(queue, promoted, Without(queue, entry), promoted \ {entry})
<1> DEFINE rest == Without(queue, entry)
           n == IndexOf(queue, entry)
<1>1. CASE entry \notin ToSet(queue)
  BY <1>1 DEF Without, KeepsBlock
<1>2. CASE entry \in ToSet(queue)
  <2>1. n \in 1 .. Len(queue) /\ queue[n] = entry
    BY <1>2, IndexOfEntry
  <2>2. rest = RemoveAt(queue, n)
    BY <1>2 DEF Without
  <2>3. Ordered(rest, promoted)
    BY WithoutOrdered
  <2> HIDE DEF n, rest
  <2>4. /\ rest \in Seq(S)
        /\ Len(rest) = Len(queue) - 1
        /\ \A j \in 1 .. Len(queue) - 1 :
             rest[j] = IF j < n THEN queue[j] ELSE queue[j + 1]
    BY <2>1, <2>2, RemoveAtPlaces
  <2>5. Len(queue) \in Nat
    BY LenProperties
  <2>6. ASSUME NEW i \in promoted \ {entry}
        PROVE  /\ IndexOf(queue, i) \in (1 .. Len(queue)) \ {n}
               /\ IndexOf(rest, i) = IF IndexOf(queue, i) < n THEN IndexOf(queue, i)
                                     ELSE IndexOf(queue, i) - 1
    <3> DEFINE k == IndexOf(queue, i)
               l == IF k < n THEN k ELSE k - 1
    <3>1. k \in 1 .. Len(queue) /\ queue[k] = i
      BY IndexOfEntry
    <3> HIDE DEF k
    <3>2. k # n
      BY <2>1, <3>1
    <3>3. l \in 1 .. Len(queue) - 1 /\ rest[l] = i
      BY <2>1, <2>4, <2>5, <3>1, <3>2
    <3> HIDE DEF l
    <3>4. IndexOf(rest, rest[l]) = l
      BY <2>3, <2>4, <3>3, IndexIs
    <3> QED
      BY <3>1, <3>2, <3>3, <3>4 DEF k, l
  <2>7. ASSUME NEW i \in promoted \ {entry}, NEW j \in promoted \ {entry},
               IndexOf(queue, i) < IndexOf(queue, j)
        PROVE  IndexOf(rest, i) < IndexOf(rest, j)
    <3> DEFINE a == IndexOf(queue, i)
               b == IndexOf(queue, j)
    <3>1. /\ a \in (1 .. Len(queue)) \ {n}
          /\ IndexOf(rest, i) = IF a < n THEN a ELSE a - 1
      BY <2>6
    <3>2. /\ b \in (1 .. Len(queue)) \ {n}
          /\ IndexOf(rest, j) = IF b < n THEN b ELSE b - 1
      BY <2>6
    <3>3. a < b
      BY <2>7
    <3> HIDE DEF a, b
    <3> QED
      BY <2>1, <2>5, <3>1, <3>2, <3>3
  <2> QED
    BY <2>7 DEF KeepsBlock, rest
<1> QED
  BY <1>1, <1>2

\* A queue that loses its head.
LEMMA TailKeepsBlock ==
  ASSUME NEW S, NEW queue \in Seq(S), NEW promoted,
         Ordered(queue, promoted), promoted \subseteq ToSet(queue), queue # <<>>
  PROVE  KeepsBlock(queue, promoted, Tail(queue), promoted \ {Head(queue)})
<1> DEFINE rest == Tail(queue)
<1>1. /\ rest \in Seq(S)
      /\ Len(rest) = Len(queue) - 1
      /\ \A j \in 1 .. Len(rest) : rest[j] = queue[j + 1]
  BY HeadTailProperties
<1>2. Head(queue) = queue[1]
  OBVIOUS
<1>3. Ordered(rest, promoted)
  BY TailOrdered
<1> HIDE DEF rest
<1>4. Len(queue) \in Nat
  BY LenProperties
<1>5. ASSUME NEW i \in promoted \ {Head(queue)}
      PROVE  /\ IndexOf(queue, i) \in 1 .. Len(queue)
             /\ IndexOf(rest, i) = IndexOf(queue, i) - 1
  <2> DEFINE k == IndexOf(queue, i)
             l == k - 1
  <2>1. k \in 1 .. Len(queue) /\ queue[k] = i
    BY IndexOfEntry
  <2> HIDE DEF k
  <2>2. l \in 1 .. Len(rest) /\ rest[l] = i
    BY <1>1, <1>2, <1>4, <2>1
  <2> HIDE DEF l
  <2>3. IndexOf(rest, rest[l]) = l
    BY <1>1, <1>3, <2>2, IndexIs
  <2> QED
    BY <2>1, <2>2, <2>3 DEF k, l
<1>6. ASSUME NEW i \in promoted \ {Head(queue)}, NEW j \in promoted \ {Head(queue)},
             IndexOf(queue, i) < IndexOf(queue, j)
      PROVE  IndexOf(rest, i) < IndexOf(rest, j)
  <2> DEFINE a == IndexOf(queue, i)
             b == IndexOf(queue, j)
  <2>1. a \in 1 .. Len(queue) /\ IndexOf(rest, i) = a - 1
    BY <1>5
  <2>2. b \in 1 .. Len(queue) /\ IndexOf(rest, j) = b - 1
    BY <1>5
  <2>3. a < b
    BY <1>6
  <2> HIDE DEF a, b
  <2> QED
    BY <1>4, <2>1, <2>2, <2>3
<1> QED
  BY <1>6 DEF KeepsBlock, rest

\* Prioritizing puts the entry after all that were promoted before.
LEMMA PromoteInKeepsBlock ==
  ASSUME NEW S, NEW queue \in Seq(S), NEW promoted,
         NEW entry \in ToSet(queue) \ promoted,
         Ordered(queue, promoted), promoted \subseteq ToSet(queue)
  PROVE  KeepsBlock(queue, promoted, PromoteIn(queue, promoted, entry), promoted \cup {entry})
<1> DEFINE rest == Without(queue, entry)
           c == Cardinality({j \in DOMAIN queue : queue[j] \in promoted})
           longer == PromoteIn(queue, promoted, entry)
<1>1. PromotedPlaces(S, queue, promoted, entry, rest, c, longer)
  BY PromoteInPlaces
<1>2. Ordered(longer, promoted \cup {entry})
  BY PromoteInOrdered
<1>3. \A k \in 1 .. Len(queue) : queue[k] \in promoted <=> k <= c
  BY BlockIsPrefix
<1>4. /\ IndexOf(queue, entry) \in 1 .. Len(queue) /\ queue[IndexOf(queue, entry)] = entry
      /\ rest = RemoveAt(queue, IndexOf(queue, entry))
  BY IndexOfEntry DEF Without
<1> DEFINE n == IndexOf(queue, entry)
<1> HIDE DEF rest, c, longer, n
<1>5. n \in 1 .. Len(queue) /\ queue[n] = entry /\ rest = RemoveAt(queue, n)
  BY <1>4 DEF n
<1>6. \A j \in 1 .. Len(queue) - 1 :
        rest[j] = IF j < n THEN queue[j] ELSE queue[j + 1]
  BY <1>5, RemoveAtPlaces
<1>7. /\ c \in 0 .. Len(queue) - 1
      /\ longer \in Seq(S) /\ DOMAIN longer = 1 .. Len(queue)
      /\ longer[c + 1] = entry
  BY <1>1 DEF PromotedPlaces
<1>8. \A j \in 1 .. c : j \in 1 .. Len(queue) - 1 /\ longer[j] = rest[j]
  BY <1>1 DEF PromotedPlaces
<1>9. Len(queue) \in Nat /\ Len(longer) = Len(queue)
  <2>1. Len(queue) \in Nat
    BY LenProperties
  <2> QED
    BY <1>7, <2>1, LenProperties
<1>10. c < n
  BY <1>3, <1>5, <1>7, <1>9
<1>11. IndexOf(longer, entry) = c + 1
  <2> DEFINE l == c + 1
  <2>1. l \in 1 .. Len(longer) /\ longer[l] = entry
    BY <1>7, <1>9
  <2> HIDE DEF l
  <2>2. IndexOf(longer, longer[l]) = l
    BY <1>2, <1>7, <2>1, IndexIs
  <2> QED
    BY <2>1, <2>2 DEF l
<1>12. ASSUME NEW i \in promoted
       PROVE  IndexOf(queue, i) \in 1 .. c /\ IndexOf(longer, i) = IndexOf(queue, i)
  <2> DEFINE k == IndexOf(queue, i)
  <2>1. k \in 1 .. Len(queue) /\ queue[k] = i
    BY IndexOfEntry
  <2> HIDE DEF k
  <2>2. k \in 1 .. c
    BY <1>3, <1>7, <1>9, <2>1
  <2>3. longer[k] = i
    BY <1>6, <1>8, <1>9, <1>10, <1>7, <1>5, <2>1, <2>2
  <2>4. IndexOf(longer, longer[k]) = k
    BY <1>2, <1>7, <1>9, <2>1, IndexIs
  <2> QED
    BY <2>2, <2>3, <2>4 DEF k
<1>13. ASSUME NEW i \in promoted
       PROVE  IndexOf(longer, i) < IndexOf(longer, entry)
  BY <1>7, <1>9, <1>11, <1>12
<1>14. ASSUME NEW i \in promoted, NEW j \in promoted, IndexOf(queue, i) < IndexOf(queue, j)
       PROVE  IndexOf(longer, i) < IndexOf(longer, j)
  BY <1>12, <1>14
<1> QED
  BY <1>13, <1>14 DEF KeepsBlock, longer

\* Moving past a plain neighbour: the promoted entries stay where they are.
LEMMA ReorderedKeepsBlock ==
  ASSUME NEW S, NEW queue \in Seq(S), NEW promoted, NEW entry, NEW up \in BOOLEAN,
         CanReorder(queue, promoted, entry, up), Ordered(queue, promoted),
         promoted \subseteq ToSet(queue)
  PROVE  KeepsBlock(queue, promoted, Reordered(queue, promoted, entry, up), promoted)
<1> DEFINE here == IndexOf(queue, entry)
           near == PlainNeighbours(queue, promoted, entry, up)
           there == IF up THEN Max(near) ELSE Min(near)
           moved == Reordered(queue, promoted, entry, up)
<1>1. /\ here \in 1 .. Len(queue) /\ queue[here] = entry
      /\ there \in near /\ there \in 1 .. Len(queue)
      /\ moved \in Seq(S)
      /\ Len(moved) = Len(queue)
      /\ \A j \in 1 .. Len(queue) :
           moved[j] = IF j = there THEN entry
                      ELSE IF j = here THEN queue[there] ELSE queue[j]
  <2> HIDE DEF here, near, there, moved
  <2> QED
    BY ReorderedPlaces DEF here, near, there, moved
<1>2. queue[here] \notin promoted /\ queue[there] \notin promoted
  BY <1>1 DEF CanReorder, PlainNeighbours
<1>3. Ordered(moved, promoted)
  BY ReorderedOrdered
<1> HIDE DEF here, near, there, moved
<1>4. ASSUME NEW i \in promoted
      PROVE  IndexOf(moved, i) = IndexOf(queue, i)
  <2> DEFINE k == IndexOf(queue, i)
  <2>1. k \in 1 .. Len(queue) /\ queue[k] = i
    BY IndexOfEntry
  <2> HIDE DEF k
  <2>2. k \in 1 .. Len(moved) /\ moved[k] = i
    BY <1>1, <1>2, <2>1
  <2>3. IndexOf(moved, moved[k]) = k
    BY <1>1, <1>3, <2>2, IndexIs
  <2> QED
    BY <2>2, <2>3 DEF k
<1> QED
  BY <1>4 DEF KeepsBlock, moved

-----------------------------------------------------------------------------
(* Sorted queues *)


(* R compares any two members of S, in one direction, and transitively.    *)
StrictOrder(R, S) ==
  /\ \A x \in S : <<x, x>> \notin R
  /\ \A x, y \in S : x = y \/ <<x, y>> \in R \/ <<y, x>> \in R
  /\ \A x, y, z \in S : <<x, y>> \in R /\ <<y, z>> \in R => <<x, z>> \in R

Increasing(queue, R) ==
  \A j, k \in DOMAIN queue : j < k => <<queue[j], queue[k]>> \in R

(* The queue holds the members of S, in the order of R.                    *)
Sorts(queue, S, R) ==
  /\ queue \in Seq(S)
  /\ ToSet(queue) = S
  /\ Increasing(queue, R)

-----------------------------------------------------------------------------
(* There is one sorted queue *)

\* A sorted queue has an entry at as many places as there are entries.
LEMMA SortedIsCounted ==
  ASSUME NEW S, NEW R, StrictOrder(R, S), NEW queue, Sorts(queue, S, R)
  PROVE  /\ IsFiniteSet(S) /\ Cardinality(S) = Len(queue)
         /\ queue \in [1 .. Cardinality(S) -> S]
<1>1. /\ Len(queue) \in Nat /\ DOMAIN queue = 1 .. Len(queue)
      /\ queue \in [1 .. Len(queue) -> S]
  BY LenProperties DEF Sorts
<1>2. \A j, k \in 1 .. Len(queue) : queue[j] = queue[k] => j = k
  <2> SUFFICES ASSUME NEW j \in 1 .. Len(queue), NEW k \in 1 .. Len(queue), j < k
               PROVE  queue[j] # queue[k]
    BY <1>1
  <2>1. queue[j] \in S /\ <<queue[j], queue[k]>> \in R
    BY <1>1 DEF Sorts, Increasing
  <2> QED
    BY <2>1 DEF StrictOrder
<1>3. \A x \in S : \E j \in 1 .. Len(queue) : queue[j] = x
  BY <1>1 DEF Sorts, ToSet
<1>4. queue \in Bijection(1 .. Len(queue), S)
  BY <1>1, <1>2, <1>3 DEF Bijection, Injection, Surjection, IsInjective
<1>5. ExistsBijection(1 .. Len(queue), S)
  BY <1>4 DEF ExistsBijection
<1>6. IsFiniteSet(S) /\ Cardinality(S) = Len(queue)
  BY <1>1, <1>5, FS_NatBijection, FS_CountingElements
<1> QED
  BY <1>1, <1>6

\* Two sorted queues with the same entries are the same.
LEMMA SortedIsUnique ==
  ASSUME NEW S, NEW R, StrictOrder(R, S), NEW p, Sorts(p, S, R), NEW q, Sorts(q, S, R)
  PROVE  p = q
<1> DEFINE n == Cardinality(S)
<1>1. /\ n \in Nat
      /\ p \in [1 .. n -> S] /\ Len(p) = n /\ q \in [1 .. n -> S] /\ Len(q) = n
  BY SortedIsCounted, LenProperties DEF Sorts
<1>2. /\ \A x \in S : (\E j \in 1 .. n : p[j] = x) /\ (\E j \in 1 .. n : q[j] = x)
      /\ \A j, k \in 1 .. n : j < k => <<p[j], p[k]>> \in R /\ <<q[j], q[k]>> \in R
  <2>1. DOMAIN p = 1 .. n /\ DOMAIN q = 1 .. n
    BY <1>1
  <2> QED
    BY <2>1 DEF Sorts, ToSet, Increasing
<1> HIDE DEF n
<1>3. \A j \in 1 .. n : p[j] = q[j]
  <2> DEFINE T == {j \in 1 .. n : p[j] # q[j]}
  <2> SUFFICES ASSUME T # {} PROVE FALSE
    OBVIOUS
  <2>1. PICK j \in T : \A k \in T : j <= k
    <3>1. T \in SUBSET Nat
      OBVIOUS
    <3> HIDE DEF T
    <3> QED
      BY <3>1, LeastNatural
  <2>2. \A k \in 1 .. n : k < j => p[k] = q[k]
    BY <1>1, <2>1
  <2>3. p[j] \in S /\ q[j] \in S /\ p[j] # q[j] /\ j \in 1 .. n
    BY <1>1, <2>1
  <2>4. PICK k \in 1 .. n : p[k] = q[j]
    BY <1>2, <2>3
  <2>5. PICK m \in 1 .. n : q[m] = p[j]
    BY <1>2, <2>3
  <2>6. j < k
    <3>1. k # j
      BY <2>3, <2>4
    <3>2. CASE k < j
      <4>1. q[k] = q[j] /\ <<q[k], q[j]>> \in R
        BY <1>2, <2>2, <2>3, <2>4, <3>2
      <4> QED
        BY <2>3, <4>1 DEF StrictOrder
    <3> QED
      BY <1>1, <2>3, <3>1, <3>2
  <2>7. j < m
    <3>1. m # j
      BY <2>3, <2>5
    <3>2. CASE m < j
      <4>1. p[m] = p[j] /\ <<p[m], p[j]>> \in R
        BY <1>2, <2>2, <2>3, <2>5, <3>2
      <4> QED
        BY <2>3, <4>1 DEF StrictOrder
    <3> QED
      BY <1>1, <2>3, <3>1, <3>2
  <2>8. <<p[j], q[j]>> \in R /\ <<q[j], p[j]>> \in R
    BY <1>2, <2>3, <2>4, <2>5, <2>6, <2>7
  <2> QED
    BY <2>3, <2>8 DEF StrictOrder
<1> QED
  BY <1>1, <1>3

\* A finite set has a sorted queue: each member goes to the place that the
\* number of its predecessors gives.
LEMMA SortedExists ==
  ASSUME NEW S, NEW R, IsFiniteSet(S), StrictOrder(R, S)
  PROVE  \E queue : Sorts(queue, S, R)
<1> DEFINE n == Cardinality(S)
           before(x) == {y \in S : <<y, x>> \in R}
           place == [x \in S |-> Cardinality(before(x)) + 1]
<1>1. n \in Nat
  BY FS_CardinalityType
<1>2. ASSUME NEW x \in S
      PROVE  IsFiniteSet(before(x)) /\ Cardinality(before(x)) \in 0 .. n - 1
  <2>1. before(x) \in SUBSET (S \ {x})
    BY DEF StrictOrder
  <2>2. IsFiniteSet(S \ {x}) /\ Cardinality(S \ {x}) = n - 1
    BY FS_RemoveElement
  <2> HIDE DEF before, n
  <2>3. IsFiniteSet(before(x)) /\ Cardinality(before(x)) <= n - 1
    BY <2>1, <2>2, FS_Subset
  <2>4. Cardinality(before(x)) \in Nat
    BY <2>3, FS_CardinalityType
  <2> QED
    BY <1>1, <2>3, <2>4
<1> HIDE DEF before, n
<1>3. ASSUME NEW x \in S, NEW y \in S, <<x, y>> \in R
      PROVE  place[x] < place[y]
  <2>1. before(x) \in SUBSET before(y) /\ x \in before(y) /\ x \notin before(x)
    BY <1>3 DEF StrictOrder, before
  <2>2. /\ IsFiniteSet(before(y))
        /\ Cardinality(before(x)) \in Int /\ Cardinality(before(y)) \in Int
    BY <1>1, <1>2
  <2>3. /\ Cardinality(before(x)) <= Cardinality(before(y))
        /\ Cardinality(before(x)) # Cardinality(before(y))
    BY <2>1, <2>2, FS_Subset
  <2>4. place[x] = Cardinality(before(x)) + 1 /\ place[y] = Cardinality(before(y)) + 1
    OBVIOUS
  <2> QED
    BY <2>2, <2>3, <2>4
<1>4. place \in [S -> 1 .. n]
  <2>1. \A x \in S : Cardinality(before(x)) + 1 \in 1 .. n
    BY <1>1, <1>2
  <2> QED
    BY <2>1
<1> HIDE DEF place
<1>5. \A x, y \in S : x = y \/ place[x] # place[y]
  <2> SUFFICES ASSUME NEW x \in S, NEW y \in S, x # y PROVE place[x] # place[y]
    OBVIOUS
  <2>1. place[x] \in Int /\ place[y] \in Int
    BY <1>1, <1>4
  <2>2. place[x] < place[y] \/ place[y] < place[x]
    BY <1>3 DEF StrictOrder
  <2> QED
    BY <2>1, <2>2
<1>6. place \in Injection(S, 1 .. n)
  BY <1>4, <1>5 DEF Injection, IsInjective
<1>7. IsFiniteSet(1 .. n) /\ Cardinality(1 .. n) = n
  BY <1>1, FS_Interval
<1>8. place \in Surjection(S, 1 .. n)
  BY <1>6, <1>7, FS_Injection DEF n
<1>9. \A j \in 1 .. n : \E x \in S : place[x] = j
  BY <1>8 DEF Surjection
<1> DEFINE queue == [j \in 1 .. n |-> CHOOSE x \in S : place[x] = j]
<1>10. \A j \in 1 .. n : queue[j] \in S /\ place[queue[j]] = j
  BY <1>9
<1>11. queue \in [1 .. n -> S] /\ DOMAIN queue = 1 .. n
  BY <1>10
<1> HIDE DEF queue
<1>12. queue \in Seq(S)
  BY <1>1, <1>11
<1>13. \A x \in S : place[x] \in 1 .. n /\ queue[place[x]] = x
  BY <1>4, <1>5, <1>10
<1>14. ToSet(queue) = S
  BY <1>11, <1>13 DEF ToSet
<1>15. Increasing(queue, R)
  <2> SUFFICES ASSUME NEW j \in 1 .. n, NEW k \in 1 .. n, j < k
               PROVE  <<queue[j], queue[k]>> \in R
    BY <1>11 DEF Increasing
  <2>1. queue[j] \in S /\ queue[k] \in S /\ place[queue[j]] = j /\ place[queue[k]] = k
    BY <1>10
  <2>2. queue[j] # queue[k] /\ ~ (<<queue[k], queue[j]>> \in R)
    BY <1>1, <1>3, <2>1
  <2> QED
    BY <2>1, <2>2 DEF StrictOrder
<1> QED
  BY <1>12, <1>14, <1>15 DEF Sorts

\* A list of as many members as there are, in order, is sorted: it misses none.
LEMMA ListingSorts ==
  ASSUME NEW S, NEW R, IsFiniteSet(S), StrictOrder(R, S),
         NEW listing \in [1 .. Cardinality(S) -> S],
         \A j, k \in 1 .. Cardinality(S) : j < k => <<listing[j], listing[k]>> \in R
  PROVE  Sorts(listing, S, R)
<1> DEFINE n == Cardinality(S)
<1>1. n \in Nat /\ DOMAIN listing = 1 .. n
  BY FS_CardinalityType
<1>2. listing \in Seq(S)
  BY <1>1
<1>3. \A j, k \in 1 .. n : listing[j] = listing[k] => j = k
  <2> SUFFICES ASSUME NEW j \in 1 .. n, NEW k \in 1 .. n, j < k
               PROVE  listing[j] # listing[k]
    BY <1>1
  <2>1. listing[j] \in S /\ <<listing[j], listing[k]>> \in R
    OBVIOUS
  <2> QED
    BY <2>1 DEF StrictOrder
<1>4. listing \in Injection(1 .. n, S)
  BY <1>3 DEF Injection, IsInjective
<1>5. IsFiniteSet(1 .. n) /\ Cardinality(1 .. n) = n
  BY <1>1, FS_Interval
<1> HIDE DEF n
<1>6. listing \in Surjection(1 .. n, S)
  BY <1>4, <1>5, FS_Injection DEF n
<1>7. ToSet(listing) = S
  BY <1>1, <1>6 DEF Surjection, ToSet
<1> QED
  BY <1>1, <1>2, <1>7 DEF Sorts, Increasing, n

-----------------------------------------------------------------------------
(* The operations lead to sorted queues *)

\* An entry that follows all others joins at the end.
LEMMA AppendSorts ==
  ASSUME NEW S, NEW R, NEW queue, Sorts(queue, S, R), NEW entry, entry \notin S, NEW Q,
         \A x, y \in S : <<x, y>> \in R => <<x, y>> \in Q,
         \A x \in S : <<x, entry>> \in Q
  PROVE  Sorts(Append(queue, entry), S \cup {entry}, Q)
<1> DEFINE longer == Append(queue, entry)
<1>1. /\ queue \in Seq(S) /\ queue \in Seq(S \cup {entry})
      /\ Len(queue) \in Nat /\ DOMAIN queue = 1 .. Len(queue)
      /\ \A j \in 1 .. Len(queue) : queue[j] \in S
  BY LenProperties, ElementOfSeq DEF Sorts
<1>2. /\ longer \in Seq(S \cup {entry})
      /\ DOMAIN longer = 1 .. Len(queue) + 1
      /\ \A j \in 1 .. Len(queue) : longer[j] = queue[j]
      /\ longer[Len(queue) + 1] = entry
  BY <1>1, AppendProperties, LenProperties
<1> HIDE DEF longer
<1>3. ToSet(longer) = S \cup {entry}
  <2>1. S = {queue[j] : j \in 1 .. Len(queue)}
    BY <1>1 DEF Sorts, ToSet
  <2>2. ToSet(longer) = {longer[j] : j \in 1 .. Len(queue) + 1}
    BY <1>2 DEF ToSet
  <2>3. \A j \in 1 .. Len(queue) + 1 : j \in 1 .. Len(queue) \/ j = Len(queue) + 1
    BY <1>1
  <2>4. \A j \in 1 .. Len(queue) : j \in 1 .. Len(queue) + 1
    BY <1>1
  <2>5. Len(queue) + 1 \in 1 .. Len(queue) + 1
    BY <1>1
  <2> QED
    BY <1>2, <2>1, <2>2, <2>3, <2>4, <2>5
<1>4. Increasing(longer, Q)
  <2> SUFFICES ASSUME NEW j \in 1 .. Len(queue) + 1, NEW k \in 1 .. Len(queue) + 1, j < k
               PROVE  <<longer[j], longer[k]>> \in Q
    BY <1>2 DEF Increasing
  <2>1. j \in 1 .. Len(queue)
    BY <1>1
  <2>2. CASE k = Len(queue) + 1
    BY <1>1, <1>2, <2>1, <2>2
  <2>3. CASE k \in 1 .. Len(queue)
    <3>1. <<queue[j], queue[k]>> \in R
      BY <1>1, <2>1, <2>3 DEF Sorts, Increasing
    <3> QED
      BY <1>1, <1>2, <2>1, <2>3, <3>1
  <2> QED
    BY <1>1, <2>2, <2>3
<1> QED
  BY <1>2, <1>3, <1>4 DEF Sorts, longer

\* A sorted queue has no entry twice.
LEMMA SortedHasNoRepeats ==
  ASSUME NEW S, NEW R, StrictOrder(R, S), NEW queue, Sorts(queue, S, R)
  PROVE  /\ Ordered(queue, {})
         /\ \A j, k \in 1 .. Len(queue) : queue[j] = queue[k] => j = k
<1>1. /\ Len(queue) \in Nat /\ DOMAIN queue = 1 .. Len(queue)
      /\ \A j \in 1 .. Len(queue) : queue[j] \in S
  BY LenProperties, ElementOfSeq DEF Sorts
<1>2. \A j, k \in 1 .. Len(queue) : j < k => queue[j] # queue[k]
  BY <1>1 DEF Sorts, Increasing, StrictOrder
<1> QED
  BY <1>1, <1>2 DEF Ordered

\* The others keep their order when an entry leaves.
LEMMA WithoutSorts ==
  ASSUME NEW S, NEW R, StrictOrder(R, S), NEW queue, Sorts(queue, S, R), NEW entry \in S,
         NEW Q, \A x, y \in S \ {entry} : <<x, y>> \in R => <<x, y>> \in Q
  PROVE  Sorts(Without(queue, entry), S \ {entry}, Q)
<1> DEFINE n == IndexOf(queue, entry)
           rest == Without(queue, entry)
           from(j) == IF j < n THEN j ELSE j + 1
<1>1. /\ queue \in Seq(S) /\ ToSet(queue) = S
      /\ Len(queue) \in Nat /\ DOMAIN queue = 1 .. Len(queue)
      /\ \A j \in 1 .. Len(queue) : queue[j] \in S
  BY LenProperties, ElementOfSeq DEF Sorts
<1>2. n \in 1 .. Len(queue) /\ queue[n] = entry
  BY <1>1, IndexOfEntry
<1>3. /\ rest \in Seq(S) /\ Len(rest) = Len(queue) - 1
      /\ \A j \in 1 .. Len(queue) - 1 : rest[j] = IF j < n THEN queue[j] ELSE queue[j + 1]
  BY <1>1, <1>2, RemoveAtPlaces DEF Without
<1> HIDE DEF n, rest
<1>4. /\ DOMAIN rest = 1 .. Len(queue) - 1
      /\ \A j \in 1 .. Len(queue) - 1 : from(j) \in 1 .. Len(queue) /\ rest[j] = queue[from(j)]
      /\ \A j, k \in 1 .. Len(queue) - 1 : j < k => from(j) < from(k)
  BY <1>1, <1>2, <1>3, LenProperties
<1>5. ToSet(rest) = S \ {entry}
  BY <1>1, WithoutOrdered, SortedHasNoRepeats DEF rest
<1>6. rest \in Seq(S \ {entry})
  <2>1. \A j \in 1 .. Len(rest) : rest[j] \in S \ {entry}
    BY <1>3, <1>4, <1>5 DEF ToSet
  <2>2. Len(rest) \in Nat /\ rest \in [1 .. Len(rest) -> S \ {entry}]
    BY <1>3, <2>1, LenProperties
  <2> QED
    BY <2>2
<1>7. Increasing(rest, Q)
  <2> SUFFICES ASSUME NEW j \in 1 .. Len(queue) - 1, NEW k \in 1 .. Len(queue) - 1, j < k
               PROVE  <<rest[j], rest[k]>> \in Q
    BY <1>4 DEF Increasing
  <2>1. from(j) \in DOMAIN queue /\ from(k) \in DOMAIN queue /\ from(j) < from(k)
    BY <1>1, <1>4
  <2> HIDE DEF from
  <2>2. <<queue[from(j)], queue[from(k)]>> \in R
    BY <2>1 DEF Sorts, Increasing
  <2>3. rest[j] \in S \ {entry} /\ rest[k] \in S \ {entry}
    BY <1>4, <1>5 DEF ToSet
  <2> QED
    BY <1>4, <2>2, <2>3
<1> QED
  BY <1>5, <1>6, <1>7 DEF Sorts, rest

\* Prioritizing: the entry follows the block and precedes the plain entries.
LEMMA PromoteInSorts ==
  ASSUME NEW S, NEW R, StrictOrder(R, S), NEW queue, Sorts(queue, S, R),
         NEW promoted, Ordered(queue, promoted), NEW entry \in S \ promoted,
         NEW Q, \A x, y \in S \ {entry} : <<x, y>> \in R => <<x, y>> \in Q,
         \A x \in S \ {entry} : IF x \in promoted THEN <<x, entry>> \in Q
                                                  ELSE <<entry, x>> \in Q
  PROVE  Sorts(PromoteIn(queue, promoted, entry), S, Q)
<1> DEFINE n == Len(queue)
           rest == Without(queue, entry)
           c == Cardinality({j \in DOMAIN queue : queue[j] \in promoted})
           longer == PromoteIn(queue, promoted, entry)
<1>1. queue \in Seq(S) /\ ToSet(queue) = S /\ n \in Nat
  BY LenProperties DEF Sorts
<1>2. Sorts(rest, S \ {entry}, Q)
  BY WithoutSorts
<1>3. PromotedPlaces(S, queue, promoted, entry, rest, c, longer)
  BY <1>1, PromoteInPlaces
<1>4. ToSet(longer) = S
  BY <1>1, PromoteInOrdered
<1> HIDE DEF rest, c, longer
<1>5. c \in 0 .. n - 1 /\ longer \in Seq(S) /\ DOMAIN longer = 1 .. n
  BY <1>3 DEF PromotedPlaces
<1>6. DOMAIN rest = 1 .. n - 1 /\ \A j \in 1 .. n - 1 : rest[j] \in promoted <=> j <= c
  BY <1>3 DEF PromotedPlaces
<1>7. /\ \A j \in 1 .. c : j \in 1 .. n - 1 /\ longer[j] = rest[j]
      /\ longer[c + 1] = entry
      /\ \A j \in c + 2 .. n : j - 1 \in 1 .. n - 1 /\ longer[j] = rest[j - 1]
  BY <1>3 DEF PromotedPlaces
<1>8. /\ \A j \in 1 .. n - 1 : rest[j] \in S \ {entry}
      /\ \A j, k \in 1 .. n - 1 : j < k => <<rest[j], rest[k]>> \in Q
  BY <1>2, <1>6 DEF Sorts, Increasing, ToSet
<1> HIDE DEF n
<1>9. ASSUME NEW j \in 1 .. n, NEW k \in 1 .. n, j < k
      PROVE  <<longer[j], longer[k]>> \in Q
  <2>1. CASE k <= c
    <3>1. j \in 1 .. c /\ k \in 1 .. c
      BY <1>1, <1>5, <1>9, <2>1
    <3> QED
      BY <1>7, <1>8, <1>9, <3>1
  <2>2. CASE k = c + 1
    <3>1. j \in 1 .. c
      BY <1>1, <1>5, <1>9, <2>2
    <3>2. j \in 1 .. n - 1 /\ longer[j] = rest[j] /\ longer[k] = entry
      BY <1>7, <2>2, <3>1
    <3>3. rest[j] \in promoted /\ rest[j] \in S \ {entry}
      BY <1>6, <1>8, <3>1, <3>2
    <3> QED
      BY <3>2, <3>3
  <2>3. CASE k > c + 1
    <3>1. k \in c + 2 .. n /\ k - 1 > c
      BY <1>1, <1>5, <1>9, <2>3
    <3>2. k - 1 \in 1 .. n - 1 /\ longer[k] = rest[k - 1]
      BY <1>7, <3>1
    <3>3. CASE j <= c
      <4>1. j \in 1 .. c /\ j < k - 1
        BY <1>1, <1>5, <1>9, <3>1, <3>3
      <4> QED
        BY <1>7, <1>8, <3>2, <4>1
    <3>4. CASE j = c + 1
      <4>1. rest[k - 1] \notin promoted /\ rest[k - 1] \in S \ {entry}
        BY <1>5, <1>6, <1>8, <3>1, <3>2
      <4> QED
        BY <1>7, <3>2, <3>4, <4>1
    <3>5. CASE j > c + 1
      <4>1. j \in c + 2 .. n /\ j - 1 < k - 1
        BY <1>1, <1>5, <1>9, <3>5
      <4> QED
        BY <1>7, <1>8, <3>2, <4>1
    <3> QED
      BY <1>1, <1>5, <3>3, <3>4, <3>5
  <2> QED
    BY <1>1, <1>5, <2>1, <2>2, <2>3
<1>10. Increasing(longer, Q)
  BY <1>5, <1>9 DEF Increasing
<1>11. Sorts(longer, S, Q)
  BY <1>4, <1>5, <1>10 DEF Sorts
<1> QED
  BY <1>11 DEF longer

\* Entries that change places: what the map of entries does to the order.
LEMMA ExchangedSorts ==
  ASSUME NEW S, NEW R, NEW queue, Sorts(queue, S, R),
         NEW moved \in Seq(S), Len(moved) = Len(queue), ToSet(moved) = S,
         NEW to, \A j \in 1 .. Len(queue) : moved[j] = to[queue[j]],
         NEW Q, \A x, y \in S : <<x, y>> \in R => <<to[x], to[y]>> \in Q
  PROVE  Sorts(moved, S, Q)
<1>1. /\ queue \in Seq(S) /\ Len(queue) \in Nat
      /\ DOMAIN queue = 1 .. Len(queue) /\ DOMAIN moved = 1 .. Len(queue)
      /\ \A j \in 1 .. Len(queue) : queue[j] \in S
  BY LenProperties, ElementOfSeq DEF Sorts
<1>2. \A j, k \in 1 .. Len(queue) : j < k => <<queue[j], queue[k]>> \in R
  BY <1>1 DEF Sorts, Increasing
<1>3. Increasing(moved, Q)
  <2> SUFFICES ASSUME NEW j \in 1 .. Len(queue), NEW k \in 1 .. Len(queue), j < k
               PROVE  <<moved[j], moved[k]>> \in Q
    BY <1>1 DEF Increasing
  <2>1. /\ queue[j] \in S /\ queue[k] \in S /\ <<queue[j], queue[k]>> \in R
        /\ moved[j] = to[queue[j]] /\ moved[k] = to[queue[k]]
    BY <1>1, <1>2
  <2> QED
    BY <2>1
<1> QED
  BY <1>3 DEF Sorts

-----------------------------------------------------------------------------
(* The greatest of finitely many numbers *)

\* A finite, non-empty set of numbers has a greatest one.
LEMMA GreatestNatural ==
  ASSUME NEW T \in SUBSET Nat, IsFiniteSet(T), T # {}
  PROVE  \E n \in T : \A m \in T : m <= n
<1> DEFINE R == {r \in T \X T : r[1] < r[2]}
<1>1. StrictOrder(R, T)
  BY DEF StrictOrder
<1>2. PICK queue : Sorts(queue, T, R)
  BY <1>1, SortedExists
<1> DEFINE last == Len(queue)
<1>3. queue \in Seq(T) /\ last \in Nat /\ DOMAIN queue = 1 .. last
  BY <1>2, LenProperties DEF Sorts
<1>4. /\ \A j \in 1 .. last : queue[j] \in T
      /\ \A x \in T : \E j \in 1 .. last : queue[j] = x
  BY <1>2, <1>3 DEF Sorts, ToSet
<1>5. \A j, k \in 1 .. last : j < k => <<queue[j], queue[k]>> \in R
  BY <1>2, <1>3 DEF Sorts, Increasing
<1>6. \A a, b : <<a, b>> \in R => a < b
  OBVIOUS
<1> HIDE DEF R, last
<1>7. last \in 1 .. last /\ \A j \in 1 .. last : j = last \/ j < last
  <2>1. PICK t \in T : TRUE
    OBVIOUS
  <2>2. PICK j \in 1 .. last : queue[j] = t
    BY <1>4
  <2>3. last \in Nat
    BY <1>3
  <2> QED
    BY <2>2, <2>3
<1>8. ASSUME NEW m \in T
      PROVE  m <= queue[last]
  <2>1. PICK j \in 1 .. last : queue[j] = m
    BY <1>4
  <2>2. queue[last] \in Nat /\ m \in Nat
    BY <1>4, <1>7
  <2>3. CASE j = last
    BY <2>1, <2>2, <2>3
  <2>4. CASE j < last
    <3>1. <<queue[j], queue[last]>> \in R
      BY <1>5, <1>7, <2>4
    <3>2. queue[j] < queue[last]
      BY <1>6, <3>1
    <3> QED
      BY <2>1, <2>2, <3>2
  <2> QED
    BY <1>7, <2>3, <2>4
<1> QED
  BY <1>4, <1>7, <1>8

=============================================================================
