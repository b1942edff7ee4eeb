--------------------------- MODULE TurnQueueProofs ---------------------------
(***************************************************************************)
(* Proofs about TurnQueue for every value of its constants: however many   *)
(* turns, keys, lost replies and restarts there are, the mirror shows the  *)
(* rows, a taken turn stays taken, and each transaction of the store       *)
(* changes the delivery order by the operation it was asked for.           *)
(***************************************************************************)
EXTENDS TurnQueue, QueueOrderProofs

-----------------------------------------------------------------------------
(* The inductive invariant *)

\* The table: its sort keys tell the rows apart, and a row that left has none.
TableInv ==
  /\ IsFiniteSet(used)
  /\ \A i, j \in rows : i # j => position[i] # position[j]
  /\ \A i, j \in Promoted : i # j => priority[i] # priority[j]
  /\ \A i \in Ids \ rows : priority[i] = 0

\* The mirror: priorities rise along the block, and an entry that left has none.
MirrorInv ==
  /\ Ordered(mirror, InBlock)
  /\ \A j, k \in DOMAIN mirror :
       j < k /\ mirror[k] \in InBlock => block[mirror[j]] < block[mirror[k]]
  /\ \A i \in Ids \ ToSet(mirror) : block[i] = 0

\* What the running operation found in the mirror still holds when the store
\* answers: nobody else touches the queue meanwhile.
CallInv ==
  /\ call.kind = "push" => /\ call.id \in used \ (executed \cup ToSet(mirror))
                           /\ call.phase = "sent" => call.id \notin rows
  /\ call.kind = "shift" /\ call.phase = "done" => call.id \notin rows
  /\ call.kind \in {"cancel", "shift"} => call.id \in ToSet(mirror)
  /\ call.kind = "promote" => call.id \in ToSet(mirror) \ InBlock
  /\ call.kind \in {"up", "down"} =>
       CanReorder(mirror, InBlock, call.id, call.kind = "up")

\* The operation a call stands for, done to the mirror, and its block after that.
Expected ==
  CASE call.kind = "push" -> Append(mirror, call.id)
    [] call.kind \in {"cancel", "shift"} -> Without(mirror, call.id)
    [] call.kind = "promote" -> PromoteIn(mirror, InBlock, call.id)
    [] OTHER -> Reordered(mirror, InBlock, call.id, call.kind = "up")

ExpectedBlock ==
  CASE call.kind \in {"cancel", "shift"} -> InBlock \ {call.id}
    [] call.kind = "promote" -> InBlock \cup {call.id}
    [] OTHER -> InBlock

\* As long as no reply was lost and no key repeated, the rows are what the mirror
\* shows, or already what it is about to show.
StepInv ==
  spent.lost = 0 /\ spent.repeats = 0 =>
    /\ Sent("push") =>
         \A j \in rows : keyOf[j] # None => keyOf[j] # keyOf[call.id]
    /\ call.phase # "done" => SortedRows = mirror /\ Promoted = InBlock
    /\ call.phase = "done" => SortedRows = Expected /\ Promoted = ExpectedBlock

QueueInv ==
  /\ TypeOK
  /\ TableInv
  /\ MirrorInv
  /\ CallInv
  /\ ExecutedIsGone

-----------------------------------------------------------------------------
(* The sorted rows *)

\* The order of the table, as a relation between its rows.
RowOrder == {r \in rows \X rows : RowBefore(r[1], r[2])}

\* RowOrder holds of the rows that RowBefore says.
LEMMA RowOrderIs ==
  ASSUME NEW a \in rows, NEW b \in rows
  PROVE  <<a, b>> \in RowOrder <=> RowBefore(a, b)
  BY DEF RowOrder

\* The sort keys put any two rows in one order.
LEMMA RowsCompare ==
  TypeOK /\ TableInv => StrictOrder(RowOrder, rows)
<1> SUFFICES ASSUME TypeOK, TableInv PROVE StrictOrder(RowOrder, rows)
  OBVIOUS
<1>1. \A x \in rows : position[x] \in Nat /\ priority[x] \in Nat
  BY DEF TypeOK
<1>2. \A x \in rows : <<x, x>> \notin RowOrder
  BY <1>1, RowOrderIs DEF RowBefore
<1>3. \A x, y \in rows : x = y \/ <<x, y>> \in RowOrder \/ <<y, x>> \in RowOrder
  <2> SUFFICES ASSUME NEW x \in rows, NEW y \in rows, x # y
               PROVE  RowBefore(x, y) \/ RowBefore(y, x)
    BY RowOrderIs
  <2>1. position[x] # position[y]
    BY DEF TableInv
  <2> QED
    BY <1>1, <2>1 DEF RowBefore
<1>4. \A x, y, z \in rows :
        <<x, y>> \in RowOrder /\ <<y, z>> \in RowOrder => <<x, z>> \in RowOrder
  <2> SUFFICES ASSUME NEW x \in rows, NEW y \in rows, NEW z \in rows,
                      RowBefore(x, y), RowBefore(y, z)
               PROVE  RowBefore(x, z)
    BY RowOrderIs
  <2> QED
    BY <1>1 DEF RowBefore
<1> QED
  BY <1>2, <1>3, <1>4 DEF StrictOrder

\* SELECT ... ORDER BY returns the one queue that the sort keys allow.
LEMMA SortedRowsSorts ==
  TypeOK /\ TableInv => Sorts(SortedRows, rows, RowOrder)
<1> SUFFICES ASSUME TypeOK, TableInv PROVE Sorts(SortedRows, rows, RowOrder)
  OBVIOUS
<1>1. StrictOrder(RowOrder, rows)
  BY RowsCompare
<1>2. IsFiniteSet(rows)
  <2>1. IsFiniteSet(used) /\ rows \in SUBSET used
    BY DEF TypeOK, TableInv
  <2> QED
    BY <2>1, FS_Subset
<1>3. PICK queue : Sorts(queue, rows, RowOrder)
  BY <1>1, <1>2, SortedExists
<1> DEFINE n == Cardinality(rows)
           InOrder(q) == \A j, k \in 1 .. n : j < k => RowBefore(q[j], q[k])
<1>4. queue \in [1 .. n -> rows] /\ n \in Nat /\ DOMAIN queue = 1 .. n
  BY <1>1, <1>2, <1>3, SortedIsCounted, FS_CardinalityType
<1>5. InOrder(queue)
  BY <1>3, <1>4, RowOrderIs DEF Sorts, Increasing
<1>6. SortedRows = CHOOSE q \in [1 .. n -> rows] : InOrder(q)
  BY DEF SortedRows, SortedBy
<1> HIDE DEF InOrder
<1>7. SortedRows \in [1 .. n -> rows] /\ InOrder(SortedRows)
  BY <1>4, <1>5, <1>6
<1>8. \A j, k \in 1 .. n : j < k => <<SortedRows[j], SortedRows[k]>> \in RowOrder
  BY <1>7, RowOrderIs DEF InOrder
<1> QED
  BY <1>1, <1>2, <1>7, <1>8, ListingSorts

\* The listing after a step is sorted, too.
LEMMA SortedRowsNext ==
  TypeOK' /\ TableInv' => Sorts(SortedRows', rows', RowOrder') /\ StrictOrder(RowOrder', rows')
<1>1. (TypeOK /\ TableInv => Sorts(SortedRows, rows, RowOrder) /\ StrictOrder(RowOrder, rows))'
  BY SortedRowsSorts, RowsCompare, PTL
<1> QED
  BY <1>1

-----------------------------------------------------------------------------
(* The order of the mirror *)

\* The order of orderQueue, as a relation between the entries.
MirrorOrder(q, prio) ==
  {r \in ToSet(q) \X ToSet(q) :
     \/ prio[r[1]] # 0 /\ prio[r[2]] = 0
     \/ prio[r[1]] # 0 /\ prio[r[1]] < prio[r[2]]
     \/ prio[r[1]] = prio[r[2]] /\ IndexOf(q, r[1]) < IndexOf(q, r[2])}

\* orderQueue sorts: the index in the mirror breaks every tie.
LEMMA OrderQueueSorts ==
  ASSUME NEW S, NEW q \in Seq(S), Ordered(q, {}),
         NEW prio, \A x \in ToSet(q) : prio[x] \in Nat
  PROVE  /\ StrictOrder(MirrorOrder(q, prio), ToSet(q))
         /\ Sorts(OrderQueue(q, prio), ToSet(q), MirrorOrder(q, prio))
<1> DEFINE T == ToSet(q)
           R == MirrorOrder(q, prio)
           Before(a, b) == \/ prio[a] # 0 /\ prio[b] = 0
                           \/ prio[a] # 0 /\ prio[a] < prio[b]
                           \/ prio[a] = prio[b] /\ IndexOf(q, a) < IndexOf(q, b)
           at(x) == IndexOf(q, x)
<1>1. Len(q) \in Nat /\ DOMAIN q = 1 .. Len(q)
  BY LenProperties
<1>2. \A x \in T : at(x) \in Nat /\ q[at(x)] = x /\ prio[x] \in Nat
  BY <1>1, IndexOfEntry
<1>3. \A x, y \in T : <<x, y>> \in R <=> Before(x, y)
  BY DEF MirrorOrder
<1>4. StrictOrder(R, T)
  <2> HIDE DEF T, R, at
  <2>1. \A x, y \in T : x # y => at(x) # at(y)
    BY <1>2
  <2>2. \A x \in T : <<x, x>> \notin R
    BY <1>2, <1>3 DEF at
  <2>3. \A x, y \in T : x = y \/ <<x, y>> \in R \/ <<y, x>> \in R
    <3> SUFFICES ASSUME NEW x \in T, NEW y \in T, x # y
                 PROVE  Before(x, y) \/ Before(y, x)
      BY <1>3
    <3> QED
      BY <1>2, <2>1 DEF at
  <2>4. \A x, y, z \in T : <<x, y>> \in R /\ <<y, z>> \in R => <<x, z>> \in R
    <3> SUFFICES ASSUME NEW x \in T, NEW y \in T, NEW z \in T, Before(x, y), Before(y, z)
                 PROVE  Before(x, z)
      BY <1>3
    <3> QED
      BY <1>2 DEF at
  <2> QED
    BY <2>2, <2>3, <2>4 DEF StrictOrder
<1>5. IsFiniteSet(T)
  <2>1. q \in Surjection(1 .. Len(q), T)
    BY <1>1 DEF Surjection, ToSet
  <2>2. IsFiniteSet(1 .. Len(q))
    BY <1>1, FS_Interval
  <2> QED
    BY <2>1, <2>2, FS_Surjection
<1> DEFINE n == Cardinality(T)
           InOrder(p) == \A j, k \in 1 .. n : j < k => Before(p[j], p[k])
<1>6. OrderQueue(q, prio) = CHOOSE p \in [1 .. n -> T] : InOrder(p)
  BY DEF OrderQueue, SortedBy
<1> HIDE DEF T, R
<1>7. PICK queue : Sorts(queue, T, R)
  BY <1>4, <1>5, SortedExists
<1>8. queue \in [1 .. n -> T] /\ n \in Nat /\ DOMAIN queue = 1 .. n
  BY <1>4, <1>5, <1>7, SortedIsCounted, FS_CardinalityType
<1> HIDE DEF Before
<1>9. InOrder(queue)
  BY <1>3, <1>7, <1>8 DEF Sorts, Increasing
<1> HIDE DEF InOrder
<1> DEFINE listing == OrderQueue(q, prio)
<1>10. listing \in [1 .. n -> T] /\ InOrder(listing)
  BY <1>6, <1>8, <1>9
<1> HIDE DEF listing
<1>11. \A j, k \in 1 .. n : j < k => <<listing[j], listing[k]>> \in R
  BY <1>3, <1>10 DEF InOrder
<1>12. Sorts(listing, T, R)
  BY <1>4, <1>5, <1>10, <1>11, ListingSorts
<1> QED
  BY <1>4, <1>12 DEF T, R, listing

\* The greatest priority or position in use, 0 when there is none.
LEMMA HighestIs ==
  ASSUME NEW f, NEW S, IsFiniteSet(S), \A i \in S : f[i] \in Nat
  PROVE  Highest(f, S) \in Nat /\ \A i \in S : f[i] <= Highest(f, S)
<1> DEFINE T == {f[i] : i \in S} \cup {0}
<1>1. IsFiniteSet(T)
  <2> DEFINE U == {f[i] : i \in S}
  <2>1. [i \in S |-> f[i]] \in Surjection(S, U)
    BY DEF Surjection
  <2>2. IsFiniteSet(U)
    BY <2>1, FS_Surjection
  <2> HIDE DEF U
  <2>3. IsFiniteSet(U \cup {0})
    BY <2>2, FS_AddElement
  <2> QED
    BY <2>3 DEF U
<1>2. T \in SUBSET Nat /\ T # {}
  OBVIOUS
<1>3. \A i \in S : f[i] \in T
  OBVIOUS
<1>4. Highest(f, S) = CHOOSE n \in T : \A i \in S : f[i] <= n
  BY DEF Highest
<1> HIDE DEF T
<1>5. PICK n \in T : \A m \in T : m <= n
  BY <1>1, <1>2, GreatestNatural
<1>6. \A i \in S : f[i] <= n
  BY <1>3, <1>5
<1> QED
  BY <1>2, <1>4, <1>5, <1>6

\* Entries of a queue without repeats are where IndexOf finds them.
LEMMA IndexIsPlace ==
  ASSUME NEW S, NEW q \in Seq(S), NEW promoted, Ordered(q, promoted)
  PROVE  /\ Ordered(q, {})
         /\ \A j \in 1 .. Len(q) : q[j] \in ToSet(q) /\ IndexOf(q, q[j]) = j
<1>1. Len(q) \in Nat /\ DOMAIN q = 1 .. Len(q)
  BY LenProperties
<1>2. Ordered(q, {})
  BY DEF Ordered
<1>3. ASSUME NEW j \in 1 .. Len(q)
      PROVE  q[j] \in ToSet(q) /\ IndexOf(q, q[j]) = j
  <2>1. q[j] \in ToSet(q)
    BY <1>1 DEF ToSet
  <2>2. IndexOf(q, q[j]) \in 1 .. Len(q) /\ q[IndexOf(q, q[j])] = q[j]
    BY <2>1, IndexOfEntry
  <2> DEFINE k == IndexOf(q, q[j])
  <2> HIDE DEF k
  <2>3. k \in 1 .. Len(q) /\ q[k] = q[j]
    BY <2>2 DEF k
  <2>4. ~ (j < k) /\ ~ (k < j)
    BY <1>1, <2>3 DEF Ordered
  <2>5. k = j
    BY <1>1, <2>3, <2>4
  <2> QED
    BY <2>1, <2>5 DEF k
<1> QED
  BY <1>2, <1>3

\* In a queue sorted by an order that puts rising priorities in front, they rise.
LEMMA BlockRises ==
  ASSUME NEW T, NEW Q, StrictOrder(Q, T), NEW p, Sorts(p, T, Q), NEW prio,
         \A a, b \in T : <<a, b>> \in Q /\ prio[b] # 0 => prio[a] # 0 /\ prio[a] < prio[b]
  PROVE  /\ Ordered(p, {i \in T : prio[i] # 0})
         /\ \A j, k \in DOMAIN p : j < k /\ prio[p[k]] # 0 => prio[p[j]] < prio[p[k]]
<1>1. DOMAIN p = 1 .. Len(p) /\ \A j \in 1 .. Len(p) : p[j] \in T
  BY LenProperties, ElementOfSeq DEF Sorts
<1>2. ASSUME NEW j \in DOMAIN p, NEW k \in DOMAIN p, j < k
      PROVE  /\ p[j] # p[k]
             /\ prio[p[k]] # 0 => prio[p[j]] # 0 /\ prio[p[j]] < prio[p[k]]
  <2>1. p[j] \in T /\ p[k] \in T /\ <<p[j], p[k]>> \in Q
    BY <1>1, <1>2 DEF Sorts, Increasing
  <2> QED
    BY <2>1 DEF StrictOrder
<1>3. Ordered(p, {i \in T : prio[i] # 0})
  BY <1>1, <1>2 DEF Ordered
<1> QED
  BY <1>2, <1>3

\* The mirror is sorted by its own order, and its entries are used ids.
LEMMA MirrorSorts ==
  ASSUME TypeOK, MirrorInv
  PROVE  /\ mirror \in Seq(used) /\ ToSet(mirror) \in SUBSET used
         /\ StrictOrder(MirrorOrder(mirror, block), ToSet(mirror))
         /\ Sorts(mirror, ToSet(mirror), MirrorOrder(mirror, block))
<1> DEFINE T == ToSet(mirror)
           R == MirrorOrder(mirror, block)
<1>1. /\ mirror \in Seq(used) /\ DOMAIN mirror = 1 .. Len(mirror) /\ Len(mirror) \in Nat
      /\ T \in SUBSET used
  <2>1. mirror \in Seq(used)
    BY DEF TypeOK
  <2> QED
    BY <2>1, LenProperties, ElementOfSeq DEF ToSet
<1>2. /\ Ordered(mirror, {})
      /\ \A j \in 1 .. Len(mirror) : mirror[j] \in T /\ IndexOf(mirror, mirror[j]) = j
  BY <1>1, IndexIsPlace DEF MirrorInv
<1>3. \A x \in T : block[x] \in Nat
  BY <1>1 DEF TypeOK
<1>4. StrictOrder(R, T)
  BY <1>1, <1>2, <1>3, OrderQueueSorts
<1>5. mirror \in Seq(T)
  <2>1. mirror \in [1 .. Len(mirror) -> T]
    BY <1>1, <1>2
  <2> QED
    BY <1>1, <2>1
<1>6. Increasing(mirror, R)
  <2> SUFFICES ASSUME NEW j \in 1 .. Len(mirror), NEW k \in 1 .. Len(mirror), j < k
               PROVE  <<mirror[j], mirror[k]>> \in R
    BY <1>1 DEF Increasing
  <2>1. /\ mirror[j] \in T /\ IndexOf(mirror, mirror[j]) = j
        /\ mirror[k] \in T /\ IndexOf(mirror, mirror[k]) = k
    BY <1>2
  <2>2. block[mirror[j]] \in Nat /\ block[mirror[k]] \in Nat
    BY <1>3, <2>1
  <2>3. /\ mirror[k] \in InBlock => mirror[j] \in InBlock
        /\ mirror[k] \in InBlock => block[mirror[j]] < block[mirror[k]]
    BY <1>1 DEF MirrorInv, Ordered
  <2>4. /\ mirror[j] \in InBlock <=> block[mirror[j]] # 0
        /\ mirror[k] \in InBlock <=> block[mirror[k]] # 0
    BY <2>1 DEF InBlock
  <2> QED
    BY <2>1, <2>2, <2>3, <2>4 DEF MirrorOrder
<1> QED
  BY <1>1, <1>4, <1>5, <1>6 DEF Sorts

\* What restore() reads is already in the order that orderQueue gives it.
LEMMA RestoredMirror ==
  ASSUME TypeOK, TableInv
  PROVE  OrderQueue(SortedRows, priority) = SortedRows
<1> DEFINE s == SortedRows
           R == MirrorOrder(s, priority)
<1>1. StrictOrder(RowOrder, rows) /\ Sorts(s, rows, RowOrder)
  BY RowsCompare, SortedRowsSorts
<1> HIDE DEF s
<1>2. /\ s \in Seq(rows) /\ ToSet(s) = rows
      /\ Len(s) \in Nat /\ DOMAIN s = 1 .. Len(s)
      /\ Ordered(s, {})
  BY <1>1, LenProperties, SortedHasNoRepeats DEF Sorts
<1>3. \A x \in rows : priority[x] \in Nat
  BY DEF TypeOK
<1>4. StrictOrder(R, rows) /\ Sorts(OrderQueue(s, priority), rows, R)
  BY <1>2, <1>3, OrderQueueSorts
<1>5. Increasing(s, R)
  <2> SUFFICES ASSUME NEW j \in 1 .. Len(s), NEW k \in 1 .. Len(s), j < k
               PROVE  <<s[j], s[k]>> \in R
    BY <1>2 DEF Increasing
  <2>1. /\ s[j] \in rows /\ IndexOf(s, s[j]) = j
        /\ s[k] \in rows /\ IndexOf(s, s[k]) = k
    BY <1>2, IndexIsPlace
  <2>2. RowBefore(s[j], s[k])
    BY <1>1, <1>2, <2>1, RowOrderIs DEF Sorts, Increasing
  <2> QED
    BY <1>2, <2>1, <2>2 DEF RowBefore, MirrorOrder
<1>6. Sorts(s, rows, R)
  BY <1>1, <1>5 DEF Sorts
<1> HIDE DEF R
<1>7. OrderQueue(s, priority) = s
  BY <1>4, <1>6, SortedIsUnique
<1> QED
  BY <1>7 DEF s

\* A restart reads a mirror in order: the promoted rows are in front.
LEMMA SortedRowsRise ==
  ASSUME TypeOK, TableInv
  PROVE  /\ Ordered(SortedRows, Promoted)
         /\ \A j, k \in DOMAIN SortedRows :
              j < k /\ priority[SortedRows[k]] # 0
                => priority[SortedRows[j]] < priority[SortedRows[k]]
<1>1. StrictOrder(RowOrder, rows) /\ Sorts(SortedRows, rows, RowOrder)
  BY RowsCompare, SortedRowsSorts
<1>2. ASSUME NEW a \in rows, NEW b \in rows, <<a, b>> \in RowOrder, priority[b] # 0
      PROVE  priority[a] # 0 /\ priority[a] < priority[b]
  <2>1. RowBefore(a, b)
    BY <1>2, RowOrderIs
  <2>2. a # b
    BY <1>1, <1>2 DEF StrictOrder
  <2>3. ~ (priority[a] = priority[b])
    BY <1>2, <2>2 DEF TableInv, Promoted
  <2> QED
    BY <1>2, <2>1, <2>3 DEF RowBefore
<1> QED
  BY <1>1, <1>2, BlockRises DEF Promoted

\* Prioritizing moves the entry to the end of the mirror's block.
LEMMA PrioritizedMirror ==
  ASSUME TypeOK, MirrorInv, NEW i \in ToSet(mirror) \ InBlock, NEW prio,
         prio = [block EXCEPT ![i] = Highest(block, ToSet(mirror)) + 1]
  PROVE  /\ OrderQueue(mirror, prio) = PromoteIn(mirror, InBlock, i)
         /\ prio \in [Ids -> Nat]
         /\ {x \in ToSet(mirror) : prio[x] # 0} = InBlock \cup {i}
         /\ StrictOrder(MirrorOrder(mirror, prio), ToSet(mirror))
         /\ Sorts(OrderQueue(mirror, prio), ToSet(mirror), MirrorOrder(mirror, prio))
         /\ \A a, b \in ToSet(mirror) :
              <<a, b>> \in MirrorOrder(mirror, prio) /\ prio[b] # 0
                => prio[a] # 0 /\ prio[a] < prio[b]
<1> DEFINE T == ToSet(mirror)
           R == MirrorOrder(mirror, block)
           Q == MirrorOrder(mirror, prio)
           top == Highest(block, T)
           at(x) == IndexOf(mirror, x)
<1>1. /\ mirror \in Seq(used) /\ T \in SUBSET used /\ used \in SUBSET Ids
      /\ StrictOrder(R, T) /\ Sorts(mirror, T, R)
  BY MirrorSorts DEF TypeOK
<1>2. /\ Len(mirror) \in Nat /\ DOMAIN mirror = 1 .. Len(mirror)
      /\ Ordered(mirror, {}) /\ Ordered(mirror, InBlock)
      /\ \A x \in T : at(x) \in 1 .. Len(mirror) /\ mirror[at(x)] = x
  BY <1>1, LenProperties, IndexIsPlace, IndexOfEntry DEF MirrorInv
<1>3. block \in [Ids -> Nat] /\ i \in T /\ i \in Ids /\ block[i] = 0
  BY <1>1 DEF TypeOK, InBlock
<1>4. \A x \in T : block[x] \in Nat
  BY <1>1, <1>3
<1>5. IsFiniteSet(T)
  BY <1>1, SortedIsCounted
<1> HIDE DEF T
<1>6. top \in Nat /\ \A x \in T : block[x] <= top
  BY <1>4, <1>5, HighestIs
<1> HIDE DEF top
<1>7. /\ prio = [block EXCEPT ![i] = top + 1]
      /\ prio \in [Ids -> Nat] /\ prio[i] = top + 1 /\ prio[i] # 0
      /\ \A x \in T \ {i} : prio[x] = block[x]
      /\ \A x \in T : prio[x] \in Nat
  <2>1. prio = [block EXCEPT ![i] = top + 1]
    BY DEF top, T
  <2>2. prio \in [Ids -> Nat] /\ prio[i] = top + 1 /\ prio[i] # 0
    BY <1>3, <1>6, <2>1
  <2>3. \A x \in T \ {i} : prio[x] = block[x]
    BY <1>1, <1>3, <2>1
  <2>4. \A x \in T : prio[x] \in Nat
    BY <1>1, <2>2
  <2> QED
    BY <2>1, <2>2, <2>3, <2>4
<1>8. \A x \in T : x \in InBlock <=> block[x] # 0
  BY DEF InBlock, T
<1>9. {x \in T : prio[x] # 0} = InBlock \cup {i}
  <2>1. InBlock \subseteq T /\ i \in T
    BY <1>3 DEF InBlock, T
  <2> QED
    BY <1>7, <1>8, <2>1
<1>10. StrictOrder(Q, T) /\ Sorts(OrderQueue(mirror, prio), T, Q)
  BY <1>1, <1>2, <1>7, OrderQueueSorts DEF T
<1>11. /\ \A a, b \in T : <<a, b>> \in R <=>
             \/ block[a] # 0 /\ block[b] = 0
             \/ block[a] # 0 /\ block[a] < block[b]
             \/ block[a] = block[b] /\ at(a) < at(b)
       /\ \A a, b \in T : <<a, b>> \in Q <=>
             \/ prio[a] # 0 /\ prio[b] = 0
             \/ prio[a] # 0 /\ prio[a] < prio[b]
             \/ prio[a] = prio[b] /\ at(a) < at(b)
  BY DEF MirrorOrder, T
<1>12. \A a, b \in T : a # b /\ block[a] # 0 => block[a] # block[b]
  <2> SUFFICES ASSUME NEW a \in T, NEW b \in T, a # b, block[a] # 0, block[a] = block[b]
               PROVE  FALSE
    OBVIOUS
  <2>1. a \in InBlock /\ b \in InBlock
    BY <1>8
  <2> DEFINE j == at(a)
             k == at(b)
  <2>2. j \in Nat /\ k \in Nat /\ j \in DOMAIN mirror /\ k \in DOMAIN mirror
    BY <1>2
  <2>3. mirror[j] = a /\ mirror[k] = b
    BY <1>2
  <2> HIDE DEF j, k
  <2>4. \A l, m \in DOMAIN mirror :
          l < m /\ mirror[m] \in InBlock => block[mirror[l]] < block[mirror[m]]
    BY DEF MirrorInv
  <2>5. j < k \/ k < j
    BY <2>2, <2>3
  <2>6. CASE j < k
    <3>1. block[a] < block[b]
      BY <2>1, <2>2, <2>3, <2>4, <2>6
    <3> QED
      BY <1>4, <3>1
  <2>7. CASE k < j
    <3>1. block[b] < block[a]
      BY <2>1, <2>2, <2>3, <2>4, <2>7
    <3> QED
      BY <1>4, <3>1
  <2> QED
    BY <2>5, <2>6, <2>7
<1> HIDE DEF R, Q, at
<1>13. \A x, y \in T \ {i} : <<x, y>> \in R => <<x, y>> \in Q
  BY <1>7, <1>11
<1>14. \A x \in T \ {i} : IF x \in InBlock THEN <<x, i>> \in Q ELSE <<i, x>> \in Q
  <2> SUFFICES ASSUME NEW x \in T \ {i}
               PROVE  IF x \in InBlock THEN <<x, i>> \in Q ELSE <<i, x>> \in Q
    OBVIOUS
  <2>1. prio[x] = block[x] /\ block[x] \in Nat /\ block[x] <= top
    BY <1>4, <1>6, <1>7
  <2>2. prio[x] < prio[i]
    BY <1>6, <1>7, <2>1
  <2> QED
    BY <1>3, <1>7, <1>8, <1>11, <2>1, <2>2
<1>15. Sorts(PromoteIn(mirror, InBlock, i), T, Q)
  BY <1>1, <1>2, <1>3, <1>13, <1>14, PromoteInSorts
<1>16. OrderQueue(mirror, prio) = PromoteIn(mirror, InBlock, i)
  BY <1>10, <1>15, SortedIsUnique
<1>17. ASSUME NEW a \in T, NEW b \in T, <<a, b>> \in Q, prio[b] # 0
       PROVE  prio[a] # 0 /\ prio[a] < prio[b]
  <2>1. a # b
    BY <1>10, <1>17 DEF StrictOrder
  <2>2. prio[a] # prio[b]
    <3>1. CASE a = i
      BY <1>4, <1>6, <1>7, <2>1, <3>1
    <3>2. CASE b = i
      BY <1>4, <1>6, <1>7, <2>1, <3>2
    <3>3. CASE a # i /\ b # i
      BY <1>7, <1>12, <1>17, <2>1, <3>3
    <3> QED
      BY <3>1, <3>2, <3>3
  <2> QED
    BY <1>11, <1>17, <2>2
<1> QED
  BY <1>7, <1>9, <1>10, <1>16, <1>17 DEF T, Q

-----------------------------------------------------------------------------
(* An operation starts *)

\* Ids are used one at a time.
LEMMA UsedGrows ==
  ASSUME TypeOK, NEW i \in Ids, used' = used \cup {i} \/ used' = used,
         UNCHANGED <<rows, mirror, remembered, executed>>
  PROVE  /\ used' \subseteq Ids /\ rows' \subseteq used' /\ executed' \subseteq used'
         /\ mirror' \in Seq(used')
         /\ remembered' \in [Keys -> used' \cup {None}]
         /\ IsFiniteSet(used) => IsFiniteSet(used')
<1>1. mirror' \in Seq(used')
  <2>1. mirror \in Seq(used) /\ used \subseteq used' /\ mirror' = mirror
    BY DEF TypeOK
  <2>2. Len(mirror) \in Nat /\ mirror \in [1 .. Len(mirror) -> used]
    BY <2>1, LenProperties
  <2>3. mirror \in [1 .. Len(mirror) -> used']
    BY <2>1, <2>2
  <2> QED
    BY <2>1, <2>2, <2>3
<1>2. IsFiniteSet(used) => IsFiniteSet(used')
  BY FS_AddElement
<1> QED
  BY <1>1, <1>2 DEF TypeOK

\* The store and the mirror stay while an operation starts.
LEMMA AskKeeps ==
  ASSUME QueueInv, NEW i \in Ids, NEW kind \in Kinds, Ask(kind, i),
         used' = used \cup {i} \/ used' = used,
         keyOf' \in [Ids -> Keys \cup {None}],
         spent' \in [restarts : Nat, lost : Nat, repeats : Nat],
         UNCHANGED <<store, memory, executed>>, CallInv'
  PROVE  QueueInv'
<1>1. TypeOK /\ TableInv /\ MirrorInv /\ ExecutedIsGone
  BY DEF QueueInv
<1>2. UNCHANGED <<rows, position, priority, mirror, block, remembered>>
  BY DEF store, memory
<1>3. call' \in Calls
  BY DEF Ask, Calls
<1>4. TypeOK'
  BY <1>1, <1>2, <1>3, UsedGrows DEF TypeOK
<1>5. TableInv'
  BY <1>1, <1>2, UsedGrows DEF TableInv, Promoted
<1>6. MirrorInv'
  BY <1>1, <1>2 DEF MirrorInv, InBlock
<1>7. ExecutedIsGone'
  BY <1>1, <1>2 DEF ExecutedIsGone
<1> QED
  BY <1>4, <1>5, <1>6, <1>7 DEF QueueInv

\* A submission keeps the invariant.
LEMMA SubmitKeeps ==
  ASSUME QueueInv, NEW i \in Ids, NEW k \in Keys \cup {None}, Submit(i, k)
  PROVE  QueueInv'
<1>1. TypeOK /\ MirrorInv
  BY DEF QueueInv
<1>2. /\ i \notin used /\ used' = used \cup {i} /\ Ask("push", i)
      /\ keyOf' = [keyOf EXCEPT ![i] = k]
      /\ UNCHANGED <<store, memory, executed>>
  BY DEF Submit
<1>3. spent' \in [restarts : Nat, lost : Nat, repeats : Nat]
  <2>1. spent \in [restarts : Nat, lost : Nat, repeats : Nat]
    BY <1>1 DEF TypeOK
  <2>2. spent' = spent \/ spent' = [spent EXCEPT !.repeats = @ + 1]
    BY DEF Submit
  <2> QED
    BY <2>1, <2>2
<1>4. CallInv'
  <2>1. i \notin ToSet(mirror) /\ i \notin executed /\ i \notin rows
    BY <1>1, <1>2, MirrorSorts DEF TypeOK
  <2>2. UNCHANGED <<mirror, rows>> /\ call' = [kind |-> "push", id |-> i, phase |-> "sent"]
    BY <1>2 DEF Ask, store, memory
  <2> QED
    BY <1>2, <2>1, <2>2 DEF CallInv
<1> QED
  BY <1>1, <1>2, <1>3, <1>4, AskKeeps DEF Kinds, TypeOK

\* A cancellation is asked for.
LEMMA CancelKeeps ==
  ASSUME QueueInv, NEW i \in Ids, Cancel(i)
  PROVE  QueueInv'
<1>1. CallInv'
  <2>1. call' = [kind |-> "cancel", id |-> i, phase |-> "sent"] /\ mirror' = mirror
    BY DEF Cancel, Ask, memory
  <2> QED
    BY <2>1 DEF CallInv, Cancel
<1> QED
  BY <1>1, AskKeeps DEF Cancel, Kinds, QueueInv, TypeOK

\* A promotion is asked for.
LEMMA PromoteKeeps ==
  ASSUME QueueInv, NEW i \in Ids, Promote(i)
  PROVE  QueueInv'
<1>1. CallInv'
  <2>1. /\ call' = [kind |-> "promote", id |-> i, phase |-> "sent"]
        /\ mirror' = mirror /\ block' = block
    BY DEF Promote, Ask, memory
  <2> QED
    BY <2>1 DEF CallInv, Promote, InBlock
<1> QED
  BY <1>1, AskKeeps DEF Promote, Kinds, QueueInv, TypeOK

\* An exchange with a neighbour is asked for.
LEMMA ReorderKeeps ==
  ASSUME QueueInv, NEW i \in Ids, NEW kind \in {"up", "down"}, Reorder(i, kind)
  PROVE  QueueInv'
<1>1. CallInv'
  <2>1. /\ call' = [kind |-> kind, id |-> i, phase |-> "sent"]
        /\ mirror' = mirror /\ block' = block
    BY DEF Reorder, Ask, memory
  <2>2. InBlock' = InBlock
    BY <2>1 DEF InBlock
  <2> QED
    BY <2>1, <2>2 DEF CallInv, Reorder
<1> QED
  BY <1>1, AskKeeps DEF Reorder, Kinds, QueueInv, TypeOK

\* The drain asks for the head.
LEMMA ShiftKeeps ==
  ASSUME QueueInv, Shift
  PROVE  QueueInv'
<1> DEFINE i == Head(mirror)
<1>1. i \in ToSet(mirror) /\ i \in Ids
  <2>1. mirror \in Seq(used) /\ used \subseteq Ids /\ mirror # <<>>
    BY DEF QueueInv, TypeOK, Shift
  <2>2. 1 \in DOMAIN mirror /\ i = mirror[1] /\ i \in used
    BY <2>1
  <2> QED
    BY <2>1, <2>2 DEF ToSet
<1> HIDE DEF i
<1>2. Ask("shift", i) /\ UNCHANGED <<store, keyOf, memory, used, executed, spent>>
  BY DEF Shift, i
<1>3. CallInv'
  <2>1. call' = [kind |-> "shift", id |-> i, phase |-> "sent"] /\ mirror' = mirror
    BY <1>2 DEF Ask, memory
  <2> QED
    BY <1>1, <2>1 DEF CallInv
<1> QED
  BY <1>1, <1>2, <1>3, AskKeeps DEF Kinds, QueueInv, TypeOK

-----------------------------------------------------------------------------
(* The store executes the call *)

\* A call of a kind is about an id, and only its phase changes.
LEMMA CallIs ==
  ASSUME TypeOK, NEW kind \in Kinds, call.kind = kind
  PROVE  /\ call \in [kind : Kinds, id : Ids, phase : {"sent", "done", "failed"}]
         /\ call.id \in Ids
  BY DEF TypeOK, Calls, NoCall, Kinds

\* The store answers the call that is open.
LEMMA AnswerIs ==
  ASSUME TypeOK, NEW kind \in Kinds, call.kind = kind,
         NEW phase \in {"done", "failed"}, Answer(phase)
  PROVE  /\ call' \in Calls /\ call'.kind = kind /\ call'.id = call.id
         /\ call'.phase = phase
  BY CallIs DEF Answer, Calls

\* A row is written under the next position, or the queue is full, or the key is known.
LEMMA RowPushKeeps ==
  ASSUME QueueInv, RowPush
  PROVE  QueueInv'
<1> DEFINE i == call.id
           same == {j \in rows : keyOf[j] # None /\ keyOf[j] = keyOf[i]}
           next == Highest(position, rows) + 1
           phase == IF same = {} /\ Cardinality(rows) >= MaxQueue THEN "failed" ELSE "done"
<1>1. TypeOK /\ TableInv /\ MirrorInv /\ CallInv /\ ExecutedIsGone
  BY DEF QueueInv
<1>2. i \in Ids /\ i \in used /\ i \notin executed /\ i \notin ToSet(mirror) /\ i \notin rows
  BY <1>1, CallIs DEF RowPush, Sent, Kinds, CallInv
<1>3. /\ call.kind = "push"
      /\ \/ /\ rows' = rows \cup {i}
            /\ position' = [position EXCEPT ![i] = next]
            /\ priority' = [priority EXCEPT ![i] = 0]
         \/ UNCHANGED <<rows, position, priority>>
      /\ Answer(phase) /\ phase \in {"done", "failed"}
      /\ UNCHANGED <<keyOf, mirror, block, remembered, used, executed, spent>>
  BY DEF RowPush, Sent, memory, store
<1>4. call' \in Calls /\ call'.kind = "push" /\ call'.id = i /\ call'.phase # "sent"
  <2> HIDE DEF phase
  <2> QED
    BY <1>1, <1>3, AnswerIs DEF Kinds
<1> HIDE DEF i, phase
<1>5. IsFiniteSet(rows) /\ \A j \in rows : position[j] \in Nat
  <2>1. IsFiniteSet(used) /\ rows \in SUBSET used /\ used \subseteq Ids
    BY <1>1 DEF TypeOK, TableInv
  <2> QED
    BY <1>1, <2>1, FS_Subset DEF TypeOK
<1>6. next \in Nat /\ \A j \in rows : position[j] \in Nat /\ position[j] # next
  <2>1. Highest(position, rows) \in Nat /\ \A j \in rows : position[j] <= Highest(position, rows)
    BY <1>5, HighestIs
  <2> QED
    BY <1>5, <2>1
<1> HIDE DEF next
<1>7. TypeOK'
  <2>1. /\ position \in [Ids -> Nat] /\ priority \in [Ids -> Nat]
        /\ rows \subseteq used /\ used' = used
    BY <1>1, <1>3 DEF TypeOK
  <2>2. position' \in [Ids -> Nat]
    BY <1>3, <1>6, <2>1
  <2>3. priority' \in [Ids -> Nat]
    BY <1>3, <2>1
  <2>4. rows' \subseteq used'
    BY <1>2, <1>3, <2>1
  <2> QED
    BY <1>1, <1>3, <1>4, <2>2, <2>3, <2>4 DEF TypeOK
<1>8. TableInv'
  <2>1. CASE UNCHANGED <<rows, position, priority>>
    BY <1>1, <1>3, <2>1 DEF TableInv, Promoted
  <2>2. CASE /\ rows' = rows \cup {i}
             /\ position' = [position EXCEPT ![i] = next]
             /\ priority' = [priority EXCEPT ![i] = 0]
    <3>1. /\ rows \subseteq Ids /\ position'[i] = next /\ priority'[i] = 0
          /\ \A j \in Ids \ {i} : position'[j] = position[j] /\ priority'[j] = priority[j]
      BY <1>1, <1>2, <2>2 DEF TypeOK
    <3>2. Promoted' = Promoted
      BY <1>2, <2>2, <3>1 DEF Promoted
    <3>3. \A a, b \in rows' : a # b => position'[a] # position'[b]
      <4> SUFFICES ASSUME NEW a \in rows \cup {i}, NEW b \in rows \cup {i}, a # b
                   PROVE  position'[a] # position'[b]
        BY <2>2
      <4>1. CASE a = i
        BY <1>2, <1>6, <3>1, <4>1
      <4>2. CASE b = i
        BY <1>2, <1>6, <3>1, <4>2
      <4>3. CASE a # i /\ b # i
        BY <1>1, <3>1, <4>3 DEF TableInv
      <4> QED
        BY <4>1, <4>2, <4>3
    <3>4. \A a, b \in Promoted' : a # b => priority'[a] # priority'[b]
      BY <1>1, <1>2, <3>1, <3>2 DEF TableInv, Promoted
    <3>5. \A a \in Ids \ rows' : priority'[a] = 0
      BY <1>1, <2>2, <3>1 DEF TableInv
    <3> QED
      BY <1>1, <1>3, <3>3, <3>4, <3>5 DEF TableInv
  <2> QED
    BY <1>3, <2>1, <2>2
<1>9. MirrorInv'
  BY <1>1, <1>3 DEF MirrorInv, InBlock
<1>10. CallInv'
  BY <1>2, <1>3, <1>4 DEF CallInv
<1>11. ExecutedIsGone'
  BY <1>1, <1>2, <1>3 DEF ExecutedIsGone
<1> QED
  BY <1>7, <1>8, <1>9, <1>10, <1>11 DEF QueueInv

\* A row is removed.
LEMMA RowRemoveKeeps ==
  ASSUME QueueInv, RowRemove
  PROVE  QueueInv'
<1> DEFINE i == call.id
<1>1. TypeOK /\ TableInv /\ MirrorInv /\ CallInv /\ ExecutedIsGone
  BY DEF QueueInv
<1>2. /\ call.kind \in {"cancel", "shift"} /\ i \in Ids
      /\ rows' = rows \ {i}
      /\ position' = [position EXCEPT ![i] = 0]
      /\ priority' = [priority EXCEPT ![i] = 0]
      /\ Answer("done")
      /\ UNCHANGED <<keyOf, mirror, block, remembered, used, executed, spent>>
  BY <1>1, CallIs DEF RowRemove, Sent, memory, Kinds
<1>3. call' \in Calls /\ call'.kind = call.kind /\ call'.id = i /\ call'.phase = "done"
  BY <1>1, <1>2, AnswerIs DEF Kinds
<1> HIDE DEF i
<1>4. TypeOK'
  <2>1. position' \in [Ids -> Nat] /\ priority' \in [Ids -> Nat] /\ rows' \subseteq used'
    BY <1>1, <1>2 DEF TypeOK
  <2> QED
    BY <1>1, <1>2, <1>3, <2>1 DEF TypeOK
<1>5. TableInv'
  <2>1. /\ rows \subseteq Ids /\ i \notin rows' /\ rows' \subseteq rows /\ priority'[i] = 0
        /\ \A j \in Ids \ {i} : position'[j] = position[j] /\ priority'[j] = priority[j]
    BY <1>1, <1>2 DEF TypeOK
  <2>2. Promoted' \subseteq Promoted
    BY <2>1 DEF Promoted
  <2>3. \A a, b \in rows' : a # b => position'[a] # position'[b]
    BY <1>1, <2>1 DEF TableInv
  <2>4. \A a, b \in Promoted' : a # b => priority'[a] # priority'[b]
    <3>1. Promoted' \subseteq rows'
      BY DEF Promoted
    <3> QED
      BY <1>1, <2>1, <2>2, <3>1 DEF TableInv
  <2>5. \A a \in Ids \ rows' : priority'[a] = 0
    BY <1>1, <1>2, <2>1 DEF TableInv
  <2> QED
    BY <1>1, <1>2, <2>3, <2>4, <2>5 DEF TableInv
<1>6. MirrorInv'
  BY <1>1, <1>2 DEF MirrorInv, InBlock
<1>7. CallInv'
  BY <1>1, <1>2, <1>3 DEF CallInv, i
<1>8. ExecutedIsGone'
  BY <1>1, <1>2 DEF ExecutedIsGone
<1> QED
  BY <1>4, <1>5, <1>6, <1>7, <1>8 DEF QueueInv

\* A row gets the next priority.
LEMMA RowPrioritizeKeeps ==
  ASSUME QueueInv, RowPrioritize
  PROVE  QueueInv'
<1> DEFINE i == call.id
           next == Highest(priority, rows) + 1
<1>1. TypeOK /\ TableInv /\ MirrorInv /\ CallInv /\ ExecutedIsGone
  BY DEF QueueInv
<1>2. /\ call.kind = "promote" /\ i \in Ids
      /\ \/ /\ i \in rows \ Promoted
            /\ priority' = [priority EXCEPT ![i] = next]
         \/ priority' = priority
      /\ \E phase \in {"done", "failed"} : Answer(phase)
      /\ UNCHANGED <<rows, position, keyOf, mirror, block, remembered, used, executed, spent>>
  BY <1>1, CallIs DEF RowPrioritize, Sent, memory, Kinds
<1>3. call' \in Calls /\ call'.kind = "promote" /\ call'.id = i
  BY <1>1, <1>2, AnswerIs DEF Kinds
<1>4. IsFiniteSet(rows) /\ \A j \in rows : priority[j] \in Nat
  <2>1. IsFiniteSet(used) /\ rows \in SUBSET used /\ used \subseteq Ids
    BY <1>1 DEF TypeOK, TableInv
  <2> QED
    BY <1>1, <2>1, FS_Subset DEF TypeOK
<1>5. next \in Nat /\ next # 0 /\ \A j \in rows : priority[j] # next
  <2>1. Highest(priority, rows) \in Nat /\ \A j \in rows : priority[j] <= Highest(priority, rows)
    BY <1>4, HighestIs
  <2> QED
    BY <1>4, <2>1
<1> HIDE DEF i, next
<1>6. TypeOK'
  <2>1. priority' \in [Ids -> Nat]
    BY <1>1, <1>2, <1>5 DEF TypeOK
  <2> QED
    BY <1>1, <1>2, <1>3, <2>1 DEF TypeOK
<1>7. TableInv'
  <2>1. CASE priority' = priority
    BY <1>1, <1>2, <2>1 DEF TableInv, Promoted
  <2>2. CASE i \in rows \ Promoted /\ priority' = [priority EXCEPT ![i] = next]
    <3>1. /\ rows \subseteq Ids /\ priority'[i] = next
          /\ \A j \in Ids \ {i} : priority'[j] = priority[j]
      BY <1>1, <1>2, <2>2 DEF TypeOK
    <3>2. \A a \in Promoted' \ {i} : a \in Promoted /\ a \in Ids
      BY <1>2, <3>1 DEF Promoted
    <3>3. ASSUME NEW a \in Promoted', NEW b \in Promoted', a # b
          PROVE  priority'[a] # priority'[b]
      <4>1. \A c \in Promoted : c \in rows
        BY DEF Promoted
      <4>2. CASE a = i
        BY <1>5, <3>1, <3>2, <3>3, <4>1, <4>2
      <4>3. CASE b = i
        BY <1>5, <3>1, <3>2, <3>3, <4>1, <4>3
      <4>4. CASE a # i /\ b # i
        BY <1>1, <3>1, <3>2, <3>3, <4>4 DEF TableInv
      <4> QED
        BY <4>2, <4>3, <4>4
    <3>4. \A a \in Ids \ rows' : priority'[a] = 0
      BY <1>1, <1>2, <2>2, <3>1 DEF TableInv
    <3> QED
      BY <1>1, <1>2, <3>3, <3>4 DEF TableInv
  <2> QED
    BY <1>2, <2>1, <2>2
<1>8. MirrorInv'
  BY <1>1, <1>2 DEF MirrorInv, InBlock
<1>9. CallInv'
  BY <1>1, <1>2, <1>3 DEF CallInv, InBlock, i
<1>10. ExecutedIsGone'
  BY <1>1, <1>2 DEF ExecutedIsGone
<1> QED
  BY <1>6, <1>7, <1>8, <1>9, <1>10 DEF QueueInv

\* The nearest plain row exists when there is a plain row in that direction.
LEMMA NearestIs ==
  ASSUME TypeOK, TableInv, NEW i, NEW up \in BOOLEAN, PlainRows(i, up) # {}
  PROVE  LET j == NearestRow(i, up)
         IN  /\ j \in PlainRows(i, up)
             /\ \A m \in PlainRows(i, up) : IF up THEN position[m] <= position[j]
                                                  ELSE position[m] >= position[j]
<1> DEFINE S == PlainRows(i, up)
           T == {position[m] : m \in S}
           Nearest(j) == \A m \in S : IF up THEN position[m] <= position[j]
                                            ELSE position[m] >= position[j]
<1>1. IsFiniteSet(S) /\ \A m \in S : position[m] \in Nat
  <2>1. IsFiniteSet(used) /\ rows \in SUBSET used /\ used \subseteq Ids
    BY DEF TypeOK, TableInv
  <2>2. S \in SUBSET used
    BY <2>1 DEF PlainRows
  <2> HIDE DEF S
  <2> QED
    BY <2>1, <2>2, FS_Subset DEF TypeOK
<1> HIDE DEF S
<1>2. IsFiniteSet(T) /\ T \in SUBSET Nat /\ T # {}
  <2>1. [m \in S |-> position[m]] \in Surjection(S, T)
    BY DEF Surjection
  <2>2. T \in SUBSET Nat /\ T # {}
    BY <1>1 DEF S
  <2> HIDE DEF T
  <2> QED
    BY <1>1, <2>1, <2>2, FS_Surjection
<1>3. \E j \in S : Nearest(j)
  <2>1. \A m \in S : position[m] \in T
    OBVIOUS
  <2>2. \A n \in T : \E j \in S : position[j] = n
    OBVIOUS
  <2> HIDE DEF T
  <2>3. CASE up
    <3>1. PICK n \in T : \A m \in T : m <= n
      BY <1>2, GreatestNatural
    <3> QED
      BY <2>1, <2>2, <2>3, <3>1
  <2>4. CASE ~up
    <3>1. PICK n \in T : \A m \in T : n <= m
      BY <1>2, LeastNatural
    <3>2. PICK j \in S : position[j] = n
      BY <2>2
    <3>3. \A m \in S : position[m] \in Nat /\ position[j] <= position[m]
      BY <1>1, <2>1, <3>1, <3>2
    <3>4. \A m \in S : position[m] >= position[j]
      BY <1>1, <3>3
    <3> QED
      BY <2>4, <3>4
  <2> QED
    BY <2>3, <2>4
<1>4. NearestRow(i, up) = CHOOSE j \in S : Nearest(j)
  BY DEF NearestRow, S
<1> HIDE DEF Nearest
<1>5. NearestRow(i, up) \in S /\ Nearest(NearestRow(i, up))
  BY <1>3, <1>4
<1> QED
  BY <1>5 DEF S, Nearest

\* A row changes its sort key with its neighbour.
LEMMA RowReorderKeeps ==
  ASSUME QueueInv, RowReorder
  PROVE  QueueInv'
<1> DEFINE i == call.id
           up == call.kind = "up"
           j == NearestRow(i, up)
<1>1. TypeOK /\ TableInv /\ MirrorInv /\ CallInv /\ ExecutedIsGone
  BY DEF QueueInv
<1>2. /\ call.kind \in {"up", "down"} /\ i \in Ids /\ up \in BOOLEAN
      /\ \/ /\ i \in rows \ Promoted /\ PlainRows(i, up) # {}
            /\ position' = [position EXCEPT ![i] = position[j], ![j] = position[i]]
         \/ position' = position
      /\ \E phase \in {"done", "failed"} : Answer(phase)
      /\ UNCHANGED <<rows, priority, keyOf, mirror, block, remembered, used, executed, spent>>
  BY <1>1, CallIs DEF RowReorder, Sent, memory, Kinds
<1>3. call' \in Calls /\ call'.kind = call.kind /\ call'.id = i
  BY <1>1, <1>2, AnswerIs DEF Kinds
<1> HIDE DEF i, up
<1>4. PlainRows(i, up) # {} => j \in rows
  BY <1>1, <1>2, NearestIs DEF PlainRows
<1> HIDE DEF j
<1>5. \/ position' = position
      \/ /\ i \in rows /\ j \in rows
         /\ position' = [position EXCEPT ![i] = position[j], ![j] = position[i]]
  BY <1>2, <1>4
<1>6. rows \subseteq Ids /\ position \in [Ids -> Nat]
  BY <1>1 DEF TypeOK
<1>7. TypeOK'
  <2>1. position' \in [Ids -> Nat]
    BY <1>5, <1>6
  <2> QED
    BY <1>1, <1>2, <1>3, <2>1 DEF TypeOK
<1>8. TableInv'
  <2>1. \A a, b \in rows' : a # b => position'[a] # position'[b]
    <3>1. \A a, b \in rows : a # b => position[a] # position[b]
      BY <1>1 DEF TableInv
    <3> QED
      BY <1>2, <1>5, <1>6, <3>1
  <2> QED
    BY <1>1, <1>2, <2>1 DEF TableInv, Promoted
<1>9. MirrorInv'
  BY <1>1, <1>2 DEF MirrorInv, InBlock
<1>10. CallInv'
  <2>1. InBlock' = InBlock
    BY <1>2 DEF InBlock
  <2> QED
    BY <1>1, <1>2, <1>3, <2>1 DEF CallInv, i
<1>11. ExecutedIsGone'
  BY <1>1, <1>2 DEF ExecutedIsGone
<1> QED
  BY <1>7, <1>8, <1>9, <1>10, <1>11 DEF QueueInv

-----------------------------------------------------------------------------
(* The answer arrives *)

\* When a call ends without an answer that moves the mirror, nothing else moves.
LEMMA CallEnds ==
  ASSUME QueueInv, call' = NoCall, UNCHANGED <<store, memory, keyOf, used, executed>>,
         spent' \in [restarts : Nat, lost : Nat, repeats : Nat]
  PROVE  QueueInv'
<1>1. TypeOK /\ TableInv /\ MirrorInv /\ ExecutedIsGone
  BY DEF QueueInv
<1>2. UNCHANGED <<rows, position, priority, mirror, block, remembered>>
  BY DEF store, memory
<1>3. TypeOK'
  BY <1>1, <1>2 DEF TypeOK, Calls
<1>4. TableInv' /\ MirrorInv' /\ ExecutedIsGone'
  BY <1>1, <1>2 DEF TableInv, Promoted, MirrorInv, InBlock, ExecutedIsGone
<1>5. CallInv'
  BY DEF CallInv, NoCall
<1> QED
  BY <1>3, <1>4, <1>5 DEF QueueInv

\* A refused call leaves the table alone.
LEMMA RefusedKeeps ==
  ASSUME QueueInv, Refused
  PROVE  QueueInv'
  BY CallEnds DEF Refused, QueueInv, TypeOK

\* A lost answer leaves the table as the transaction left it.
LEMMA ReplyLostKeeps ==
  ASSUME QueueInv, ReplyLost
  PROVE  QueueInv'
<1>1. spent \in [restarts : Nat, lost : Nat, repeats : Nat]
  BY DEF QueueInv, TypeOK
<1>2. spent' \in [restarts : Nat, lost : Nat, repeats : Nat]
  BY <1>1 DEF ReplyLost
<1> QED
  BY <1>2, CallEnds DEF ReplyLost

\* The new entry joins the end of the mirror, behind the block.
LEMMA PushedMirror ==
  ASSUME QueueInv, Pushed
  PROVE  /\ mirror' = Append(mirror, call.id) /\ InBlock' = InBlock
         /\ ToSet(mirror') = ToSet(mirror) \cup {call.id}
         /\ MirrorInv'
<1> DEFINE i == call.id
<1>1. TypeOK /\ MirrorInv /\ CallInv
  BY DEF QueueInv
<1>2. /\ mirror' = Append(mirror, i) /\ block' = [block EXCEPT ![i] = 0]
      /\ call.kind = "push"
  BY DEF Pushed, Answered
<1>3. i \in Ids /\ i \in used /\ i \notin ToSet(mirror) /\ i \notin InBlock
  BY <1>1, <1>2, CallIs DEF Kinds, CallInv, InBlock
<1> HIDE DEF i
<1>4. /\ mirror \in Seq(used) /\ Len(mirror) \in Nat /\ DOMAIN mirror = 1 .. Len(mirror)
      /\ ToSet(mirror) \in SUBSET used
  BY <1>1, MirrorSorts, LenProperties
<1>5. /\ Ordered(Append(mirror, i), InBlock)
      /\ ToSet(Append(mirror, i)) = ToSet(mirror) \cup {i}
  BY <1>1, <1>3, <1>4, AppendOrdered DEF MirrorInv
<1>6. block \in [Ids -> Nat] /\ \A x \in Ids \ {i} : block'[x] = block[x]
  BY <1>1, <1>2 DEF TypeOK
<1>7. block'[i] = 0
  BY <1>2, <1>3, <1>6
<1>8. used \subseteq Ids
  BY <1>1 DEF TypeOK
<1>9. InBlock' = InBlock
  <2>1. InBlock' = {x \in ToSet(mirror) \cup {i} : block'[x] # 0}
    BY <1>2, <1>5 DEF InBlock
  <2> QED
    BY <1>3, <1>4, <1>6, <1>7, <1>8, <2>1 DEF InBlock
<1>10. \A a, b \in DOMAIN mirror' :
         a < b /\ mirror'[b] \in InBlock' => block'[mirror'[a]] < block'[mirror'[b]]
  <2>1. /\ DOMAIN mirror' = 1 .. Len(mirror) + 1
        /\ \A a \in 1 .. Len(mirror) : mirror'[a] = mirror[a] /\ mirror[a] \in ToSet(mirror)
        /\ mirror'[Len(mirror) + 1] = i
    BY <1>2, <1>3, <1>4, AppendProperties, LenProperties DEF ToSet
  <2> SUFFICES ASSUME NEW a \in 1 .. Len(mirror) + 1, NEW b \in 1 .. Len(mirror) + 1,
                      a < b, mirror'[b] \in InBlock
               PROVE  block'[mirror'[a]] < block'[mirror'[b]]
    BY <1>9, <2>1
  <2>2. b \in 1 .. Len(mirror) /\ a \in 1 .. Len(mirror)
    BY <1>3, <1>4, <2>1
  <2>3. mirror'[a] = mirror[a] /\ mirror'[b] = mirror[b]
    BY <2>1, <2>2
  <2>4. block[mirror[a]] < block[mirror[b]]
    BY <1>1, <1>4, <2>2, <2>3 DEF MirrorInv
  <2>5. mirror[a] \in Ids \ {i} /\ mirror[b] \in Ids \ {i}
    BY <1>3, <1>4, <1>8, <2>1, <2>2
  <2> QED
    BY <1>6, <2>3, <2>4, <2>5
<1>11. \A x \in Ids \ ToSet(mirror') : block'[x] = 0
  BY <1>1, <1>2, <1>5, <1>6 DEF MirrorInv
<1> QED
  BY <1>2, <1>5, <1>9, <1>10, <1>11 DEF MirrorInv, i

\* The mirror appends what was pushed.
LEMMA PushedKeeps ==
  ASSUME QueueInv, Pushed
  PROVE  QueueInv'
<1> DEFINE i == call.id
<1>1. TypeOK /\ TableInv /\ CallInv /\ ExecutedIsGone
  BY DEF QueueInv
<1>2. /\ call.kind = "push" /\ call' = NoCall
      /\ mirror' = Append(mirror, i) /\ block' = [block EXCEPT ![i] = 0]
      /\ remembered' = remembered
           \/ (keyOf[i] # None /\ remembered' = [remembered EXCEPT ![keyOf[i]] = i])
      /\ UNCHANGED <<rows, position, priority, keyOf, used, executed, spent>>
  BY DEF Pushed, Answered, store
<1>3. i \in Ids /\ i \in used /\ i \notin executed
  BY <1>1, <1>2, CallIs DEF Kinds, CallInv
<1>4. ToSet(mirror') = ToSet(mirror) \cup {i} /\ MirrorInv'
  BY PushedMirror
<1> HIDE DEF i
<1>5. TypeOK'
  <2>1. mirror' \in Seq(used')
    BY <1>1, <1>2, <1>3, AppendProperties DEF TypeOK
  <2>2. block' \in [Ids -> Nat]
    BY <1>1, <1>2 DEF TypeOK
  <2>3. remembered' \in [Keys -> used' \cup {None}]
    BY <1>1, <1>2, <1>3 DEF TypeOK
  <2> QED
    BY <1>1, <1>2, <2>1, <2>2, <2>3 DEF TypeOK, Calls
<1>6. TableInv'
  BY <1>1, <1>2 DEF TableInv, Promoted
<1>7. CallInv'
  BY <1>2 DEF CallInv, NoCall
<1>8. ExecutedIsGone'
  BY <1>1, <1>2, <1>3, <1>4 DEF ExecutedIsGone
<1> QED
  BY <1>4, <1>5, <1>6, <1>7, <1>8 DEF QueueInv

\* An entry leaves the mirror, and the block if it was there.
LEMMA DroppedMirror ==
  ASSUME TypeOK, MirrorInv, NEW i \in Ids, Drop(i)
  PROVE  /\ mirror' \in Seq(used) /\ block' \in [Ids -> Nat]
         /\ InBlock' = InBlock \ {i}
         /\ ToSet(mirror') = ToSet(mirror) \ {i}
         /\ MirrorInv'
<1> DEFINE R == MirrorOrder(mirror, block)
           T == ToSet(mirror)
<1>1. /\ mirror' = Without(mirror, i) /\ block' = [block EXCEPT ![i] = 0]
      /\ block \in [Ids -> Nat] /\ used \subseteq Ids
  BY DEF Drop, TypeOK
<1>2. /\ mirror \in Seq(used) /\ T \in SUBSET used /\ Ordered(mirror, InBlock)
      /\ StrictOrder(R, T) /\ Sorts(mirror, T, R)
  BY MirrorSorts DEF MirrorInv
<1>3. /\ mirror' \in Seq(used) /\ ToSet(mirror') = T \ {i}
      /\ Ordered(mirror', InBlock \ {i})
  BY <1>1, <1>2, WithoutPlaces, WithoutOrdered
<1>4. block' \in [Ids -> Nat] /\ block'[i] = 0 /\ \A x \in Ids \ {i} : block'[x] = block[x]
  BY <1>1
<1>5. InBlock' = InBlock \ {i}
  BY <1>1, <1>2, <1>3, <1>4 DEF InBlock
<1>6. \A j, k \in DOMAIN mirror' :
        j < k /\ mirror'[k] \in InBlock' => block'[mirror'[j]] < block'[mirror'[k]]
  <2>1. CASE i \notin T
    <3>1. mirror' = mirror
      BY <1>1, <2>1 DEF Without
    <3>2. block' = block
      BY <1>1, <2>1 DEF MirrorInv
    <3> QED
      BY <1>5, <3>1, <3>2 DEF MirrorInv
  <2>2. CASE i \in T
    <3>1. Sorts(mirror', T \ {i}, R)
      BY <1>1, <1>2, <2>2, WithoutSorts
    <3>2. DOMAIN mirror' = 1 .. Len(mirror') /\ Len(mirror') \in Nat
      BY <1>3, LenProperties
    <3>3. \A j \in DOMAIN mirror' : mirror'[j] \in T \ {i}
      BY <1>3 DEF ToSet
    <3>4. ASSUME NEW j \in DOMAIN mirror', NEW k \in DOMAIN mirror', j < k,
                 mirror'[k] \in InBlock
          PROVE  block[mirror'[j]] < block[mirror'[k]]
      <4> DEFINE a == mirror'[j]
                 b == mirror'[k]
                 l == IndexOf(mirror, a)
                 m == IndexOf(mirror, b)
      <4>1. a \in T /\ b \in T /\ <<a, b>> \in R
        BY <3>1, <3>3, <3>4 DEF Sorts, Increasing
      <4>2. l \in 1 .. Len(mirror) /\ mirror[l] = a /\ m \in 1 .. Len(mirror) /\ mirror[m] = b
        BY <1>2, <4>1, IndexOfEntry
      <4>3. block[a] \in Nat /\ block[b] \in Nat /\ block[b] # 0 /\ b \in InBlock
        BY <1>1, <1>2, <3>4, <4>1 DEF InBlock
      <4>4. block[a] < block[b] \/ (block[a] = block[b] /\ l < m)
        BY <4>1, <4>3 DEF MirrorOrder
      <4> HIDE DEF a, b, l, m
      <4>5. l \in DOMAIN mirror /\ m \in DOMAIN mirror
        BY <1>2, <4>2, LenProperties
      <4>6. l < m => block[a] < block[b]
        BY <4>2, <4>3, <4>5 DEF MirrorInv
      <4>7. block[a] < block[b]
        BY <4>4, <4>6
      <4> QED
        BY <4>7 DEF a, b
    <3>5. \A j \in DOMAIN mirror' : block'[mirror'[j]] = block[mirror'[j]]
      BY <1>1, <1>2, <1>4, <3>3
    <3> QED
      BY <1>5, <3>4, <3>5
  <2> QED
    BY <2>1, <2>2
<1>7. \A x \in Ids \ ToSet(mirror') : block'[x] = 0
  BY <1>3, <1>4 DEF MirrorInv
<1> QED
  BY <1>3, <1>4, <1>5, <1>6, <1>7 DEF MirrorInv

\* The mirror drops what was canceled.
LEMMA CanceledKeeps ==
  ASSUME QueueInv, Canceled
  PROVE  QueueInv'
<1>1. TypeOK /\ TableInv /\ MirrorInv /\ ExecutedIsGone
  BY DEF QueueInv
<1>2. /\ call.kind = "cancel" /\ call' = NoCall /\ Drop(call.id)
      /\ UNCHANGED <<rows, position, priority, keyOf, remembered, used, executed, spent>>
  BY DEF Canceled, Answered, store
<1>3. /\ mirror' \in Seq(used) /\ block' \in [Ids -> Nat]
      /\ ToSet(mirror') = ToSet(mirror) \ {call.id} /\ MirrorInv'
  BY <1>1, <1>2, CallIs, DroppedMirror DEF Kinds
<1>4. TypeOK'
  BY <1>1, <1>2, <1>3 DEF TypeOK, Calls
<1>5. TableInv'
  BY <1>1, <1>2 DEF TableInv, Promoted
<1>6. CallInv'
  BY <1>2 DEF CallInv, NoCall
<1>7. ExecutedIsGone'
  BY <1>1, <1>2, <1>3 DEF ExecutedIsGone
<1> QED
  BY <1>3, <1>4, <1>5, <1>6, <1>7 DEF QueueInv

\* The mirror drops the head, which is executed from now on.
LEMMA ShiftedKeeps ==
  ASSUME QueueInv, Shifted
  PROVE  QueueInv'
<1>1. TypeOK /\ TableInv /\ MirrorInv /\ CallInv /\ ExecutedIsGone
  BY DEF QueueInv
<1>2. /\ call.kind = "shift" /\ call' = NoCall /\ Drop(call.id)
      /\ call.id \notin rows /\ call.id \in ToSet(mirror)
      /\ executed' = executed \cup {call.id}
      /\ UNCHANGED <<rows, position, priority, keyOf, remembered, used, spent>>
  BY <1>1 DEF Shifted, Answered, store, CallInv
<1>3. /\ mirror' \in Seq(used) /\ block' \in [Ids -> Nat]
      /\ ToSet(mirror') = ToSet(mirror) \ {call.id} /\ MirrorInv'
  BY <1>1, <1>2, CallIs, DroppedMirror DEF Kinds
<1>4. TypeOK'
  <2>1. executed' \subseteq used'
    BY <1>1, <1>2, MirrorSorts DEF TypeOK
  <2> QED
    BY <1>1, <1>2, <1>3, <2>1 DEF TypeOK, Calls
<1>5. TableInv'
  BY <1>1, <1>2 DEF TableInv, Promoted
<1>6. CallInv'
  BY <1>2 DEF CallInv, NoCall
<1>7. ExecutedIsGone'
  BY <1>1, <1>2, <1>3 DEF ExecutedIsGone
<1> QED
  BY <1>3, <1>4, <1>5, <1>6, <1>7 DEF QueueInv

\* Prioritizing an entry of the mirror: it closes the block.
LEMMA PromotedMirror ==
  ASSUME QueueInv, Prioritized
  PROVE  /\ mirror' = PromoteIn(mirror, InBlock, call.id)
         /\ InBlock' = InBlock \cup {call.id}
         /\ mirror' \in Seq(used) /\ block' \in [Ids -> Nat]
         /\ ToSet(mirror') = ToSet(mirror)
         /\ MirrorInv'
<1> DEFINE i == call.id
           T == ToSet(mirror)
           Q == MirrorOrder(mirror, block')
<1>1. TypeOK /\ MirrorInv /\ CallInv
  BY DEF QueueInv
<1>2. /\ block' = [block EXCEPT ![i] = Highest(block, T) + 1]
      /\ mirror' = OrderQueue(mirror, block') /\ i \in T \ InBlock
  BY <1>1 DEF Prioritized, Answered, CallInv
<1> HIDE DEF i
<1>3. /\ OrderQueue(mirror, block') = PromoteIn(mirror, InBlock, i)
      /\ block' \in [Ids -> Nat]
      /\ {x \in T : block'[x] # 0} = InBlock \cup {i}
      /\ StrictOrder(Q, T) /\ Sorts(OrderQueue(mirror, block'), T, Q)
      /\ \A a, b \in T : <<a, b>> \in Q /\ block'[b] # 0
                           => block'[a] # 0 /\ block'[a] < block'[b]
  BY <1>1, <1>2, PrioritizedMirror
<1>4. mirror \in Seq(used)
  BY <1>1 DEF TypeOK
<1>5. mirror' \in Seq(used) /\ ToSet(mirror') = T
  <2>1. mirror' = PromoteIn(mirror, InBlock, i) /\ Ordered(mirror, InBlock)
    BY <1>1, <1>2, <1>3 DEF MirrorInv
  <2>2. PromoteIn(mirror, InBlock, i) \in Seq(used)
    BY <1>2, <1>4, PromoteInType
  <2>3. ToSet(PromoteIn(mirror, InBlock, i)) = T
    BY <1>2, <1>4, <2>1, PromoteInOrdered
  <2> QED
    BY <2>1, <2>2, <2>3
<1> HIDE DEF T, Q
<1>6. InBlock' = InBlock \cup {i}
  BY <1>3, <1>5 DEF InBlock
<1>7. /\ Ordered(mirror', {x \in T : block'[x] # 0})
      /\ \A j, k \in DOMAIN mirror' :
           j < k /\ block'[mirror'[k]] # 0 => block'[mirror'[j]] < block'[mirror'[k]]
  <2> DEFINE p == mirror'
             prio == block'
  <2>1. /\ StrictOrder(Q, T) /\ Sorts(p, T, Q)
        /\ \A a, b \in T : <<a, b>> \in Q /\ prio[b] # 0 => prio[a] # 0 /\ prio[a] < prio[b]
    BY <1>2, <1>3
  <2> HIDE DEF p, prio
  <2>2. /\ Ordered(p, {x \in T : prio[x] # 0})
        /\ \A j, k \in DOMAIN p : j < k /\ prio[p[k]] # 0 => prio[p[j]] < prio[p[k]]
    BY <2>1, BlockRises
  <2> QED
    BY <2>2 DEF p, prio
<1>8. \A x \in Ids \ ToSet(mirror') : block'[x] = 0
  <2>1. block \in [Ids -> Nat] /\ i \in T /\ \A x \in Ids \ T : block[x] = 0
    BY <1>1, <1>2 DEF TypeOK, MirrorInv, T
  <2> QED
    BY <1>2, <1>5, <2>1
<1>9. MirrorInv'
  <2>1. Ordered(mirror', InBlock')
    BY <1>3, <1>6, <1>7
  <2>2. \A x \in InBlock' : block'[x] # 0
    BY DEF InBlock
  <2> QED
    BY <1>7, <1>8, <2>1, <2>2 DEF MirrorInv
<1> QED
  BY <1>2, <1>3, <1>5, <1>6, <1>9 DEF i, T

\* The mirror promotes the entry.
LEMMA PrioritizedKeeps ==
  ASSUME QueueInv, Prioritized
  PROVE  QueueInv'
<1>1. TypeOK /\ TableInv /\ ExecutedIsGone
  BY DEF QueueInv
<1>2. /\ call' = NoCall
      /\ UNCHANGED <<rows, position, priority, keyOf, remembered, used, executed, spent>>
  BY DEF Prioritized, Answered, store
<1>3. /\ mirror' \in Seq(used) /\ block' \in [Ids -> Nat]
      /\ ToSet(mirror') = ToSet(mirror) /\ MirrorInv'
  BY PromotedMirror
<1>4. TypeOK'
  BY <1>1, <1>2, <1>3 DEF TypeOK, Calls
<1>5. TableInv'
  BY <1>1, <1>2 DEF TableInv, Promoted
<1>6. CallInv'
  BY <1>2 DEF CallInv, NoCall
<1>7. ExecutedIsGone'
  BY <1>1, <1>2, <1>3 DEF ExecutedIsGone
<1> QED
  BY <1>3, <1>4, <1>5, <1>6, <1>7 DEF QueueInv

\* Moving an entry past its neighbour: the block stays where it is.
LEMMA MovedMirror ==
  ASSUME QueueInv, Moved
  PROVE  /\ mirror' = Reordered(mirror, InBlock, call.id, call.kind = "up")
         /\ InBlock' = InBlock
         /\ mirror' \in Seq(used)
         /\ ToSet(mirror') = ToSet(mirror)
         /\ MirrorInv'
<1> DEFINE i == call.id
           up == call.kind = "up"
           here == IndexOf(mirror, i)
           near == PlainNeighbours(mirror, InBlock, i, up)
           there == IF up THEN Max(near) ELSE Min(near)
<1>1. TypeOK /\ MirrorInv /\ CallInv
  BY DEF QueueInv
<1>2. /\ mirror' = Reordered(mirror, InBlock, i, up) /\ block' = block
      /\ CanReorder(mirror, InBlock, i, up) /\ up \in BOOLEAN
  BY <1>1 DEF Moved, Answered, CallInv
<1>3. /\ mirror \in Seq(used) /\ Len(mirror) \in Nat /\ DOMAIN mirror = 1 .. Len(mirror)
      /\ Ordered(mirror, InBlock)
  BY <1>1, LenProperties DEF TypeOK, MirrorInv
<1> HIDE DEF i, up
<1>4. /\ Ordered(mirror', InBlock)
      /\ ToSet(mirror') = ToSet(mirror)
  BY <1>2, <1>3, ReorderedOrdered
<1>5. /\ here \in 1 .. Len(mirror) /\ mirror[here] = i
      /\ there \in near /\ there \in 1 .. Len(mirror)
      /\ mirror' \in Seq(used)
      /\ Len(mirror') = Len(mirror)
      /\ \A j \in 1 .. Len(mirror) :
           mirror'[j] = IF j = there THEN i
                        ELSE IF j = here THEN mirror[there] ELSE mirror[j]
  <2> HIDE DEF here, near, there
  <2> QED
    BY <1>2, <1>3, ReorderedPlaces DEF here, near, there
<1>6. InBlock' = InBlock
  BY <1>2, <1>4 DEF InBlock
<1>7. mirror[here] \notin InBlock /\ mirror[there] \notin InBlock
  BY <1>2, <1>5 DEF CanReorder, PlainNeighbours
<1> HIDE DEF here, near, there
<1>8. \A j, k \in DOMAIN mirror' :
        j < k /\ mirror'[k] \in InBlock' => block'[mirror'[j]] < block'[mirror'[k]]
  <2>1. DOMAIN mirror' = 1 .. Len(mirror)
    BY <1>5, LenProperties
  <2> SUFFICES ASSUME NEW j \in 1 .. Len(mirror), NEW k \in 1 .. Len(mirror),
                      j < k, mirror'[k] \in InBlock
               PROVE  block[mirror'[j]] < block[mirror'[k]]
    BY <1>2, <1>6, <2>1
  <2>2. \A l \in 1 .. Len(mirror) : mirror'[l] \in InBlock => mirror'[l] = mirror[l]
    BY <1>5, <1>7
  <2>3. mirror'[j] \in InBlock
    BY <1>4, <2>1 DEF Ordered
  <2>4. mirror'[j] = mirror[j] /\ mirror'[k] = mirror[k]
    BY <2>2, <2>3
  <2> QED
    BY <1>1, <1>3, <2>4 DEF MirrorInv
<1>9. MirrorInv'
  BY <1>1, <1>2, <1>4, <1>6, <1>8 DEF MirrorInv
<1> QED
  BY <1>2, <1>4, <1>5, <1>6, <1>9 DEF i, up

\* The mirror exchanges the entry with its neighbour.
LEMMA MovedKeeps ==
  ASSUME QueueInv, Moved
  PROVE  QueueInv'
<1>1. TypeOK /\ TableInv /\ ExecutedIsGone
  BY DEF QueueInv
<1>2. /\ call' = NoCall
      /\ UNCHANGED <<rows, position, priority, keyOf, block, remembered, used, executed, spent>>
  BY DEF Moved, Answered, store
<1>3. /\ mirror' \in Seq(used)
      /\ ToSet(mirror') = ToSet(mirror) /\ MirrorInv'
  BY MovedMirror
<1>4. TypeOK'
  BY <1>1, <1>2, <1>3 DEF TypeOK, Calls
<1>5. TableInv'
  BY <1>1, <1>2 DEF TableInv, Promoted
<1>6. CallInv'
  BY <1>2 DEF CallInv, NoCall
<1>7. ExecutedIsGone'
  BY <1>1, <1>2, <1>3 DEF ExecutedIsGone
<1> QED
  BY <1>3, <1>4, <1>5, <1>6, <1>7 DEF QueueInv

\* A restart: the mirror is what the table returns.
LEMMA RestartMirror ==
  ASSUME QueueInv, Restart
  PROVE  /\ mirror' = SortedRows /\ InBlock' = Promoted
         /\ mirror' \in Seq(used) /\ ToSet(mirror') = rows
         /\ MirrorInv'
<1>1. TypeOK /\ TableInv
  BY DEF QueueInv
<1>2. mirror' = SortedRows /\ block' = priority
  BY <1>1, RestoredMirror DEF Restart
<1>3. SortedRows \in Seq(rows) /\ ToSet(SortedRows) = rows /\ rows \subseteq used
  BY <1>1, SortedRowsSorts DEF Sorts, TypeOK
<1>4. SortedRows \in Seq(used)
  <2> DEFINE s == SortedRows
  <2>1. s \in Seq(rows)
    BY <1>3
  <2> HIDE DEF s
  <2>2. Len(s) \in Nat /\ s \in [1 .. Len(s) -> rows]
    BY <2>1, LenProperties
  <2>3. s \in [1 .. Len(s) -> used]
    BY <1>3, <2>2
  <2>4. s \in Seq(used)
    BY <2>2, <2>3
  <2> QED
    BY <2>4 DEF s
<1>5. InBlock' = Promoted
  BY <1>2, <1>3 DEF InBlock, Promoted
<1>6. /\ Ordered(mirror', InBlock')
      /\ \A j, k \in DOMAIN mirror' :
           j < k /\ block'[mirror'[k]] # 0 => block'[mirror'[j]] < block'[mirror'[k]]
  BY <1>1, <1>2, <1>5, SortedRowsRise
<1>7. MirrorInv'
  <2>1. \A x \in InBlock' : block'[x] # 0
    BY DEF InBlock
  <2>2. \A x \in Ids \ ToSet(mirror') : block'[x] = 0
    BY <1>1, <1>2, <1>3 DEF TableInv
  <2> QED
    BY <1>6, <2>1, <2>2 DEF MirrorInv
<1> QED
  BY <1>2, <1>3, <1>4, <1>5, <1>7

\* A restart rebuilds the mirror from the rows.
LEMMA RestartKeeps ==
  ASSUME QueueInv, Restart
  PROVE  QueueInv'
<1>1. TypeOK /\ TableInv /\ ExecutedIsGone
  BY DEF QueueInv
<1>2. /\ call' = NoCall /\ block' = priority
      /\ spent' = [spent EXCEPT !.restarts = @ + 1]
      /\ remembered' = [k \in Keys |-> None]
      /\ UNCHANGED <<rows, position, priority, keyOf, used, executed>>
  BY DEF Restart, store
<1>3. mirror' \in Seq(used) /\ ToSet(mirror') = rows /\ MirrorInv'
  BY RestartMirror
<1>4. TypeOK'
  <2>1. spent \in [restarts : Nat, lost : Nat, repeats : Nat]
    BY <1>1 DEF TypeOK
  <2>2. spent' \in [restarts : Nat, lost : Nat, repeats : Nat]
    BY <1>2, <2>1
  <2> QED
    BY <1>1, <1>2, <1>3, <2>2 DEF TypeOK, Calls
<1>5. TableInv'
  BY <1>1, <1>2 DEF TableInv, Promoted
<1>6. CallInv'
  BY <1>2 DEF CallInv, NoCall
<1>7. ExecutedIsGone'
  BY <1>1, <1>2, <1>3 DEF ExecutedIsGone
<1> QED
  BY <1>3, <1>4, <1>5, <1>6, <1>7 DEF QueueInv

-----------------------------------------------------------------------------
(* The invariant holds *)

\* The invariant holds at the beginning.
LEMMA QueueInvInit == Init => QueueInv
<1> SUFFICES ASSUME Init PROVE QueueInv
  OBVIOUS
<1>1. mirror \in Seq(used) /\ ToSet(mirror) = {} /\ DOMAIN mirror = {}
  BY DEF Init, ToSet
<1>2. TypeOK
  BY <1>1 DEF Init, TypeOK, Calls
<1>3. TableInv
  BY FS_EmptySet DEF Init, TableInv, Promoted
<1>4. MirrorInv
  BY <1>1 DEF Init, MirrorInv, Ordered
<1>5. CallInv /\ ExecutedIsGone
  BY DEF Init, CallInv, NoCall, ExecutedIsGone
<1> QED
  BY <1>2, <1>3, <1>4, <1>5 DEF QueueInv

\* Every step keeps it.
LEMMA QueueInvNext ==
  ASSUME QueueInv, [Next]_vars
  PROVE  QueueInv'
<1>1. CASE UNCHANGED vars
  BY <1>1 DEF vars, store, memory, QueueInv, TypeOK, TableInv, Promoted, MirrorInv, InBlock,
              CallInv, ExecutedIsGone
<1>2. CASE \E i \in Ids : \E k \in Keys \cup {None} : Submit(i, k)
  BY <1>2, SubmitKeeps
<1>3. CASE \E i \in Ids : Cancel(i) \/ Promote(i) \/ \E kind \in {"up", "down"} : Reorder(i, kind)
  BY <1>3, CancelKeeps, PromoteKeeps, ReorderKeeps
<1>4. CASE Shift \/ RowPush \/ RowRemove \/ RowPrioritize \/ RowReorder
  BY <1>4, ShiftKeeps, RowPushKeeps, RowRemoveKeeps, RowPrioritizeKeeps, RowReorderKeeps
<1>5. CASE Pushed \/ Canceled \/ Shifted \/ Prioritized \/ Moved
  BY <1>5, PushedKeeps, CanceledKeeps, ShiftedKeeps, PrioritizedKeeps, MovedKeeps
<1>6. CASE Refused \/ ReplyLost \/ Restart
  BY <1>6, RefusedKeeps, ReplyLostKeeps, RestartKeeps
<1> QED
  BY <1>1, <1>2, <1>3, <1>4, <1>5, <1>6 DEF Next

\* The facts about table, mirror and call are invariant for any constants.
THEOREM QueueInvariant == Spec => []QueueInv
  BY QueueInvInit, QueueInvNext, PTL DEF Spec

\* Every reachable state is type correct.
THEOREM TypeCorrect == Spec => []TypeOK
<1>1. QueueInv => TypeOK
  BY DEF QueueInv
<1> QED
  BY <1>1, QueueInvariant, PTL

\* A turn taken from the queue is in no row and in no mirror again, whatever reply
\* is lost and whenever the process restarts.
THEOREM TakenIsGone == Spec => []ExecutedIsGone
<1>1. QueueInv => ExecutedIsGone
  BY DEF QueueInv
<1> QED
  BY <1>1, QueueInvariant, PTL

\* The mirror never shows an entry twice or a plain entry before a promoted one.
THEOREM MirrorStaysInOrder == Spec => []MirrorInOrder
<1>1. QueueInv => MirrorInOrder
  BY DEF QueueInv, MirrorInv, MirrorInOrder
<1> QED
  BY <1>1, QueueInvariant, PTL

-----------------------------------------------------------------------------
(* What a transaction does to the delivery order *)

\* RowOrder after a step.
LEMMA RowOrderNextIs ==
  ASSUME NEW a \in rows', NEW b \in rows'
  PROVE  <<a, b>> \in RowOrder' <=> RowBefore(a, b)'
  BY DEF RowOrder

\* The rows before and after a step, sorted.
LEMMA BothSort ==
  ASSUME QueueInv, QueueInv'
  PROVE  /\ StrictOrder(RowOrder, rows) /\ Sorts(SortedRows, rows, RowOrder)
         /\ StrictOrder(RowOrder', rows') /\ Sorts(SortedRows', rows', RowOrder')
         /\ rows \in SUBSET Ids /\ rows' \in SUBSET Ids
         /\ position \in [Ids -> Nat] /\ priority \in [Ids -> Nat]
<1>1. TypeOK /\ TableInv /\ TypeOK' /\ TableInv'
  BY DEF QueueInv
<1>2. /\ rows \in SUBSET Ids /\ rows' \in SUBSET Ids
      /\ position \in [Ids -> Nat] /\ priority \in [Ids -> Nat]
  BY <1>1 DEF TypeOK
<1> QED
  BY <1>1, <1>2, RowsCompare, SortedRowsSorts, SortedRowsNext

\* A step that leaves the table alone leaves its listing alone.
LEMMA RowsStay ==
  ASSUME QueueInv, QueueInv', UNCHANGED store
  PROVE  SortedRows' = SortedRows /\ Promoted' = Promoted
<1>1. rows' = rows /\ position' = position /\ priority' = priority
  BY DEF store
<1>2. RowOrder' = RowOrder /\ Promoted' = Promoted
  BY <1>1 DEF RowOrder, RowBefore, Promoted
<1> DEFINE p == SortedRows
           q == SortedRows'
<1>3. /\ StrictOrder(RowOrder, rows)
      /\ Sorts(p, rows, RowOrder) /\ Sorts(q, rows, RowOrder)
  BY <1>1, <1>2, BothSort
<1> HIDE DEF p, q
<1>4. q = p
  BY <1>3, SortedIsUnique
<1> QED
  BY <1>2, <1>4 DEF p, q

\* A new row is the last of the plain ones.
LEMMA PushedRows ==
  ASSUME QueueInv, QueueInv', RowPush, rows' # rows
  PROVE  /\ SortedRows' = Append(SortedRows, call.id) /\ Promoted' = Promoted
         /\ call.phase = "sent" /\ call'.phase = "done"
<1> DEFINE next == Highest(position, rows) + 1
           p == SortedRows
           q == SortedRows'
           R == RowOrder
           Q == RowOrder'
<1>1. PICK i : i = call.id
  OBVIOUS
<1>2. TypeOK /\ TableInv /\ CallInv
  BY DEF QueueInv
<1>3. i \in Ids /\ i \notin rows
  BY <1>1, <1>2, CallIs DEF RowPush, Sent, Kinds, CallInv
<1>4. /\ rows' = rows \cup {i}
      /\ position' = [position EXCEPT ![i] = next]
      /\ priority' = [priority EXCEPT ![i] = 0]
      /\ call.kind = "push" /\ call.phase = "sent" /\ Answer("done")
  <2>1. Cardinality(rows) \in Nat /\ MaxQueue \in Nat
    BY <1>2, BothSort, SortedIsCounted, FS_CardinalityType, QueueAssumption
  <2>2. Cardinality(rows) < MaxQueue => ~ (Cardinality(rows) >= MaxQueue)
    BY <2>1
  <2> QED
    BY <1>1, <2>2 DEF RowPush, Sent, store
<1>5. call'.phase = "done"
  BY <1>2, <1>4, AnswerIs DEF Kinds
<1>6. /\ StrictOrder(R, rows) /\ Sorts(p, rows, R)
      /\ StrictOrder(Q, rows') /\ Sorts(q, rows', Q)
      /\ rows \in SUBSET Ids /\ position \in [Ids -> Nat] /\ priority \in [Ids -> Nat]
  BY BothSort
<1>7. IsFiniteSet(rows) /\ \A x \in rows : position[x] \in Nat
  BY <1>6, SortedIsCounted
<1>8. Highest(position, rows) \in Nat /\ \A x \in rows : position[x] <= Highest(position, rows)
  BY <1>7, HighestIs
<1>9. next \in Nat /\ \A x \in rows : position[x] \in Nat /\ position[x] < next
  BY <1>7, <1>8
<1> HIDE DEF next
<1>10. /\ position'[i] = next /\ priority'[i] = 0
       /\ \A x \in rows : /\ position'[x] = position[x] /\ position[x] < next
                          /\ priority'[x] = priority[x] /\ priority[x] \in Nat
  BY <1>3, <1>4, <1>6, <1>9
<1>11. ASSUME NEW x \in rows, NEW y \in rows, <<x, y>> \in R
       PROVE  <<x, y>> \in Q
  <2>1. RowBefore(x, y) /\ x \in rows' /\ y \in rows'
    BY <1>4, <1>11, RowOrderIs
  <2>2. RowBefore(x, y)'
    BY <1>10, <2>1 DEF RowBefore
  <2> QED
    BY <2>1, <2>2, RowOrderNextIs
<1>12. ASSUME NEW x \in rows
       PROVE  <<x, i>> \in Q
  <2>1. RowBefore(x, i)'
    BY <1>10 DEF RowBefore
  <2>2. x \in rows' /\ i \in rows'
    BY <1>4
  <2> QED
    BY <2>1, <2>2, RowOrderNextIs
<1> HIDE DEF p, q, R, Q
<1>13. Sorts(Append(p, i), rows', Q)
  BY <1>3, <1>4, <1>6, <1>11, <1>12, AppendSorts
<1>14. q = Append(p, i)
  BY <1>6, <1>13, SortedIsUnique
<1>15. Promoted' = Promoted
  BY <1>3, <1>4, <1>10 DEF Promoted
<1> QED
  BY <1>1, <1>4, <1>5, <1>14, <1>15 DEF p, q

\* A row that leaves leaves the others as they were, whether it was there or not.
LEMMA RemovedRows ==
  ASSUME QueueInv, QueueInv', RowRemove
  PROVE  /\ SortedRows' = Without(SortedRows, call.id)
         /\ Promoted' = Promoted \ {call.id}
         /\ call.kind \in {"cancel", "shift"} /\ call.phase = "sent" /\ call'.phase = "done"
<1> DEFINE p == SortedRows
           q == SortedRows'
           R == RowOrder
           Q == RowOrder'
<1>1. PICK i : i = call.id
  OBVIOUS
<1>2. TypeOK /\ TableInv
  BY DEF QueueInv
<1>3. /\ call.kind \in {"cancel", "shift"} /\ i \in Ids /\ call.phase = "sent"
      /\ rows' = rows \ {i}
      /\ position' = [position EXCEPT ![i] = 0]
      /\ priority' = [priority EXCEPT ![i] = 0]
      /\ Answer("done")
  BY <1>1, <1>2, CallIs DEF RowRemove, Sent, Kinds
<1>4. call'.phase = "done"
  BY <1>2, <1>3, AnswerIs DEF Kinds
<1>5. /\ StrictOrder(R, rows) /\ Sorts(p, rows, R)
      /\ StrictOrder(Q, rows') /\ Sorts(q, rows', Q)
      /\ rows \in SUBSET Ids /\ position \in [Ids -> Nat] /\ priority \in [Ids -> Nat]
  BY BothSort
<1>6. \A x \in rows \ {i} : position'[x] = position[x] /\ priority'[x] = priority[x]
  BY <1>3, <1>5
<1>7. ASSUME NEW x \in rows \ {i}, NEW y \in rows \ {i}, <<x, y>> \in R
      PROVE  <<x, y>> \in Q
  <2>1. RowBefore(x, y) /\ x \in rows' /\ y \in rows'
    BY <1>3, <1>7, RowOrderIs
  <2>2. RowBefore(x, y)'
    BY <1>6, <2>1 DEF RowBefore
  <2> QED
    BY <2>1, <2>2, RowOrderNextIs
<1> HIDE DEF p, q, R, Q
<1>8. Sorts(Without(p, i), rows', Q)
  <2>1. CASE i \in rows
    BY <1>3, <1>5, <1>7, <2>1, WithoutSorts
  <2>2. CASE i \notin rows
    <3>1. Without(p, i) = p /\ rows' = rows
      BY <1>3, <1>5, <2>2 DEF Without, Sorts
    <3>2. Increasing(p, Q)
      <4>1. \A j \in DOMAIN p : p[j] \in rows \ {i}
        BY <1>5, <2>2, LenProperties, ElementOfSeq DEF Sorts
      <4> QED
        BY <1>5, <1>7, <4>1 DEF Sorts, Increasing
    <3> QED
      BY <1>5, <3>1, <3>2 DEF Sorts
  <2> QED
    BY <2>1, <2>2
<1>9. q = Without(p, i)
  BY <1>5, <1>8, SortedIsUnique
<1>10. Promoted' = Promoted \ {i}
  BY <1>3, <1>6 DEF Promoted
<1> QED
  BY <1>1, <1>3, <1>4, <1>9, <1>10 DEF p, q

\* A row that gets a priority closes the block of those that have one.
LEMMA PrioritizedRows ==
  ASSUME QueueInv, QueueInv', RowPrioritize, call.id \in rows \ Promoted
  PROVE  /\ SortedRows' = PromoteIn(SortedRows, Promoted, call.id)
         /\ Promoted' = Promoted \cup {call.id}
         /\ call.kind = "promote" /\ call.phase = "sent" /\ call'.phase = "done"
<1> DEFINE next == Highest(priority, rows) + 1
           p == SortedRows
           q == SortedRows'
           R == RowOrder
           Q == RowOrder'
<1>1. PICK i : i = call.id
  OBVIOUS
<1>2. TypeOK /\ TableInv
  BY DEF QueueInv
<1>3. /\ call.kind = "promote" /\ call.phase = "sent" /\ Answer("done")
      /\ priority' = [priority EXCEPT ![i] = next]
      /\ UNCHANGED <<rows, position>>
  BY <1>1 DEF RowPrioritize, Sent
<1>4. call'.phase = "done" /\ i \in Ids
  BY <1>1, <1>2, <1>3, CallIs, AnswerIs DEF Kinds
<1>5. i \in rows \ Promoted
  BY <1>1
<1>6. /\ StrictOrder(R, rows) /\ Sorts(p, rows, R)
      /\ StrictOrder(Q, rows) /\ Sorts(q, rows, Q)
      /\ rows \in SUBSET Ids /\ position \in [Ids -> Nat] /\ priority \in [Ids -> Nat]
  BY <1>3, BothSort
<1>7. IsFiniteSet(rows) /\ \A x \in rows : priority[x] \in Nat
  BY <1>6, SortedIsCounted
<1>8. Highest(priority, rows) \in Nat /\ \A x \in rows : priority[x] <= Highest(priority, rows)
  BY <1>7, HighestIs
<1>9. next \in Nat /\ next # 0 /\ \A x \in rows : priority[x] < next
  BY <1>7, <1>8
<1> HIDE DEF next
<1>10. /\ priority'[i] = next
       /\ \A x \in rows \ {i} : priority'[x] = priority[x] /\ priority'[x] \in Nat
                                /\ priority'[x] < next
       /\ \A x \in rows : x \in Promoted <=> priority[x] # 0
  BY <1>3, <1>4, <1>6, <1>9 DEF Promoted
<1>11. ASSUME NEW x \in rows \ {i}, NEW y \in rows \ {i}, <<x, y>> \in R
       PROVE  <<x, y>> \in Q
  <2>1. RowBefore(x, y) /\ x \in rows' /\ y \in rows'
    BY <1>3, <1>11, RowOrderIs
  <2>2. RowBefore(x, y)'
    BY <1>3, <1>10, <2>1 DEF RowBefore
  <2> QED
    BY <2>1, <2>2, RowOrderNextIs
<1>12. ASSUME NEW x \in rows \ {i}
       PROVE  IF x \in Promoted THEN <<x, i>> \in Q ELSE <<i, x>> \in Q
  <2>1. x \in rows' /\ i \in rows'
    BY <1>3, <1>5
  <2>2. IF x \in Promoted THEN RowBefore(x, i)' ELSE RowBefore(i, x)'
    BY <1>9, <1>10 DEF RowBefore
  <2> QED
    BY <2>1, <2>2, RowOrderNextIs
<1>13. Ordered(p, Promoted)
  BY <1>2, SortedRowsRise
<1> HIDE DEF p, q, R, Q
<1>14. Sorts(PromoteIn(p, Promoted, i), rows, Q)
  BY <1>5, <1>6, <1>11, <1>12, <1>13, PromoteInSorts
<1>15. q = PromoteIn(p, Promoted, i)
  BY <1>6, <1>14, SortedIsUnique
<1>16. Promoted' = Promoted \cup {i}
  BY <1>3, <1>5, <1>9, <1>10 DEF Promoted
<1> QED
  BY <1>1, <1>3, <1>4, <1>15, <1>16 DEF p, q

\* Two plain rows: the one with the lower position comes first.
LEMMA PlainRowsAreByPosition ==
  ASSUME TypeOK, TableInv, NEW x \in rows \ Promoted, NEW y \in rows \ Promoted
  PROVE  /\ position[x] < position[y] <=> IndexOf(SortedRows, x) < IndexOf(SortedRows, y)
         /\ position[x] = position[y] => x = y
         /\ position[x] \in Nat /\ position[y] \in Nat
<1> DEFINE s == SortedRows
           j == IndexOf(s, x)
           k == IndexOf(s, y)
<1>1. StrictOrder(RowOrder, rows) /\ Sorts(s, rows, RowOrder)
  BY RowsCompare, SortedRowsSorts
<1>2. /\ position[x] \in Nat /\ position[y] \in Nat
      /\ priority[x] = 0 /\ priority[y] = 0
  BY DEF TypeOK, Promoted
<1>3. position[x] = position[y] => x = y
  BY DEF TableInv
<1>4. \A a, b \in {x, y} : <<a, b>> \in RowOrder <=> position[a] < position[b]
  BY <1>2, RowOrderIs DEF RowBefore
<1> HIDE DEF s
<1>5. /\ j \in DOMAIN s /\ s[j] = x /\ k \in DOMAIN s /\ s[k] = y
      /\ j \in Nat /\ k \in Nat
  <2>1. s \in Seq(rows) /\ ToSet(s) = rows /\ DOMAIN s = 1 .. Len(s) /\ Len(s) \in Nat
    BY <1>1, LenProperties DEF Sorts
  <2>2. j \in 1 .. Len(s) /\ s[j] = x /\ k \in 1 .. Len(s) /\ s[k] = y
    BY <2>1, IndexOfEntry
  <2> QED
    BY <2>1, <2>2
<1> HIDE DEF j, k
<1>6. j < k => position[x] < position[y]
  BY <1>1, <1>4, <1>5 DEF Sorts, Increasing
<1>7. k < j => position[y] < position[x]
  BY <1>1, <1>4, <1>5 DEF Sorts, Increasing
<1>8. j = k => x = y
  BY <1>5
<1>9. position[x] < position[y] <=> j < k
  BY <1>2, <1>5, <1>6, <1>7, <1>8
<1> QED
  BY <1>2, <1>3, <1>9 DEF j, k, s

\* The row the store exchanges with is the plain neighbour in the sorted queue.
LEMMA NearestRowIsNeighbour ==
  ASSUME TypeOK, TableInv, NEW i \in rows \ Promoted, NEW up \in BOOLEAN,
         PlainRows(i, up) # {}
  PROVE  LET near == PlainNeighbours(SortedRows, Promoted, i, up)
             there == IF up THEN Max(near) ELSE Min(near)
         IN  /\ CanReorder(SortedRows, Promoted, i, up)
             /\ NearestRow(i, up) \in rows \ Promoted
             /\ SortedRows[there] = NearestRow(i, up)
<1> DEFINE s == SortedRows
           at(x) == IndexOf(s, x)
           near == PlainNeighbours(s, Promoted, i, up)
           there == IF up THEN Max(near) ELSE Min(near)
           n == NearestRow(i, up)
<1>1. /\ s \in Seq(rows) /\ ToSet(s) = rows /\ Ordered(s, {})
      /\ DOMAIN s = 1 .. Len(s) /\ Len(s) \in Nat
      /\ \A j \in 1 .. Len(s) : s[j] \in rows
  <2> HIDE DEF s
  <2>1. Sorts(s, rows, RowOrder) /\ StrictOrder(RowOrder, rows)
    BY RowsCompare, SortedRowsSorts DEF s
  <2> QED
    BY <2>1, LenProperties, ElementOfSeq, SortedHasNoRepeats DEF Sorts
<1>2. \A x, y \in rows \ Promoted :
        /\ position[x] < position[y] <=> at(x) < at(y)
        /\ position[x] = position[y] => x = y
        /\ position[x] \in Nat /\ position[y] \in Nat
  BY PlainRowsAreByPosition
<1> HIDE DEF s
<1>3. \A j \in 1 .. Len(s) : at(s[j]) = j
  BY <1>1, IndexIsPlace
<1>4. \A x \in rows : at(x) \in 1 .. Len(s) /\ s[at(x)] = x
  BY <1>1, IndexOfEntry
<1>5. /\ n \in PlainRows(i, up)
      /\ \A m \in PlainRows(i, up) : IF up THEN position[m] <= position[n]
                                           ELSE position[m] >= position[n]
  BY NearestIs
<1>6. \A m : m \in PlainRows(i, up) <=>
               /\ m \in rows \ Promoted
               /\ IF up THEN position[m] < position[i] ELSE position[m] > position[i]
  BY DEF PlainRows
<1>7. \A j : j \in near <=>
               /\ j \in 1 .. Len(s) /\ s[j] \notin Promoted
               /\ IF up THEN j < at(i) ELSE j > at(i)
  BY <1>1 DEF PlainNeighbours
<1> HIDE DEF near, n, at
<1>8. \A m \in rows : m \in PlainRows(i, up) <=> at(m) \in near
  BY <1>2, <1>4, <1>6, <1>7
<1>9. n \in rows \ Promoted /\ at(n) \in near
  BY <1>5, <1>6, <1>8
<1>10. near \in SUBSET (1 .. Len(s)) /\ near # {}
  BY <1>7, <1>9
<1>11. /\ there \in near
       /\ \A j \in near : IF up THEN there >= j ELSE there <= j
  BY <1>1, <1>10, FirstAndLastPlace
<1> HIDE DEF there
<1>12. there \in 1 .. Len(s) /\ at(s[there]) = there /\ s[there] \in rows \ Promoted
  BY <1>1, <1>3, <1>7, <1>11
<1>13. s[there] \in PlainRows(i, up)
  BY <1>8, <1>11, <1>12
<1>14. s[there] = n
  <2> DEFINE m == s[there]
  <2>1. /\ IF up THEN at(m) >= at(n) ELSE at(m) <= at(n)
        /\ IF up THEN position[m] <= position[n] ELSE position[m] >= position[n]
    BY <1>5, <1>9, <1>11, <1>12, <1>13
  <2>2. at(m) \in Nat /\ at(n) \in Nat
    BY <1>4, <1>9, <1>12
  <2>3. m \in rows \ Promoted /\ n \in rows \ Promoted
    BY <1>9, <1>12
  <2> HIDE DEF m
  <2>4. ~ (position[m] < position[n]) /\ ~ (position[n] < position[m])
    BY <1>2, <2>1, <2>2, <2>3
  <2>5. position[m] = position[n]
    BY <1>2, <2>3, <2>4
  <2>6. m = n
    BY <1>2, <2>3, <2>5
  <2> QED
    BY <2>6 DEF m
<1>15. CanReorder(s, Promoted, i, up)
  BY <1>1, <1>10 DEF CanReorder, near
<1> QED
  BY <1>9, <1>14, <1>15 DEF near, there, n, s

\* Two plain rows exchange their positions, and so their places.
LEMMA ReorderedRows ==
  ASSUME QueueInv, QueueInv', RowReorder, call.id \in rows \ Promoted,
         PlainRows(call.id, call.kind = "up") # {}
  PROVE  /\ SortedRows' = Reordered(SortedRows, Promoted, call.id, call.kind = "up")
         /\ Promoted' = Promoted
         /\ call.kind \in {"up", "down"} /\ call.phase = "sent" /\ call'.phase = "done"
<1>1. PICK i, up, n :
         /\ i = call.id /\ up = (call.kind = "up") /\ up \in BOOLEAN
         /\ n = NearestRow(i, up)
  <2>1. (call.kind = "up") \in BOOLEAN
    OBVIOUS
  <2> QED
    BY <2>1
<1> DEFINE p == SortedRows
           q == SortedRows'
           R == RowOrder
           Q == RowOrder'
           here == IndexOf(p, i)
           near == PlainNeighbours(p, Promoted, i, up)
           there == IF up THEN Max(near) ELSE Min(near)
           moved == Reordered(p, Promoted, i, up)
           to == [x \in rows |-> IF x = i THEN n ELSE IF x = n THEN i ELSE x]
<1>2. TypeOK /\ TableInv
  BY DEF QueueInv
<1>3. /\ call.kind \in {"up", "down"} /\ call.phase = "sent" /\ Answer("done")
      /\ position' = [position EXCEPT ![i] = position[n], ![n] = position[i]]
      /\ UNCHANGED <<rows, priority>>
  BY <1>1 DEF RowReorder, Sent
<1>4. call'.phase = "done"
  BY <1>2, <1>3, AnswerIs DEF Kinds
<1>5. /\ i \in rows \ Promoted
      /\ CanReorder(p, Promoted, i, up) /\ n \in rows \ Promoted /\ p[there] = n
  BY <1>1, <1>2, NearestRowIsNeighbour
<1>6. /\ StrictOrder(R, rows) /\ Sorts(p, rows, R)
      /\ StrictOrder(Q, rows) /\ Sorts(q, rows, Q)
      /\ rows \in SUBSET Ids /\ position \in [Ids -> Nat] /\ priority \in [Ids -> Nat]
  BY <1>3, BothSort
<1> HIDE DEF p, q
<1>7. /\ p \in Seq(rows) /\ ToSet(p) = rows /\ Ordered(p, Promoted)
      /\ Len(p) \in Nat /\ DOMAIN p = 1 .. Len(p)
      /\ \A j \in 1 .. Len(p) : p[j] \in rows
      /\ \A j, k \in 1 .. Len(p) : p[j] = p[k] => j = k
  BY <1>2, <1>6, LenProperties, ElementOfSeq, SortedHasNoRepeats, SortedRowsRise DEF Sorts, p
<1>8. up \in BOOLEAN
  BY <1>1
<1>9. /\ here \in 1 .. Len(p) /\ p[here] = i
      /\ there \in near /\ there \in 1 .. Len(p)
      /\ moved \in Seq(rows)
      /\ Len(moved) = Len(p)
      /\ \A j \in 1 .. Len(p) :
           moved[j] = IF j = there THEN i ELSE IF j = here THEN p[there] ELSE p[j]
  <2> HIDE DEF here, near, there, moved
  <2> QED
    BY <1>5, <1>7, <1>8, ReorderedPlaces DEF here, near, there, moved
<1>10. ToSet(moved) = rows
  BY <1>5, <1>7, <1>8, ReorderedOrdered
<1> HIDE DEF here, near, there, moved
<1>11. ASSUME NEW j \in 1 .. Len(p)
       PROVE  moved[j] = to[p[j]]
  <2>1. p[j] \in rows /\ (p[j] = i <=> j = here) /\ (p[j] = n <=> j = there)
    BY <1>5, <1>7, <1>9
  <2>2. to[p[j]] = IF p[j] = i THEN n ELSE IF p[j] = n THEN i ELSE p[j]
    BY <2>1
  <2>3. moved[j] = IF j = there THEN i ELSE IF j = here THEN n ELSE p[j]
    BY <1>5, <1>9
  <2>4. i = n => p[j] # i \/ here = there
    BY <1>5, <1>7, <1>9
  <2> QED
    BY <2>1, <2>2, <2>3, <2>4
<1>12. \A x \in rows : /\ to[x] \in rows /\ position'[to[x]] = position[x]
                       /\ priority[to[x]] = priority[x]
  <2>1. priority[i] = 0 /\ priority[n] = 0
    BY <1>5 DEF Promoted
  <2>2. \A x \in rows : to[x] = IF x = i THEN n ELSE IF x = n THEN i ELSE x
    OBVIOUS
  <2>3. \A x \in rows : position'[x] = IF x = n THEN position[i]
                                       ELSE IF x = i THEN position[n] ELSE position[x]
    BY <1>3, <1>5, <1>6
  <2> HIDE DEF to
  <2> QED
    BY <1>5, <2>1, <2>2, <2>3
<1> HIDE DEF to
<1>13. ASSUME NEW x \in rows, NEW y \in rows, <<x, y>> \in R
       PROVE  <<to[x], to[y]>> \in Q
  <2>1. RowBefore(x, y)
    BY <1>13, RowOrderIs
  <2>2. PICK a, b : a = to[x] /\ b = to[y]
    BY Zenon
  <2>3. /\ a \in rows' /\ position'[a] = position[x] /\ priority'[a] = priority[x]
        /\ b \in rows' /\ position'[b] = position[y] /\ priority'[b] = priority[y]
    BY <1>3, <1>12, <2>2
  <2>4. RowBefore(a, b)'
    BY <2>1, <2>3 DEF RowBefore
  <2> QED
    BY <2>2, <2>3, <2>4, RowOrderNextIs
<1> HIDE DEF R, Q
<1>14. Sorts(moved, rows, Q)
  BY <1>6, <1>9, <1>10, <1>11, <1>13, ExchangedSorts
<1>15. q = moved
  BY <1>6, <1>14, SortedIsUnique
<1>16. Promoted' = Promoted
  BY <1>3 DEF Promoted
<1> QED
  BY <1>1, <1>3, <1>4, <1>15, <1>16 DEF p, q, moved

\* Every step of the store does the operation of the call to the delivery order, or
\* nothing; what moves the mirror does not touch the store.
LEMMA StoreSteps ==
  ASSUME QueueInv, QueueInv', [Next]_vars
  PROVE  \/ UNCHANGED store
         \/ RowPush /\ rows' # rows
         \/ RowRemove
         \/ RowPrioritize /\ call.id \in rows \ Promoted
         \/ RowReorder /\ call.id \in rows \ Promoted /\ PlainRows(call.id, call.kind = "up") # {}
<1>1. CASE RowPush
  <2>1. call.id \notin rows
    BY <1>1 DEF QueueInv, CallInv, RowPush, Sent
  <2>2. UNCHANGED store \/ rows' = rows \cup {call.id}
    BY <1>1 DEF RowPush
  <2> QED
    BY <1>1, <2>1, <2>2
<1>2. CASE RowRemove
  BY <1>2
<1>3. CASE RowPrioritize
  BY <1>3 DEF RowPrioritize, store
<1>4. CASE RowReorder
  BY <1>4 DEF RowReorder, store
<1>5. CASE \E i \in Ids : \/ \E k \in Keys \cup {None} : Submit(i, k)
                          \/ Cancel(i) \/ Promote(i)
                          \/ \E kind \in {"up", "down"} : Reorder(i, kind)
  BY <1>5 DEF Submit, Cancel, Promote, Reorder
<1>6. CASE \/ Shift \/ Pushed \/ Canceled \/ Shifted \/ Prioritized \/ Moved
           \/ Refused \/ ReplyLost \/ Restart \/ UNCHANGED vars
  BY <1>6 DEF Shift, Pushed, Canceled, Shifted, Prioritized, Moved, Refused, ReplyLost,
              Restart, vars
<1> QED
  BY <1>1, <1>2, <1>3, <1>4, <1>5, <1>6 DEF Next

\* Each transaction changes the delivery order by the operation it was asked for.
THEOREM StoreChangesAsAsked == Spec => StoreKeepsOrder
<1> DEFINE Asked ==
      SortedRows' # SortedRows =>
        SortedRows' =
          CASE call.kind = "push" -> Append(SortedRows, call.id)
            [] call.kind \in {"cancel", "shift"} -> Without(SortedRows, call.id)
            [] call.kind = "promote" -> PromoteIn(SortedRows, Promoted, call.id)
            [] OTHER -> Reordered(SortedRows, Promoted, call.id, call.kind = "up")
<1>1. ASSUME QueueInv, QueueInv', [Next]_vars
      PROVE  Asked
  <2>1. CASE UNCHANGED store
    BY <1>1, <2>1, RowsStay
  <2>2. CASE RowPush /\ rows' # rows
    <3>1. SortedRows' = Append(SortedRows, call.id) /\ call.kind = "push"
      BY <1>1, <2>2, PushedRows DEF RowPush, Sent
    <3> QED
      BY <3>1
  <2>3. CASE RowRemove
    <3>1. SortedRows' = Without(SortedRows, call.id) /\ call.kind \in {"cancel", "shift"}
      BY <1>1, <2>3, RemovedRows
    <3> QED
      BY <3>1
  <2>4. CASE RowPrioritize /\ call.id \in rows \ Promoted
    <3>1. SortedRows' = PromoteIn(SortedRows, Promoted, call.id) /\ call.kind = "promote"
      BY <1>1, <2>4, PrioritizedRows
    <3> QED
      BY <3>1
  <2>5. CASE /\ RowReorder /\ call.id \in rows \ Promoted
             /\ PlainRows(call.id, call.kind = "up") # {}
    <3>1. /\ SortedRows' = Reordered(SortedRows, Promoted, call.id, call.kind = "up")
          /\ call.kind \in {"up", "down"}
      BY <1>1, <2>5, ReorderedRows
    <3> QED
      BY <3>1
  <2> QED
    BY <1>1, <2>1, <2>2, <2>3, <2>4, <2>5, StoreSteps
<1>2. QueueInv /\ QueueInv' /\ [Next]_vars => [Asked]_vars
  BY <1>1
<1>3. [][Asked]_vars => StoreKeepsOrder
  BY PTL DEF StoreKeepsOrder
<1> QED
  BY <1>2, <1>3, QueueInvariant, PTL DEF Spec

-----------------------------------------------------------------------------
(* The mirror follows the rows *)

\* No reply was lost and no key of a row repeated, so far.
InStep == spent.lost = 0 /\ spent.repeats = 0

Same == SortedRows = mirror /\ Promoted = InBlock

KeyIsNew == Sent("push") => \A j \in rows : keyOf[j] # None => keyOf[j] # keyOf[call.id]

\* StepInv with its parts named.
LEMMA StepInvIs ==
  StepInv <=> (InStep => /\ KeyIsNew
                         /\ call.phase # "done" => Same
                         /\ call.phase = "done" =>
                              SortedRows = Expected /\ Promoted = ExpectedBlock)
  BY DEF StepInv, InStep, KeyIsNew, Same

\* The operation each kind of call stands for.
LEMMA ExpectedIs ==
  /\ call.kind = "push" => Expected = Append(mirror, call.id) /\ ExpectedBlock = InBlock
  /\ call.kind \in {"cancel", "shift"} =>
       Expected = Without(mirror, call.id) /\ ExpectedBlock = InBlock \ {call.id}
  /\ call.kind = "promote" =>
       /\ Expected = PromoteIn(mirror, InBlock, call.id)
       /\ ExpectedBlock = InBlock \cup {call.id}
  /\ call.kind \in {"up", "down"} =>
       /\ Expected = Reordered(mirror, InBlock, call.id, call.kind = "up")
       /\ ExpectedBlock = InBlock
  BY DEF Expected, ExpectedBlock

\* The bounds are only ever used up.
LEMMA StepsStayOut ==
  ASSUME QueueInv, [Next]_vars, InStep'
  PROVE  InStep
<1>1. spent \in [restarts : Nat, lost : Nat, repeats : Nat]
  BY DEF QueueInv, TypeOK
<1>2. \/ spent' = spent
      \/ spent' = [spent EXCEPT !.repeats = @ + 1]
      \/ spent' = [spent EXCEPT !.lost = @ + 1]
      \/ spent' = [spent EXCEPT !.restarts = @ + 1]
  BY DEF Next, vars, Submit, Cancel, Promote, Reorder, Shift, RowPush, RowRemove,
         RowPrioritize, RowReorder, Pushed, Canceled, Shifted, Prioritized, Moved, Refused,
         ReplyLost, Restart
<1> QED
  BY <1>1, <1>2 DEF InStep

\* An operation starts from a mirror that shows the rows.
LEMMA AskInStep ==
  ASSUME QueueInv, QueueInv', StepInv, InStep, NEW kind, NEW i, Ask(kind, i),
         UNCHANGED <<store, memory>>, KeyIsNew'
  PROVE  StepInv'
<1>1. call.phase # "done" /\ call'.phase = "sent"
  BY DEF Ask, NoCall
<1>2. Same
  BY <1>1, StepInvIs
<1>3. SortedRows' = SortedRows /\ Promoted' = Promoted
  BY RowsStay
<1>4. mirror' = mirror /\ InBlock' = InBlock
  BY DEF memory, InBlock
<1>5. Same'
  BY <1>2, <1>3, <1>4 DEF Same
<1> QED
  BY <1>1, <1>5 DEF StepInv, Same, KeyIsNew

\* A submission starts a push while mirror and rows agree.
LEMMA SubmitInStep ==
  ASSUME QueueInv, QueueInv', StepInv, InStep, InStep',
         NEW i \in Ids, NEW k \in Keys \cup {None}, Submit(i, k)
  PROVE  StepInv'
<1>1. ~ (k # None /\ \E j \in rows : keyOf[j] = k)
  <2>1. spent \in [restarts : Nat, lost : Nat, repeats : Nat]
    BY DEF QueueInv, TypeOK
  <2> SUFFICES ASSUME k # None /\ \E j \in rows : keyOf[j] = k PROVE FALSE
    OBVIOUS
  <2>2. spent' = [spent EXCEPT !.repeats = @ + 1]
    BY DEF Submit
  <2> QED
    BY <2>1, <2>2 DEF InStep
<1>2. /\ rows' = rows /\ call'.id = i /\ keyOf' = [keyOf EXCEPT ![i] = k]
      /\ i \notin rows /\ rows \subseteq Ids /\ keyOf \in [Ids -> Keys \cup {None}]
  BY DEF Submit, Ask, store, QueueInv, TypeOK
<1>3. KeyIsNew'
  <2>1. keyOf'[i] = k /\ \A j \in rows : keyOf'[j] = keyOf[j]
    BY <1>2
  <2>2. \A j \in rows' : keyOf'[j] # None => keyOf'[j] # keyOf'[call'.id]
    BY <1>1, <1>2, <2>1
  <2> QED
    BY <2>2 DEF KeyIsNew
<1> QED
  BY <1>3, AskInStep DEF Submit

\* The other operations start like that, too.
LEMMA StartInStep ==
  ASSUME QueueInv, QueueInv', StepInv, InStep,
         \/ Shift
         \/ \E i \in Ids : \/ Cancel(i) \/ Promote(i)
                           \/ \E kind \in {"up", "down"} : Reorder(i, kind)
  PROVE  StepInv'
<1>1. PICK kind, i :
        kind \in Kinds \ {"push"} /\ Ask(kind, i) /\ UNCHANGED <<store, memory>>
  BY DEF Shift, Cancel, Promote, Reorder, Kinds
<1>2. call'.kind # "push"
  BY <1>1 DEF Ask
<1>3. KeyIsNew'
  BY <1>2 DEF KeyIsNew, Sent
<1> QED
  BY <1>1, <1>3, AskInStep

\* The store's transactions: the rows move one operation ahead of the mirror.
LEMMA RowStepInStep ==
  ASSUME QueueInv, QueueInv', StepInv, InStep,
         RowPush \/ RowRemove \/ RowPrioritize \/ RowReorder
  PROVE  StepInv'
<1>1. Same /\ KeyIsNew
  <2>1. call.phase = "sent"
    BY DEF RowPush, RowRemove, RowPrioritize, RowReorder, Sent
  <2> QED
    BY <2>1, StepInvIs
<1>2. mirror' = mirror /\ InBlock' = InBlock
  BY DEF RowPush, RowRemove, RowPrioritize, RowReorder, memory, InBlock
<1>3. call.kind \in Kinds /\ call.phase = "sent" /\ TypeOK
  BY DEF RowPush, RowRemove, RowPrioritize, RowReorder, Sent, Kinds, QueueInv
<1>4. call'.kind = call.kind /\ call'.id = call.id /\ call'.phase \in {"done", "failed"}
  <2>1. PICK phase \in {"done", "failed"} : Answer(phase)
    BY DEF RowPush, RowRemove, RowPrioritize, RowReorder
  <2> QED
    BY <1>3, <2>1, AnswerIs
<1>5. KeyIsNew'
  BY <1>4 DEF KeyIsNew, Sent
<1>6. CASE call'.phase = "failed" /\ UNCHANGED store
  <2>1. Same'
    BY <1>1, <1>2, <1>6, RowsStay DEF Same
  <2> QED
    BY <1>5, <1>6, <2>1 DEF StepInv, Same, KeyIsNew
<1>7. CASE call'.phase = "done" /\ SortedRows' = Expected' /\ Promoted' = ExpectedBlock'
  BY <1>5, <1>7 DEF StepInv, KeyIsNew
<1>8. CASE RowPush
  <2>1. call.kind = "push"
    BY <1>8 DEF RowPush, Sent
  <2>2. {j \in rows : keyOf[j] # None /\ keyOf[j] = keyOf[call.id]} = {}
    BY <1>1, <1>3, <2>1 DEF KeyIsNew, Sent
  <2>3. CASE rows' # rows
    <3>1. /\ SortedRows' = Append(mirror, call.id) /\ Promoted' = InBlock
          /\ call'.phase = "done"
      BY <1>1, <1>8, <2>3, PushedRows DEF Same
    <3>2. Expected' = Append(mirror, call.id) /\ ExpectedBlock' = InBlock
      BY <1>2, <1>4, <2>1 DEF Expected, ExpectedBlock
    <3> QED
      BY <1>7, <3>1, <3>2
  <2>4. CASE rows' = rows
    <3>1. call.id \notin rows
      BY <1>3, <2>1 DEF QueueInv, CallInv
    <3>2. ~ (Cardinality(rows) < MaxQueue) /\ UNCHANGED store
      BY <1>8, <2>2, <2>4, <3>1 DEF RowPush
    <3>3. Cardinality(rows) \in Nat /\ MaxQueue \in Nat
      BY BothSort, SortedIsCounted, FS_CardinalityType, QueueAssumption
    <3>4. Cardinality(rows) >= MaxQueue
      BY <3>2, <3>3
    <3>5. Answer("failed")
      BY <1>8, <2>2, <3>4 DEF RowPush
    <3>6. call'.phase = "failed"
      BY <1>3, <3>5, AnswerIs
    <3> QED
      BY <1>6, <3>2, <3>6
  <2> QED
    BY <2>3, <2>4
<1>9. CASE RowRemove
  <2>1. /\ SortedRows' = Without(mirror, call.id) /\ Promoted' = InBlock \ {call.id}
        /\ call.kind \in {"cancel", "shift"} /\ call'.phase = "done"
    BY <1>1, <1>9, RemovedRows DEF Same
  <2>2. Expected' = Without(mirror, call.id) /\ ExpectedBlock' = InBlock \ {call.id}
    BY <1>2, <1>4, <2>1 DEF Expected, ExpectedBlock
  <2> QED
    BY <1>7, <2>1, <2>2
<1>10. CASE RowPrioritize
  <2>1. CASE call.id \in rows \ Promoted
    <3>1. /\ SortedRows' = PromoteIn(mirror, InBlock, call.id)
          /\ Promoted' = InBlock \cup {call.id}
          /\ call.kind = "promote" /\ call'.phase = "done"
      BY <1>1, <1>10, <2>1, PrioritizedRows DEF Same
    <3>2. /\ Expected' = PromoteIn(mirror, InBlock, call.id)
          /\ ExpectedBlock' = InBlock \cup {call.id}
      BY <1>2, <1>4, <3>1 DEF Expected, ExpectedBlock
    <3> QED
      BY <1>7, <3>1, <3>2
  <2>2. CASE call.id \notin rows \ Promoted
    <3>1. Answer("failed") /\ UNCHANGED store
      BY <1>10, <2>2 DEF RowPrioritize, store
    <3> QED
      BY <1>3, <1>6, <3>1, AnswerIs
  <2> QED
    BY <2>1, <2>2
<1>11. CASE RowReorder
  <2>1. CASE call.id \in rows \ Promoted /\ PlainRows(call.id, call.kind = "up") # {}
    <3>1. /\ SortedRows' = Reordered(mirror, InBlock, call.id, call.kind = "up")
          /\ Promoted' = InBlock
          /\ call.kind \in {"up", "down"} /\ call'.phase = "done"
      BY <1>1, <1>11, <2>1, ReorderedRows DEF Same
    <3>2. /\ Expected' = Reordered(mirror, InBlock, call.id, call.kind = "up")
          /\ ExpectedBlock' = InBlock
      BY <1>2, <1>4, <3>1 DEF Expected, ExpectedBlock
    <3> QED
      BY <1>7, <3>1, <3>2
  <2>2. CASE ~ (call.id \in rows \ Promoted /\ PlainRows(call.id, call.kind = "up") # {})
    <3>1. Answer("failed") /\ UNCHANGED store
      BY <1>11, <2>2 DEF RowReorder, store
    <3> QED
      BY <1>3, <1>6, <3>1, AnswerIs
  <2> QED
    BY <2>1, <2>2
<1> QED
  BY <1>8, <1>9, <1>10, <1>11

\* The answer brings the mirror to where the rows already are.
LEMMA AnswerInStep ==
  ASSUME QueueInv, QueueInv', StepInv, InStep,
         Pushed \/ Canceled \/ Shifted \/ Prioritized \/ Moved
  PROVE  StepInv'
<1>1. SortedRows = Expected /\ Promoted = ExpectedBlock
  <2>1. call.phase = "done"
    BY DEF Pushed, Canceled, Shifted, Prioritized, Moved, Answered
  <2> QED
    BY <2>1, StepInvIs
<1>2. call' = NoCall /\ UNCHANGED store
  BY DEF Pushed, Canceled, Shifted, Prioritized, Moved, Answered
<1>3. SortedRows' = SortedRows /\ Promoted' = Promoted
  BY <1>2, RowsStay
<1>4. mirror' = Expected /\ InBlock' = ExpectedBlock
  <2>1. CASE Pushed
    BY <2>1, PushedMirror, ExpectedIs DEF Pushed, Answered
  <2>2. CASE Canceled \/ Shifted
    <3>1. call.kind \in {"cancel", "shift"} /\ Drop(call.id)
      BY <2>2 DEF Canceled, Shifted, Answered
    <3>2. TypeOK /\ MirrorInv /\ call.id \in Ids
      BY <3>1, CallIs DEF QueueInv, Kinds
    <3>3. mirror' = Without(mirror, call.id) /\ InBlock' = InBlock \ {call.id}
      BY <3>1, <3>2, DroppedMirror DEF Drop
    <3> QED
      BY <3>1, <3>3, ExpectedIs
  <2>3. CASE Prioritized
    BY <2>3, PromotedMirror, ExpectedIs DEF Prioritized, Answered
  <2>4. CASE Moved
    <3>1. call.kind \in {"up", "down"}
      BY <2>4 DEF Moved, Answered
    <3> QED
      BY <2>4, <3>1, MovedMirror, ExpectedIs
  <2> QED
    BY <2>1, <2>2, <2>3, <2>4
<1>5. Same'
  BY <1>1, <1>3, <1>4 DEF Same
<1> QED
  BY <1>2, <1>5 DEF StepInv, Same, NoCall, Sent

\* StepInv holds at the beginning.
LEMMA StepInvInit == Init => StepInv
<1> SUFFICES ASSUME Init PROVE StepInv
  OBVIOUS
<1>1. QueueInv
  BY QueueInvInit
<1> DEFINE p == SortedRows
<1>2. StrictOrder(RowOrder, rows) /\ Sorts(p, rows, RowOrder)
  BY <1>1, RowsCompare, SortedRowsSorts DEF QueueInv
<1>3. rows = {} /\ mirror = <<>> /\ call = NoCall
  BY DEF Init
<1> HIDE DEF p
<1>4. p \in Seq(rows) /\ Len(p) = 0
  <2>1. Len(p) = Cardinality(rows)
    BY <1>2, SortedIsCounted
  <2> QED
    BY <1>2, <1>3, <2>1, FS_EmptySet DEF Sorts
<1>5. p = <<>>
  BY <1>4, EmptySeq
<1>6. Promoted = {} /\ InBlock = {}
  BY <1>3 DEF Promoted, InBlock, ToSet
<1> QED
  BY <1>3, <1>5, <1>6 DEF StepInv, NoCall, Sent, p

\* Every step keeps it.
LEMMA StepInvNext ==
  ASSUME QueueInv, QueueInv', StepInv, [Next]_vars
  PROVE  StepInv'
<1>1. CASE ~ InStep'
  BY <1>1 DEF StepInv, InStep
<1>2. CASE InStep'
  <2>1. InStep
    BY <1>2, StepsStayOut
  <2>2. CASE UNCHANGED vars
    <3>1. SortedRows' = SortedRows /\ Promoted' = Promoted
      BY <2>2, RowsStay DEF vars
    <3>2. UNCHANGED <<rows, keyOf, mirror, block, call, spent>> /\ InBlock' = InBlock
      BY <2>2 DEF vars, store, memory, InBlock
    <3>3. Expected' = Expected /\ ExpectedBlock' = ExpectedBlock
      BY <3>2 DEF Expected, ExpectedBlock
    <3> QED
      BY <3>1, <3>2, <3>3 DEF StepInv, Sent
  <2>3. CASE \E i \in Ids : \E k \in Keys \cup {None} : Submit(i, k)
    BY <1>2, <2>1, <2>3, SubmitInStep
  <2>4. CASE \/ Shift
             \/ \E i \in Ids : \/ Cancel(i) \/ Promote(i)
                               \/ \E kind \in {"up", "down"} : Reorder(i, kind)
    BY <2>1, <2>4, StartInStep
  <2>5. CASE RowPush \/ RowRemove \/ RowPrioritize \/ RowReorder
    BY <2>1, <2>5, RowStepInStep
  <2>6. CASE Pushed \/ Canceled \/ Shifted \/ Prioritized \/ Moved
    BY <2>1, <2>6, AnswerInStep
  <2>7. CASE Refused
    <3>1. Same /\ UNCHANGED store /\ UNCHANGED memory /\ call' = NoCall
      BY <2>1, <2>7, StepInvIs DEF Refused
    <3>2. Same'
      BY <3>1, RowsStay DEF Same, memory, InBlock
    <3> QED
      BY <3>1, <3>2 DEF StepInv, Same, NoCall, Sent
  <2>8. CASE ReplyLost
    <3>1. spent \in [restarts : Nat, lost : Nat, repeats : Nat]
      BY DEF QueueInv, TypeOK
    <3> QED
      BY <1>2, <2>1, <2>8, <3>1 DEF ReplyLost, InStep
  <2>9. CASE Restart
    <3>1. mirror' = SortedRows /\ InBlock' = Promoted
      BY <2>9, RestartMirror
    <3>2. SortedRows' = SortedRows /\ Promoted' = Promoted /\ call' = NoCall
      BY <2>9, RowsStay DEF Restart
    <3> QED
      BY <3>1, <3>2 DEF StepInv, NoCall, Sent
  <2> QED
    BY <2>2, <2>3, <2>4, <2>5, <2>6, <2>7, <2>8, <2>9 DEF Next
<1> QED
  BY <1>1, <1>2

\* Between operations the mirror is what a restart would restore, as long as no
\* reply was lost and no key of a row repeated.
THEOREM MirrorFollowsRows == Spec => []MirrorMatchesRows
<1>1. QueueInv /\ QueueInv' /\ StepInv /\ [Next]_vars => StepInv'
  BY StepInvNext
<1>2. StepInv => MirrorMatchesRows
  BY DEF StepInv, MirrorMatchesRows, NoCall
<1> QED
  BY <1>1, <1>2, StepInvInit, QueueInvariant, PTL DEF Spec
=============================================================================
