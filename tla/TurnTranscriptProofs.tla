------------------------ MODULE TurnTranscriptProofs ------------------------
(***************************************************************************)
(* Proofs about TurnTranscript for every value of its constants: how many  *)
(* replies a turn has, how long they are, and which faults happen.         *)
(*                                                                         *)
(* TypeInv says what is well formed, that the index is behind the file and *)
(* who owes which write, FaultInv what a fault leaves behind and that      *)
(* without a death index and file agree, TalkInv what was said and which   *)
(* reply the checkpointer holds.  WholeInv says how the rows, the appends  *)
(* that wait and the copies of the last reply agree as long as host-core   *)
(* does not die alone: it gives the order of the rows, and which deaths    *)
(* take the last copy of a reply.  FinalInv, without a fault, gives that a *)
(* final text lands.                                                       *)
(***************************************************************************)
EXTENDS TurnTranscript, SequenceTheorems, TLAPS

-----------------------------------------------------------------------------
(* The store *)

Final(m) == m.status # "streaming"

\* A checkpoint, and what leads to one, is of a reply; a note is a row only.
Snapshots == {m \in Messages : m.id # Note}
Owings == [request : {"append", "save"}, message : Snapshots]
Stores == [rows : Seq(Messages), index : [Ids -> {"none", "streaming", "final"}],
           checkpoint : Snapshots \cup {None}, owed : Seq(Owings),
           turn : {"running", "completed", "aborted"}]

\* The finished rows of the file.
Kept(s, id) == OnFile(s, id) /\ ~FileProvisional(s, id)

\* The file is read with one row for an id.
OneRow(s) == \A i, j \in DOMAIN s.rows : s.rows[i].id = s.rows[j].id => i = j

\* The index knows no more than the file ...
Behind(s) ==
  \A id \in Ids : (Indexed(s, id) => OnFile(s, id)) /\ (Settled(s, id) => Kept(s, id))

\* ... and, unless something died between two writes, no less.
Agree(s) ==
  \A id \in Ids : (OnFile(s, id) => Indexed(s, id)) /\ (Kept(s, id) => Settled(s, id))

Sound(s) == s \in Stores /\ OneRow(s) /\ Behind(s)

\* Neither a row nor the index is written.
Same(s, t) == t.rows = s.rows /\ t.index = s.index

\* The row m takes the place of the row with its id, or comes at the end.
Grown(s, t, m) ==
  /\ DOMAIN s.rows \subseteq DOMAIN t.rows
  /\ \A i \in DOMAIN s.rows : t.rows[i] = IF s.rows[i].id = m.id THEN m ELSE s.rows[i]
  /\ \A i \in DOMAIN t.rows \ DOMAIN s.rows :
       t.rows[i] = m /\ ~OnFile(s, m.id) /\ i = Len(s.rows) + 1
  /\ \E i \in DOMAIN t.rows : t.rows[i] = m

\* A row that is not settled is written to the file, and perhaps to the index ...
Files(s, t, m) ==
  /\ m \in Messages /\ ~Settled(s, m.id) /\ Grown(s, t, m)
  /\ t.index \in {s.index, Stamped(s, m).index}

\* ... or surely to both.
Lands(s, t, m) == Files(s, t, m) /\ t.index = Stamped(s, m).index

\* The file, read from the places of the rows.
LEMMA FileAt ==
  ASSUME NEW s, NEW id
  PROVE  /\ OnFile(s, id) <=> \E i \in DOMAIN s.rows : s.rows[i].id = id
         /\ FileProvisional(s, id) <=>
              \E i \in DOMAIN s.rows : s.rows[i].id = id /\ ~Final(s.rows[i])
  BY DEF OnFile, FileProvisional, Final, ToSet

\* With one row for an id, it is finished if that row is final.
LEMMA KeptAt ==
  ASSUME NEW s, OneRow(s), NEW id
  PROVE  Kept(s, id) <=> \E i \in DOMAIN s.rows : s.rows[i].id = id /\ Final(s.rows[i])
  BY FileAt DEF Kept, OneRow

\* What a row is of.
LEMMA RowsHaveIds ==
  ASSUME NEW s \in Stores, NEW i \in DOMAIN s.rows
  PROVE  s.rows[i] \in Messages /\ s.rows[i].id \in Ids
<1>1. s.rows \in Seq(Messages) /\ i \in 1 .. Len(s.rows)
  BY LenProperties DEF Stores
<1>2. s.rows[i] \in Messages
  BY <1>1, ElementOfSeq
<1> QED
  BY <1>2 DEF Messages

\* Whoever writes neither leaves all answers as they are.
LEMMA SameAnswers ==
  ASSUME NEW s, NEW t, Same(s, t)
  PROVE  /\ \A id : (OnFile(t, id) <=> OnFile(s, id)) /\ (Kept(t, id) <=> Kept(s, id))
         /\ \A id : (Indexed(t, id) <=> Indexed(s, id)) /\ (Settled(t, id) <=> Settled(s, id))
         /\ OneRow(s) => OneRow(t)
         /\ Behind(s) => Behind(t)
         /\ Agree(s) => Agree(t)
<1>1. \A id : (OnFile(t, id) <=> OnFile(s, id)) /\ (Kept(t, id) <=> Kept(s, id))
  BY DEF Same, OnFile, FileProvisional, Kept
<1>2. \A id : (Indexed(t, id) <=> Indexed(s, id)) /\ (Settled(t, id) <=> Settled(s, id))
  BY DEF Same, Indexed, Provisional, Settled
<1>3. OneRow(s) => OneRow(t)
  BY DEF Same, OneRow
<1> QED
  BY <1>1, <1>2, <1>3 DEF Behind, Agree

\* What filing a row does to the file.
LEMMA GrownFile ==
  ASSUME NEW s, NEW t, NEW m, OneRow(s), Grown(s, t, m)
  PROVE  /\ OneRow(t)
         /\ \A id : OnFile(t, id) <=> OnFile(s, id) \/ id = m.id
         /\ \A id : id # m.id => (Kept(t, id) <=> Kept(s, id))
         /\ Kept(t, m.id) <=> Final(m)
<1>1. \A i \in DOMAIN t.rows :
        \/ i \in DOMAIN s.rows /\ t.rows[i].id = s.rows[i].id
             /\ (s.rows[i].id # m.id => t.rows[i] = s.rows[i])
             /\ (s.rows[i].id = m.id => t.rows[i] = m)
        \/ i \notin DOMAIN s.rows /\ t.rows[i] = m /\ ~OnFile(s, m.id)
  BY DEF Grown
<1>2. \A i, j \in DOMAIN t.rows \ DOMAIN s.rows : i = j
  BY DEF Grown
<1>3. OneRow(t)
  BY <1>1, <1>2, FileAt DEF OneRow
<1>4. ASSUME NEW id
      PROVE  OnFile(t, id) <=> OnFile(s, id) \/ id = m.id
  BY <1>1, FileAt DEF Grown
<1>5. ASSUME NEW id, id # m.id
      PROVE  Kept(t, id) <=> Kept(s, id)
  BY <1>1, <1>3, <1>5, KeptAt DEF Grown
<1>6. Kept(t, m.id) <=> Final(m)
  BY <1>1, <1>3, KeptAt DEF Grown
<1> QED
  BY <1>3, <1>4, <1>5, <1>6

\* What the commit of its index row does to the index.
LEMMA StampedIndex ==
  ASSUME NEW s \in Stores, NEW m \in Messages, NEW t, t.index = Stamped(s, m).index
  PROVE  /\ t.index \in [Ids -> {"none", "streaming", "final"}]
         /\ Indexed(t, m.id)
         /\ Settled(t, m.id) <=> Final(m)
         /\ \A id \in Ids : id # m.id => /\ Indexed(t, id) <=> Indexed(s, id)
                                         /\ Settled(t, id) <=> Settled(s, id)
<1>1. m.id \in Ids /\ s.index \in [Ids -> {"none", "streaming", "final"}]
  BY DEF Messages, Stores
<1>2. t.index = [s.index EXCEPT ![m.id] = IF Final(m) THEN "final" ELSE "streaming"]
  BY DEF Stamped, Stores, Final
<1> QED
  BY <1>1, <1>2 DEF Indexed, Provisional, Settled

\* Filing a row keeps the index behind the file; landing it keeps both in step.
LEMMA FilesSound ==
  ASSUME NEW s, Sound(s), NEW t \in Stores, NEW m, Files(s, t, m)
  PROVE  /\ Sound(t)
         /\ \A id \in Ids : Indexed(s, id) => Indexed(t, id)
         /\ \A id \in Ids : Settled(s, id) => Settled(t, id)
         /\ Lands(s, t, m) /\ Agree(s) => Agree(t)
<1> USE DEF Sound
<1>1. /\ m \in Messages /\ m.id \in Ids /\ ~Settled(s, m.id) /\ Grown(s, t, m)
      /\ t.index \in {s.index, Stamped(s, m).index}
  BY DEF Files, Messages
<1>2. /\ OneRow(t)
      /\ \A id : OnFile(t, id) <=> OnFile(s, id) \/ id = m.id
      /\ \A id : id # m.id => (Kept(t, id) <=> Kept(s, id))
      /\ Kept(t, m.id) <=> Final(m)
  BY <1>1, GrownFile
<1>3. CASE t.index = s.index
  <2>1. \A id : (Indexed(t, id) <=> Indexed(s, id)) /\ (Settled(t, id) <=> Settled(s, id))
    BY <1>3 DEF Indexed, Provisional, Settled
  <2>2. Behind(t)
    BY <1>1, <1>2, <2>1 DEF Behind
  <2>3. \A id \in Ids : Settled(s, id) => Settled(t, id)
    BY <2>1
  <2>4. CASE t.index = Stamped(s, m).index /\ Agree(s)
    <3>1. Indexed(t, m.id) /\ (Settled(t, m.id) <=> Final(m))
      BY <1>1, <2>4, StampedIndex
    <3> QED
      BY <1>2, <2>1, <2>2, <2>4, <3>1 DEF Agree
  <2> QED
    BY <1>2, <2>1, <2>2, <2>4 DEF Lands
<1>4. CASE t.index = Stamped(s, m).index
  <2>1. /\ Indexed(t, m.id) /\ (Settled(t, m.id) <=> Final(m))
        /\ \A id \in Ids : id # m.id => /\ Indexed(t, id) <=> Indexed(s, id)
                                        /\ Settled(t, id) <=> Settled(s, id)
    BY <1>1, <1>4, StampedIndex
  <2>2. Behind(t)
    BY <1>1, <1>2, <2>1 DEF Behind
  <2>3. Agree(s) => Agree(t)
    BY <1>1, <1>2, <2>1 DEF Agree
  <2> QED
    BY <1>1, <1>2, <2>1, <2>2, <2>3
<1> QED
  BY <1>1, <1>3, <1>4

\* What a row that lands does to the index.
LEMMA LandsIndex ==
  ASSUME NEW s \in Stores, NEW t, NEW m, Lands(s, t, m)
  PROVE  /\ m.id \in Ids
         /\ Indexed(t, m.id)
         /\ Settled(t, m.id) <=> Final(m)
         /\ \A id \in Ids : id # m.id => /\ Indexed(t, id) <=> Indexed(s, id)
                                         /\ Settled(t, id) <=> Settled(s, id)
  BY StampedIndex DEF Lands, Files, Messages

\* What is filed after a step that writes neither might as well be filed before it.
LEMMA FilesFrom ==
  ASSUME NEW s \in Stores, NEW u \in Stores, Same(s, u), NEW t, NEW m
  PROVE  /\ Files(u, t, m) => Files(s, t, m)
         /\ Lands(u, t, m) => Lands(s, t, m)
<1>1. Stamped(u, m).index = Stamped(s, m).index
  BY DEF Stamped, Same, Stores
<1>2. \A id : (OnFile(u, id) <=> OnFile(s, id)) /\ (Settled(u, id) <=> Settled(s, id))
  BY SameAnswers
<1>3. Grown(u, t, m) => Grown(s, t, m)
  BY <1>2 DEF Grown, Same
<1> QED
  BY <1>1, <1>2, <1>3 DEF Files, Lands, Same

\* WithRow files a row.
LEMMA WithRowGrows ==
  ASSUME NEW s \in Stores, NEW m \in Messages
  PROVE  /\ WithRow(s, m) \in Stores
         /\ WithRow(s, m) = [s EXCEPT !.rows = WithRow(s, m).rows]
         /\ Grown(s, WithRow(s, m), m)
<1> DEFINE t == WithRow(s, m)
<1>1. s.rows \in Seq(Messages) /\ Len(s.rows) \in Nat /\ DOMAIN s.rows = 1 .. Len(s.rows)
  BY LenProperties DEF Stores
<1>2. CASE OnFile(s, m.id)
  <2> DEFINE rows == [i \in DOMAIN s.rows |-> IF s.rows[i].id = m.id THEN m ELSE s.rows[i]]
  <2>1. t = [s EXCEPT !.rows = rows]
    BY <1>2 DEF WithRow
  <2>2. \A i \in 1 .. Len(s.rows) : s.rows[i] \in Messages
    BY <1>1, ElementOfSeq
  <2>3. rows \in Seq(Messages)
    BY <1>1, <2>2
  <2>4. t \in Stores /\ t.rows = rows
    BY <2>1, <2>3 DEF Stores
  <2>5. \E i \in DOMAIN s.rows : rows[i] = m
    BY <1>2, FileAt
  <2> HIDE DEF rows, t
  <2>6. Grown(s, t, m)
    BY <2>4, <2>5 DEF Grown, rows
  <2> QED
    BY <2>1, <2>4, <2>6 DEF t
<1>3. CASE ~OnFile(s, m.id)
  <2> DEFINE rows == Append(s.rows, m)
  <2>1. t = [s EXCEPT !.rows = rows]
    BY <1>3 DEF WithRow
  <2>2. /\ rows \in Seq(Messages)
        /\ Len(rows) = Len(s.rows) + 1
        /\ \A j \in 1 .. Len(s.rows) : rows[j] = s.rows[j]
        /\ rows[Len(s.rows) + 1] = m
    BY <1>1, AppendProperties
  <2> HIDE DEF rows
  <2>3. t \in Stores /\ t.rows = rows
    BY <2>1, <2>2 DEF Stores
  <2>4. DOMAIN rows = 1 .. Len(s.rows) + 1
    BY <1>1, <2>2, LenProperties
  <2> HIDE DEF t
  <2>5. \A i \in DOMAIN s.rows : s.rows[i].id # m.id
    BY <1>3, FileAt
  <2>6. Grown(s, t, m)
    BY <1>1, <1>3, <2>2, <2>3, <2>4, <2>5 DEF Grown
  <2> QED
    BY <2>1, <2>3, <2>6 DEF t
<1> QED
  BY <1>2, <1>3

\* The two writes of a row, one after the other.
LEMMA WrittenLands ==
  ASSUME NEW s \in Stores, NEW m \in Messages, ~Settled(s, m.id)
  PROVE  /\ WithRow(s, m) \in Stores /\ Files(s, WithRow(s, m), m)
         /\ WithRow(s, m).checkpoint = s.checkpoint /\ WithRow(s, m).owed = s.owed
         /\ Written(s, m) \in Stores /\ Lands(s, Written(s, m), m)
         /\ Written(s, m).checkpoint = s.checkpoint /\ Written(s, m).owed = s.owed
<1> DEFINE w == WithRow(s, m)
           t == Written(s, m)
           stamp == IF m.status = "streaming" THEN "streaming" ELSE "final"
<1>1. w \in Stores /\ w = [s EXCEPT !.rows = w.rows] /\ Grown(s, w, m)
  BY WithRowGrows
<1>2. m.id \in Ids
  BY DEF Messages
<1> HIDE DEF w
<1>3. w.index = s.index /\ w.checkpoint = s.checkpoint /\ w.owed = s.owed
  BY <1>1 DEF Stores
<1>4. t = [w EXCEPT !.index = [w.index EXCEPT ![m.id] = stamp]]
  BY <1>1 DEF Written, Stamped, w, Stores
<1>5. Stamped(s, m).index = [s.index EXCEPT ![m.id] = stamp]
  BY DEF Stamped, Stores
<1>6. [w.index EXCEPT ![m.id] = stamp] \in [Ids -> {"none", "streaming", "final"}]
  BY <1>1, <1>2 DEF Stores
<1> HIDE DEF t, stamp
<1>7. /\ t \in Stores /\ t.rows = w.rows /\ t.index = Stamped(s, m).index
      /\ t.checkpoint = w.checkpoint /\ t.owed = w.owed
  BY <1>1, <1>3, <1>4, <1>5, <1>6 DEF Stores
<1>8. Grown(s, t, m)
  BY <1>1, <1>7 DEF Grown
<1> QED
  BY <1>1, <1>3, <1>7, <1>8 DEF Files, Lands, w, t

\* The checkpoint of t is that of s, unless its reply is settled in t.
KeepsCheckpoint(s, t) ==
  \/ t.checkpoint = s.checkpoint
  \/ t.checkpoint = None /\ s.checkpoint # None /\ Settled(t, s.checkpoint.id)

\* What an append does.
Appended(s, t, m) ==
  \/ Dropped(s, m) /\ t = s
  \/ Lands(s, t, m) /\ Final(m) /\ KeepsCheckpoint(s, t) /\ t.owed = s.owed
  \/ /\ Lands(s, t, m) /\ ~Final(m) /\ t.checkpoint = s.checkpoint
     /\ t.owed = s.owed \/ t.owed = Append(s.owed, [request |-> "append", message |-> m])

\* Where the other fields do not matter, a row that landed still has.
LEMMA LandsBy ==
  ASSUME NEW s, NEW w, NEW t, NEW m, Lands(s, w, m), Same(w, t)
  PROVE  Lands(s, t, m)
  BY DEF Lands, Files, Grown, Same

\* An append drops a row that is settled, or lands it.
LEMMA AppendMessageAppends ==
  ASSUME NEW s \in Stores, NEW m \in Messages, m.id = Note => Final(m)
  PROVE  /\ AppendMessage(s, m) \in Stores
         /\ Appended(s, AppendMessage(s, m), m)
<1> DEFINE t == AppendMessage(s, m)
           w == Written(s, m)
<1>1. CASE Dropped(s, m)
  BY <1>1 DEF AppendMessage, Appended
<1>2. CASE ~Dropped(s, m)
  <2>1. ~Settled(s, m.id)
    BY <1>2 DEF Dropped
  <2>2. w \in Stores /\ Lands(s, w, m) /\ w.checkpoint = s.checkpoint /\ w.owed = s.owed
    BY <2>1, WrittenLands
  <2> HIDE DEF w
  <2>3. Settled(w, m.id) <=> Final(m)
    BY <2>2, LandsIndex
  <2>4. CASE Final(m)
    <3>1. t = WithoutCheckpointOf(w, m.id)
      BY <1>2, <2>4 DEF AppendMessage, Final, w
    <3> HIDE DEF t
    <3>2. CASE w.checkpoint # None /\ w.checkpoint.id = m.id
      <4>1. t = [w EXCEPT !.checkpoint = None]
        BY <3>1, <3>2 DEF WithoutCheckpointOf
      <4>2. t \in Stores /\ Same(w, t) /\ t.owed = w.owed /\ t.checkpoint = None
        BY <2>2, <4>1 DEF Stores, Same
      <4>3. Lands(s, t, m)
        BY <2>2, <4>2, LandsBy
      <4>4. Settled(t, m.id)
        BY <2>3, <2>4, <4>2, SameAnswers
      <4> QED
        BY <2>2, <2>4, <3>2, <4>2, <4>3, <4>4 DEF Appended, KeepsCheckpoint, t
    <3>3. CASE ~(w.checkpoint # None /\ w.checkpoint.id = m.id)
      <4>1. t = w
        BY <3>1, <3>3 DEF WithoutCheckpointOf
      <4> QED
        BY <2>2, <2>4, <4>1 DEF Appended, KeepsCheckpoint, t
    <3> QED
      BY <3>2, <3>3
  <2>5. CASE ~Final(m)
    <3>1. m \in Snapshots
      BY <2>5 DEF Snapshots
    <3>2. CASE NeedsCheckpoint(s, m.id)
      <4> DEFINE owing == [request |-> "append", message |-> m]
      <4>1. t = [w EXCEPT !.owed = Append(@, owing)]
        BY <1>2, <2>5, <3>2 DEF AppendMessage, Final, Owing, w
      <4>2. owing \in Owings
        BY <3>1 DEF Owings
      <4> HIDE DEF t, owing
      <4>3. Append(w.owed, owing) \in Seq(Owings)
        BY <2>2, <4>2, AppendProperties DEF Stores
      <4>4. /\ t \in Stores /\ Same(w, t) /\ t.owed = Append(w.owed, owing)
            /\ t.checkpoint = w.checkpoint
        BY <2>2, <4>1, <4>3 DEF Stores, Same
      <4>5. Lands(s, t, m)
        BY <2>2, <4>4, LandsBy
      <4> QED
        BY <2>2, <2>5, <4>4, <4>5 DEF Appended, t, owing
    <3>3. CASE ~NeedsCheckpoint(s, m.id)
      <4>1. t = w
        BY <1>2, <2>5, <3>3 DEF AppendMessage, Final, w
      <4> QED
        BY <2>2, <2>5, <4>1 DEF Appended
    <3> QED
      BY <3>2, <3>3
  <2> QED
    BY <2>4, <2>5
<1> QED
  BY <1>1, <1>2

\* What a checkpoint that arrives does: a late one takes the file with it.
LEMMA SaveInflightSaves ==
  ASSUME NEW s \in Stores, NEW m \in Snapshots
  PROVE  LET t == SaveInflight(s, m)
         IN  /\ t \in Stores /\ Same(s, t)
             /\ \/ Settled(s, m.id) /\ t.checkpoint = None /\ t.owed = s.owed
                \/ /\ ~Settled(s, m.id) /\ t.checkpoint = s.checkpoint
                   /\ t.owed = Append(s.owed, [request |-> "save", message |-> m])
<1> DEFINE t == SaveInflight(s, m)
           owing == [request |-> "save", message |-> m]
<1>1. CASE Settled(s, m.id)
  BY <1>1 DEF SaveInflight, Stores, Same
<1>2. CASE ~Settled(s, m.id)
  <2>1. t = [s EXCEPT !.owed = Append(@, owing)]
    BY <1>2 DEF SaveInflight, Owing
  <2>2. owing \in Owings
    BY DEF Owings
  <2> HIDE DEF owing, t
  <2>3. Append(s.owed, owing) \in Seq(Owings)
    BY <2>2, AppendProperties DEF Stores
  <2>4. /\ t \in Stores /\ Same(s, t) /\ t.owed = Append(s.owed, owing)
        /\ t.checkpoint = s.checkpoint
    BY <2>1, <2>3 DEF Stores, Same
  <2> QED
    BY <1>2, <2>4 DEF owing, t
<1> QED
  BY <1>1, <1>2

\* What a recovery may do, whoever asks for it.
Recovered(s, t) ==
  \/ Same(s, t) /\ KeepsCheckpoint(s, t)
  \/ /\ s.checkpoint # None /\ t.checkpoint = None
     /\ \E m \in Snapshots : Lands(s, t, m) /\ Final(m) /\ m.id = s.checkpoint.id

\* What a death in the middle of one leaves.
PartRecovered(s, t) ==
  \/ Same(s, t) /\ t.checkpoint \in {None, s.checkpoint}
  \/ /\ s.checkpoint # None /\ t.checkpoint = None
     /\ \E m \in Snapshots : Files(s, t, m) /\ Final(m) /\ m.id = s.checkpoint.id

\* A recovery after a step that writes neither is one of the store before it.
LEMMA RecoveredFrom ==
  ASSUME NEW s \in Stores, NEW u \in Stores, Same(s, u), u.checkpoint = s.checkpoint, NEW t
  PROVE  /\ Recovered(u, t) => Recovered(s, t)
         /\ PartRecovered(u, t) => PartRecovered(s, t)
<1>1. KeepsCheckpoint(u, t) => KeepsCheckpoint(s, t)
  BY DEF KeepsCheckpoint
<1>2. Same(u, t) => Same(s, t)
  BY DEF Same
<1> QED
  BY <1>1, <1>2, FilesFrom DEF Recovered, PartRecovered

\* As the index is behind the file, there is nothing to line up, and a leftover whose
\* row the index has as final is done.
LEMMA FinishedIsSettled ==
  ASSUME NEW s, Sound(s), s.checkpoint # None
  PROVE  /\ s.checkpoint \in Snapshots /\ s.checkpoint.id \in Ids
         /\ Finished(s) <=> Settled(s, s.checkpoint.id)
         /\ ~Finished(s) => LinedUp(s) = s /\ Taken(s) = [s EXCEPT !.checkpoint = None]
<1>1. s.checkpoint \in Snapshots /\ s.checkpoint.id \in Ids
  BY DEF Sound, Stores, Snapshots, Messages
<1>2. Finished(s) <=> Settled(s, s.checkpoint.id)
  BY <1>1 DEF Finished, Sound, Behind, Kept
<1>3. ASSUME ~Finished(s) PROVE LinedUp(s) = s
  <2> DEFINE id == s.checkpoint.id
  <2>1. CASE Indexed(s, id)
    <3>1. s.index[id] = "streaming"
      BY <1>2, <1>3, <2>1 DEF Settled, Provisional
    <3>2. LinedUp(s) = [s EXCEPT !.index = [s.index EXCEPT ![id] = "streaming"]]
      BY <2>1 DEF LinedUp, Sound, Stores
    <3>3. [s.index EXCEPT ![id] = "streaming"] = s.index
      BY <1>1, <3>1 DEF Sound, Stores
    <3> QED
      BY <3>2, <3>3 DEF Sound, Stores
  <2>2. CASE ~Indexed(s, id)
    BY <2>2 DEF LinedUp
  <2> QED
    BY <2>1, <2>2
<1> QED
  BY <1>1, <1>2, <1>3 DEF Taken

\* The promotion of a checkpoint, and what a death in the middle of it leaves.
LEMMA PromotionLands ==
  ASSUME NEW s, Sound(s), s.checkpoint # None, ~Finished(s)
  PROVE  LET t == Written(Taken(s), Promoted(s))
             w == WithRow(Taken(s), Promoted(s))
         IN  /\ Taken(s) \in Stores /\ Same(s, Taken(s)) /\ Taken(s).checkpoint = None
             /\ Taken(s).owed = s.owed
             /\ Promoted(s) \in Snapshots /\ Final(Promoted(s))
             /\ Promoted(s).id = s.checkpoint.id
             /\ t \in Stores /\ t.checkpoint = None /\ t.owed = s.owed
             /\ Lands(s, t, Promoted(s))
             /\ w \in Stores /\ w.checkpoint = None /\ Files(s, w, Promoted(s))
<1> DEFINE u == Taken(s)
           m == Promoted(s)
<1>1. u = [s EXCEPT !.checkpoint = None] /\ s.checkpoint \in Snapshots /\ ~Settled(s, s.checkpoint.id)
  BY FinishedIsSettled
<1>2. m \in Snapshots /\ Final(m) /\ m.id = s.checkpoint.id /\ m \in Messages
  BY <1>1 DEF Promoted, Snapshots, Messages, Final
<1> HIDE DEF u, m
<1>3. u \in Stores /\ Same(s, u) /\ u.checkpoint = None /\ u.owed = s.owed
  BY <1>1 DEF Sound, Stores, Same
<1>4. ~Settled(u, m.id)
  BY <1>1, <1>2, <1>3, SameAnswers
<1>5. /\ WithRow(u, m) \in Stores /\ Files(u, WithRow(u, m), m)
      /\ WithRow(u, m).checkpoint = None
      /\ Written(u, m) \in Stores /\ Lands(u, Written(u, m), m)
      /\ Written(u, m).checkpoint = None /\ Written(u, m).owed = s.owed
  BY <1>2, <1>3, <1>4, WrittenLands
<1>6. s \in Stores
  BY DEF Sound
<1>7. Lands(s, Written(u, m), m) /\ Files(s, WithRow(u, m), m)
  BY <1>3, <1>5, <1>6, FilesFrom
<1> QED
  BY <1>2, <1>3, <1>5, <1>7 DEF u, m

\* A recovery lands the checkpoint, as a final row, or drops it behind its row.
LEMMA RecoverRecovers ==
  ASSUME NEW s, Sound(s), NEW b
  PROVE  /\ Recover(s, b) \in Stores
         /\ Recover(s, b).owed = s.owed
         /\ Recovered(s, Recover(s, b))
<1> DEFINE t == Recover(s, b)
<1>0. s \in Stores /\ Same(s, s)
  BY DEF Sound, Same
<1>1. CASE s.checkpoint = None
  BY <1>0, <1>1 DEF Recover, Recovered, KeepsCheckpoint
<1>2. CASE s.checkpoint # None /\ Finished(s)
  <2>1. t = [s EXCEPT !.checkpoint = None]
    BY <1>2 DEF Recover
  <2> HIDE DEF t
  <2>2. t \in Stores /\ t.owed = s.owed /\ Same(s, t) /\ t.checkpoint = None
    BY <1>0, <2>1 DEF Stores, Same
  <2>3. Settled(t, s.checkpoint.id)
    BY <1>2, <2>2, FinishedIsSettled, SameAnswers
  <2> QED
    BY <1>2, <2>2, <2>3 DEF Recovered, KeepsCheckpoint, t
<1>3. CASE s.checkpoint # None /\ ~Finished(s) /\ ~Promotes(s, b)
  <2>1. t = s
    BY <1>3, FinishedIsSettled DEF Recover
  <2> QED
    BY <1>0, <2>1 DEF Recovered, KeepsCheckpoint
<1>4. CASE s.checkpoint # None /\ ~Finished(s) /\ Promotes(s, b)
  <2>1. t = Written(Taken(s), Promoted(s))
    BY <1>4 DEF Recover
  <2> HIDE DEF t
  <2> QED
    BY <1>4, <2>1, PromotionLands DEF Recovered, t
<1> QED
  BY <1>1, <1>2, <1>3, <1>4

\* What is left when host-core dies while it recovers.
LEMMA RecoverLeavesPart ==
  ASSUME NEW s, Sound(s), NEW b, NEW t \in RecoverLeaves(s, b)
  PROVE  t \in Stores /\ PartRecovered(s, t)
<1>1. Promotes(s, b) /\ t \in {LinedUp(s), Taken(s)} \cup WrittenLeaves(Taken(s), Promoted(s))
  BY DEF RecoverLeaves
<1>2. s.checkpoint # None /\ ~Finished(s)
  BY <1>1 DEF Promotes
<1>3. t \in {s, Taken(s), WithRow(Taken(s), Promoted(s))}
  BY <1>1, <1>2, FinishedIsSettled DEF WrittenLeaves
<1> QED
  BY <1>2, <1>3, PromotionLands DEF PartRecovered, Same, Sound

\* The end of a turn recovers, or removes a checkpoint behind its row.
LEMMA EndTurnRecovers ==
  ASSUME NEW s, Sound(s), NEW status \in {"completed", "aborted"}, NEW recover \in BOOLEAN
  PROVE  /\ LET t == EndTurn(s, status, recover)
            IN  /\ t \in Stores /\ t.owed = s.owed
                /\ Recovered(s, t)
                /\ ~recover => Same(s, t)
         /\ \A t \in EndTurnLeaves(s, status, recover) :
              /\ t \in Stores /\ PartRecovered(s, t)
              /\ ~recover => Same(s, t) /\ t.checkpoint = s.checkpoint
<1> DEFINE t == EndTurn(s, status, recover)
           u == Ended(s, status)
<1>1. u \in Stores /\ Same(s, u) /\ u.owed = s.owed /\ u.checkpoint = s.checkpoint
  BY DEF Sound, Stores, Same, Ended
<1> HIDE DEF u
<1>2. Sound(u)
  BY <1>1, SameAnswers DEF Sound
<1>3. \A v : Recovered(u, v) => Recovered(s, v)
  BY <1>1, RecoveredFrom DEF Sound
<1>4. \A v : PartRecovered(u, v) => PartRecovered(s, v)
  BY <1>1, RecoveredFrom DEF Sound
<1>5. CASE recover
  <2>1. t = Recover(u, TRUE)
    BY <1>5 DEF EndTurn, u
  <2> HIDE DEF t
  <2>2. t \in Stores /\ t.owed = u.owed /\ Recovered(u, t)
    BY <1>2, <2>1, RecoverRecovers
  <2>3. ASSUME NEW v \in EndTurnLeaves(s, status, recover)
        PROVE  v \in Stores /\ PartRecovered(s, v)
    <3>1. v = u \/ v \in RecoverLeaves(u, TRUE)
      BY <1>5 DEF EndTurnLeaves, u
    <3>2. CASE v = u
      BY <1>1, <3>2 DEF PartRecovered
    <3>3. CASE v \in RecoverLeaves(u, TRUE)
      BY <1>2, <1>4, <3>3, RecoverLeavesPart
    <3> QED
      BY <3>1, <3>2, <3>3
  <2> QED
    BY <1>1, <1>3, <1>5, <2>2, <2>3 DEF t
<1>6. CASE ~recover
  <2>1. \/ t = u
        \/ /\ s.checkpoint # None /\ Settled(s, s.checkpoint.id)
           /\ t = [u EXCEPT !.checkpoint = None]
    BY <1>6 DEF EndTurn, u
  <2> HIDE DEF t
  <2>2. /\ t \in Stores /\ t.owed = u.owed /\ Same(u, t)
        /\ \/ t.checkpoint = u.checkpoint
           \/ s.checkpoint # None /\ Settled(s, s.checkpoint.id) /\ t.checkpoint = None
    BY <1>1, <2>1 DEF Stores, Same
  <2>3. Same(s, t)
    BY <1>1, <2>2 DEF Same
  <2>4. Recovered(s, t)
    BY <1>1, <2>2, <2>3, SameAnswers DEF Recovered, KeepsCheckpoint
  <2>5. \A v \in EndTurnLeaves(s, status, recover) : v = u
    BY <1>6 DEF EndTurnLeaves, u
  <2> QED
    BY <1>1, <1>6, <2>2, <2>3, <2>4, <2>5 DEF t, PartRecovered
<1> QED
  BY <1>5, <1>6

\* Nothing is owed after a boot.
LEMMA BootRecovers ==
  ASSUME NEW s, Sound(s)
  PROVE  /\ Boot(s) \in Stores
         /\ Boot(s).owed = <<>>
         /\ Recovered(s, Boot(s))
         /\ \A t \in BootLeaves(s) : t \in Stores /\ PartRecovered(s, t)
<1> DEFINE t == Boot(s)
           u == Swept(s)
<1>1. u \in Stores /\ Same(s, u) /\ u.owed = <<>> /\ u.checkpoint = s.checkpoint
  <2> DEFINE none == <<>>
             e == Ended(s, "aborted")
  <2>1. none \in Seq(Owings)
    OBVIOUS
  <2>2. e \in Stores /\ Same(s, e) /\ e.checkpoint = s.checkpoint
    BY DEF Ended, Stores, Same, Sound
  <2>3. u = [e EXCEPT !.owed = none]
    BY DEF Swept
  <2> HIDE DEF none, e, u
  <2>4. u \in Stores /\ Same(e, u) /\ u.owed = none /\ u.checkpoint = e.checkpoint
    BY <2>1, <2>2, <2>3 DEF Stores, Same
  <2> QED
    BY <2>2, <2>4 DEF Same, none
<1>2. t = Recover(u, FALSE) /\ BootLeaves(s) = {u} \cup RecoverLeaves(u, FALSE)
  BY DEF Boot, BootLeaves
<1> HIDE DEF t, u
<1>3. Sound(u)
  BY <1>1, SameAnswers DEF Sound
<1>4. t \in Stores /\ t.owed = u.owed /\ Recovered(u, t)
  BY <1>2, <1>3, RecoverRecovers
<1>5. Recovered(s, t)
  BY <1>1, <1>4, RecoveredFrom DEF Sound
<1>6. \A v : PartRecovered(u, v) => PartRecovered(s, v)
  BY <1>1, RecoveredFrom DEF Sound
<1>7. ASSUME NEW v \in BootLeaves(s)
      PROVE  v \in Stores /\ PartRecovered(s, v)
  <2>1. CASE v = u
    BY <1>1, <2>1 DEF PartRecovered
  <2>2. CASE v \in RecoverLeaves(u, FALSE)
    BY <1>3, <1>6, <2>2, RecoverLeavesPart
  <2> QED
    BY <1>2, <1>7, <2>1, <2>2
<1> QED
  BY <1>1, <1>4, <1>5, <1>7 DEF t

\* Both keep the store sound.
LEMMA RecoveredSound ==
  ASSUME NEW s, Sound(s), NEW t \in Stores, Recovered(s, t) \/ PartRecovered(s, t)
  PROVE  Sound(t)
<1>1. CASE Same(s, t)
  BY <1>1, SameAnswers DEF Sound
<1>2. ASSUME NEW m, Files(s, t, m) PROVE Sound(t)
  BY <1>2, FilesSound
<1> QED
  BY <1>1, <1>2 DEF Recovered, PartRecovered, Lands

\* A deferred write: the later decisions stay.
LEMMA WriteCheckpointWrites ==
  ASSUME NEW s \in Stores, NEW i \in DOMAIN s.owed
  PROVE  LET t == WriteCheckpoint(s, i)
         IN  /\ t \in Stores /\ Same(s, t)
             /\ t.checkpoint = s.owed[i].message
             /\ DOMAIN t.owed = 1 .. Len(s.owed) - i
             /\ \A k \in 1 .. Len(s.owed) - i : t.owed[k] = s.owed[i + k]
<1> DEFINE t == WriteCheckpoint(s, i)
           owed == SubSeq(s.owed, i + 1, Len(s.owed))
<1>1. /\ s.owed \in Seq(Owings) /\ Len(s.owed) \in Nat /\ DOMAIN s.owed = 1 .. Len(s.owed)
      /\ i \in 1 .. Len(s.owed)
  BY LenProperties DEF Stores
<1>2. \A k \in 1 .. Len(s.owed) : s.owed[k] \in Owings
  BY <1>1, ElementOfSeq
<1>3. /\ owed \in Seq(Owings)
      /\ Len(owed) = IF i + 1 <= Len(s.owed) THEN Len(s.owed) - (i + 1) + 1 ELSE 0
      /\ \A k \in 1 .. Len(s.owed) - (i + 1) + 1 : owed[k] = s.owed[(i + 1) + k - 1]
  BY <1>1, <1>2, SubSeqProperties
<1>4. t = [s EXCEPT !.checkpoint = s.owed[i].message, !.owed = owed]
  BY DEF WriteCheckpoint, Stores
<1> HIDE DEF t, owed
<1>5. s.owed[i].message \in Snapshots
  BY <1>1, <1>2 DEF Owings
<1>6. /\ t \in Stores /\ Same(s, t) /\ t.checkpoint = s.owed[i].message /\ t.owed = owed
  BY <1>3, <1>4, <1>5 DEF Stores, Same
<1>7. DOMAIN owed = 1 .. Len(s.owed) - i
  BY <1>1, <1>3, LenProperties
<1>8. ASSUME NEW k \in 1 .. Len(s.owed) - i
      PROVE  owed[k] = s.owed[i + k]
  <2>1. k \in 1 .. Len(s.owed) - (i + 1) + 1 /\ (i + 1) + k - 1 = i + k
    BY <1>1
  <2> QED
    BY <1>3, <2>1
<1> QED
  BY <1>6, <1>7, <1>8 DEF t

-----------------------------------------------------------------------------
-----------------------------------------------------------------------------
(* Types *)

\* The store is well formed, and one append and one save at most are owed, each by
\* the request that host-core is about to answer.
StoreType ==
  /\ store \in Stores /\ OneRow(store) /\ Behind(store)
  /\ \A i, j \in DOMAIN store.owed : store.owed[i].request = store.owed[j].request => i = j
  /\ \A i \in DOMAIN store.owed : store.owed[i].request = "append" => head = "served"
  /\ \A i \in DOMAIN store.owed :
       store.owed[i].request = "save" => save # None /\ save.stage = "served"

\* A note waits as a final row, and whoever asked has a head.
ChainType ==
  /\ chain \in Seq(Messages) /\ head \in {"waits", "asked", "served"}
  /\ head # "waits" => chain # <<>>
  /\ \A k \in DOMAIN chain : chain[k].id = Note => Final(chain[k])

\* The checkpointer deals with replies only.
CheckpointerType ==
  /\ live \in {None} \cup [id : ToSet(Replies), pending : Snapshots \cup {None}]
  /\ save \in {None} \cup [stage : {"asked", "served"}, message : Snapshots]
  /\ flushing \subseteq ToSet(Replies) /\ reserved \subseteq ToSet(Replies)

\* A reply that streams has started.
RunType ==
  /\ host \in {"up", "booted", "down"} /\ run \in {"running", "over", "dead"}
  /\ current \in 0 .. Len(Replies) /\ streaming \in BOOLEAN
  /\ streaming => current > 0
  /\ text \in [ToSet(Replies) -> Texts] /\ noted \in {None} \cup 1 .. Len(Replies)
  /\ stopping \in BOOLEAN

EndType ==
  /\ finish \in [stage : {"none", "asked", "done"}, status : {None, "completed", "aborted"},
                 recover : BOOLEAN]
  /\ finish.stage = "asked" => finish.status \in {"completed", "aborted"}
  /\ crash \in {"no", "plans", "flush"} /\ faults \subseteq Kinds

TypeInv == StoreType /\ ChainType /\ CheckpointerType /\ RunType /\ EndType

\* The invariant is as strong as the types the runs check.
LEMMA TypeInvGivesTypes == TypeInv => TypeOK
<1> SUFFICES ASSUME TypeInv PROVE TypeOK
  OBVIOUS
<1> USE DEF TypeInv
<1>1. Snapshots \subseteq Messages
  BY DEF Snapshots
<1>2. /\ store.rows \in Seq(Messages) /\ store.index \in [Ids -> {"none", "streaming", "final"}]
      /\ IndexBehindFile
      /\ store.checkpoint \in Messages \cup {None}
      /\ store.turn \in {"running", "completed", "aborted"}
  BY <1>1 DEF StoreType, Stores, Behind, Kept, IndexBehindFile
<1>3. store.owed \in Seq([request : {"append", "save"}, message : Messages])
  <2>1. store.owed \in Seq(Owings)
    BY DEF StoreType, Stores
  <2>2. Owings \subseteq [request : {"append", "save"}, message : Messages]
    BY <1>1 DEF Owings
  <2> QED
    BY <2>1, <2>2, SeqMonotonic
<1>4. live \in {None} \cup Lives /\ save \in {None} \cup Saves
  BY <1>1 DEF CheckpointerType, Lives, Saves
<1> QED
  BY <1>2, <1>3, <1>4 DEF TypeOK, StoreType, ChainType, CheckpointerType, RunType, EndType

\* A reply by its place in the turn.
LEMMA ReplyAt ==
  /\ Len(Replies) \in Nat /\ DOMAIN Replies = 1 .. Len(Replies)
  /\ \A n \in 1 .. Len(Replies) :
       Replies[n] \in ToSet(Replies) /\ Started(Replies[n]) = n
  /\ \A id \in ToSet(Replies) :
       Started(id) \in 1 .. Len(Replies) /\ Replies[Started(id)] = id
<1>1. Len(Replies) \in Nat /\ DOMAIN Replies = 1 .. Len(Replies)
  BY TranscriptStoreAssumption, LenProperties
<1>2. \A id \in ToSet(Replies) : \E i \in DOMAIN Replies : Replies[i] = id
  BY DEF ToSet
<1>3. \A id \in ToSet(Replies) :
        Started(id) \in 1 .. Len(Replies) /\ Replies[Started(id)] = id
  BY <1>1, <1>2 DEF Started
<1>4. \A n \in 1 .. Len(Replies) : Replies[n] \in ToSet(Replies)
  BY <1>1 DEF ToSet
<1>5. \A m, n \in DOMAIN Replies : Replies[m] = Replies[n] => m = n
  BY TranscriptStoreAssumption DEF IsInjective
<1> QED
  BY <1>1, <1>3, <1>4, <1>5

\* What the reply that streams has said so far.
LEMMA SaidIsMessage ==
  ASSUME TypeInv, current > 0, NEW status \in {"streaming", "complete", "aborted"}
  PROVE  /\ Reply \in ToSet(Replies) /\ Started(Reply) = current /\ Reply # Note
         /\ text[Reply] \in Texts
         /\ Said(status) \in Snapshots /\ Said(status).id = Reply
         /\ Said(status).status = status /\ Said(status).text = text[Reply]
<1>1. current \in 1 .. Len(Replies)
  BY ReplyAt DEF TypeInv, RunType
<1>2. Reply \in ToSet(Replies) /\ Started(Reply) = current
  BY <1>1, ReplyAt DEF Reply
<1>3. Reply # Note /\ Reply \in Ids
  BY <1>2, TranscriptStoreAssumption DEF Ids
<1>4. text[Reply] \in Texts
  BY <1>2 DEF TypeInv, RunType
<1> HIDE DEF Reply
<1> QED
  BY <1>2, <1>3, <1>4 DEF Said, Message, Snapshots, Messages

\* The head of the appends, when it was asked for.
LEMMA HeadIsFirst ==
  ASSUME TypeInv, head # "waits"
  PROVE  /\ Len(chain) \in Nat /\ DOMAIN chain = 1 .. Len(chain) /\ 1 \in DOMAIN chain
         /\ Head(chain) = chain[1] /\ Head(chain) \in Messages
         /\ Head(chain).id = Note => Final(Head(chain))
<1>1. chain \in Seq(Messages) /\ chain # <<>>
  BY DEF TypeInv, ChainType
<1>2. Len(chain) \in Nat /\ DOMAIN chain = 1 .. Len(chain) /\ Len(chain) # 0
  BY <1>1, LenProperties, EmptySeq
<1>3. Head(chain) = chain[1] /\ 1 \in DOMAIN chain
  BY <1>1, <1>2
<1>4. chain[1] \in Messages
  BY <1>1, <1>2, <1>3, ElementOfSeq
<1> QED
  BY <1>2, <1>3, <1>4 DEF TypeInv, ChainType

\* The checkpointer keeps a snapshot.
LEMMA ObservedType ==
  ASSUME TypeInv, NEW m \in Snapshots
  PROVE  Observed(m) \in {None} \cup [id : ToSet(Replies), pending : Snapshots \cup {None}]
<1>1. m.id \in ToSet(Replies)
  BY DEF Snapshots, Messages, Ids
<1> QED
  BY <1>1 DEF Observed, TypeInv, CheckpointerType

\* One more write is owed, by a request that owed none.
LEMMA OneMoreOwed ==
  ASSUME NEW owed \in Seq(Owings), NEW owing \in Owings,
         \A i, j \in DOMAIN owed : owed[i].request = owed[j].request => i = j,
         \A i \in DOMAIN owed : owed[i].request # owing.request
  PROVE  LET next == Append(owed, owing)
         IN  /\ \A i, j \in DOMAIN next : next[i].request = next[j].request => i = j
             /\ \A i \in DOMAIN next : (i \in DOMAIN owed /\ next[i] = owed[i]) \/ next[i] = owing
<1> DEFINE next == Append(owed, owing)
<1>1. /\ next \in Seq(Owings) /\ Len(next) = Len(owed) + 1
      /\ \A i \in 1 .. Len(owed) : next[i] = owed[i]
      /\ next[Len(owed) + 1] = owing
  BY AppendProperties
<1> HIDE DEF next
<1>2. /\ Len(owed) \in Nat /\ DOMAIN owed = 1 .. Len(owed)
      /\ DOMAIN next = 1 .. Len(owed) + 1
  BY <1>1, LenProperties
<1>3. \A i \in DOMAIN next :
        (i \in 1 .. Len(owed) /\ next[i] = owed[i]) \/ (i = Len(owed) + 1 /\ next[i] = owing)
  BY <1>1, <1>2
<1>4. \A i, j \in DOMAIN next : next[i].request = next[j].request => i = j
  BY <1>2, <1>3
<1> QED
  BY <1>2, <1>3, <1>4 DEF next

\* An append keeps the types.
LEMMA ServesAppendType ==
  ASSUME TypeInv, ServesAppend
  PROVE  TypeInv'
<1> DEFINE m == Head(chain)
           owing == [request |-> "append", message |-> m]
<1> USE DEF TypeInv, sidecarVars
<1>1. /\ head = "asked" /\ head' = "served" /\ store' = AppendMessage(store, m)
      /\ UNCHANGED <<host, sidecarVars, stopping, reserved, live, save, flushing, chain, finish,
                     crash, faults>>
  BY DEF ServesAppend
<1>2. m \in Messages /\ (m.id = Note => Final(m))
  BY <1>1, HeadIsFirst
<1> HIDE DEF m
<1>3. store' \in Stores /\ Appended(store, store', m)
  BY <1>1, <1>2, AppendMessageAppends DEF StoreType
<1>4. OneRow(store') /\ Behind(store')
  BY <1>3, FilesSound DEF Appended, Lands, Sound, StoreType
<1>5. StoreType'
  <2>1. CASE store'.owed = store.owed
    BY <1>1, <1>3, <1>4, <2>1 DEF StoreType
  <2>2. CASE ~Final(m) /\ store'.owed = Append(store.owed, owing)
    <3>1. owing \in Owings /\ owing.request = "append"
      BY <1>2, <2>2 DEF Owings, Snapshots
    <3> HIDE DEF owing
    <3>2. /\ store.owed \in Seq(Owings)
          /\ \A i \in DOMAIN store.owed : store.owed[i].request # "append"
      BY <1>1 DEF StoreType, Stores
    <3>3. /\ \A i, j \in DOMAIN store'.owed :
               store'.owed[i].request = store'.owed[j].request => i = j
          /\ \A i \in DOMAIN store'.owed :
               (i \in DOMAIN store.owed /\ store'.owed[i] = store.owed[i]) \/ store'.owed[i] = owing
      BY <2>2, <3>1, <3>2, OneMoreOwed DEF StoreType
    <3> QED
      BY <1>1, <1>3, <1>4, <3>1, <3>3 DEF StoreType
  <2> QED
    BY <1>3, <2>1, <2>2 DEF Appended
<1>6. ChainType'
  BY <1>1 DEF ChainType
<1>7. CheckpointerType' /\ RunType' /\ EndType'
  BY <1>1 DEF CheckpointerType, RunType, EndType
<1> QED
  BY <1>5, <1>6, <1>7

\* So does a checkpoint that arrives.
LEMMA ServesSaveType ==
  ASSUME TypeInv, ServesSave
  PROVE  TypeInv'
<1> DEFINE m == save.message
           owing == [request |-> "save", message |-> m]
<1> USE DEF TypeInv, sidecarVars
<1>1. /\ save # None /\ save.stage = "asked" /\ store' = SaveInflight(store, m)
      /\ save' = [save EXCEPT !.stage = "served"]
      /\ UNCHANGED <<host, sidecarVars, stopping, reserved, live, flushing, chain, head, finish,
                     crash, faults>>
  BY DEF ServesSave
<1>2. m \in Snapshots /\ save' \in [stage : {"asked", "served"}, message : Snapshots]
      /\ save'.stage = "served" /\ save' # None
  <2>1. save \in [stage : {"asked", "served"}, message : Snapshots]
    BY <1>1 DEF CheckpointerType
  <2>2. /\ save' \in [stage : {"asked", "served"}, message : Snapshots]
        /\ save'.stage = "served" /\ m \in Snapshots
    BY <1>1, <2>1
  <2>3. save' \in Saves
    BY <2>2 DEF Saves, Snapshots
  <2> QED
    BY <2>2, <2>3, TurnTranscriptAssumption
<1> HIDE DEF m
<1>3. /\ store' \in Stores /\ Same(store, store')
      /\ store'.owed = store.owed \/ store'.owed = Append(store.owed, owing)
  BY <1>1, <1>2, SaveInflightSaves DEF StoreType
<1>4. OneRow(store') /\ Behind(store')
  BY <1>3, SameAnswers DEF StoreType
<1>5. StoreType'
  <2>1. CASE store'.owed = store.owed
    BY <1>1, <1>2, <1>3, <1>4, <2>1 DEF StoreType
  <2>2. CASE store'.owed = Append(store.owed, owing)
    <3>1. owing \in Owings /\ owing.request = "save"
      BY <1>2 DEF Owings
    <3> HIDE DEF owing
    <3>2. store.owed \in Seq(Owings) /\ \A i \in DOMAIN store.owed : store.owed[i].request # "save"
      BY <1>1 DEF StoreType, Stores
    <3>3. /\ \A i, j \in DOMAIN store'.owed :
               store'.owed[i].request = store'.owed[j].request => i = j
          /\ \A i \in DOMAIN store'.owed :
               (i \in DOMAIN store.owed /\ store'.owed[i] = store.owed[i]) \/ store'.owed[i] = owing
      BY <2>2, <3>1, <3>2, OneMoreOwed DEF StoreType
    <3> QED
      BY <1>1, <1>2, <1>3, <1>4, <3>1, <3>3 DEF StoreType
  <2> QED
    BY <1>3, <2>1, <2>2
<1>6. ChainType'
  BY <1>1 DEF ChainType
<1>7. CheckpointerType'
  BY <1>1, <1>2 DEF CheckpointerType
<1>8. RunType' /\ EndType'
  BY <1>1 DEF RunType, EndType
<1> QED
  BY <1>5, <1>6, <1>7, <1>8

\* The other steps of host-core.
LEMMA HostStepsType ==
  ASSUME TypeInv, HostSteps
  PROVE  TypeInv'
<1> USE DEF TypeInv, sidecarVars, clientVars
<1>1. CASE ServesEndTurn
  <2>1. /\ finish.stage = "asked" /\ store' = EndTurn(store, finish.status, finish.recover)
        /\ finish' = [finish EXCEPT !.stage = "done"]
        /\ UNCHANGED <<host, sidecarVars, stopping, reserved, live, save, flushing, chain, head,
                       crash, faults>>
    BY <1>1 DEF ServesEndTurn
  <2>2. /\ store' \in Stores /\ store'.owed = store.owed /\ Recovered(store, store')
    BY <2>1, EndTurnRecovers DEF StoreType, Sound, EndType
  <2>3. OneRow(store') /\ Behind(store')
    BY <2>2, RecoveredSound DEF StoreType, Sound
  <2>4. StoreType'
    BY <2>1, <2>2, <2>3 DEF StoreType
  <2>5. ChainType' /\ CheckpointerType' /\ RunType'
    BY <2>1 DEF ChainType, CheckpointerType, RunType
  <2>6. EndType'
    BY <2>1 DEF EndType
  <2> QED
    BY <2>4, <2>5, <2>6
<1>2. ASSUME NEW i \in DOMAIN store.owed, Writes(i)
      PROVE  TypeInv'
  <2>1. store' = WriteCheckpoint(store, i) /\ UNCHANGED <<host, sidecarVars, clientVars, faults>>
    BY <1>2 DEF Writes
  <2>2. /\ store' \in Stores /\ Same(store, store')
        /\ DOMAIN store'.owed = 1 .. Len(store.owed) - i
        /\ \A k \in 1 .. Len(store.owed) - i : store'.owed[k] = store.owed[i + k]
    BY <2>1, WriteCheckpointWrites DEF StoreType
  <2>3. Len(store.owed) \in Nat /\ DOMAIN store.owed = 1 .. Len(store.owed)
    BY LenProperties DEF StoreType, Stores
  <2>4. \A k \in DOMAIN store'.owed : i + k \in DOMAIN store.owed
    BY <2>2, <2>3
  <2>5. \A j, k \in DOMAIN store'.owed : store'.owed[j].request = store'.owed[k].request => j = k
    <3> SUFFICES ASSUME NEW j \in DOMAIN store'.owed, NEW k \in DOMAIN store'.owed,
                        store'.owed[j].request = store'.owed[k].request
                 PROVE  j = k
      OBVIOUS
    <3>1. i + j = i + k
      BY <2>2, <2>4 DEF StoreType
    <3> QED
      BY <2>2, <2>3, <3>1
  <2>6. OneRow(store') /\ Behind(store')
    BY <2>2, SameAnswers DEF StoreType
  <2>7. StoreType'
    BY <2>1, <2>2, <2>4, <2>5, <2>6 DEF StoreType
  <2> QED
    BY <2>1, <2>7 DEF ChainType, CheckpointerType, RunType, EndType
<1>3. CASE Greets \/ HostStarts
  <2>1. /\ store' = Recover(store, TRUE) \/ store' = Boot(store)
        /\ host' \in {"up", "booted"} /\ UNCHANGED <<sidecarVars, clientVars, faults>>
    BY <1>3 DEF Greets, HostStarts
  <2>2. /\ store' \in Stores /\ Recovered(store, store')
        /\ store'.owed = store.owed \/ store'.owed = <<>>
    BY <2>1, RecoverRecovers, BootRecovers DEF StoreType, Sound
  <2>3. OneRow(store') /\ Behind(store')
    BY <2>2, RecoveredSound DEF StoreType, Sound
  <2>4. StoreType'
    BY <2>1, <2>2, <2>3 DEF StoreType
  <2> QED
    BY <2>1, <2>4 DEF ChainType, CheckpointerType, RunType, EndType
<1> QED
  BY <1>1, <1>2, <1>3, ServesAppendType, ServesSaveType DEF HostSteps

\* A message joins the queue of appends.
Joined(q, m, next) ==
  /\ next \in Seq(Messages) /\ Len(next) = Len(q) + 1
  /\ Len(q) \in Nat /\ DOMAIN q = 1 .. Len(q) /\ DOMAIN next = 1 .. Len(q) + 1
  /\ \A k \in 1 .. Len(q) : next[k] = q[k]
  /\ next[Len(q) + 1] = m

\* Both ways to append are one.
LEMMA AppendJoins ==
  ASSUME NEW q \in Seq(Messages), NEW m \in Messages
  PROVE  Joined(q, m, Append(q, m)) /\ Joined(q, m, q \o <<m>>)
<1>1. Joined(q, m, Append(q, m))
  <2> DEFINE next == Append(q, m)
  <2>1. /\ next \in Seq(Messages) /\ Len(next) = Len(q) + 1
        /\ \A k \in 1 .. Len(q) : next[k] = q[k]
        /\ next[Len(q) + 1] = m
    BY AppendProperties
  <2> HIDE DEF next
  <2> QED
    BY <2>1, LenProperties DEF Joined, next
<1>2. q \o <<m>> = Append(q, m)
  OBVIOUS
<1> QED
  BY <1>1, <1>2

\* A note joins, behind the place that is reserved for the reply that streams.
LEMMA NotesJoin ==
  ASSUME TypeInv, Notes
  PROVE  LET note == Message(Note, 0, "complete")
         IN  /\ note \in Messages /\ Final(note) /\ note.id = Note
             /\ streaming => /\ reserved' = reserved \cup {Reply}
                             /\ Said("streaming") \in Messages
                             /\ \E q \in Seq(Messages) :
                                  Joined(chain, Said("streaming"), q) /\ Joined(q, note, chain')
             /\ ~streaming => reserved' = reserved /\ Joined(chain, note, chain')
<1> DEFINE note == Message(Note, 0, "complete")
           said == Said("streaming")
<1>1. /\ current > 0
      /\ reserved' = reserved \cup {Preceding[i].id : i \in DOMAIN Preceding}
      /\ chain' = chain \o Preceding \o <<note>>
  BY DEF Notes
<1>2. note \in Messages /\ Final(note) /\ note.id = Note
  BY TurnTranscriptAssumption DEF Message, Messages, Ids, Texts, Final
<1>3. said \in Messages /\ said.id = Reply
  BY <1>1, SaidIsMessage DEF Snapshots
<1>4. chain \in Seq(Messages)
  BY DEF TypeInv, ChainType
<1> HIDE DEF note
<1>5. CASE streaming
  <2>1. Preceding = <<said>>
    BY <1>5 DEF Preceding
  <2> HIDE DEF said
  <2>2. reserved' = reserved \cup {Reply}
    BY <1>1, <1>3, <2>1
  <2> DEFINE q == chain \o <<said>>
  <2>3. Joined(chain, said, q)
    BY <1>3, <1>4, AppendJoins
  <2>4. chain' = q \o <<note>>
    BY <1>1, <2>1
  <2> HIDE DEF q
  <2>5. q \in Seq(Messages)
    BY <2>3 DEF Joined
  <2>6. Joined(q, note, chain')
    BY <1>2, <2>4, <2>5, AppendJoins
  <2> QED
    BY <1>2, <1>3, <1>5, <2>2, <2>3, <2>5, <2>6 DEF note, said
<1>6. CASE ~streaming
  <2>1. Preceding = <<>>
    BY <1>6 DEF Preceding
  <2>2. reserved' = reserved
    BY <1>1, <2>1
  <2>3. chain' = chain \o <<note>>
    BY <1>1, <1>4, <2>1, ConcatEmptySeq
  <2> QED
    BY <1>2, <1>4, <1>6, <2>2, <2>3, AppendJoins DEF note
<1> QED
  BY <1>5, <1>6 DEF TypeInv, RunType

\* What remains when the first append is done, or given up.
LEMMA TailIs ==
  ASSUME NEW q \in Seq(Messages), q # <<>>
  PROVE  /\ Tail(q) \in Seq(Messages)
         /\ Len(q) \in Nat \ {0} /\ DOMAIN q = 1 .. Len(q)
         /\ DOMAIN Tail(q) = 1 .. Len(q) - 1
         /\ \A k \in 1 .. Len(q) - 1 : Tail(q)[k] = q[k + 1]
<1>1. /\ Tail(q) \in Seq(Messages) /\ Len(Tail(q)) = Len(q) - 1
      /\ \A k \in 1 .. Len(Tail(q)) : Tail(q)[k] = q[k + 1]
  BY HeadTailProperties
<1>2. Len(q) \in Nat \ {0} /\ DOMAIN q = 1 .. Len(q)
  BY EmptySeq, LenProperties
<1>3. DOMAIN Tail(q) = 1 .. Len(Tail(q))
  BY <1>1, LenProperties
<1> QED
  BY <1>1, <1>2, <1>3

\* The first caller's status, or the abort that came before it.
LEMMA FinishesType ==
  ASSUME TypeInv, NEW status \in {"completed", "aborted"}, NEW recover \in BOOLEAN
  PROVE  /\ Finishes(status, recover) \in
              [stage : {"none", "asked", "done"}, status : {None, "completed", "aborted"},
               recover : BOOLEAN]
         /\ Finishes(status, recover).stage = "asked" =>
              Finishes(status, recover).status \in {"completed", "aborted"}
<1>1. CASE finish.stage # "none"
  BY <1>1 DEF Finishes, TypeInv, EndType
<1>2. CASE finish.stage = "none"
  BY <1>2 DEF Finishes, TypeInv, RunType
<1> QED
  BY <1>1, <1>2

\* The client's own steps.
LEMMA ClientStepsType ==
  ASSUME TypeInv, ClientSteps \/ GivesUp
  PROVE  TypeInv'
<1> USE DEF TypeInv, sidecarVars, clientVars
<1>1. CASE WritesPending
  <2>1. /\ live # None /\ live.pending # None /\ save = None
        /\ live' = [live EXCEPT !.pending = None]
        /\ save' = None \/ save' = [stage |-> "asked", message |-> live.pending]
        /\ UNCHANGED <<store, host, sidecarVars, stopping, reserved, flushing, chain, head,
                       finish, crash, faults>>
    BY <1>1 DEF WritesPending, Pending
  <2>2. CheckpointerType'
    BY <2>1 DEF CheckpointerType
  <2>3. StoreType'
    BY <2>1 DEF StoreType
  <2> QED
    BY <2>1, <2>2, <2>3 DEF ChainType, RunType, EndType
<1>2. ASSUME NEW id \in flushing, FlushEnds(id)
      PROVE  TypeInv'
  <2>1. /\ flushing' = flushing \ {id} /\ live' \in {None, live}
        /\ UNCHANGED <<store, host, sidecarVars, stopping, reserved, save, chain, head,
                       finish, crash, faults>>
    BY <1>2 DEF FlushEnds, SettledIf
  <2>2. CheckpointerType'
    BY <2>1 DEF CheckpointerType
  <2> QED
    BY <2>1, <2>2 DEF StoreType, ChainType, RunType, EndType
<1>3. CASE CrashFlushes
  <2>1. /\ crash' \in {"flush", "no"}
        /\ UNCHANGED <<store, host, sidecarVars, stopping, reserved, live, save, flushing, chain,
                       head, finish, faults>>
    BY <1>3 DEF CrashFlushes
  <2> QED
    BY <2>1 DEF StoreType, ChainType, CheckpointerType, RunType, EndType
<1>4. CASE CrashSettles
  <2>1. /\ crash' = "no" /\ live' \in {None, live}
        /\ finish' = finish \/ finish' = Finishes("aborted", TRUE)
        /\ UNCHANGED <<store, host, sidecarVars, stopping, reserved, save, flushing, chain, head,
                       faults>>
    BY <1>4 DEF CrashSettles
  <2>2. EndType'
    BY <2>1, FinishesType DEF EndType
  <2>3. CheckpointerType'
    BY <2>1 DEF CheckpointerType
  <2> QED
    BY <2>1, <2>2, <2>3 DEF StoreType, ChainType, RunType
<1>5. CASE Asks
  <2>1. /\ chain # <<>> /\ head = "waits" /\ head' = "asked"
        /\ UNCHANGED <<store, host, sidecarVars, stopping, reserved, live, save, flushing, chain,
                       finish, crash, faults>>
    BY <1>5 DEF Asks
  <2> QED
    BY <2>1 DEF StoreType, ChainType, CheckpointerType, RunType, EndType
<1>6. CASE Landed \/ GivesUp
  <2>1. /\ chain # <<>> /\ head' = "waits" /\ chain' = Tail(chain)
        /\ UNCHANGED <<store, host, sidecarVars, stopping, reserved, live, save, flushing, finish,
                       crash, faults>>
    BY <1>6 DEF Landed, GivesUp, ChainType
  <2>2. \A i \in DOMAIN store.owed : store.owed[i].request # "append"
    <3>1. CASE Landed
      <4>1. ~Owes(store, "append")
        BY <3>1 DEF Landed
      <4> QED
        BY <4>1 DEF Owes, ToSet
    <3>2. CASE GivesUp
      BY <3>2 DEF GivesUp, StoreType
    <3> QED
      BY <1>6, <3>1, <3>2
  <2>3. StoreType'
    BY <2>1, <2>2 DEF StoreType
  <2>4. ChainType'
    <3>1. chain \in Seq(Messages)
      BY DEF ChainType
    <3>2. /\ chain' \in Seq(Messages) /\ Len(chain) \in Nat \ {0}
          /\ DOMAIN chain = 1 .. Len(chain) /\ DOMAIN chain' = 1 .. Len(chain) - 1
          /\ \A k \in 1 .. Len(chain) - 1 : chain'[k] = chain[k + 1]
      BY <2>1, <3>1, TailIs
    <3> QED
      BY <2>1, <3>2 DEF ChainType
  <2> QED
    BY <2>1, <2>3, <2>4 DEF CheckpointerType, RunType, EndType
<1>7. CASE Saved
  <2>1. /\ save' = None
        /\ UNCHANGED <<store, host, sidecarVars, stopping, reserved, live, flushing, chain, head,
                       finish, crash, faults>>
        /\ ~Owes(store, "save")
    BY <1>7 DEF Saved
  <2>2. \A i \in DOMAIN store.owed : store.owed[i].request # "save"
    BY <2>1 DEF Owes, ToSet
  <2>3. StoreType'
    BY <2>1, <2>2 DEF StoreType
  <2>4. CheckpointerType'
    BY <2>1 DEF CheckpointerType
  <2> QED
    BY <2>1, <2>3, <2>4 DEF ChainType, RunType, EndType
<1> QED
  BY <1>1, <1>2, <1>3, <1>4, <1>5, <1>6, <1>7 DEF ClientSteps

\* The steps of the run and of the user who stops it.
LEMMA RunStepsType ==
  ASSUME TypeInv, RunSteps
  PROVE  TypeInv'
<1> USE DEF TypeInv, sidecarVars, clientVars
<1>1. CASE ReplyStarts
  <2>1. /\ current < Len(Replies) /\ current' = current + 1 /\ streaming' = TRUE
        /\ UNCHANGED <<store, host, run, text, noted, clientVars, faults>>
    BY <1>1 DEF ReplyStarts
  <2>2. RunType'
    BY <2>1, ReplyAt DEF RunType
  <2> QED
    BY <2>1, <2>2 DEF StoreType, ChainType, CheckpointerType, EndType
<1>2. CASE StreamsText
  <2>1. /\ streaming /\ text[Reply] < MaxText /\ text' = [text EXCEPT ![Reply] = @ + 1]
        /\ live' = Observed(Message(Reply, text[Reply] + 1, "streaming"))
        /\ UNCHANGED <<store, host, run, current, streaming, noted, stopping, reserved, save,
                       flushing, chain, head, finish, crash, faults>>
    BY <1>2 DEF StreamsText
  <2>2. current > 0
    BY <2>1 DEF RunType
  <2>3. Reply \in ToSet(Replies) /\ Reply # Note /\ text[Reply] \in Texts
    BY <2>2, SaidIsMessage
  <2>4. text[Reply] + 1 \in Texts
    BY <2>1, <2>3, TurnTranscriptAssumption DEF Texts
  <2>5. Message(Reply, text[Reply] + 1, "streaming") \in Snapshots
    BY <2>3, <2>4 DEF Message, Snapshots, Messages, Ids
  <2>6. CheckpointerType'
    BY <2>1, <2>5, ObservedType DEF CheckpointerType
  <2>7. text' \in [ToSet(Replies) -> Texts]
    BY <2>1, <2>3, <2>4 DEF RunType
  <2>8. RunType'
    BY <2>1, <2>7 DEF RunType
  <2> QED
    BY <2>1, <2>6, <2>8 DEF StoreType, ChainType, EndType
<1>3. CASE Notes
  <2> DEFINE note == Message(Note, 0, "complete")
  <2>1. /\ current > 0 /\ noted' = current
        /\ UNCHANGED <<store, host, run, current, streaming, text, stopping, live, save,
                       flushing, head, finish, crash, faults>>
    BY <1>3 DEF Notes
  <2>2. /\ Final(note)
        /\ streaming => /\ reserved' = reserved \cup {Reply}
                        /\ \E q \in Seq(Messages) :
                             Joined(chain, Said("streaming"), q) /\ Joined(q, note, chain')
        /\ ~streaming => reserved' = reserved /\ Joined(chain, note, chain')
    BY <1>3, NotesJoin
  <2>3. Reply \in ToSet(Replies) /\ Reply # Note /\ Said("streaming").id = Reply
    BY <2>1, SaidIsMessage
  <2> HIDE DEF note
  <2>4. ChainType'
    <3>1. CASE streaming
      <4>1. PICK q \in Seq(Messages) :
              Joined(chain, Said("streaming"), q) /\ Joined(q, note, chain')
        BY <2>2, <3>1
      <4>2. \A k \in DOMAIN q : q[k].id = Note => Final(q[k])
        BY <2>3, <4>1 DEF Joined, ChainType
      <4>3. \A k \in DOMAIN chain' : chain'[k].id = Note => Final(chain'[k])
        BY <2>2, <4>1, <4>2 DEF Joined
      <4>4. chain' \in Seq(Messages) /\ chain' # <<>>
        BY <4>1, EmptySeq DEF Joined
      <4> QED
        BY <2>1, <4>3, <4>4 DEF ChainType
    <3>2. CASE ~streaming
      <4>1. Joined(chain, note, chain')
        BY <2>2, <3>2
      <4>2. \A k \in DOMAIN chain' : chain'[k].id = Note => Final(chain'[k])
        BY <2>2, <4>1 DEF Joined, ChainType
      <4>3. chain' \in Seq(Messages) /\ chain' # <<>>
        BY <4>1, EmptySeq DEF Joined
      <4> QED
        BY <2>1, <4>2, <4>3 DEF ChainType
    <3> QED
      BY <3>1, <3>2 DEF RunType
  <2>5. reserved' \subseteq ToSet(Replies)
    BY <2>2, <2>3 DEF CheckpointerType, RunType
  <2>6. noted' \in 1 .. Len(Replies)
    BY <2>1, ReplyAt DEF RunType
  <2> QED
    BY <2>1, <2>4, <2>5, <2>6 DEF StoreType, CheckpointerType, RunType, EndType
<1>4. ASSUME NEW status \in {"complete", "aborted"}, ReplyEnds(status)
      PROVE  TypeInv'
  <2>1. /\ streaming /\ streaming' = FALSE /\ live' = Observed(Said(status))
        /\ flushing' = flushing \cup {Reply} /\ reserved' = reserved \ {Reply}
        /\ chain' = chain \/ chain' = Append(chain, Said(status))
        /\ UNCHANGED <<store, host, run, current, text, noted, stopping, save, head,
                       finish, crash, faults>>
    BY <1>4 DEF ReplyEnds
  <2>2. current > 0
    BY <2>1 DEF RunType
  <2>3. /\ Reply \in ToSet(Replies) /\ Said(status) \in Snapshots /\ Said(status).id # Note
    BY <2>2, SaidIsMessage
  <2>4. CheckpointerType'
    <3>1. live' \in {None} \cup [id : ToSet(Replies), pending : Snapshots \cup {None}]
      BY <2>1, <2>3, ObservedType
    <3> QED
      BY <2>1, <2>3, <3>1 DEF CheckpointerType
  <2>5. ChainType'
    <3>1. CASE chain' = chain
      BY <2>1, <3>1 DEF ChainType
    <3>2. CASE chain' = Append(chain, Said(status))
      <4>1. Joined(chain, Said(status), chain')
        BY <2>3, <3>2, AppendJoins DEF ChainType, Snapshots
      <4>2. \A k \in DOMAIN chain' : chain'[k].id = Note => Final(chain'[k])
        BY <2>3, <4>1 DEF Joined, ChainType
      <4>3. chain' \in Seq(Messages) /\ chain' # <<>>
        BY <4>1, EmptySeq DEF Joined
      <4> QED
        BY <2>1, <4>2, <4>3 DEF ChainType
    <3> QED
      BY <2>1, <3>1, <3>2
  <2>6. StoreType'
    BY <2>1 DEF StoreType
  <2>7. RunType' /\ EndType'
    BY <2>1 DEF RunType, EndType
  <2> QED
    BY <2>4, <2>5, <2>6, <2>7
<1>5. CASE RunEnds \/ AbortFinishes
  <2>1. /\ run' \in {run, "over"} /\ \E status \in {"completed", "aborted"} :
             finish' = Finishes(status, FALSE)
        /\ UNCHANGED <<store, host, current, streaming, text, noted, stopping, reserved, live,
                       save, flushing, chain, head, crash, faults>>
    BY <1>5 DEF RunEnds, AbortFinishes
  <2>2. EndType'
    <3>1. PICK status \in {"completed", "aborted"} : finish' = Finishes(status, FALSE)
      BY <2>1
    <3> QED
      BY <2>1, <3>1, FinishesType DEF EndType
  <2> QED
    BY <2>1, <2>2 DEF StoreType, ChainType, CheckpointerType, RunType
<1>6. CASE Stops
  <2>1. stopping' = TRUE /\ UNCHANGED <<store, host, sidecarVars, reserved, live, save, flushing,
                                        chain, head, finish, crash, faults>>
    BY <1>6 DEF Stops
  <2> QED
    BY <2>1 DEF StoreType, ChainType, CheckpointerType, RunType, EndType
<1> QED
  BY <1>1, <1>2, <1>3, <1>4, <1>5, <1>6 DEF RunSteps

\* Who dies now may die while the checkpoint of a reply is promoted.
Promoting == host # "up" \/ (finish.stage = "asked" /\ finish.recover)

\* What a death of host-core leaves: the store, the row of the append it served, in the
\* file at least, or a part of the promotion.
Left(s, t) ==
  \/ Same(s, t) /\ t.checkpoint = s.checkpoint
  \/ head = "asked" /\ Files(s, t, Head(chain)) /\ t.checkpoint = s.checkpoint
  \/ Promoting /\ PartRecovered(s, t)

\* That is all that Leavings has.
LEMMA LeavingsAre ==
  ASSUME TypeInv, NEW t \in Leavings
  PROVE  t \in Stores /\ Left(store, t)
<1> USE DEF TypeInv
<1>1. store \in Stores /\ Sound(store)
  BY DEF StoreType, Sound
<1>2. CASE t = store
  BY <1>1, <1>2 DEF Left, Same
<1>3. CASE head = "asked" /\ t \in AppendLeaves(store, Head(chain))
  <2> DEFINE m == Head(chain)
  <2>1. m \in Messages
    BY <1>3, HeadIsFirst
  <2>2. ~Dropped(store, m) /\ t \in {WithRow(store, m), Written(store, m)}
    BY <1>3 DEF AppendLeaves, WrittenLeaves
  <2> HIDE DEF m
  <2>3. ~Settled(store, m.id)
    BY <2>2 DEF Dropped
  <2>4. t \in Stores /\ Files(store, t, m) /\ t.checkpoint = store.checkpoint
    BY <1>1, <2>1, <2>2, <2>3, WrittenLands DEF Lands
  <2> QED
    BY <1>3, <2>4 DEF Left, m
<1>4. CASE finish.stage = "asked" /\ t \in EndTurnLeaves(store, finish.status, finish.recover)
  <2>1. finish.status \in {"completed", "aborted"} /\ finish.recover \in BOOLEAN
    BY <1>4 DEF EndType
  <2>2. /\ t \in Stores /\ PartRecovered(store, t)
        /\ ~finish.recover => Same(store, t) /\ t.checkpoint = store.checkpoint
    BY <1>1, <1>4, <2>1, EndTurnRecovers
  <2> QED
    BY <1>4, <2>1, <2>2 DEF Left, Promoting
<1>5. CASE host = "booted" /\ t \in RecoverLeaves(store, TRUE)
  BY <1>1, <1>5, RecoverLeavesPart DEF Left, Promoting
<1>6. CASE host = "down" /\ t \in BootLeaves(store)
  BY <1>1, <1>6, BootRecovers DEF Left, Promoting
<1> QED
  BY <1>2, <1>3, <1>4, <1>5, <1>6 DEF Leavings

\* What host-core had decided to write goes with it.
LEMMA DeathLeaves ==
  ASSUME TypeInv, HostDies
  PROVE  /\ host' = "down" /\ store'.owed = <<>>
         /\ store' \in Stores /\ Sound(store') /\ Left(store, store')
<1>1. PICK t \in Leavings : host' = "down" /\ store' = [t EXCEPT !.owed = <<>>]
  BY DEF HostDies
<1>2. t \in Stores /\ Left(store, t)
  BY <1>1, LeavingsAre
<1>3. store' \in Stores /\ Same(t, store') /\ store'.checkpoint = t.checkpoint /\ store'.owed = <<>>
  <2> DEFINE none == <<>>
  <2>1. none \in Seq(Owings) /\ store' = [t EXCEPT !.owed = none]
    BY <1>1
  <2> HIDE DEF none
  <2>2. store' \in Stores /\ Same(t, store') /\ store'.checkpoint = t.checkpoint /\ store'.owed = none
    BY <1>2, <2>1 DEF Stores, Same
  <2> QED
    BY <2>2 DEF none
<1>4. \A m : Files(store, t, m) => Files(store, store', m)
  BY <1>3 DEF Files, Grown, Same
<1>5. Left(store, store')
  BY <1>2, <1>3, <1>4 DEF Left, PartRecovered, Same
<1>6. Sound(store')
  <2>1. Sound(store)
    BY DEF TypeInv, StoreType, Sound
  <2>2. CASE Same(store, store')
    BY <1>3, <2>1, <2>2, SameAnswers DEF Sound
  <2>3. ASSUME NEW m, Files(store, store', m) PROVE Sound(store')
    BY <1>3, <2>1, <2>3, FilesSound
  <2> QED
    BY <1>5, <2>2, <2>3 DEF Left, PartRecovered
<1> QED
  BY <1>1, <1>3, <1>5, <1>6

\* The faults.
LEMMA FaultsType ==
  ASSUME TypeInv, HostCrashes \/ SidecarCrashes \/ ProcessDies
  PROVE  TypeInv'
<1> USE DEF TypeInv, sidecarVars, MayFail
<1>0. faults' \subseteq Kinds
  BY DEF HostCrashes, SidecarCrashes, ProcessDies, EndType, Kinds
<1>1. ASSUME HostDies
      PROVE  StoreType'
  <2>1. store' \in Stores /\ OneRow(store') /\ Behind(store') /\ store'.owed = <<>>
    BY <1>1, DeathLeaves DEF Sound
  <2>2. DOMAIN store'.owed = {}
    BY <2>1
  <2> QED
    BY <2>1, <2>2 DEF StoreType
<1>2. CASE HostCrashes
  <2>1. /\ HostDies /\ host' = "down" /\ head' = "waits" /\ save' = None
        /\ finish' = IF finish.stage = "asked" THEN [finish EXCEPT !.stage = "done"] ELSE finish
        /\ UNCHANGED <<sidecarVars, stopping, reserved, live, flushing, chain, crash>>
    BY <1>2 DEF HostCrashes, HostDies
  <2>2. EndType'
    BY <1>0, <2>1 DEF EndType
  <2>3. ChainType' /\ CheckpointerType' /\ RunType'
    BY <2>1 DEF ChainType, CheckpointerType, RunType
  <2> QED
    BY <1>1, <2>1, <2>2, <2>3
<1>3. CASE SidecarCrashes
  <2>1. /\ run' = "dead" /\ streaming' = FALSE /\ reserved' = {} /\ crash' \in {"plans", "no"}
        /\ UNCHANGED <<store, host, current, text, noted, stopping, live, save, flushing, chain,
                       head, finish>>
    BY <1>3 DEF SidecarCrashes
  <2>2. StoreType' /\ ChainType' /\ CheckpointerType'
    BY <2>1 DEF StoreType, ChainType, CheckpointerType
  <2>3. RunType' /\ EndType'
    BY <1>0, <2>1 DEF RunType, EndType
  <2> QED
    BY <2>2, <2>3
<1>4. CASE ProcessDies
  <2>1. /\ HostDies /\ host' = "down" /\ run' = "dead" /\ streaming' = FALSE
        /\ stopping' = FALSE /\ reserved' = {} /\ live' = None /\ save' = None /\ flushing' = {}
        /\ chain' = <<>> /\ head' = "waits" /\ crash' = "no"
        /\ finish' = [stage |-> "done", status |-> "aborted", recover |-> FALSE]
        /\ UNCHANGED <<current, text, noted>>
    BY <1>4 DEF ProcessDies, HostDies
  <2>2. ChainType'
    BY <2>1 DEF ChainType
  <2>3. CheckpointerType' /\ RunType' /\ EndType'
    BY <1>0, <2>1 DEF CheckpointerType, RunType, EndType
  <2> QED
    BY <1>1, <2>1, <2>2, <2>3
<1> QED
  BY <1>2, <1>3, <1>4

\* The types hold at the start.
LEMMA InitType == Init => TypeInv
<1> SUFFICES ASSUME Init PROVE TypeInv
  OBVIOUS
<1>1. /\ store = EmptyStore /\ host = "up" /\ run = "running" /\ current = 0 /\ streaming = FALSE
      /\ text = [r \in ToSet(Replies) |-> 0] /\ noted = None /\ stopping = FALSE /\ reserved = {}
      /\ live = None /\ save = None /\ flushing = {} /\ chain = <<>> /\ head = "waits"
      /\ finish = NoFinish /\ crash = "no" /\ faults = {}
  BY DEF Init
<1>2. StoreType
  <2> DEFINE rows == <<>>
             owed == <<>>
             index == [id \in Ids |-> "none"]
  <2>1. rows \in Seq(Messages) /\ owed \in Seq(Owings) /\ DOMAIN rows = {} /\ DOMAIN owed = {}
    OBVIOUS
  <2>2. store = [rows |-> rows, index |-> index, checkpoint |-> None, owed |-> owed,
                 turn |-> "running"]
    BY <1>1 DEF EmptyStore
  <2>3. index \in [Ids -> {"none", "streaming", "final"}] /\ \A id \in Ids : index[id] = "none"
    OBVIOUS
  <2> HIDE DEF rows, owed, index
  <2>4. Behind(store)
    BY <2>2, <2>3 DEF Behind, Indexed, Settled
  <2> QED
    BY <2>1, <2>2, <2>3, <2>4 DEF StoreType, Stores, OneRow
<1>3. ChainType
  BY <1>1 DEF ChainType
<1>4. CheckpointerType /\ RunType
  <2>1. 0 \in Texts /\ 0 \in 0 .. Len(Replies)
    BY ReplyAt, TurnTranscriptAssumption DEF Texts
  <2>2. text \in [ToSet(Replies) -> Texts]
    BY <1>1, <2>1
  <2>3. RunType
    BY <1>1, <2>1, <2>2 DEF RunType
  <2>4. CheckpointerType
    BY <1>1 DEF CheckpointerType
  <2> QED
    BY <2>3, <2>4
<1>5. EndType
  BY <1>1 DEF EndType, NoFinish
<1> QED
  BY <1>2, <1>3, <1>4, <1>5 DEF TypeInv

\* Every step keeps the types, with what the append, the save and the streams rely on.
LEMMA TypeInvKept == TypeInv /\ [Next]_vars => TypeInv'
<1>1. ASSUME TypeInv, Next
      PROVE  TypeInv'
  BY <1>1, ClientStepsType, HostStepsType, RunStepsType, FaultsType DEF Next
<1>2. ASSUME TypeInv, UNCHANGED vars
      PROVE  TypeInv'
  BY <1>2 DEF TypeInv, vars, sidecarVars, clientVars, StoreType, ChainType, CheckpointerType,
              RunType, EndType
<1> QED
  BY <1>1, <1>2

\* They hold throughout.
LEMMA TypeInvariant == Spec => []TypeInv
  BY InitType, TypeInvKept, PTL DEF Spec

\* Every variable keeps its type; whatever dies, also between two durable writes, the
\* index never knows more of a row than the file does; and of deferred writes there are
\* at most those of the one append and the one save in flight.
THEOREM TypeCorrect == Spec => []TypeOK
  BY TypeInvariant, TypeInvGivesTypes, PTL

-----------------------------------------------------------------------------
(* Rows *)

\* The steps of host-core, as the lemmas about the store describe them.
LEMMA HostStep ==
  ASSUME TypeInv, HostSteps
  PROVE  \/ /\ ServesAppend
            /\ Head(chain) \in Messages /\ Appended(store, store', Head(chain))
         \/ /\ ServesSave
            /\ save # None /\ save.message \in Snapshots /\ Same(store, store')
            /\ \/ /\ Settled(store, save.message.id)
                  /\ store'.checkpoint = None /\ store'.owed = store.owed
               \/ /\ ~Settled(store, save.message.id) /\ store'.checkpoint = store.checkpoint
                  /\ store'.owed =
                       Append(store.owed, [request |-> "save", message |-> save.message])
         \/ /\ ServesEndTurn \/ Greets \/ HostStarts
            /\ Recovered(store, store')
            /\ store'.owed = store.owed \/ store'.owed = <<>>
            /\ ServesEndTurn /\ ~finish.recover => Same(store, store')
         \/ \E i \in DOMAIN store.owed :
              /\ Writes(i) /\ Same(store, store')
              /\ store'.checkpoint = store.owed[i].message
              /\ \A k \in DOMAIN store'.owed : \E l \in DOMAIN store.owed :
                   store'.owed[k] = store.owed[l]
<1> USE DEF TypeInv
<1>0. store \in Stores /\ Sound(store)
  BY DEF StoreType, Sound
<1>1. CASE ServesAppend
  <2>1. head = "asked" /\ store' = AppendMessage(store, Head(chain))
    BY <1>1 DEF ServesAppend
  <2>2. Head(chain) \in Messages /\ (Head(chain).id = Note => Final(Head(chain)))
    BY <2>1, HeadIsFirst
  <2>3. Appended(store, store', Head(chain))
    BY <1>0, <2>1, <2>2, AppendMessageAppends
  <2> QED
    BY <1>1, <2>2, <2>3
<1>2. CASE ServesSave
  <2>1. save # None /\ store' = SaveInflight(store, save.message)
    BY <1>2 DEF ServesSave
  <2>2. save.message \in Snapshots
    BY <2>1 DEF CheckpointerType
  <2> QED
    BY <1>0, <1>2, <2>1, <2>2, SaveInflightSaves
<1>3. CASE ServesEndTurn
  <2>1. finish.stage = "asked" /\ store' = EndTurn(store, finish.status, finish.recover)
    BY <1>3 DEF ServesEndTurn
  <2>2. finish.status \in {"completed", "aborted"} /\ finish.recover \in BOOLEAN
    BY <2>1 DEF EndType
  <2>3. /\ store'.owed = store.owed /\ Recovered(store, store')
        /\ ~finish.recover => Same(store, store')
    BY <1>0, <2>1, <2>2, EndTurnRecovers
  <2> QED
    BY <1>3, <2>3
<1>4. CASE Greets
  <2>1. store' = Recover(store, TRUE) /\ UNCHANGED finish
    BY <1>4 DEF Greets, clientVars
  <2>2. store'.owed = store.owed /\ Recovered(store, store')
    BY <1>0, <2>1, RecoverRecovers
  <2>3. ~ServesEndTurn
    BY <2>1 DEF ServesEndTurn, EndType
  <2> QED
    BY <1>4, <2>2, <2>3
<1>5. CASE HostStarts
  <2>1. store' = Boot(store) /\ UNCHANGED finish
    BY <1>5 DEF HostStarts, clientVars
  <2>2. store'.owed = <<>> /\ Recovered(store, store')
    BY <1>0, <2>1, BootRecovers
  <2>3. ~ServesEndTurn
    BY <2>1 DEF ServesEndTurn, EndType
  <2> QED
    BY <1>5, <2>2, <2>3
<1>6. ASSUME NEW i \in DOMAIN store.owed, Writes(i)
      PROVE  /\ Same(store, store')
             /\ store'.checkpoint = store.owed[i].message
             /\ \A k \in DOMAIN store'.owed : \E l \in DOMAIN store.owed :
                  store'.owed[k] = store.owed[l]
  <2>1. store' = WriteCheckpoint(store, i)
    BY <1>6 DEF Writes
  <2>2. /\ Same(store, store')
        /\ store'.checkpoint = store.owed[i].message
        /\ DOMAIN store'.owed = 1 .. Len(store.owed) - i
        /\ \A k \in 1 .. Len(store.owed) - i : store'.owed[k] = store.owed[i + k]
    BY <1>0, <2>1, WriteCheckpointWrites
  <2>3. Len(store.owed) \in Nat /\ DOMAIN store.owed = 1 .. Len(store.owed)
    BY <1>0, LenProperties DEF Stores
  <2>4. \A k \in 1 .. Len(store.owed) - i : i + k \in DOMAIN store.owed
    BY <2>3
  <2> QED
    BY <2>2, <2>4
<1> QED
  BY <1>1, <1>2, <1>3, <1>4, <1>5, <1>6 DEF HostSteps

\* A death of host-core, alone or with the rest.
Death == HostCrashes \/ ProcessDies

\* Only host-core files rows, all the way unless it dies, and no step takes one away.
LEMMA RowsGrow ==
  ASSUME TypeInv, Next
  PROVE  \/ Same(store, store')
         \/ \E m : Lands(store, store', m)
         \/ Death /\ \E m : Files(store, store', m)
<1>1. CASE HostSteps
  BY <1>1, HostStep DEF Appended, Recovered, Same
<1>2. CASE ClientSteps \/ GivesUp
  BY <1>2 DEF ClientSteps, WritesPending, FlushEnds, CrashFlushes, CrashSettles, Asks, Landed,
              Saved, GivesUp, Same
<1>3. CASE RunSteps
  BY <1>3 DEF RunSteps, ReplyStarts, StreamsText, Notes, RunEnds, Stops, AbortFinishes, ReplyEnds,
              Same
<1>4. CASE SidecarCrashes
  BY <1>4 DEF SidecarCrashes, Same
<1>5. CASE Death
  BY <1>5, DeathLeaves DEF Death, HostCrashes, ProcessDies, Left, PartRecovered
<1> QED
  BY <1>1, <1>2, <1>3, <1>4, <1>5 DEF Next, Death

\* A row that the index says is final stays as it is, whatever is replayed, recovered or
\* promoted after it, and whatever dies, also between two durable writes.
THEOREM SettledRowsAreFinal == Spec => SettledRowsStay
<1> DEFINE Stay == \A i \in DOMAIN store.rows :
                     Settled(store, store.rows[i].id) =>
                       /\ i \in DOMAIN store'.rows /\ store'.rows[i] = store.rows[i]
                       /\ Settled(store', store.rows[i].id)
<1>1. ASSUME TypeInv, Next
      PROVE  Stay
  <2>1. CASE Same(store, store')
    BY <2>1, SameAnswers DEF Same
  <2>2. ASSUME NEW m, Files(store, store', m)
        PROVE  Stay
    <3>1. Sound(store) /\ store' \in Stores
      BY <1>1, TypeInvKept DEF TypeInv, StoreType, Sound
    <3>2. \A id \in Ids : Settled(store, id) => Settled(store', id)
      BY <2>2, <3>1, FilesSound
    <3>3. \A i \in DOMAIN store.rows : store.rows[i].id \in Ids
      BY <3>1, RowsHaveIds DEF Sound
    <3>4. ~Settled(store, m.id) /\ Grown(store, store', m)
      BY <2>2 DEF Files
    <3> QED
      BY <3>2, <3>3, <3>4 DEF Grown
  <2> QED
    BY <1>1, <2>1, <2>2, RowsGrow DEF Lands
<1>2. ASSUME UNCHANGED vars
      PROVE  Stay
  BY <1>2 DEF vars
<1>3. TypeInv /\ [Next]_vars => [Stay]_vars
  BY <1>1, <1>2
<1> QED
  BY <1>3, TypeInvariant, PTL DEF Spec, SettledRowsStay

-----------------------------------------------------------------------------
(* Faults, and what was said *)

Queued(id) == \E k \in DOMAIN chain : chain[k].id = id

\* What the faults that happened left behind.
FaultInv ==
  /\ crash # "no" \/ finish.recover => "sidecar" \in faults
  /\ "sidecar" \in faults => run = "dead"
  /\ "process" \in faults => run = "dead" /\ chain = <<>>
  /\ faults \subseteq {"sidecar"} => host = "up"
  /\ streaming => run = "running"

\* Only a death between two writes of one request sets index and file apart.
AgreeInv == faults \subseteq {"sidecar"} => Agree(store)

\* Only replies that started said something, and the note is known when it is made.
\* The checkpointer has the newest reply that said something.  An append that was
\* served is in the index, as a settled row if it is final.
TalkInv ==
  /\ \A r \in ToSet(Replies) : Started(r) > current => text[r] = 0
  /\ noted # None => noted <= current
  /\ noted = None => ~OnFile(store, Note) /\ ~Queued(Note)
  /\ live # None => /\ Started(live.id) <= current
                    /\ live.id = Reply \/ text[Reply] = 0
                    /\ live.pending # None => live.pending.id = live.id
  /\ head = "served" => /\ Indexed(store, Head(chain).id)
                        /\ Final(Head(chain)) => Settled(store, Head(chain).id)

\* File and index only grow, and settled rows stay settled.
LEMMA StoreGrows ==
  ASSUME TypeInv, Next
  PROVE  /\ \A id : OnFile(store, id) => OnFile(store', id)
         /\ \A id \in Ids : Indexed(store, id) => Indexed(store', id)
         /\ \A id \in Ids : Settled(store, id) => Settled(store', id)
         /\ Agree(store) /\ ~Death => Agree(store')
<1>1. Sound(store) /\ store' \in Stores
  BY TypeInvKept DEF TypeInv, StoreType, Sound
<1>2. CASE Same(store, store')
  BY <1>2, SameAnswers
<1>3. ASSUME NEW m, Files(store, store', m)
      PROVE  /\ \A id : OnFile(store, id) => OnFile(store', id)
             /\ \A id \in Ids : Indexed(store, id) => Indexed(store', id)
             /\ \A id \in Ids : Settled(store, id) => Settled(store', id)
             /\ Lands(store, store', m) /\ Agree(store) => Agree(store')
  <2>1. \A id : OnFile(store, id) => OnFile(store', id)
    BY <1>1, <1>3, GrownFile DEF Files, Sound
  <2> QED
    BY <1>1, <1>3, <2>1, FilesSound
<1> QED
  BY <1>2, <1>3, RowsGrow DEF Lands

\* An append is in the index when it has been served.
LEMMA AppendedIndex ==
  ASSUME NEW s, Sound(s), NEW t \in Stores, NEW m \in Messages, Appended(s, t, m)
  PROVE  /\ Indexed(t, m.id) /\ OnFile(t, m.id)
         /\ Final(m) => Settled(t, m.id) /\ Kept(t, m.id)
         /\ \A id : id # m.id => /\ OnFile(t, id) <=> OnFile(s, id)
                                 /\ Kept(t, id) <=> Kept(s, id)
<1>1. CASE Dropped(s, m) /\ t = s
  <2>1. Indexed(t, m.id) /\ (Final(m) => Settled(t, m.id)) /\ m.id \in Ids
    BY <1>1 DEF Dropped, Settled, Final, Provisional, Indexed, Messages
  <2> QED
    BY <1>1, <2>1 DEF Sound, Behind
<1>2. CASE Lands(s, t, m)
  <2>1. Indexed(t, m.id) /\ (Settled(t, m.id) <=> Final(m))
    BY <1>2, LandsIndex DEF Sound
  <2> QED
    BY <1>2, <2>1, GrownFile DEF Lands, Files, Sound
<1> QED
  BY <1>1, <1>2 DEF Appended

\* A recovery settles the reply of the checkpoint, or nothing.
LEMMA RecoveredIndex ==
  ASSUME NEW s, Sound(s), NEW t, Recovered(s, t)
  PROVE  \/ Same(s, t)
         \/ \E m \in Snapshots :
              /\ Lands(s, t, m) /\ Final(m) /\ m.id = s.checkpoint.id /\ s.checkpoint # None
              /\ t.checkpoint = None
              /\ OnFile(t, m.id) /\ Kept(t, m.id)
              /\ \A id : id # m.id => /\ OnFile(t, id) <=> OnFile(s, id)
                                      /\ Kept(t, id) <=> Kept(s, id)
<1>1. ASSUME s.checkpoint # None, t.checkpoint = None,
             NEW m \in Snapshots, Lands(s, t, m), Final(m), m.id = s.checkpoint.id
      PROVE  /\ OnFile(t, m.id) /\ Kept(t, m.id)
             /\ \A id : id # m.id => /\ OnFile(t, id) <=> OnFile(s, id)
                                     /\ Kept(t, id) <=> Kept(s, id)
  BY <1>1, GrownFile DEF Lands, Files, Sound
<1> QED
  BY <1>1 DEF Recovered

\* Faults are never forgotten.
LEMMA FaultsGrow ==
  ASSUME Next
  PROVE  /\ faults \subseteq faults'
         /\ Death => ~(faults' \subseteq {"sidecar"})
<1>1. CASE HostCrashes \/ SidecarCrashes \/ ProcessDies
  BY <1>1 DEF HostCrashes, SidecarCrashes, ProcessDies, MayFail, Death
<1>2. CASE ~(HostCrashes \/ SidecarCrashes \/ ProcessDies)
  BY <1>2
     DEF Next, ClientSteps, WritesPending, FlushEnds, CrashFlushes, CrashSettles, Asks, Landed,
         Saved, GivesUp, RunSteps, ReplyStarts, StreamsText, Notes, RunEnds, Stops, AbortFinishes,
         ReplyEnds, HostSteps, ServesAppend, ServesSave, ServesEndTurn, Writes, Greets, HostStarts,
         Death
<1> QED
  BY <1>1, <1>2

\* Index and file stay in step until something dies.
LEMMA AgreeKeeps ==
  ASSUME TypeInv, AgreeInv, [Next]_vars
  PROVE  AgreeInv'
<1>1. CASE Next
  BY <1>1, FaultsGrow, StoreGrows DEF AgreeInv
<1>2. CASE UNCHANGED vars
  BY <1>2 DEF vars, AgreeInv
<1> QED
  BY <1>1, <1>2

\* The faults keep their traces.
LEMMA FaultKeeps ==
  ASSUME TypeInv, FaultInv, [Next]_vars
  PROVE  FaultInv'
<1> USE DEF TypeInv, FaultInv, sidecarVars, clientVars
<1>1. CASE HostSteps
  <2>1. UNCHANGED <<run, streaming, chain, crash, faults>> /\ finish'.recover = finish.recover
        /\ (host' = host \/ host \in {"booted", "down"})
    <3>1. CASE ServesEndTurn
      BY <3>1 DEF ServesEndTurn, EndType
    <3>2. CASE ~ServesEndTurn
      BY <1>1, <3>2 DEF HostSteps, ServesAppend, ServesSave, Writes, Greets, HostStarts
    <3> QED
      BY <3>1, <3>2
  <2> QED
    BY <2>1
<1>2. CASE ClientSteps \/ GivesUp
  <2>1. CASE CrashSettles
    <3>1. /\ crash = "flush" /\ crash' = "no" /\ UNCHANGED <<run, streaming, chain, faults, host>>
      BY <2>1 DEF CrashSettles
    <3> QED
      BY <3>1
  <2>2. CASE CrashFlushes
    BY <2>2 DEF CrashFlushes
  <2>3. CASE Landed \/ GivesUp
    <3>1. /\ chain # <<>> /\ UNCHANGED <<run, streaming, crash, finish, faults, host>>
      BY <2>3 DEF Landed, GivesUp, ChainType
    <3> QED
      BY <3>1
  <2>4. CASE WritesPending \/ (\E id \in flushing : FlushEnds(id)) \/ Asks \/ Saved
    BY <2>4 DEF WritesPending, FlushEnds, Asks, Saved
  <2> QED
    BY <1>2, <2>1, <2>2, <2>3, <2>4 DEF ClientSteps
<1>3. CASE RunSteps
  <2>1. CASE RunEnds
    <3>1. /\ run = "running" /\ run' = "over" /\ ~streaming
          /\ finish' = Finishes("completed", FALSE)
          /\ UNCHANGED <<host, streaming, chain, crash, faults>>
      BY <2>1 DEF RunEnds
    <3>2. finish'.recover => finish.recover
      BY <3>1 DEF Finishes
    <3> QED
      BY <3>1, <3>2
  <2>2. CASE AbortFinishes
    <3>1. /\ finish' = Finishes("aborted", FALSE)
          /\ UNCHANGED <<host, run, streaming, chain, crash, faults>>
      BY <2>2 DEF AbortFinishes
    <3>2. finish'.recover => finish.recover
      BY <3>1 DEF Finishes
    <3> QED
      BY <3>1, <3>2
  <2>3. CASE ReplyStarts \/ StreamsText \/ Stops
    BY <2>3 DEF ReplyStarts, StreamsText, Stops
  <2>4. CASE Notes
    <3>1. run = "running" /\ UNCHANGED <<host, run, streaming, crash, finish, faults>>
      BY <2>4 DEF Notes
    <3> QED
      BY <3>1
  <2>5. ASSUME NEW status \in {"complete", "aborted"}, ReplyEnds(status)
        PROVE  FaultInv'
    <3>1. run = "running" /\ streaming' = FALSE /\ UNCHANGED <<host, run, crash, finish, faults>>
      BY <2>5 DEF ReplyEnds
    <3> QED
      BY <3>1
  <2> QED
    BY <1>3, <2>1, <2>2, <2>3, <2>4, <2>5 DEF RunSteps
<1>4. CASE HostCrashes
  <2>1. /\ faults' = faults \cup {"host"} /\ UNCHANGED <<run, streaming, chain, crash>>
        /\ finish' = IF finish.stage = "asked" THEN [finish EXCEPT !.stage = "done"] ELSE finish
    BY <1>4 DEF HostCrashes, MayFail
  <2>2. finish'.recover = finish.recover
    BY <2>1 DEF EndType
  <2> QED
    BY <2>1, <2>2
<1>5. CASE SidecarCrashes
  BY <1>5 DEF SidecarCrashes, MayFail
<1>6. CASE ProcessDies
  BY <1>6 DEF ProcessDies, MayFail
<1>7. CASE UNCHANGED vars
  BY <1>7 DEF vars
<1> QED
  BY <1>1, <1>2, <1>3, <1>4, <1>5, <1>6, <1>7 DEF Next

\* The head stays the head when something joins behind it.
LEMMA JoinedHead ==
  ASSUME NEW q \in Seq(Messages), NEW m, NEW next, Joined(q, m, next), q # <<>>
  PROVE  next # <<>> /\ Head(next) = Head(q)
<1>1. Len(q) \in Nat \ {0} /\ Len(next) = Len(q) + 1 /\ next \in Seq(Messages)
  BY EmptySeq DEF Joined
<1>2. next # <<>>
  BY <1>1, EmptySeq
<1>3. Head(next) = next[1] /\ Head(q) = q[1]
  BY <1>1, <1>2
<1>4. next[1] = q[1]
  BY <1>1 DEF Joined
<1> QED
  BY <1>2, <1>3, <1>4

\* So does what was said.
LEMMA TalkKeeps ==
  ASSUME TypeInv, TypeInv', TalkInv, [Next]_vars
  PROVE  TalkInv'
<1> USE DEF TypeInv, sidecarVars, clientVars
<1>0. Sound(store) /\ store' \in Stores
  BY DEF StoreType, Sound
<1>1. CASE HostSteps
  <2>1. UNCHANGED <<current, text, noted, live, chain>> /\ (head' = head \/ ServesAppend)
    BY <1>1 DEF HostSteps, ServesAppend, ServesSave, ServesEndTurn, Writes, Greets, HostStarts
  <2>2. noted = None => ~OnFile(store', Note)
    <3>1. CASE ServesAppend
      <4>1. /\ Head(chain) = chain[1] /\ 1 \in DOMAIN chain
        BY <3>1, HeadIsFirst DEF ServesAppend
      <4>2. Appended(store, store', Head(chain)) /\ Head(chain) \in Messages
        BY <1>1, <3>1, HostStep
           DEF ServesSave, ServesEndTurn, Greets, HostStarts, Writes, ServesAppend
      <4> QED
        BY <1>0, <4>1, <4>2, AppendedIndex DEF TalkInv, Queued
    <3>2. CASE ~ServesAppend
      <4>1. Same(store, store') \/ Recovered(store, store')
        BY <1>1, <3>2, HostStep
      <4>2. CASE Same(store, store')
        BY <4>2, SameAnswers DEF TalkInv
      <4>3. CASE Recovered(store, store')
        BY <1>0, <4>3, RecoveredIndex, SameAnswers DEF TalkInv, Snapshots
      <4> QED
        BY <4>1, <4>2, <4>3
    <3> QED
      BY <3>1, <3>2
  <2>3. head' = "served" => /\ Indexed(store', Head(chain).id)
                            /\ Final(Head(chain)) => Settled(store', Head(chain).id)
    <3>1. CASE ServesAppend
      <4>1. Appended(store, store', Head(chain)) /\ Head(chain) \in Messages
        BY <1>1, <3>1, HostStep
           DEF ServesSave, ServesEndTurn, Greets, HostStarts, Writes, ServesAppend
      <4> QED
        BY <1>0, <4>1, AppendedIndex
    <3>2. CASE head' = head
      BY <1>1, <3>2, StoreGrows, HeadIsFirst DEF TalkInv, Next, Messages
    <3> QED
      BY <2>1, <3>1, <3>2
  <2> QED
    BY <2>1, <2>2, <2>3 DEF TalkInv, Queued, Reply
<1>2. CASE ClientSteps \/ GivesUp
  <2>1. /\ UNCHANGED <<store, current, text, noted>>
        /\ live' \in {None, live} \/ (live # None /\ live' = [live EXCEPT !.pending = None])
    BY <1>2 DEF ClientSteps, WritesPending, FlushEnds, SettledIf, CrashFlushes, CrashSettles, Asks,
                Landed, Saved, GivesUp, Pending
  <2>2. live' # None => /\ live # None /\ live'.id = live.id
                        /\ live'.pending # None => live'.pending = live.pending
    BY <2>1 DEF CheckpointerType
  <2>3. CASE Landed \/ GivesUp
    <3>1. chain # <<>> /\ head' = "waits" /\ chain' = Tail(chain) /\ chain \in Seq(Messages)
      BY <2>3 DEF Landed, GivesUp, ChainType
    <3>2. Queued(Note)' => Queued(Note)
      BY <3>1, TailIs DEF Queued
    <3> QED
      BY <2>1, <2>2, <3>1, <3>2 DEF TalkInv, Reply
  <2>4. CASE ~(Landed \/ GivesUp)
    <3>1. chain' = chain /\ (head' = "served" => head = "served")
      BY <1>2, <2>4 DEF ClientSteps, WritesPending, FlushEnds, CrashFlushes, CrashSettles, Asks,
                        Saved
    <3> QED
      BY <2>1, <2>2, <3>1 DEF TalkInv, Reply, Queued
  <2> QED
    BY <2>3, <2>4
<1>3. CASE ReplyStarts
  <2>1. /\ current < Len(Replies) /\ current' = current + 1
        /\ UNCHANGED <<store, text, noted, live, chain, head>>
    BY <1>3 DEF ReplyStarts
  <2>2. Started(Reply') = current' /\ Reply' \in ToSet(Replies)
    BY <2>1, ReplyAt DEF Reply, RunType
  <2>3. text'[Reply'] = 0
    BY <2>1, <2>2 DEF TalkInv, RunType
  <2>4. noted # None => noted \in Nat
    BY ReplyAt DEF RunType
  <2>5. live # None => Started(live.id) \in Nat
    BY ReplyAt DEF CheckpointerType
  <2>6. \A r \in ToSet(Replies) : Started(r) \in Nat
    BY ReplyAt
  <2>7. /\ \A r \in ToSet(Replies) : Started(r) > current' => text'[r] = 0
        /\ noted' # None => noted' <= current'
    BY <2>1, <2>4, <2>6, ReplyAt DEF TalkInv, RunType
  <2>8. live' # None => /\ Started(live'.id) <= current'
                        /\ live'.id = Reply' \/ text'[Reply'] = 0
                        /\ live'.pending # None => live'.pending.id = live'.id
    BY <2>1, <2>3, <2>5, ReplyAt DEF TalkInv, RunType
  <2> QED
    BY <2>1, <2>7, <2>8 DEF TalkInv, Queued
<1>4. CASE StreamsText
  <2>1. /\ streaming /\ text' = [text EXCEPT ![Reply] = @ + 1]
        /\ live' = Observed(Message(Reply, text[Reply] + 1, "streaming"))
        /\ UNCHANGED <<store, current, noted, chain, head>>
    BY <1>4 DEF StreamsText
  <2>2. Reply \in ToSet(Replies) /\ Started(Reply) = current /\ text[Reply] \in Nat
    BY <2>1, SaidIsMessage, TurnTranscriptAssumption DEF RunType, Texts
  <2>3. \A r \in ToSet(Replies) : Started(r) \in Nat
    BY ReplyAt
  <2>4. \A r \in ToSet(Replies) : Started(r) > current => text'[r] = 0
    BY <2>1, <2>2, <2>3 DEF TalkInv, RunType
  <2>5. live' = [id |-> Reply, pending |-> Message(Reply, text[Reply] + 1, "streaming")]
    BY <2>1, <2>2 DEF Observed, Message
  <2>6. live'.id = Reply /\ live'.pending.id = Reply
    BY <2>5 DEF Message
  <2>7. Started(live'.id) <= current'
    BY <2>1, <2>2, <2>6, ReplyAt DEF RunType
  <2> QED
    BY <2>1, <2>4, <2>6, <2>7 DEF TalkInv, Queued, Reply
<1>5. CASE Notes
  <2>1. /\ current > 0 /\ noted' = current
        /\ UNCHANGED <<store, current, text, live, head>>
    BY <1>5 DEF Notes
  <2>2. head = "served" => chain # <<>> /\ Head(chain') = Head(chain)
    <3>1. chain \in Seq(Messages)
      BY DEF ChainType
    <3>2. CASE streaming
      <4>1. PICK q \in Seq(Messages) :
              /\ Joined(chain, Said("streaming"), q)
              /\ Joined(q, Message(Note, 0, "complete"), chain')
        BY <1>5, <3>2, NotesJoin
      <4> QED
        BY <3>1, <4>1, JoinedHead DEF ChainType
    <3>3. CASE ~streaming
      <4>1. Joined(chain, Message(Note, 0, "complete"), chain')
        BY <1>5, <3>3, NotesJoin
      <4> QED
        BY <3>1, <4>1, JoinedHead DEF ChainType
    <3> QED
      BY <3>2, <3>3
  <2>3. noted' # None /\ noted' <= current'
    BY <2>1, ReplyAt, TurnTranscriptAssumption DEF RunType
  <2> QED
    BY <2>1, <2>2, <2>3 DEF TalkInv, Reply
<1>6. CASE RunEnds \/ Stops \/ AbortFinishes
  BY <1>6 DEF RunEnds, Stops, AbortFinishes, TalkInv, Reply, Queued
<1>7. ASSUME NEW status \in {"complete", "aborted"}, ReplyEnds(status)
      PROVE  TalkInv'
  <2>1. /\ streaming /\ live' = Observed(Said(status))
        /\ chain' = chain \/ chain' = Append(chain, Said(status))
        /\ UNCHANGED <<store, current, text, noted, head>>
    BY <1>7 DEF ReplyEnds
  <2>2. /\ Reply \in ToSet(Replies) /\ Started(Reply) = current /\ Reply # Note
        /\ Said(status) \in Messages /\ Said(status).id = Reply
    BY <2>1, SaidIsMessage DEF RunType, Snapshots
  <2>3. live' = live \/ live' = [id |-> Reply, pending |-> Said(status)]
    BY <2>1, <2>2 DEF Observed
  <2>4. live' # None => /\ Started(live'.id) <= current'
                        /\ live'.id = Reply' \/ text'[Reply'] = 0
                        /\ live'.pending # None => live'.pending.id = live'.id
    BY <2>1, <2>2, <2>3, ReplyAt DEF TalkInv, Reply, RunType
  <2>5. CASE chain' = chain
    BY <2>1, <2>4, <2>5 DEF TalkInv, Queued
  <2>6. CASE chain' = Append(chain, Said(status))
    <3>1. chain \in Seq(Messages) /\ Joined(chain, Said(status), chain')
      BY <2>2, <2>6, AppendJoins DEF ChainType
    <3>2. head = "served" => Head(chain') = Head(chain)
      BY <3>1, JoinedHead DEF ChainType
    <3>3. Queued(Note)' => Queued(Note)
      BY <2>2, <3>1 DEF Queued, Joined
    <3> QED
      BY <2>1, <2>4, <3>2, <3>3 DEF TalkInv
  <2> QED
    BY <2>1, <2>5, <2>6
<1>8. CASE HostCrashes \/ ProcessDies
  <2>1. /\ head' = "waits" /\ live' \in {None, live} /\ chain' \in {chain, <<>>}
        /\ HostDies /\ UNCHANGED <<current, text, noted>>
    BY <1>8 DEF HostCrashes, ProcessDies
  <2>2. Left(store, store')
    BY <2>1, DeathLeaves
  <2>3. ASSUME noted = None
        PROVE  ~OnFile(store', Note)
    <3>1. ~OnFile(store, Note) /\ ~Queued(Note)
      BY <2>3 DEF TalkInv
    <3>2. CASE Same(store, store')
      BY <3>1, <3>2, SameAnswers
    <3>3. ASSUME NEW m, Files(store, store', m), m.id # Note PROVE ~OnFile(store', Note)
      BY <1>0, <3>1, <3>3, GrownFile DEF Files, Sound
    <3>4. head = "asked" => Head(chain).id # Note
      BY <3>1, HeadIsFirst DEF Queued
    <3> QED
      BY <2>2, <3>2, <3>3, <3>4 DEF Left, PartRecovered, Snapshots
  <2>4. Queued(Note)' => Queued(Note)
    BY <2>1 DEF Queued
  <2> QED
    BY <2>1, <2>3, <2>4 DEF TalkInv, Reply
<1>9. CASE SidecarCrashes
  BY <1>9 DEF SidecarCrashes, TalkInv, Reply, Queued
<1>10. CASE UNCHANGED vars
  BY <1>10 DEF vars, TalkInv, Reply, Queued
<1> QED
  BY <1>1, <1>2, <1>3, <1>4, <1>5, <1>6, <1>7, <1>8, <1>9, <1>10 DEF Next, RunSteps

\* What was said, and what the faults left behind, throughout.
LEMMA TalkInvariant == Spec => [](TypeInv /\ FaultInv /\ AgreeInv /\ TalkInv)
<1>1. Init => FaultInv /\ AgreeInv /\ TalkInv
  <2> SUFFICES ASSUME Init PROVE FaultInv /\ AgreeInv /\ TalkInv
    OBVIOUS
  <2>1. /\ store.rows = <<>> /\ host = "up" /\ streaming = FALSE /\ noted = None
        /\ text = [r \in ToSet(Replies) |-> 0] /\ live = None
        /\ chain = <<>> /\ head = "waits" /\ finish.recover = FALSE /\ crash = "no" /\ faults = {}
    BY DEF Init, EmptyStore, NoFinish
  <2>2. FaultInv
    BY <2>1 DEF FaultInv
  <2>3. (\A id : ~OnFile(store, id)) /\ ~Queued(Note)
    BY <2>1, FileAt DEF Queued
  <2>4. AgreeInv
    BY <2>3 DEF AgreeInv, Agree, Kept
  <2> QED
    BY <2>1, <2>2, <2>3, <2>4 DEF TalkInv
<1>2. TypeInv /\ FaultInv /\ AgreeInv /\ TalkInv /\ TypeInv' /\ [Next]_vars
        => FaultInv' /\ AgreeInv' /\ TalkInv'
  BY FaultKeeps, AgreeKeeps, TalkKeeps
<1> QED
  BY <1>1, <1>2, TypeInvariant, PTL DEF Spec

-----------------------------------------------------------------------------
(* The replies of a turn, as long as host-core lives *)

\* A copy of a reply is made of a reply with a row, or of the last one, which has text.
Late(id) == OnFile(store, id) \/ (current > 0 /\ id = Reply /\ text[Reply] > 0)

\* A checkpoint, on file or owed, holds a reply that has no row yet.
Unfiled ==
  \/ store.checkpoint # None /\ ~OnFile(store, store.checkpoint.id)
  \/ \E i \in DOMAIN store.owed : ~OnFile(store, store.owed[i].message.id)

\* Only the last reply, and the note said after its start, wait for their rows.
ChainInv ==
  \A k \in DOMAIN chain :
    /\ current > 0
    /\ chain[k].id = Reply \/ (chain[k].id = Note /\ noted = current)

\* The rows are of replies that started, and only the last one reserves a place or may be
\* unknown to the index.
RowInv ==
  \A i \in DOMAIN store.rows :
    /\ current > 0
    /\ store.rows[i].id # Note => Started(store.rows[i].id) <= current
    /\ \/ store.rows[i].status = "streaming"
       \/ store.rows[i].id # Note /\ ~Settled(store, store.rows[i].id)
       => store.rows[i].id = Reply

\* No copy is of a reply that the others do not know.
CopyInv ==
  /\ store.checkpoint # None => Late(store.checkpoint.id)
  /\ save # None => Late(save.message.id)
  /\ live # None => Late(live.id)
  /\ \A i \in DOMAIN store.owed : store.owed[i].message.id = Reply /\ Late(Reply)
  /\ Unfiled => save = None \/ save.message.id = Reply

\* A reply that streams has a row, or one on its way, only if it reserved a place.
StreamInv ==
  streaming =>
    /\ \A i \in DOMAIN store.rows :
         store.rows[i].id = Reply => ~Final(store.rows[i]) /\ Reply \in reserved
    /\ \A k \in DOMAIN chain :
         chain[k].id = Reply => ~Final(chain[k]) /\ Reply \in reserved

\* A reply that ended is settled or will be, or it came to nothing.
EndInv ==
  run = "running" /\ ~streaming /\ current > 0 =>
    \/ Kept(store, Reply)
    \/ \E k \in DOMAIN chain : chain[k].id = Reply /\ Final(chain[k])
    \/ text[Reply] = 0 /\ ~OnFile(store, Reply) /\ ~Queued(Reply)

\* The note comes behind the reply it interrupted, or that reply came to nothing.
NoteInv ==
  noted = current =>
    \/ OnFile(store, Reply)
    \/ /\ ~OnFile(store, Note)
       /\ \A l \in DOMAIN chain :
            chain[l].id = Note => \E k \in DOMAIN chain : k < l /\ chain[k].id = Reply
    \/ ~streaming /\ text[Reply] = 0 /\ ~Queued(Reply)

InOrder ==
  \A i, j \in DOMAIN store.rows : i < j => SaidBefore(store.rows[i].id, store.rows[j].id)

WholeInv ==
  "host" \notin faults =>
    ChainInv /\ RowInv /\ CopyInv /\ StreamInv /\ EndInv /\ NoteInv /\ InOrder

\* Steps that touch neither rows, replies nor appends.  A checkpoint being written is
\* of the reply that the checkpointer has.
LEMMA CopiesKeepWhole ==
  ASSUME TypeInv, TalkInv, WholeInv,
         UNCHANGED <<store, current, streaming, text, noted, reserved, chain, faults>>,
         run' = run \/ run' # "running",
         live' # None => live # None /\ live'.id = live.id,
         save' # None => \/ save # None /\ save'.message = save.message
                         \/ live # None /\ live.pending # None /\ save'.message = live.pending
  PROVE  WholeInv'
<1> SUFFICES ASSUME "host" \notin faults
             PROVE  (ChainInv /\ RowInv /\ CopyInv /\ StreamInv /\ EndInv /\ NoteInv /\ InOrder)'
  BY DEF WholeInv
<1> USE DEF WholeInv
<1>1. Reply' = Reply /\ (Unfiled' <=> Unfiled) /\ \A id : Late(id)' <=> Late(id)
  BY DEF Reply, Unfiled, Late
<1>2. ChainInv' /\ RowInv' /\ StreamInv' /\ EndInv' /\ NoteInv' /\ InOrder'
  BY <1>1 DEF ChainInv, RowInv, StreamInv, EndInv, NoteInv, InOrder, Queued, SaidBefore
<1>3. CopyInv'
  <2>1. save' # None => Late(save'.message.id)
    BY DEF CopyInv, TalkInv
  <2>2. ASSUME Unfiled, save' # None
        PROVE  save'.message.id = Reply
    <3>1. CASE save # None /\ save'.message = save.message
      BY <2>2, <3>1 DEF CopyInv
    <3>2. CASE live # None /\ live.pending # None /\ save'.message = live.pending
      <4>1. text[Reply] > 0
        BY <2>2 DEF CopyInv, Unfiled, Late
      <4>2. live.id = Reply
        BY <3>2, <4>1 DEF TalkInv
      <4> QED
        BY <3>2, <4>2 DEF TalkInv
    <3> QED
      BY <2>2, <3>1, <3>2
  <2> QED
    BY <1>1, <2>1, <2>2 DEF CopyInv
<1> QED
  BY <1>2, <1>3

\* The first append is done.
LEMMA LandedKeepsWhole ==
  ASSUME TypeInv, TalkInv, WholeInv, Landed
  PROVE  WholeInv'
<1> SUFFICES ASSUME "host" \notin faults
             PROVE  (ChainInv /\ RowInv /\ CopyInv /\ StreamInv /\ EndInv /\ NoteInv /\ InOrder)'
  BY DEF WholeInv, Landed
<1> USE DEF WholeInv, sidecarVars
<1>1. /\ head = "served" /\ chain' = Tail(chain)
      /\ UNCHANGED <<store, run, current, streaming, text, noted, reserved, live, save>>
  BY DEF Landed
<1>2. /\ 1 \in DOMAIN chain /\ Head(chain) = chain[1]
      /\ OnFile(store, chain[1].id) /\ (Final(chain[1]) => Kept(store, chain[1].id))
  BY <1>1, HeadIsFirst DEF TalkInv, TypeInv, StoreType, Behind, Messages
<1>3. /\ Len(chain) \in Nat /\ DOMAIN chain = 1 .. Len(chain) /\ DOMAIN chain' = 1 .. Len(chain) - 1
      /\ \A k \in 1 .. Len(chain) - 1 : chain'[k] = chain[k + 1]
  BY <1>1, <1>2, TailIs, EmptySeq DEF TypeInv, ChainType
<1>4. /\ \A k \in DOMAIN chain' : k + 1 \in DOMAIN chain /\ chain'[k] = chain[k + 1]
      /\ \A k \in DOMAIN chain : k = 1 \/ (k - 1 \in DOMAIN chain' /\ chain'[k - 1] = chain[k])
  BY <1>3
<1>5. Reply' = Reply /\ (Unfiled' <=> Unfiled) /\ \A id : Late(id)' <=> Late(id)
  BY <1>1 DEF Reply, Unfiled, Late
<1>6. \A id : Queued(id)' => Queued(id)
  BY <1>4 DEF Queued
<1>7. ChainInv' /\ RowInv' /\ CopyInv' /\ StreamInv' /\ InOrder'
  BY <1>1, <1>4, <1>5 DEF ChainInv, RowInv, CopyInv, StreamInv, InOrder, SaidBefore
<1>8. EndInv'
  BY <1>1, <1>2, <1>4, <1>5, <1>6 DEF EndInv
<1>9. NoteInv'
  <2> SUFFICES ASSUME noted = current,
                      ~OnFile(store, Reply),
                      ~OnFile(store, Note),
                      \A l \in DOMAIN chain :
                        chain[l].id = Note => \E k \in DOMAIN chain : k < l /\ chain[k].id = Reply,
                      NEW l \in DOMAIN chain', chain'[l].id = Note
               PROVE  \E k \in DOMAIN chain' : k < l /\ chain'[k].id = Reply
    BY <1>1, <1>5, <1>6 DEF NoteInv
  <2>1. l + 1 \in DOMAIN chain /\ chain[l + 1].id = Note
    BY <1>4
  <2>2. PICK k \in DOMAIN chain : k < l + 1 /\ chain[k].id = Reply
    BY <2>1
  <2>3. k # 1
    BY <1>2, <2>2
  <2> QED
    BY <1>3, <1>4, <2>2, <2>3
<1> QED
  BY <1>7, <1>8, <1>9

\* A new reply starts when everything about the one before is settled.
LEMMA ReplyStartsKeepsWhole ==
  ASSUME TypeInv, FaultInv, AgreeInv, TalkInv, WholeInv, ReplyStarts
  PROVE  WholeInv'
<1> SUFFICES ASSUME "host" \notin faults
             PROVE  (ChainInv /\ RowInv /\ CopyInv /\ StreamInv /\ EndInv /\ NoteInv /\ InOrder)'
  BY DEF WholeInv, ReplyStarts
<1> USE DEF WholeInv, sidecarVars, clientVars
<1>1. /\ run = "running" /\ ~streaming /\ streaming' = TRUE /\ chain = <<>> /\ save = None
      /\ current < Len(Replies) /\ current' = current + 1
      /\ UNCHANGED <<store, run, text, noted, reserved, live, save, chain, head>>
  BY DEF ReplyStarts, Quiet
<1>2. DOMAIN chain = {}
  BY <1>1
<1>3. current \in Nat /\ current' \in 1 .. Len(Replies)
  BY <1>1, ReplyAt DEF TypeInv, RunType
<1>4. Reply' \in ToSet(Replies) /\ Started(Reply') = current' /\ Reply' # Note
  BY <1>3, ReplyAt, TranscriptStoreAssumption DEF Reply
<1>5. text[Reply'] = 0
  BY <1>1, <1>3, <1>4 DEF TalkInv
<1>6. \A i \in DOMAIN store.owed : FALSE
  <2> SUFFICES ASSUME NEW i \in DOMAIN store.owed PROVE FALSE
    OBVIOUS
  <2>1. store.owed[i] \in Owings
    BY ElementOfSeq, LenProperties DEF TypeInv, StoreType, Stores
  <2>2. store.owed[i].request \in {"append", "save"}
    BY <2>1 DEF Owings
  <2> QED
    BY <1>1, <2>2 DEF TypeInv, StoreType, ChainType
<1>7. current > 0 => Kept(store, Reply) \/ (text[Reply] = 0 /\ ~OnFile(store, Reply))
  BY <1>1, <1>2 DEF EndInv
<1>8. \A id : Late(id) => OnFile(store, id)
  BY <1>7 DEF Late, Kept
<1>9. ASSUME NEW i \in DOMAIN store.rows
      PROVE  Final(store.rows[i]) /\ (store.rows[i].id # Note => Settled(store, store.rows[i].id))
  <2> DEFINE id == store.rows[i].id
  <2>1. id \in Ids /\ OnFile(store, id)
    BY RowsHaveIds, FileAt DEF TypeInv, StoreType
  <2>2. Agree(store)
    BY <1>1 DEF FaultInv, AgreeInv, TypeInv, EndType, Kinds
  <2>3. CASE current > 0 /\ id = Reply
    <3>1. Kept(store, id)
      BY <1>7, <2>1, <2>3
    <3> QED
      BY <2>1, <2>2, <3>1, FileAt DEF Agree, Kept
  <2>4. CASE ~(current > 0 /\ id = Reply)
    BY <2>4 DEF RowInv, Final
  <2> QED
    BY <2>3, <2>4
<1>10. \A i \in DOMAIN store.rows : store.rows[i].id # Reply'
  BY <1>1, <1>3, <1>4 DEF RowInv
<1>11. ChainInv' /\ EndInv' /\ StreamInv'
  BY <1>1, <1>2, <1>10 DEF ChainInv, EndInv, StreamInv
<1>12. RowInv'
  <2>1. \A i \in DOMAIN store.rows :
          store.rows[i].id # Note => Started(store.rows[i].id) \in Nat
    <3> SUFFICES ASSUME NEW i \in DOMAIN store.rows, store.rows[i].id # Note
                 PROVE  Started(store.rows[i].id) \in Nat
      OBVIOUS
    <3>1. store.rows[i] \in Messages
      BY ElementOfSeq, LenProperties DEF TypeInv, StoreType, Stores
    <3> QED
      BY <3>1, ReplyAt DEF Messages, Ids
  <2> QED
    BY <1>1, <1>3, <1>9, <2>1 DEF RowInv, Final
<1>13. CopyInv'
  <2>1. \A id : OnFile(store, id) => Late(id)'
    BY <1>1 DEF Late
  <2>2. (store.checkpoint # None => Late(store.checkpoint.id))' /\ (live # None => Late(live.id))'
    BY <1>1, <1>8, <2>1 DEF CopyInv
  <2> QED
    BY <1>1, <1>6, <2>2 DEF CopyInv
<1>14. NoteInv'
  <2>1. noted = None => current' # None
    BY <1>3, TurnTranscriptAssumption
  <2>2. noted # None => noted \in Nat /\ noted <= current
    BY ReplyAt DEF TypeInv, RunType, TalkInv
  <2> QED
    BY <1>1, <1>3, <2>1, <2>2 DEF NoteInv
<1>15. InOrder'
  BY <1>1 DEF InOrder, SaidBefore
<1> QED
  BY <1>11, <1>12, <1>13, <1>14, <1>15

\* The last reply goes on.
LEMMA StreamsTextKeepsWhole ==
  ASSUME TypeInv, TalkInv, WholeInv, StreamsText
  PROVE  WholeInv'
<1> SUFFICES ASSUME "host" \notin faults
             PROVE  (ChainInv /\ RowInv /\ CopyInv /\ StreamInv /\ EndInv /\ NoteInv /\ InOrder)'
  BY DEF WholeInv, StreamsText
<1> USE DEF WholeInv
<1>1. /\ streaming /\ text' = [text EXCEPT ![Reply] = @ + 1]
      /\ live' = Observed(Message(Reply, text[Reply] + 1, "streaming"))
      /\ UNCHANGED <<store, run, current, streaming, noted, reserved, save, chain>>
  BY DEF StreamsText
<1>2. /\ Reply \in ToSet(Replies) /\ text[Reply] \in Nat /\ current > 0
      /\ text \in [ToSet(Replies) -> Texts]
  BY <1>1, SaidIsMessage, TurnTranscriptAssumption DEF TypeInv, RunType, Texts
<1>3. Reply' = Reply /\ text'[Reply] = text[Reply] + 1
  BY <1>1, <1>2 DEF Reply
<1>4. live'.id = Reply
  BY <1>1, <1>2 DEF Observed, Message
<1>5. (Unfiled' <=> Unfiled) /\ Late(Reply)' /\ \A id : Late(id) => Late(id)'
  BY <1>1, <1>2, <1>3 DEF Unfiled, Late
<1>6. CopyInv'
  BY <1>1, <1>3, <1>4, <1>5 DEF CopyInv
<1>7. ChainInv' /\ RowInv' /\ StreamInv' /\ InOrder'
  BY <1>1, <1>3 DEF ChainInv, RowInv, StreamInv, InOrder, SaidBefore
<1>8. EndInv' /\ NoteInv'
  BY <1>1, <1>3 DEF EndInv, NoteInv
<1> QED
  BY <1>6, <1>7, <1>8

\* A note is said.
LEMMA NotesKeepsWhole ==
  ASSUME TypeInv, TalkInv, WholeInv, Notes
  PROVE  WholeInv'
<1> SUFFICES ASSUME "host" \notin faults
             PROVE  (ChainInv /\ RowInv /\ CopyInv /\ StreamInv /\ EndInv /\ NoteInv /\ InOrder)'
  BY DEF WholeInv, Notes
<1> USE DEF WholeInv
<1>1. /\ run = "running" /\ current > 0 /\ noted = None /\ noted' = current
      /\ UNCHANGED <<store, run, current, streaming, text, live, save, head>>
  BY DEF Notes
<1>2. /\ Reply \in ToSet(Replies) /\ Reply # Note
      /\ Said("streaming").id = Reply /\ ~Final(Said("streaming"))
  BY <1>1, SaidIsMessage DEF Final
<1>3. ~OnFile(store, Note) /\ ~Queued(Note)
  BY <1>1 DEF TalkInv
<1>4. Reply' = Reply /\ (Unfiled' <=> Unfiled) /\ \A id : Late(id)' <=> Late(id)
  BY <1>1 DEF Reply, Unfiled, Late
<1>5. RowInv' /\ CopyInv'
  BY <1>1, <1>4 DEF RowInv, CopyInv
<1>6. InOrder'
  <2>1. \A i \in DOMAIN store.rows : store.rows[i].id # Note
    BY <1>3, FileAt
  <2> QED
    BY <1>1, <2>1 DEF InOrder, SaidBefore
\* What waits now: what waited, the place of a reply that streams, and the note, last.
<1>7. /\ Len(chain') \in Nat /\ DOMAIN chain' = 1 .. Len(chain') /\ Len(chain') > 0
      /\ chain'[Len(chain')].id = Note /\ reserved \subseteq reserved'
      /\ \A k \in DOMAIN chain : k \in DOMAIN chain' /\ k < Len(chain') /\ chain'[k] = chain[k]
      /\ \A k \in DOMAIN chain' \ DOMAIN chain :
           k = Len(chain') \/ (streaming /\ chain'[k] = Said("streaming"))
      /\ streaming => /\ Reply \in reserved'
                      /\ \E k \in DOMAIN chain' : k < Len(chain') /\ chain'[k].id = Reply
  <2> DEFINE note == Message(Note, 0, "complete")
             said == Said("streaming")
  <2>1. /\ note.id = Note
        /\ streaming => /\ reserved' = reserved \cup {Reply}
                        /\ \E q \in Seq(Messages) :
                             Joined(chain, said, q) /\ Joined(q, note, chain')
        /\ ~streaming => reserved' = reserved /\ Joined(chain, note, chain')
    BY NotesJoin
  <2> HIDE DEF note, said
  <2>2. said.id = Reply
    BY <1>2 DEF said
  <2>3. CASE streaming
    <3>1. PICK q \in Seq(Messages) : Joined(chain, said, q) /\ Joined(q, note, chain')
      BY <2>1, <2>3
    <3>2. /\ Len(chain) \in Nat /\ Len(q) = Len(chain) + 1 /\ Len(chain') = Len(chain) + 2
          /\ DOMAIN chain = 1 .. Len(chain) /\ DOMAIN chain' = 1 .. Len(chain) + 2
          /\ chain'[Len(chain) + 2] = note /\ chain'[Len(chain) + 1] = said
          /\ \A k \in 1 .. Len(chain) : chain'[k] = chain[k]
      BY <3>1 DEF Joined
    <3> QED
      BY <2>1, <2>2, <2>3, <3>2 DEF said
  <2>4. CASE ~streaming
    <3>1. /\ Len(chain) \in Nat /\ Len(chain') = Len(chain) + 1
          /\ DOMAIN chain = 1 .. Len(chain) /\ DOMAIN chain' = 1 .. Len(chain) + 1
          /\ chain'[Len(chain) + 1] = note
          /\ \A k \in 1 .. Len(chain) : chain'[k] = chain[k]
      BY <2>1, <2>4 DEF Joined
    <3> QED
      BY <2>1, <2>4, <3>1
  <2> QED
    BY <2>3, <2>4 DEF TypeInv, RunType
<1>8. ChainInv'
  BY <1>1, <1>2, <1>3, <1>4, <1>7 DEF ChainInv, Queued
<1>9. StreamInv'
  BY <1>1, <1>2, <1>4, <1>7 DEF StreamInv
<1>10. ~streaming => \A k \in DOMAIN chain' : chain'[k].id = Reply => k \in DOMAIN chain
  BY <1>2, <1>7
<1>11. EndInv'
  BY <1>1, <1>4, <1>7, <1>10 DEF EndInv, Queued
<1>12. \A l \in DOMAIN chain' : chain'[l].id = Note => l = Len(chain')
  BY <1>2, <1>3, <1>7 DEF Queued
<1>13. NoteInv'
  <2>1. CASE streaming
    BY <1>1, <1>3, <1>4, <1>7, <1>12, <2>1 DEF NoteInv
  <2>2. CASE ~streaming
    <3>1. CASE Kept(store, Reply)
      BY <1>1, <1>4, <3>1 DEF NoteInv, Kept
    <3>2. ASSUME NEW k \in DOMAIN chain, chain[k].id = Reply
          PROVE  NoteInv'
      BY <1>1, <1>3, <1>4, <1>7, <1>12, <3>2 DEF NoteInv
    <3>3. CASE text[Reply] = 0 /\ ~Queued(Reply)
      BY <1>1, <1>4, <1>7, <1>10, <2>2, <3>3 DEF NoteInv, Queued
    <3> QED
      BY <1>1, <2>2, <3>1, <3>2, <3>3 DEF EndInv
  <2> QED
    BY <2>1, <2>2
<1> QED
  BY <1>5, <1>6, <1>8, <1>9, <1>11, <1>13

\* The last reply ends.
LEMMA ReplyEndsKeepsWhole ==
  ASSUME TypeInv, TalkInv, WholeInv, NEW status \in {"complete", "aborted"}, ReplyEnds(status)
  PROVE  WholeInv'
<1> SUFFICES ASSUME "host" \notin faults
             PROVE  (ChainInv /\ RowInv /\ CopyInv /\ StreamInv /\ EndInv /\ NoteInv /\ InOrder)'
  BY DEF WholeInv, ReplyEnds
<1> USE DEF WholeInv
<1> DEFINE said == Said(status)
<1>1. /\ streaming /\ streaming' = FALSE /\ live' = Observed(said)
      /\ chain' = IF Worthless(status) THEN chain ELSE Append(chain, said)
      /\ UNCHANGED <<store, run, current, text, noted, save, head>>
  BY DEF ReplyEnds
<1>2. /\ Reply \in ToSet(Replies) /\ Reply # Note /\ current > 0 /\ text[Reply] \in Nat
      /\ said \in Messages /\ said.id = Reply /\ Final(said) /\ said.text = text[Reply]
  BY <1>1, SaidIsMessage, TurnTranscriptAssumption DEF TypeInv, RunType, Snapshots, Final, Texts
<1> HIDE DEF said
<1>3. Reply' = Reply /\ (Unfiled' <=> Unfiled) /\ \A id : Late(id)' <=> Late(id)
  BY <1>1 DEF Reply, Unfiled, Late
<1>4. live' # None => live' = live \/ (live'.id = Reply /\ text[Reply] > 0)
  BY <1>1, <1>2 DEF Observed
<1>5. RowInv' /\ CopyInv' /\ StreamInv' /\ InOrder'
  <2>1. live' # None => Late(live'.id)
    BY <1>2, <1>4 DEF CopyInv, Late
  <2> QED
    BY <1>1, <1>3, <2>1 DEF RowInv, CopyInv, StreamInv, InOrder, SaidBefore
<1>6. CASE Worthless(status)
  <2>1. chain' = chain /\ text[Reply] = 0 /\ Reply \notin reserved
    BY <1>1, <1>6 DEF Worthless
  <2>2. ~OnFile(store, Reply) /\ ~Queued(Reply)
    BY <1>1, <2>1, FileAt DEF StreamInv, Queued
  <2> QED
    BY <1>1, <1>3, <1>5, <2>1, <2>2 DEF ChainInv, EndInv, NoteInv, Queued
<1>7. CASE ~Worthless(status)
  <2>1. Joined(chain, said, chain')
    BY <1>1, <1>2, <1>7, AppendJoins DEF TypeInv, ChainType
  <2>2. /\ \A k \in DOMAIN chain : k \in DOMAIN chain' /\ chain'[k] = chain[k]
        /\ \A k \in DOMAIN chain' : k \in DOMAIN chain \/ chain'[k] = said
        /\ \E k \in DOMAIN chain' : chain'[k] = said
    BY <2>1 DEF Joined
  <2>3. ChainInv' /\ EndInv'
    BY <1>1, <1>2, <1>3, <2>2 DEF ChainInv, EndInv
  <2>4. NoteInv'
    BY <1>1, <1>2, <1>3, <2>2 DEF NoteInv
  <2> QED
    BY <1>5, <2>3, <2>4
<1> QED
  BY <1>6, <1>7

\* Who stands before whom, by the kinds of the two rows.
LEMMA SaidBeforeIs ==
  ASSUME NEW a, NEW b, a # b
  PROVE  /\ a = Note => (SaidBefore(a, b) <=> Started(b) > noted)
         /\ b = Note => (SaidBefore(a, b) <=> Started(a) <= noted)
         /\ a # Note /\ b # Note => (SaidBefore(a, b) <=> Started(a) < Started(b))
<1>1. CASE a = Note
  BY <1>1 DEF SaidBefore
<1>2. CASE a # Note /\ b = Note
  BY <1>2 DEF SaidBefore
<1>3. CASE a # Note /\ b # Note
  BY <1>3 DEF SaidBefore
<1> QED
  BY <1>1, <1>2, <1>3

\* A row that is filed stays in order when the rows before it were said before it.
LEMMA FilesInOrder ==
  ASSUME NEW m, Files(store, store', m), noted' = noted, InOrder,
         \A i \in DOMAIN store.rows :
           ~OnFile(store, m.id) => SaidBefore(store.rows[i].id, m.id),
         Len(store.rows) \in Nat, DOMAIN store.rows = 1 .. Len(store.rows)
  PROVE  InOrder'
<1>1. /\ DOMAIN store.rows \subseteq DOMAIN store'.rows
      /\ \A i \in DOMAIN store.rows : store'.rows[i].id = store.rows[i].id
      /\ \A i \in DOMAIN store'.rows \ DOMAIN store.rows :
           store'.rows[i].id = m.id /\ ~OnFile(store, m.id) /\ i = Len(store.rows) + 1
  BY DEF Files, Grown
<1>2. \A a, b : SaidBefore(a, b)' <=> SaidBefore(a, b)
  BY DEF SaidBefore
<1> SUFFICES ASSUME NEW i \in DOMAIN store'.rows, NEW j \in DOMAIN store'.rows, i < j
             PROVE  SaidBefore(store'.rows[i].id, store'.rows[j].id)
  BY <1>2 DEF InOrder
<1>3. i \in DOMAIN store.rows
  BY <1>1
<1> QED
  BY <1>1, <1>3 DEF InOrder

\* The reply that started last is before the note only if the note is said after it.
LEMMA LastInOrder ==
  ASSUME TypeInv, TalkInv, RowInv, NoteInv, current > 0, ~OnFile(store, Reply),
         streaming \/ text[Reply] > 0 \/ Queued(Reply),
         NEW i \in DOMAIN store.rows
  PROVE  SaidBefore(store.rows[i].id, Reply)
<1> DEFINE id == store.rows[i].id
<1>1. Reply \in ToSet(Replies) /\ Started(Reply) = current /\ Reply # Note
  BY SaidIsMessage
<1>2. store.rows[i] \in Messages
  BY ElementOfSeq, LenProperties DEF TypeInv, StoreType, Stores
<1>3. OnFile(store, id) /\ id # Reply /\ id \in ToSet(Replies) \cup {Note}
  BY <1>2, FileAt DEF Messages, Ids
<1>4. CASE id = Note
  <2>1. noted # None /\ noted # current
    BY <1>3, <1>4 DEF TalkInv, NoteInv
  <2>2. noted \in Nat /\ noted <= current /\ current \in Nat
    BY <2>1, ReplyAt DEF TypeInv, RunType, TalkInv
  <2>3. Started(Reply) > noted
    BY <1>1, <2>1, <2>2
  <2> QED
    BY <1>3, <1>4, <2>3, SaidBeforeIs
<1>5. CASE id # Note
  <2>1. /\ Started(id) \in Nat /\ Started(id) <= current /\ current \in Nat
        /\ Replies[Started(id)] = id
    BY <1>3, <1>5, ReplyAt DEF RowInv, TypeInv, RunType
  <2>2. Started(id) # current
    BY <1>3, <2>1 DEF Reply
  <2>3. Started(id) < Started(Reply)
    BY <1>1, <2>1, <2>2
  <2> QED
    BY <1>1, <1>3, <1>5, <2>3, SaidBeforeIs
<1> QED
  BY <1>4, <1>5

\* The note comes behind every reply that started.
LEMMA NoteInOrder ==
  ASSUME TypeInv, RowInv, noted = current, ~OnFile(store, Note), NEW i \in DOMAIN store.rows
  PROVE  SaidBefore(store.rows[i].id, Note)
<1>1. store.rows[i].id # Note
  BY FileAt
<1> QED
  BY <1>1, SaidBeforeIs DEF RowInv

\* An append files what waits first.
LEMMA ServesAppendKeepsWhole ==
  ASSUME TypeInv, FaultInv, AgreeInv, TalkInv, WholeInv, ServesAppend
  PROVE  WholeInv'
<1> DEFINE m == Head(chain)
<1> SUFFICES ASSUME "host" \notin faults
             PROVE  (ChainInv /\ RowInv /\ CopyInv /\ StreamInv /\ EndInv /\ NoteInv /\ InOrder)'
  BY DEF WholeInv, ServesAppend
<1> USE DEF WholeInv, sidecarVars
<1>1. /\ head = "asked" /\ HostSteps
      /\ UNCHANGED <<run, current, streaming, text, noted, reserved, live, save, chain>>
  BY DEF ServesAppend, HostSteps
<1>2. m \in Messages /\ store' \in Stores /\ Appended(store, store', m)
  BY <1>1, HeadIsFirst, AppendMessageAppends DEF ServesAppend, TypeInv, StoreType
<1>3. /\ 1 \in DOMAIN chain /\ m = chain[1] /\ (m.id = Note => Final(m))
      /\ Len(chain) \in Nat /\ DOMAIN chain = 1 .. Len(chain)
  BY <1>1, HeadIsFirst
<1> HIDE DEF m
<1>4. current > 0 /\ (m.id = Reply \/ (m.id = Note /\ noted = current))
  BY <1>3 DEF ChainInv
<1>5. Reply \in ToSet(Replies) /\ Started(Reply) = current /\ Reply # Note /\ Reply' = Reply
  BY <1>1, <1>4, SaidIsMessage DEF Reply
<1>6. Sound(store) /\ Len(store.rows) \in Nat /\ DOMAIN store.rows = 1 .. Len(store.rows)
  BY LenProperties DEF TypeInv, StoreType, Stores, Sound
<1>7. /\ OnFile(store', m.id) /\ (Final(m) => Kept(store', m.id))
      /\ \A id : id # m.id => (OnFile(store', id) <=> OnFile(store, id))
      /\ \A id : OnFile(store, id) => OnFile(store', id)
      /\ \A id \in Ids : Settled(store, id) => Settled(store', id)
      /\ \A id \in Ids : Kept(store, id) => Kept(store', id)
  <2>1. Agree(store)
    BY <1>1, <1>3 DEF FaultInv, AgreeInv, TypeInv, EndType, Kinds
  <2>2. /\ OnFile(store', m.id) /\ (Final(m) => Kept(store', m.id))
        /\ \A id : id # m.id => /\ OnFile(store', id) <=> OnFile(store, id)
                                /\ Kept(store', id) <=> Kept(store, id)
    BY <1>2, <1>6, AppendedIndex
  <2>3. ~Final(m) => store' = store \/ ~Settled(store, m.id)
    BY <1>2 DEF Appended, Lands, Files
  <2>4. \A id \in Ids : Kept(store, id) => Kept(store', id)
    BY <2>1, <2>2, <2>3 DEF Agree
  <2> QED
    BY <1>1, <2>2, <2>4, StoreGrows DEF Next
<1>8. \A i \in DOMAIN store'.rows :
        \/ store'.rows[i] = m
        \/ i \in DOMAIN store.rows /\ store'.rows[i] = store.rows[i]
  BY <1>2 DEF Appended, Lands, Files, Grown
<1>9. \A id : Late(id) => Late(id)'
  BY <1>1, <1>5, <1>7 DEF Late
<1>10. ChainInv'
  BY <1>1, <1>5 DEF ChainInv
<1>11. RowInv'
  <2>1. \A i \in DOMAIN store.rows : store.rows[i].id \in Ids
    BY <1>6, RowsHaveIds DEF Sound
  <2> QED
    BY <1>1, <1>3, <1>4, <1>5, <1>7, <1>8, <2>1, ReplyAt DEF RowInv, Final, TypeInv, RunType
<1>12. CopyInv'
  <2>1. store'.checkpoint # None => store'.checkpoint = store.checkpoint
    BY <1>2 DEF Appended, KeepsCheckpoint
  <2>2. \A i \in DOMAIN store'.owed :
          \/ i \in DOMAIN store.owed /\ store'.owed[i] = store.owed[i]
          \/ store'.owed[i].message = m /\ ~Final(m)
    <3>1. CASE store'.owed = store.owed
      BY <3>1
    <3>2. CASE ~Final(m) /\ store'.owed = Append(store.owed, [request |-> "append", message |-> m])
      <4>1. store.owed \in Seq(Owings)
        BY DEF TypeInv, StoreType, Stores
      <4>2. [request |-> "append", message |-> m] \in Owings
        BY <1>2, <1>3, <3>2 DEF Owings, Snapshots
      <4> DEFINE owing == [request |-> "append", message |-> m]
      <4>3. owing.message = m
        OBVIOUS
      <4> HIDE DEF owing
      <4>4. /\ Len(store'.owed) = Len(store.owed) + 1 /\ store'.owed \in Seq(Owings)
            /\ \A i \in 1 .. Len(store.owed) : store'.owed[i] = store.owed[i]
            /\ store'.owed[Len(store.owed) + 1] = owing
        BY <3>2, <4>1, <4>2, AppendProperties DEF owing
      <4>5. /\ Len(store.owed) \in Nat /\ DOMAIN store.owed = 1 .. Len(store.owed)
            /\ DOMAIN store'.owed = 1 .. Len(store.owed) + 1
        BY <4>1, <4>4, LenProperties
      <4> QED
        BY <3>2, <4>3, <4>4, <4>5
    <3> QED
      BY <1>2, <3>1, <3>2 DEF Appended
  <2>3. ~Final(m) => m.id = Reply /\ OnFile(store', Reply)
    BY <1>3, <1>4, <1>7
  <2>4. Unfiled' => Unfiled
    BY <1>7, <2>1, <2>2, <2>3 DEF Unfiled
  <2>5. (store.checkpoint # None => Late(store.checkpoint.id))'
    BY <1>9, <2>1 DEF CopyInv
  <2>6. (save # None => Late(save.message.id))' /\ (live # None => Late(live.id))'
    BY <1>1, <1>9 DEF CopyInv
  <2>7. \A i \in DOMAIN store'.owed : store'.owed[i].message.id = Reply /\ Late(Reply)'
    BY <1>1, <1>5, <1>9, <2>2, <2>3 DEF CopyInv, Late
  <2> QED
    BY <1>1, <1>5, <2>4, <2>5, <2>6, <2>7 DEF CopyInv
<1>13. StreamInv'
  BY <1>1, <1>3, <1>5, <1>8 DEF StreamInv
<1>14. EndInv'
  BY <1>1, <1>3, <1>5, <1>7 DEF EndInv, Queued, Ids
<1>15. NoteInv'
  BY <1>1, <1>3, <1>5, <1>7 DEF NoteInv, Queued
<1>16. InOrder'
  <2>1. CASE store' = store
    BY <1>1, <2>1 DEF InOrder, SaidBefore
  <2>2. CASE Files(store, store', m)
    <3>1. ASSUME NEW i \in DOMAIN store.rows, ~OnFile(store, m.id)
          PROVE  SaidBefore(store.rows[i].id, m.id)
      <4>1. CASE m.id = Reply
        BY <1>3, <1>4, <3>1, <4>1, LastInOrder DEF Queued
      <4>2. CASE m.id = Note /\ noted = current
        BY <3>1, <4>2, NoteInOrder
      <4> QED
        BY <1>4, <4>1, <4>2
    <3> QED
      BY <1>1, <1>6, <2>2, <3>1, FilesInOrder
  <2> QED
    BY <1>2, <2>1, <2>2 DEF Appended, Lands
<1> QED
  BY <1>10, <1>11, <1>12, <1>13, <1>14, <1>15, <1>16

\* One write more is owed.
LEMMA OwedJoins ==
  ASSUME NEW owed \in Seq(Owings), NEW owing \in Owings
  PROVE  \A i \in DOMAIN Append(owed, owing) :
           \/ i \in DOMAIN owed /\ Append(owed, owing)[i] = owed[i]
           \/ Append(owed, owing)[i] = owing
<1> DEFINE next == Append(owed, owing)
<1>1. /\ next \in Seq(Owings) /\ Len(next) = Len(owed) + 1
      /\ \A i \in 1 .. Len(owed) : next[i] = owed[i]
      /\ next[Len(owed) + 1] = owing
  BY AppendProperties
<1> HIDE DEF next
<1>2. Len(owed) \in Nat /\ DOMAIN owed = 1 .. Len(owed) /\ DOMAIN next = 1 .. Len(owed) + 1
  BY <1>1, LenProperties
<1>3. \A i \in DOMAIN next : (i \in DOMAIN owed /\ next[i] = owed[i]) \/ next[i] = owing
  BY <1>1, <1>2
<1> QED
  BY <1>3 DEF next

\* A reply that is not settled, but has a row or a copy, is the last one.
LEMMA LateIsLast ==
  ASSUME TypeInv, RowInv, NEW id, id # Note, Late(id), ~Settled(store, id)
  PROVE  id = Reply /\ current > 0 /\ (~OnFile(store, id) => text[Reply] > 0)
<1>1. CASE OnFile(store, id)
  <2>1. PICK i \in DOMAIN store.rows : store.rows[i].id = id
    BY <1>1, FileAt
  <2> QED
    BY <1>1, <2>1 DEF RowInv
<1>2. CASE ~OnFile(store, id)
  BY <1>2 DEF Late
<1> QED
  BY <1>1, <1>2

\* A checkpoint arrives.
LEMMA ServesSaveKeepsWhole ==
  ASSUME TypeInv, TalkInv, WholeInv, ServesSave
  PROVE  WholeInv'
<1> SUFFICES ASSUME "host" \notin faults
             PROVE  (ChainInv /\ RowInv /\ CopyInv /\ StreamInv /\ EndInv /\ NoteInv /\ InOrder)'
  BY DEF WholeInv, ServesSave
<1> DEFINE m == save.message
           owing == [request |-> "save", message |-> m]
<1> USE DEF WholeInv, sidecarVars
<1>1. /\ save # None /\ store' = SaveInflight(store, m)
      /\ save' = [save EXCEPT !.stage = "served"]
      /\ UNCHANGED <<run, current, streaming, text, noted, reserved, live, chain>>
  BY DEF ServesSave
<1>2. m \in Snapshots /\ save' # None /\ save'.message = m
  <2>1. save \in [stage : {"asked", "served"}, message : Snapshots]
    BY <1>1 DEF TypeInv, CheckpointerType
  <2>2. m \in Snapshots /\ save'.message = m /\ save' \in Saves
    BY <1>1, <2>1 DEF Saves, Snapshots
  <2> QED
    BY <2>2, TurnTranscriptAssumption
<1> HIDE DEF m
<1>3. /\ Same(store, store')
      /\ store'.checkpoint # None => store'.checkpoint = store.checkpoint
      /\ \/ store'.owed = store.owed
         \/ ~Settled(store, m.id) /\ store'.owed = Append(store.owed, owing)
  BY <1>1, <1>2, SaveInflightSaves DEF TypeInv, StoreType
<1>4. /\ \A id : (OnFile(store', id) <=> OnFile(store, id)) /\ (Kept(store', id) <=> Kept(store, id))
      /\ \A id : Settled(store', id) <=> Settled(store, id)
      /\ store'.rows = store.rows
      /\ Reply' = Reply /\ (\A id : Late(id) <=> Late(id)')
  BY <1>1, <1>3, SameAnswers DEF Reply, Late, Same
<1>5. \A i \in DOMAIN store'.owed :
        \/ i \in DOMAIN store.owed /\ store'.owed[i] = store.owed[i]
        \/ store'.owed[i].message = m /\ ~Settled(store, m.id)
  <2>1. CASE store'.owed = store.owed
    BY <2>1
  <2>2. CASE ~Settled(store, m.id) /\ store'.owed = Append(store.owed, owing)
    <3>1. store.owed \in Seq(Owings) /\ owing \in Owings /\ owing.message = m
      BY <1>2 DEF TypeInv, StoreType, Stores, Owings
    <3> HIDE DEF owing
    <3> QED
      BY <2>2, <3>1, OwedJoins
  <2> QED
    BY <1>3, <2>1, <2>2
<1>6. Late(m.id) /\ (~Settled(store, m.id) => m.id = Reply)
  BY <1>1, <1>2, LateIsLast DEF CopyInv, Snapshots, m
<1>7. Unfiled' => m.id = Reply
  <2>1. ASSUME Unfiled' PROVE Unfiled \/ ~Settled(store, m.id)
    BY <1>3, <1>4, <1>5, <2>1 DEF Unfiled
  <2> QED
    BY <1>1, <1>6, <2>1 DEF CopyInv, m
<1>8. CopyInv'
  <2>1. (store.checkpoint # None => Late(store.checkpoint.id))' /\ (live # None => Late(live.id))'
    BY <1>1, <1>3, <1>4 DEF CopyInv
  <2>2. (save # None => Late(save.message.id))'
    BY <1>2, <1>4, <1>6
  <2>3. \A i \in DOMAIN store'.owed : store'.owed[i].message.id = Reply /\ Late(Reply)
    BY <1>5, <1>6 DEF CopyInv
  <2> QED
    BY <1>2, <1>4, <1>7, <2>1, <2>2, <2>3 DEF CopyInv
<1> QED
  BY <1>1, <1>3, <1>4, <1>8
     DEF ChainInv, RowInv, StreamInv, EndInv, NoteInv, InOrder, SaidBefore, Queued

\* A deferred write.
LEMMA WritesKeepsWhole ==
  ASSUME TypeInv, TalkInv, WholeInv, NEW i \in DOMAIN store.owed, Writes(i)
  PROVE  WholeInv'
<1> SUFFICES ASSUME "host" \notin faults
             PROVE  (ChainInv /\ RowInv /\ CopyInv /\ StreamInv /\ EndInv /\ NoteInv /\ InOrder)'
  BY DEF WholeInv, Writes
<1> USE DEF WholeInv, sidecarVars, clientVars
<1>1. /\ store' = WriteCheckpoint(store, i)
      /\ UNCHANGED <<run, current, streaming, text, noted, reserved, live, save, chain>>
  BY DEF Writes
<1>2. /\ Same(store, store') /\ store'.checkpoint = store.owed[i].message
      /\ DOMAIN store'.owed = 1 .. Len(store.owed) - i
      /\ \A k \in 1 .. Len(store.owed) - i : store'.owed[k] = store.owed[i + k]
  BY <1>1, WriteCheckpointWrites DEF TypeInv, StoreType
<1>3. Len(store.owed) \in Nat /\ DOMAIN store.owed = 1 .. Len(store.owed)
  BY LenProperties DEF TypeInv, StoreType, Stores
<1>4. \A k \in DOMAIN store'.owed :
        i + k \in DOMAIN store.owed /\ store'.owed[k] = store.owed[i + k]
  <2>1. \A k \in DOMAIN store'.owed : i + k \in DOMAIN store.owed
    BY <1>2, <1>3
  <2>2. \A k \in DOMAIN store'.owed : store'.owed[k] = store.owed[i + k]
    BY <1>2
  <2> QED
    BY <2>1, <2>2
<1>5. /\ \A id : (OnFile(store', id) <=> OnFile(store, id)) /\ (Kept(store', id) <=> Kept(store, id))
      /\ \A id : Settled(store', id) <=> Settled(store, id)
      /\ store'.rows = store.rows
      /\ Reply' = Reply /\ (\A id : Late(id) <=> Late(id)')
  BY <1>1, <1>2, SameAnswers DEF Reply, Late, Same
<1>6. Unfiled' => Unfiled
  BY <1>2, <1>4, <1>5 DEF Unfiled
<1>7. CopyInv'
  <2>1. store.owed[i].message.id = Reply /\ Late(Reply)
    BY DEF CopyInv
  <2>2. (store.checkpoint # None => Late(store.checkpoint.id))'
    BY <1>2, <1>5, <2>1
  <2>3. (save # None => Late(save.message.id))' /\ (live # None => Late(live.id))'
    BY <1>1, <1>5 DEF CopyInv
  <2>4. \A k \in DOMAIN store'.owed : store'.owed[k].message.id = Reply /\ Late(Reply)
    BY <1>4 DEF CopyInv
  <2> QED
    BY <1>1, <1>5, <1>6, <2>2, <2>3, <2>4 DEF CopyInv
<1> QED
  BY <1>1, <1>2, <1>5, <1>7
     DEF ChainInv, RowInv, StreamInv, EndInv, NoteInv, InOrder, SaidBefore, Queued

\* A recovery: as host-core lives, the run is dead if it files a row.
LEMMA RecoversKeepsWhole ==
  ASSUME TypeInv, FaultInv, TalkInv, WholeInv, ServesEndTurn \/ Greets \/ HostStarts
  PROVE  WholeInv'
<1> SUFFICES ASSUME "host" \notin faults
             PROVE  (ChainInv /\ RowInv /\ CopyInv /\ StreamInv /\ EndInv /\ NoteInv /\ InOrder)'
  BY DEF WholeInv, ServesEndTurn, Greets, HostStarts
<1> USE DEF WholeInv, sidecarVars, clientVars
<1>1. UNCHANGED <<run, current, streaming, text, noted, reserved, live, save, chain>>
  BY DEF ServesEndTurn, Greets, HostStarts
<1>2. /\ Recovered(store, store') /\ (store'.owed = store.owed \/ store'.owed = <<>>)
      /\ ~(Greets \/ HostStarts) /\ ~finish.recover => Same(store, store')
  <2>1. Sound(store)
    BY DEF TypeInv, StoreType, Sound
  <2>2. CASE ServesEndTurn
    <3>1. finish.status \in {"completed", "aborted"} /\ finish.recover \in BOOLEAN
      BY <2>2 DEF ServesEndTurn, TypeInv, EndType
    <3> QED
      BY <2>1, <2>2, <3>1, EndTurnRecovers DEF ServesEndTurn
  <2>3. CASE Greets
    BY <2>1, <2>3, RecoverRecovers DEF Greets
  <2>4. CASE HostStarts
    BY <2>1, <2>4, BootRecovers DEF HostStarts
  <2> QED
    BY <2>2, <2>3, <2>4
<1>3. Reply' = Reply
  BY <1>1 DEF Reply
<1>4. \A i \in DOMAIN store'.owed : i \in DOMAIN store.owed /\ store'.owed[i] = store.owed[i]
  BY <1>2
<1>5. Sound(store) /\ Len(store.rows) \in Nat /\ DOMAIN store.rows = 1 .. Len(store.rows)
  BY LenProperties DEF TypeInv, StoreType, Stores, Sound
<1>6. CASE Same(store, store') /\ KeepsCheckpoint(store, store')
  <2>1. /\ \A id : (OnFile(store', id) <=> OnFile(store, id)) /\ (Kept(store', id) <=> Kept(store, id))
        /\ \A id : Settled(store', id) <=> Settled(store, id)
        /\ store'.rows = store.rows
        /\ \A id : Late(id) <=> Late(id)'
    BY <1>1, <1>3, <1>6, SameAnswers DEF Late, Same
  <2>2. store'.checkpoint # None => store'.checkpoint = store.checkpoint
    BY <1>6 DEF KeepsCheckpoint
  <2>3. Unfiled' => Unfiled
    BY <1>4, <2>1, <2>2 DEF Unfiled
  <2>4. (store.checkpoint # None => Late(store.checkpoint.id))'
    BY <2>1, <2>2 DEF CopyInv
  <2>5. (save # None => Late(save.message.id))' /\ (live # None => Late(live.id))'
    BY <1>1, <2>1 DEF CopyInv
  <2>6. \A k \in DOMAIN store'.owed : store'.owed[k].message.id = Reply /\ Late(Reply)
    BY <1>4 DEF CopyInv
  <2>7. CopyInv'
    BY <1>1, <1>3, <2>1, <2>3, <2>4, <2>5, <2>6 DEF CopyInv
  <2> QED
    BY <1>1, <1>3, <1>6, <2>1, <2>7
       DEF ChainInv, RowInv, StreamInv, EndInv, NoteInv, InOrder, SaidBefore, Queued
<1>7. ASSUME store.checkpoint # None, store'.checkpoint = None,
             NEW m \in Snapshots, Lands(store, store', m), Final(m), m.id = store.checkpoint.id
      PROVE  (ChainInv /\ RowInv /\ CopyInv /\ StreamInv /\ EndInv /\ NoteInv /\ InOrder)'
  <2>1. /\ Kept(store', m.id) /\ OnFile(store', m.id) /\ Settled(store', m.id)
        /\ \A id : OnFile(store, id) => OnFile(store', id)
        /\ \A id \in Ids : Settled(store, id) => Settled(store', id)
    BY <1>5, <1>7, GrownFile, LandsIndex DEF Lands, Files, Kept, Sound
  <2>2. m.id = Reply /\ current > 0 /\ (~OnFile(store, m.id) => text[Reply] > 0)
    BY <1>7, LateIsLast DEF CopyInv, Lands, Files, Snapshots
  <2>3. run = "dead" /\ ~streaming
    <3>1. ~Settled(store, m.id)
      BY <1>7 DEF Lands, Files
    <3>2. ~Same(store, store')
      BY <2>1, <3>1, SameAnswers
    <3>3. Greets \/ HostStarts \/ finish.recover
      BY <1>2, <3>2
    <3>4. "sidecar" \in faults \/ "process" \in faults
      BY <3>3 DEF Greets, HostStarts, FaultInv, TypeInv, EndType, Kinds
    <3> QED
      BY <3>4 DEF FaultInv
  <2>4. /\ Reply \in ToSet(Replies) /\ Started(Reply) = current /\ current \in Nat
    BY <2>2, SaidIsMessage, ReplyAt DEF TypeInv, RunType
  <2>5. \A i \in DOMAIN store'.rows :
          store'.rows[i] = m \/ (i \in DOMAIN store.rows /\ store'.rows[i] = store.rows[i])
    BY <1>7 DEF Lands, Files, Grown
  <2>6. ChainInv' /\ StreamInv' /\ EndInv' /\ NoteInv'
    BY <1>1, <1>3, <2>1, <2>2, <2>3 DEF ChainInv, StreamInv, EndInv, NoteInv
  <2>7. RowInv'
    <3>1. \A i \in DOMAIN store.rows : store.rows[i].id \in Ids
      BY <1>5, RowsHaveIds DEF Sound
    <3> QED
      BY <1>1, <1>3, <1>7, <2>1, <2>2, <2>4, <2>5, <3>1 DEF RowInv, Final
  <2>8. CopyInv'
    <3>1. \A id : Late(id) => Late(id)'
      BY <1>1, <1>3, <2>1 DEF Late
    <3>2. Unfiled' => Unfiled
      BY <1>4, <1>7, <2>1 DEF Unfiled
    <3>3. (save # None => Late(save.message.id))' /\ (live # None => Late(live.id))'
      BY <1>1, <3>1 DEF CopyInv
    <3>4. \A k \in DOMAIN store'.owed : store'.owed[k].message.id = Reply /\ Late(Reply)'
      BY <1>3, <1>4, <3>1 DEF CopyInv
    <3> QED
      BY <1>1, <1>3, <1>7, <3>2, <3>3, <3>4 DEF CopyInv
  <2>9. InOrder'
    <3>1. ASSUME NEW i \in DOMAIN store.rows, ~OnFile(store, m.id)
          PROVE  SaidBefore(store.rows[i].id, m.id)
      BY <2>2, <3>1, LastInOrder
    <3> QED
      BY <1>1, <1>5, <1>7, <3>1, FilesInOrder DEF Lands
  <2> QED
    BY <2>6, <2>7, <2>8, <2>9
<1> QED
  BY <1>2, <1>6, <1>7 DEF Recovered

\* The process dies: what its last request left in the file is a row in its place.
LEMMA ProcessDiesKeepsWhole ==
  ASSUME TypeInv, FaultInv, TalkInv, WholeInv, ProcessDies
  PROVE  WholeInv'
<1> SUFFICES ASSUME "host" \notin faults
             PROVE  (ChainInv /\ RowInv /\ CopyInv /\ StreamInv /\ EndInv /\ NoteInv /\ InOrder)'
  BY DEF WholeInv, ProcessDies, MayFail
<1> USE DEF WholeInv
<1>1. /\ HostDies /\ run' = "dead" /\ streaming' = FALSE
      /\ live' = None /\ save' = None /\ chain' = <<>> /\ UNCHANGED <<current, text, noted>>
  BY DEF ProcessDies
<1>2. store' \in Stores /\ store'.owed = <<>> /\ Left(store, store')
  BY <1>1, DeathLeaves
<1>3. DOMAIN chain' = {} /\ DOMAIN store'.owed = {} /\ Reply' = Reply
  BY <1>1, <1>2 DEF Reply
<1>4. Sound(store) /\ Len(store.rows) \in Nat /\ DOMAIN store.rows = 1 .. Len(store.rows)
  BY LenProperties DEF TypeInv, StoreType, Stores, Sound
<1>5. \A i \in DOMAIN store.rows : store.rows[i].id \in Ids
  BY <1>4, RowsHaveIds DEF Sound
<1>6. /\ \A id : OnFile(store, id) => OnFile(store', id)
      /\ \A id \in Ids : Settled(store, id) => Settled(store', id)
  BY StoreGrows DEF Next
<1>7. \A id : Late(id) => Late(id)'
  BY <1>1, <1>3, <1>6 DEF Late
<1>8. ChainInv' /\ StreamInv' /\ EndInv'
  BY <1>1, <1>3 DEF ChainInv, StreamInv, EndInv
<1>9. CopyInv'
  <2>1. store'.checkpoint # None => store'.checkpoint = store.checkpoint
    BY <1>2 DEF Left, PartRecovered
  <2> QED
    BY <1>1, <1>3, <1>7, <2>1 DEF CopyInv
<1>10. CASE Same(store, store')
  <2>1. store'.rows = store.rows /\ \A id : OnFile(store', id) <=> OnFile(store, id)
    BY <1>10, SameAnswers DEF Same
  <2>2. RowInv'
    BY <1>1, <1>3, <1>5, <1>6, <2>1 DEF RowInv
  <2>3. NoteInv' /\ InOrder'
    BY <1>1, <1>3, <2>1 DEF NoteInv, InOrder, SaidBefore, Queued
  <2> QED
    BY <1>8, <1>9, <2>2, <2>3
<1>11. ASSUME NEW m, Files(store, store', m), current > 0,
              \/ m.id = Reply /\ (Queued(Reply) \/ (~OnFile(store, Reply) => text[Reply] > 0))
              \/ m.id = Note /\ Final(m) /\ noted = current /\ 1 \in DOMAIN chain /\ chain[1] = m
       PROVE  (ChainInv /\ RowInv /\ CopyInv /\ StreamInv /\ EndInv /\ NoteInv /\ InOrder)'
  <2>1. /\ Reply \in ToSet(Replies) /\ Started(Reply) = current /\ current \in Nat /\ Reply # Note
    BY <1>11, SaidIsMessage, ReplyAt DEF TypeInv, RunType
  <2>2. \A i \in DOMAIN store'.rows :
          store'.rows[i] = m \/ (i \in DOMAIN store.rows /\ store'.rows[i] = store.rows[i])
    BY <1>11 DEF Files, Grown
  <2>3. \A id : OnFile(store', id) <=> OnFile(store, id) \/ id = m.id
    BY <1>4, <1>11, GrownFile DEF Files, Sound
  <2>4. RowInv'
    BY <1>1, <1>3, <1>5, <1>6, <1>11, <2>1, <2>2 DEF RowInv, Final
  <2>5. NoteInv'
    <3>1. CASE m.id = Reply
      BY <2>3, <1>3, <3>1 DEF NoteInv
    <3>2. CASE m.id = Note /\ noted = current /\ 1 \in DOMAIN chain /\ chain[1] = m
      <4>1. ~\E k \in DOMAIN chain : k < 1
        BY LenProperties DEF TypeInv, ChainType
      <4>2. OnFile(store, Reply) \/ text[Reply] = 0
        BY <3>2, <4>1 DEF NoteInv
      <4> QED
        BY <1>1, <1>3, <1>6, <4>2 DEF NoteInv, Queued
    <3> QED
      BY <1>11, <3>1, <3>2
  <2>6. InOrder'
    <3>1. ASSUME NEW i \in DOMAIN store.rows, ~OnFile(store, m.id)
          PROVE  SaidBefore(store.rows[i].id, m.id)
      <4>1. CASE m.id = Reply
        BY <1>11, <2>1, <3>1, <4>1, LastInOrder
      <4>2. CASE m.id = Note /\ noted = current
        BY <3>1, <4>2, NoteInOrder
      <4> QED
        BY <1>11, <4>1, <4>2
    <3> QED
      BY <1>1, <1>4, <1>11, <3>1, FilesInOrder
  <2> QED
    BY <1>8, <1>9, <2>4, <2>5, <2>6
<1>12. CASE head = "asked" /\ Files(store, store', Head(chain))
  <2> DEFINE m == Head(chain)
  <2>1. 1 \in DOMAIN chain /\ m = chain[1] /\ (m.id = Note => Final(m))
    BY <1>12, HeadIsFirst
  <2>2. current > 0 /\ (m.id = Reply \/ (m.id = Note /\ noted = current))
    BY <2>1 DEF ChainInv
  <2>3. m.id = Reply => Queued(Reply)
    BY <2>1 DEF Queued
  <2> HIDE DEF m
  <2> QED
    BY <1>11, <1>12, <2>1, <2>2, <2>3 DEF m
<1>13. ASSUME store.checkpoint # None, NEW m \in Snapshots, Files(store, store', m),
              m.id = store.checkpoint.id
       PROVE  (ChainInv /\ RowInv /\ CopyInv /\ StreamInv /\ EndInv /\ NoteInv /\ InOrder)'
  <2>1. m.id = Reply /\ current > 0 /\ (~OnFile(store, m.id) => text[Reply] > 0)
    BY <1>13, LateIsLast DEF CopyInv, Files, Snapshots
  <2> QED
    BY <1>11, <1>13, <2>1
<1> QED
  BY <1>2, <1>10, <1>12, <1>13 DEF Left, PartRecovered

\* A crash of the sidecar or of the process.
LEMMA FaultsKeepWhole ==
  ASSUME TypeInv, FaultInv, TalkInv, WholeInv, HostCrashes \/ SidecarCrashes \/ ProcessDies
  PROVE  WholeInv'
<1> USE DEF WholeInv, sidecarVars, clientVars
<1>1. CASE HostCrashes
  BY <1>1 DEF HostCrashes, MayFail
<1>2. CASE SidecarCrashes
  <2> SUFFICES ASSUME "host" \notin faults
               PROVE  (ChainInv /\ RowInv /\ CopyInv /\ StreamInv /\ EndInv /\ NoteInv /\ InOrder)'
    BY <1>2 DEF SidecarCrashes, MayFail
  <2>1. /\ run' = "dead" /\ streaming' = FALSE
        /\ UNCHANGED <<store, current, text, noted, live, save, chain>>
    BY <1>2 DEF SidecarCrashes
  <2>2. Reply' = Reply /\ (Unfiled' <=> Unfiled) /\ \A id : Late(id)' <=> Late(id)
    BY <2>1 DEF Reply, Unfiled, Late
  <2>3. ChainInv' /\ RowInv' /\ CopyInv' /\ InOrder'
    BY <2>1, <2>2 DEF ChainInv, RowInv, CopyInv, InOrder, SaidBefore
  <2>4. StreamInv' /\ EndInv' /\ NoteInv'
    BY <2>1, <2>2 DEF StreamInv, EndInv, NoteInv, Queued
  <2> QED
    BY <2>3, <2>4
<1>3. CASE ProcessDies
  BY <1>3, ProcessDiesKeepsWhole
<1> QED
  BY <1>1, <1>2, <1>3

\* The replies of a turn stay whole, throughout.
LEMMA WholeInvariant == Spec => []WholeInv
<1>1. Init => WholeInv
  <2> SUFFICES ASSUME Init PROVE WholeInv
    OBVIOUS
  <2>1. /\ store.rows = <<>> /\ store.checkpoint = None /\ store.owed = <<>> /\ streaming = FALSE
        /\ current = 0 /\ live = None /\ save = None /\ chain = <<>>
    BY DEF Init, EmptyStore
  <2>2. DOMAIN store.rows = {} /\ DOMAIN store.owed = {} /\ DOMAIN chain = {}
    BY <2>1
  <2>3. ~OnFile(store, Note)
    BY <2>2, FileAt
  <2> QED
    BY <2>1, <2>2, <2>3
       DEF WholeInv, ChainInv, RowInv, CopyInv, StreamInv, EndInv, NoteInv, InOrder, Unfiled
<1>2. TypeInv /\ FaultInv /\ AgreeInv /\ TalkInv /\ WholeInv /\ [Next]_vars => WholeInv'
  <2> SUFFICES ASSUME TypeInv, FaultInv, AgreeInv, TalkInv, WholeInv, [Next]_vars
               PROVE  WholeInv'
    OBVIOUS
  <2>1. CASE HostSteps
    BY <2>1, ServesAppendKeepsWhole, ServesSaveKeepsWhole, RecoversKeepsWhole, WritesKeepsWhole
       DEF HostSteps
  <2>2. CASE Landed
    BY <2>2, LandedKeepsWhole
  <2>3. CASE GivesUp
    <3>1. host = "down" /\ chain # <<>> /\ UNCHANGED faults
      BY <2>3 DEF GivesUp, Serving
    <3>2. "host" \in faults
      BY <3>1 DEF FaultInv, TypeInv, EndType, Kinds
    <3> QED
      BY <3>1, <3>2 DEF WholeInv
  <2>4. CASE ClientSteps /\ ~Landed
    <3>1. /\ UNCHANGED <<store, run, current, streaming, text, noted, reserved, chain, faults>>
          /\ live' \in {None, live} \/ (live # None /\ live' = [live EXCEPT !.pending = None])
          /\ \/ save' \in {None, save}
             \/ /\ live # None /\ live.pending # None
                /\ save' = [stage |-> "asked", message |-> live.pending]
      BY <2>4 DEF ClientSteps, WritesPending, FlushEnds, SettledIf, CrashFlushes, CrashSettles,
                  Asks, Saved, Pending, sidecarVars
    <3>2. live' # None => live # None /\ live'.id = live.id
      BY <3>1 DEF TypeInv, CheckpointerType
    <3>3. save' # None => \/ save # None /\ save'.message = save.message
                          \/ live # None /\ live.pending # None /\ save'.message = live.pending
      BY <3>1
    <3> QED
      BY <3>1, <3>2, <3>3, CopiesKeepWhole
  <2>5. CASE RunEnds \/ Stops \/ AbortFinishes
    <3>1. /\ UNCHANGED <<store, current, streaming, text, noted, reserved, live, save, chain,
                         faults>>
          /\ run' = run \/ run' = "over"
      BY <2>5 DEF RunEnds, Stops, AbortFinishes, sidecarVars
    <3> QED
      BY <3>1, CopiesKeepWhole
  <2>6. CASE ReplyStarts \/ StreamsText \/ Notes
    BY <2>6, ReplyStartsKeepsWhole, StreamsTextKeepsWhole, NotesKeepsWhole
  <2>7. ASSUME NEW status \in {"complete", "aborted"}, ReplyEnds(status)
        PROVE  WholeInv'
    BY <2>7, ReplyEndsKeepsWhole
  <2>8. CASE HostCrashes \/ SidecarCrashes \/ ProcessDies
    BY <2>8, FaultsKeepWhole
  <2>9. CASE UNCHANGED vars
    <3>1. UNCHANGED <<store, run, current, streaming, text, noted, reserved, live, save, chain,
                      faults>>
      BY <2>9 DEF vars, sidecarVars, clientVars
    <3> QED
      BY <3>1, CopiesKeepWhole
  <2> QED
    BY <2>1, <2>2, <2>3, <2>4, <2>5, <2>6, <2>7, <2>8, <2>9 DEF Next, RunSteps
<1> QED
  BY <1>1, <1>2, TalkInvariant, PTL DEF Spec

\* As long as host-core lives, the rows stand in the order in which they were said:
\* steering input behind the reply it interrupted, although that reply ends after it.
THEOREM SaidInOrder == Spec => []TranscriptInOrder
<1>1. WholeInv => TranscriptInOrder
  BY DEF WholeInv, InOrder, TranscriptInOrder
<1> QED
  BY <1>1, WholeInvariant, PTL

\* Unless host-core dies alone, a reply that has a copy, in the transcript or beside it,
\* keeps one, except when something dies in the middle of the promotion of its checkpoint.
THEOREM RepliesAreKept == Spec => KeepsReplies
<1> DEFINE Keep == \A id \in ToSet(Replies) :
                     /\ "host" \notin faults /\ HasCopy(store, id)
                     /\ ~DiesPromoting(id)
                     => HasCopy(store', id)
<1>1. ASSUME TypeInv, WholeInv, Next
      PROVE  Keep
  <2> SUFFICES ASSUME NEW id \in ToSet(Replies), "host" \notin faults, HasCopy(store, id),
                      ~DiesPromoting(id)
               PROVE  HasCopy(store', id)
    OBVIOUS
  <2>0. \A s : HasCopy(s, id) <=> OnFile(s, id) \/ (s.checkpoint # None /\ s.checkpoint.id = id)
    BY DEF HasCopy, OnFile
  <2>1. OnFile(store, id) => OnFile(store', id)
    BY <1>1, StoreGrows
  <2>2. CASE OnFile(store, id) \/ store'.checkpoint = store.checkpoint
    BY <2>0, <2>1, <2>2
  <2>3. CASE ~OnFile(store, id) /\ store'.checkpoint # store.checkpoint
    <3>1. store.checkpoint # None /\ store.checkpoint.id = id
      BY <2>0, <2>3
    <3>2. Sound(store) /\ id \in Ids /\ id # Note
      BY <1>1, TranscriptStoreAssumption DEF TypeInv, StoreType, Sound, Ids
    <3>3. Late(id) /\ ~Settled(store, id)
      <4>1. Late(id)
        BY <1>1, <3>1 DEF WholeInv, CopyInv
      <4>2. ~Settled(store, id)
        BY <2>3, <3>2 DEF Sound, Behind, Kept
      <4> QED
        BY <4>1, <4>2
    <3>4. id = Reply
      BY <1>1, <3>2, <3>3, LateIsLast DEF WholeInv
    <3>5. HostSteps \/ Death
      BY <1>1, <2>3
         DEF Next, ClientSteps, WritesPending, FlushEnds, CrashFlushes, CrashSettles, Asks, Landed,
             Saved, GivesUp, RunSteps, ReplyStarts, StreamsText, Notes, RunEnds, Stops,
             AbortFinishes, ReplyEnds, SidecarCrashes, Death
    <3>6. CASE Death
      <4>1. HostDies /\ faults' # faults
        BY <3>6 DEF Death, HostCrashes, ProcessDies, MayFail
      <4>2. host' = "down" /\ Left(store, store')
        BY <1>1, <4>1, DeathLeaves
      <4>3. Promoting
        BY <2>3, <4>2 DEF Left
      <4> QED
        BY <3>1, <4>1, <4>2, <4>3 DEF DiesPromoting, Promoting
    <3>7. ASSUME NEW m, Files(store, store', m), m.id = id
          PROVE  HasCopy(store', id)
      BY <2>0, <3>2, <3>7, GrownFile DEF Files, Sound
    <3>8. CASE KeepsCheckpoint(store, store')
      <4>1. Settled(store', id)
        BY <2>3, <3>1, <3>8 DEF KeepsCheckpoint
      <4>2. Behind(store')
        BY <1>1, TypeInvKept DEF TypeInv, StoreType
      <4> QED
        BY <2>0, <3>2, <4>1, <4>2 DEF Behind, Kept
    <3>9. CASE Appended(store, store', Head(chain))
      BY <2>3, <3>8, <3>9 DEF Appended
    <3>10. CASE Recovered(store, store')
      BY <3>1, <3>7, <3>8, <3>10 DEF Recovered, Lands
    <3>11. ASSUME save # None, Settled(store, save.message.id) PROVE FALSE
      <4>1. Unfiled
        BY <2>3, <3>1 DEF Unfiled
      <4>2. save.message.id = Reply
        BY <1>1, <3>11, <4>1 DEF WholeInv, CopyInv
      <4> QED
        BY <3>3, <3>4, <3>11, <4>2
    <3>12. ASSUME NEW i \in DOMAIN store.owed, store'.checkpoint = store.owed[i].message
           PROVE  HasCopy(store', id)
      <4>1. store.owed[i].message.id = id
        BY <1>1, <3>4 DEF WholeInv, CopyInv
      <4>2. store.owed[i].message # None
        <5>1. store.owed[i] \in Owings
          BY <1>1, ElementOfSeq, LenProperties DEF TypeInv, StoreType, Stores
        <5> QED
          BY <5>1, TurnTranscriptAssumption DEF Owings, Snapshots
      <4> QED
        BY <2>0, <3>12, <4>1, <4>2
    <3> QED
      BY <1>1, <2>3, <3>5, <3>6, <3>9, <3>10, <3>11, <3>12, HostStep
  <2> QED
    BY <2>2, <2>3
<1>2. ASSUME UNCHANGED vars
      PROVE  Keep
  BY <1>2 DEF vars
<1>3. TypeInv /\ WholeInv /\ [Next]_vars => [Keep]_vars
  BY <1>1, <1>2
<1> QED
  BY <1>3, TypeInvariant, WholeInvariant, PTL DEF Spec, KeepsReplies

-----------------------------------------------------------------------------
(* Final texts, as long as nobody promotes a checkpoint *)

\* Without a fault, a final message that waits is the only one of its row, which is not
\* settled before it is served, and then holds its text.
FinalInv ==
  faults = {} =>
    /\ \A k \in DOMAIN chain :
         Final(chain[k]) /\ (k = 1 => head # "served") => ~Settled(store, chain[k].id)
    /\ \A k, l \in DOMAIN chain :
         Final(chain[k]) /\ Final(chain[l]) /\ chain[k].id = chain[l].id => k = l
    /\ FinalTextWins

\* A final message of a row that is not settled joins, as the only one.
LEMMA FinalJoins ==
  ASSUME TypeInv, FinalInv, faults = {}, UNCHANGED <<store, head, faults>>,
         NEW m \in Messages, Joined(chain, m, chain'),
         Final(m) => /\ ~Settled(store, m.id)
                     /\ \A k \in DOMAIN chain : Final(chain[k]) => chain[k].id # m.id
  PROVE  FinalInv'
<1>1. /\ Len(chain) \in Nat /\ DOMAIN chain = 1 .. Len(chain) /\ DOMAIN chain' = 1 .. Len(chain) + 1
      /\ \A k \in DOMAIN chain : chain'[k] = chain[k]
      /\ chain'[Len(chain) + 1] = m
  BY DEF Joined
<1>2. \A k \in DOMAIN chain' :
        (k \in DOMAIN chain /\ chain'[k] = chain[k]) \/ (k = Len(chain) + 1 /\ chain'[k] = m)
  BY <1>1
<1>3. head = "served" => Head(chain') = Head(chain)
  BY JoinedHead DEF TypeInv, ChainType
<1>4. FinalTextWins'
  BY <1>3 DEF FinalInv, FinalTextWins, HoldsText, Final
<1> QED
  BY <1>2, <1>4 DEF FinalInv

\* No step breaks it: the run's steps add finals of rows that are not settled, and only
\* an append files a row.
LEMMA FinalKeeps ==
  ASSUME TypeInv, FaultInv, TalkInv, WholeInv, FinalInv, [Next]_vars
  PROVE  FinalInv'
<1> USE DEF sidecarVars, clientVars
<1>0. faults' = {} => faults = {}
  BY DEF Next, ClientSteps, WritesPending, FlushEnds, CrashFlushes, CrashSettles, Asks, Landed,
         Saved, GivesUp, RunSteps, ReplyStarts, StreamsText, Notes, RunEnds, Stops, AbortFinishes,
         ReplyEnds, HostSteps, ServesAppend, ServesSave, ServesEndTurn, Writes, Greets, HostStarts,
         HostCrashes, SidecarCrashes, ProcessDies, MayFail, vars
<1> SUFFICES ASSUME faults' = {}, faults = {} PROVE FinalInv'
  BY <1>0 DEF FinalInv
<1>1. ASSUME Same(store, store'), chain' = chain,
             head' = head \/ (head = "waits" /\ head' = "asked")
      PROVE  FinalInv'
  <2>1. (\A id : Settled(store', id) <=> Settled(store, id)) /\ store'.rows = store.rows
    BY <1>1, SameAnswers DEF Same
  <2>2. head' = "served" <=> head = "served"
    BY <1>1
  <2>3. FinalTextWins'
    BY <1>1, <2>1, <2>2 DEF FinalInv, FinalTextWins, HoldsText
  <2> QED
    BY <1>1, <2>1, <2>2, <2>3 DEF FinalInv
<1>2. CASE ServesAppend
  <2> DEFINE m == Head(chain)
  <2>1. head = "asked" /\ head' = "served" /\ chain' = chain /\ store' = AppendMessage(store, m)
    BY <1>2 DEF ServesAppend
  <2>2. /\ Len(chain) \in Nat /\ DOMAIN chain = 1 .. Len(chain) /\ 1 \in DOMAIN chain
        /\ m = chain[1] /\ m \in Messages /\ (m.id = Note => Final(m))
    BY <2>1, HeadIsFirst
  <2> HIDE DEF m
  <2>3. Sound(store) /\ Appended(store, store', m)
    BY <2>1, <2>2, AppendMessageAppends DEF TypeInv, StoreType, Sound
  <2>4. \A k \in DOMAIN chain : Final(chain[k]) => ~Settled(store, chain[k].id)
    BY <2>1 DEF FinalInv
  <2>5. ASSUME NEW k \in DOMAIN chain, Final(chain[k]), k # 1
        PROVE  ~Settled(store', chain[k].id)
    <3>1. CASE Dropped(store, m) /\ store' = store
      BY <2>4, <2>5, <3>1
    <3>2. CASE Lands(store, store', m)
      <4>0. chain[k].id \in Ids
        <5>1. chain[k] \in Messages
          BY <2>5, ElementOfSeq DEF TypeInv, ChainType
        <5> QED
          BY <5>1 DEF Messages
      <4>1. chain[k].id # m.id \/ ~Final(m)
        BY <2>2, <2>5 DEF FinalInv
      <4>2. /\ \A id \in Ids : id # m.id => (Settled(store', id) <=> Settled(store, id))
            /\ Settled(store', m.id) <=> Final(m)
        BY <2>3, <3>2, LandsIndex DEF Sound
      <4> QED
        BY <2>4, <2>5, <4>0, <4>1, <4>2
    <3> QED
      BY <2>3, <3>1, <3>2 DEF Appended
  <2>6. ASSUME Final(m)
        PROVE  \E row \in ToSet(store'.rows) : row.id = m.id /\ row.text = m.text
    <3>1. ~Dropped(store, m)
      BY <2>2, <2>4, <2>6 DEF Dropped, Final
    <3>2. Lands(store, store', m)
      BY <2>3, <3>1 DEF Appended
    <3>3. PICK i \in DOMAIN store'.rows : store'.rows[i] = m
      BY <3>2 DEF Lands, Files, Grown
    <3>4. store'.rows[i] \in ToSet(store'.rows)
      BY DEF ToSet
    <3> QED
      BY <3>3, <3>4
  <2>7. FinalTextWins'
    BY <2>1, <2>6 DEF FinalTextWins, HoldsText, Final, m
  <2> QED
    BY <2>1, <2>5, <2>7 DEF FinalInv
<1>3. CASE Landed
  <2>1. head = "served" /\ head' = "waits" /\ chain' = Tail(chain) /\ UNCHANGED store
    BY <1>3 DEF Landed
  <2>2. chain \in Seq(Messages) /\ chain # <<>>
    BY <2>1 DEF TypeInv, ChainType
  <2>3. /\ Len(chain) \in Nat
        /\ DOMAIN chain = 1 .. Len(chain) /\ DOMAIN chain' = 1 .. Len(chain) - 1
        /\ \A k \in 1 .. Len(chain) - 1 : chain'[k] = chain[k + 1]
    BY <2>1, <2>2, TailIs
  <2>4. \A k \in DOMAIN chain' : k + 1 \in DOMAIN chain /\ k + 1 # 1
    BY <2>3
  <2>5. \A k \in DOMAIN chain' : Final(chain'[k]) => ~Settled(store', chain'[k].id)
    BY <2>1, <2>3, <2>4 DEF FinalInv
  <2>6. ASSUME NEW k \in DOMAIN chain', NEW l \in DOMAIN chain',
               Final(chain'[k]), Final(chain'[l]), chain'[k].id = chain'[l].id
        PROVE  k = l
    <3>1. k + 1 = l + 1
      BY <2>3, <2>4, <2>6 DEF FinalInv
    <3> QED
      BY <2>3, <3>1
  <2>7. FinalTextWins'
    BY <2>1 DEF FinalTextWins
  <2> QED
    BY <2>5, <2>6, <2>7 DEF FinalInv
<1>4. CASE Notes
  <2> DEFINE note == Message(Note, 0, "complete")
             said == Said("streaming")
  <2>1. current > 0 /\ noted = None /\ UNCHANGED <<store, head>>
    BY <1>4 DEF Notes
  <2>2. ~Settled(store, Note) /\ \A k \in DOMAIN chain : chain[k].id # Note
    BY <2>1 DEF Ids, TalkInv, TypeInv, StoreType, Behind, Kept, Queued
  <2>3. /\ said.id # Note /\ ~Final(said) /\ said \in Messages
        /\ note.id = Note /\ note \in Messages
        /\ streaming => \E q \in Seq(Messages) : Joined(chain, said, q) /\ Joined(q, note, chain')
        /\ ~streaming => Joined(chain, note, chain')
    <3>1. /\ note.id = Note /\ note \in Messages
          /\ streaming => \E q \in Seq(Messages) : Joined(chain, said, q) /\ Joined(q, note, chain')
          /\ ~streaming => Joined(chain, note, chain')
      BY <1>4, NotesJoin
    <3>2. said.id = Reply /\ Reply # Note /\ said.status = "streaming" /\ said \in Snapshots
      BY <2>1, SaidIsMessage
    <3> HIDE DEF note, said
    <3> QED
      BY <3>1, <3>2 DEF Final, Snapshots
  <2> HIDE DEF note, said
  <2>4. CASE streaming
    <3>1. PICK q \in Seq(Messages) : Joined(chain, said, q) /\ Joined(q, note, chain')
      BY <2>3, <2>4
    <3>2. /\ Len(chain) \in Nat /\ DOMAIN chain = 1 .. Len(chain)
          /\ DOMAIN chain' = 1 .. Len(chain) + 2
          /\ chain'[Len(chain) + 2] = note /\ chain'[Len(chain) + 1] = said
          /\ \A k \in DOMAIN chain : chain'[k] = chain[k]
      BY <3>1 DEF Joined
    <3>3. \A k \in DOMAIN chain' :
            \/ k \in DOMAIN chain /\ chain'[k] = chain[k]
            \/ k = Len(chain) + 1 /\ ~Final(chain'[k])
            \/ k = Len(chain) + 2 /\ chain'[k].id = Note
      BY <2>3, <3>2
    <3>4. head = "served" => Head(chain') = Head(chain)
      BY <3>1, JoinedHead DEF TypeInv, ChainType
    <3>5. FinalTextWins'
      BY <2>1, <3>4 DEF FinalInv, FinalTextWins, HoldsText
    <3> QED
      BY <2>1, <2>2, <3>3, <3>5 DEF FinalInv
  <2>5. CASE ~streaming
    <3>1. UNCHANGED <<store, head, faults>>
      BY <2>1
    <3> QED
      BY <2>2, <2>3, <2>5, <3>1, FinalJoins
  <2> QED
    BY <2>4, <2>5 DEF TypeInv, RunType
<1>5. ASSUME NEW status \in {"complete", "aborted"}, ReplyEnds(status)
      PROVE  FinalInv'
  <2> DEFINE said == Said(status)
  <2>1. /\ streaming /\ UNCHANGED <<store, head, faults>>
        /\ chain' = chain \/ chain' = Append(chain, said)
    BY <1>5 DEF ReplyEnds
  <2>2. said \in Messages /\ said.id = Reply
    BY <2>1, SaidIsMessage DEF TypeInv, RunType, Snapshots
  <2> HIDE DEF said
  <2>3. CASE chain' = chain
    BY <1>1, <2>1, <2>3 DEF Same
  <2>4. CASE chain' = Append(chain, said)
    <3>1. Joined(chain, said, chain')
      BY <2>2, <2>4, AppendJoins DEF TypeInv, ChainType
    <3>2. StreamInv
      BY DEF WholeInv
    <3>3. ~Settled(store, Reply)
      BY <2>1, <2>2, <3>2, KeptAt DEF StreamInv, TypeInv, StoreType, Behind, Messages
    <3>4. \A k \in DOMAIN chain : Final(chain[k]) => chain[k].id # Reply
      BY <2>1, <3>2 DEF StreamInv
    <3> QED
      BY <2>1, <2>2, <3>1, <3>3, <3>4, FinalJoins
  <2> QED
    BY <2>1, <2>3, <2>4
<1>6. CASE ServesEndTurn
  <2>1. ~finish.recover /\ UNCHANGED <<chain, head>>
    BY <1>6 DEF ServesEndTurn, FaultInv
  <2>2. Same(store, store')
    BY <1>6, <2>1, EndTurnRecovers DEF ServesEndTurn, TypeInv, StoreType, Sound, EndType
  <2> QED
    BY <1>1, <2>1, <2>2
<1>7. CASE ServesSave
  <2>1. save.message \in Snapshots
    BY <1>7 DEF ServesSave, TypeInv, CheckpointerType
  <2>2. Same(store, store') /\ UNCHANGED <<chain, head>>
    BY <1>7, <2>1, SaveInflightSaves DEF ServesSave, TypeInv, StoreType
  <2> QED
    BY <1>1, <2>2
<1>8. ASSUME NEW i \in DOMAIN store.owed, Writes(i)
      PROVE  FinalInv'
  <2>1. Same(store, store') /\ UNCHANGED <<chain, head>>
    BY <1>8, WriteCheckpointWrites DEF Writes, TypeInv, StoreType
  <2> QED
    BY <1>1, <2>1
<1>9. CASE Greets \/ HostStarts \/ GivesUp
  BY <1>9 DEF Greets, HostStarts, GivesUp, Serving, FaultInv
<1>10. CASE HostCrashes \/ SidecarCrashes \/ ProcessDies
  BY <1>10 DEF HostCrashes, SidecarCrashes, ProcessDies, MayFail
<1>11. CASE ClientSteps /\ ~Landed
  <2>1. /\ UNCHANGED <<store, chain>>
        /\ head' = head \/ (head = "waits" /\ head' = "asked")
    BY <1>11 DEF ClientSteps, WritesPending, FlushEnds, CrashFlushes, CrashSettles, Asks, Saved
  <2> QED
    BY <1>1, <2>1 DEF Same
<1>12. CASE ReplyStarts \/ StreamsText \/ RunEnds \/ Stops \/ AbortFinishes \/ UNCHANGED vars
  <2>1. UNCHANGED <<store, chain, head>>
    BY <1>12 DEF ReplyStarts, StreamsText, RunEnds, Stops, AbortFinishes, vars
  <2> QED
    BY <1>1, <2>1 DEF Same
<1> QED
  BY <1>2, <1>3, <1>4, <1>5, <1>6, <1>7, <1>8, <1>9, <1>10, <1>11, <1>12
     DEF Next, HostSteps, RunSteps

\* An acknowledged row of a reply holds the whole text of the reply, as long as neither
\* host-core nor the sidecar dies: no promoted checkpoint has taken its place with less.
THEOREM FinalTextsLand == Spec => []FinishedTextLands
<1>1. Init => FinalInv
  <2> SUFFICES ASSUME Init PROVE FinalInv
    OBVIOUS
  <2>1. chain = <<>> /\ head = "waits"
    BY DEF Init
  <2>2. DOMAIN chain = {}
    BY <2>1
  <2> QED
    BY <2>1, <2>2 DEF FinalInv, FinalTextWins
<1>2. TypeInv /\ FaultInv /\ TalkInv /\ WholeInv /\ FinalInv /\ [Next]_vars => FinalInv'
  BY FinalKeeps
<1>3. TypeInv /\ FaultInv /\ FinalInv => FinishedTextLands
  <2> SUFFICES ASSUME TypeInv, FaultInv, FinalInv, faults \subseteq {"process"}
               PROVE  FinalTextWins
    BY DEF FinishedTextLands
  <2>1. CASE faults = {}
    BY <2>1 DEF FinalInv
  <2>2. CASE "process" \in faults
    BY <2>2 DEF FaultInv, TypeInv, ChainType, FinalTextWins
  <2> QED
    BY <2>1, <2>2
<1> QED
  BY <1>1, <1>2, <1>3, TalkInvariant, WholeInvariant, PTL DEF Spec
=============================================================================
