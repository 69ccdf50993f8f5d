--------------------------- MODULE LogStoreProofs ---------------------------
(***************************************************************************)
(* Proofs about LogStore for any set of producers and messages, any number *)
(* of appends, with and without disk errors.                               *)
(***************************************************************************)
EXTENDS LogStore, TLAPS, SequenceTheorems, FiniteSetTheorems

(* What a step may do to the file: one more piece, or a shorter file.      *)
Grown(e) ==
    /\ Len(out') = Len(out) + 1
    /\ out'[Len(out) + 1] = e
    /\ \A i \in 1..Len(out) : out'[i] = out[i]

Cut ==
    /\ Len(out') \in 0..Len(out)
    /\ \A i \in 1..Len(out') : out'[i] = out[i]

(* Put adds its piece at the end, or cuts the file when a write fails; the *)
(* kernel never has more of the file than there is.                        *)
LEMMA PutOutcome ==
    ASSUME TypeOK, NEW e \in Pieces, NEW spill \in 0..Len(out) + 1, Put(e, spill)
    PROVE  /\ out' \in Seq(Pieces)
           /\ ondisk' \in 0..Len(out')
           /\ \/ Grown(e) /\ ondisk' >= ondisk
              \/ DiskErrors /\ Cut
<1> USE DEF TypeOK
<1>1. CASE out' = Append(out, e) /\ ondisk' \in ondisk..spill
  <2>1. /\ out' \in Seq(Pieces)
        /\ Grown(e)
    BY <1>1, AppendProperties DEF Grown
  <2> QED BY <1>1, <2>1 DEF Grown
<1>2. CASE /\ DiskErrors
           /\ \E n \in ondisk..Len(out) : out' = SubSeq(out, 1, n) /\ ondisk' = n
  <2>1. PICK n \in ondisk..Len(out) : out' = SubSeq(out, 1, n) /\ ondisk' = n
    BY <1>2
  <2>2. /\ out' \in Seq(Pieces)
        /\ Len(out') = n
        /\ \A i \in 1..n : out'[i] = out[i]
    BY <2>1, SubSeqProperties
  <2> QED BY <1>2, <2>1, <2>2 DEF Cut
<1> QED BY <1>1, <1>2 DEF Put

(* Drain keeps the file, all of it with the kernel, or cuts it.            *)
LEMMA DrainOutcome ==
    ASSUME TypeOK, Drain
    PROVE  /\ out' \in Seq(Pieces)
           /\ ondisk' \in 0..Len(out')
           /\ Cut
           /\ \/ out' = out /\ ondisk' = Len(out)
              \/ DiskErrors
<1> USE DEF TypeOK
<1>1. CASE out' = out /\ ondisk' = Len(out)
  BY <1>1 DEF Cut
<1>2. CASE /\ DiskErrors
           /\ \E n \in ondisk..Len(out) : out' = SubSeq(out, 1, n) /\ ondisk' = n
  <2>1. PICK n \in ondisk..Len(out) : out' = SubSeq(out, 1, n) /\ ondisk' = n
    BY <1>2
  <2>2. /\ out' \in Seq(Pieces)
        /\ Len(out') = n
        /\ \A i \in 1..n : out'[i] = out[i]
    BY <2>1, SubSeqProperties
  <2> QED BY <1>2, <2>1, <2>2 DEF Cut
<1> QED BY <1>1, <1>2 DEF Drain

LEMMA LevelNameType ==
    ASSUME NEW level \in Nat
    PROVE  LevelName(level) \in LevelNames
BY DEF LevelName, LevelNames

(* Every piece a producer writes is a piece of its own record.             *)
LEMMA PieceType ==
    ASSUME TypeOK, NEW p \in Producers, NEW part \in Parts
    PROVE  Piece(cur[p], part) \in Pieces
BY DEF TypeOK, Piece, Pieces

(* The fields of the pieces in the file and of the records in hand.        *)
LEMMA FieldTypes ==
    ASSUME TypeOK
    PROVE  /\ Len(out) \in Nat
           /\ \A i \in 1..Len(out) : /\ out[i].rec.seq \in Nat
                                     /\ out[i].part \in Parts
           /\ \A p \in Producers : cur[p].seq \in Nat /\ seq[p] \in Nat
<1>1. Len(out) \in Nat /\ \A i \in 1..Len(out) : out[i] \in Pieces
  BY ElementOfSeq, LenProperties DEF TypeOK
<1>2. \A e \in Pieces : e.rec.seq \in Nat /\ e.part \in Parts
  BY DEF Pieces, Records
<1>3. \A p \in Producers : cur[p].seq \in Nat /\ seq[p] \in Nat
  BY DEF TypeOK, Records
<1> QED BY <1>1, <1>2, <1>3

(***************************************************************************)
(* Type correctness                                                        *)
(***************************************************************************)

(* The type invariant: the level of a record always has a name, and the    *)
(* kernel never has more of the file than was written.                     *)
THEOREM TypeCorrect == Spec => []TypeOK
<1>1. Init => TypeOK
  BY EmptySeq DEF Init, TypeOK, PCs, Records, LevelNames
<1>2. ASSUME TypeOK, [Next]_vars
      PROVE  TypeOK'
  <2> USE <1>2
  <2>1. CASE Open
    BY <2>1, EmptySeq DEF Open, TypeOK
  <2>2. CASE Close
    BY <2>2, DrainOutcome DEF Close, TypeOK
  <2>3. CASE Crash
    <3>1. out' \in Seq(Pieces) /\ Len(out') = ondisk
      BY <2>3, SubSeqProperties DEF Crash, TypeOK
    <3> QED BY <2>3, <3>1 DEF Crash, TypeOK, PCs
  <2>4. ASSUME NEW p \in Producers, NEW m \in Msgs, Call(p, m)
        PROVE  TypeOK'
    <3>1. m \in [level : Nat, len : Nat]
      BY LogStoreConstants
    <3>2. [prod |-> p, seq |-> seq[p], level |-> LevelName(m.level),
           len |-> m.len] \in Records
      BY <3>1, LevelNameType DEF TypeOK, Records
    <3> QED BY <2>4, <3>2 DEF Call, TypeOK, PCs
  <2>5. ASSUME NEW p \in Producers, CallFlush(p)
        PROVE  TypeOK'
    BY <2>5 DEF CallFlush, TypeOK, PCs
  <2>6. ASSUME NEW p \in Producers, Acquire(p)
        PROVE  TypeOK'
    BY <2>6 DEF Acquire, TypeOK, PCs
  <2>7. ASSUME NEW p \in Producers, Header(p)
        PROVE  TypeOK'
    <3>1. out' \in Seq(Pieces) /\ ondisk' \in 0..Len(out')
      BY <2>7, PutOutcome, PieceType DEF Header, Parts, TypeOK
    <3> QED BY <2>7, <3>1 DEF Header, TypeOK, PCs
  <2>8. ASSUME NEW p \in Producers, Bytes(p)
        PROVE  TypeOK'
    <3>1. out' \in Seq(Pieces) /\ ondisk' \in 0..Len(out')
      BY <2>8, PutOutcome, PieceType DEF Bytes, Parts, TypeOK
    <3> QED BY <2>8, <3>1 DEF Bytes, TypeOK, PCs
  <2>9. ASSUME NEW p \in Producers, Newline(p)
        PROVE  TypeOK'
    <3>1. out' \in Seq(Pieces) /\ ondisk' \in 0..Len(out')
      BY <2>9, PutOutcome, PieceType DEF Newline, Parts, TypeOK
    <3> QED BY <2>9, <3>1 DEF Newline, TypeOK, PCs
  <2>10. ASSUME NEW p \in Producers, Fflush(p)
         PROVE  TypeOK'
    <3>1. out' \in Seq(Pieces) /\ ondisk' \in 0..Len(out')
      BY <2>10, DrainOutcome DEF Fflush
    <3> QED BY <2>10, <3>1 DEF Fflush, TypeOK, PCs
  <2>11. ASSUME NEW p \in Producers, Unlock(p)
         PROVE  TypeOK'
    BY <2>11 DEF Unlock, TypeOK, PCs
  <2>12. CASE UNCHANGED vars
    BY <2>12 DEF vars, TypeOK
  <2> QED BY <2>1, <2>2, <2>3, <2>4, <2>5, <2>6, <2>7, <2>8, <2>9, <2>10,
             <2>11, <2>12 DEF Next, Step
<1> QED BY <1>1, <1>2, PTL DEF Spec

(***************************************************************************)
(* Mutual exclusion                                                        *)
(***************************************************************************)

(* Every way through logstore_append and logstore_flush takes the mutex    *)
(* before it touches the stream and gives it back at the end, so two       *)
(* threads are never inside at once.                                       *)
THEOREM Exclusion == Spec => []MutualExclusion
<1> USE DEF MutualExclusion, Holding, PCs
<1>1. Init => MutualExclusion
  BY LogStoreConstants DEF Init
<1>2. ASSUME TypeOK, MutualExclusion, [Next]_vars
      PROVE  MutualExclusion'
  <2> USE <1>2 DEF TypeOK
  <2>1. CASE Open \/ Close
    BY <2>1 DEF Open, Close
  <2>2. CASE Crash
    BY <2>2, LogStoreConstants DEF Crash
  <2>3. ASSUME NEW p \in Producers, NEW m \in Msgs, Call(p, m)
        PROVE  MutualExclusion'
    BY <2>3 DEF Call
  <2>4. ASSUME NEW p \in Producers, CallFlush(p)
        PROVE  MutualExclusion'
    BY <2>4 DEF CallFlush
  <2>5. ASSUME NEW p \in Producers, Acquire(p)
        PROVE  MutualExclusion'
    BY <2>5, LogStoreConstants DEF Acquire
  <2>6. ASSUME NEW p \in Producers, Header(p) \/ Bytes(p) \/ Newline(p)
        PROVE  MutualExclusion'
    BY <2>6 DEF Header, Bytes, Newline
  <2>7. ASSUME NEW p \in Producers, Fflush(p)
        PROVE  MutualExclusion'
    BY <2>7 DEF Fflush
  <2>8. ASSUME NEW p \in Producers, Unlock(p)
        PROVE  MutualExclusion'
    BY <2>8, LogStoreConstants DEF Unlock
  <2>9. CASE UNCHANGED vars
    BY <2>9 DEF vars
  <2> QED BY <2>1, <2>2, <2>3, <2>4, <2>5, <2>6, <2>7, <2>8, <2>9
             DEF Next, Step
<1> QED BY <1>1, <1>2, TypeCorrect, PTL DEF Spec

(***************************************************************************)
(* The order of the pieces                                                 *)
(***************************************************************************)

(* Where an append is between its call and its return.                     *)
Appending == {"lock", "header", "bytes", "newline", "fflush", "unlock"}

(* A thread appends its own record, with the last sequence number it used, *)
(* and only while the store is open.                                       *)
CallInv ==
    \A p \in Producers :
        /\ cur[p].prod = p
        /\ pc[p] \in Appending => seq[p] = cur[p].seq + 1
        /\ life # "open" => pc[p] = "idle"

(* The pieces of p in the file are older than what p will append next, and *)
(* older than the record p has begun as long as its header is not out.     *)
Fresh ==
    \A p \in Producers : \A i \in 1..Len(out) :
        out[i].rec.prod = p =>
            /\ out[i].rec.seq < seq[p]
            /\ pc[p] \in {"lock", "header"} => out[i].rec.seq < cur[p].seq

(* In mid-append the pieces of the record are the end of the file, and     *)
(* they are pieces that come before the next one.                          *)
AtEnd ==
    \A p \in Producers : pc[p] \in {"bytes", "newline"} =>
        \A i \in 1..Len(out) : out[i].rec = cur[p] =>
            /\ Rank(out[i].part) < Rank(pc[p])
            /\ \A k \in i..Len(out) : out[k].rec = cur[p]

OrderInv ==
    CallInv /\ Fresh /\ AtEnd /\ NoInterleaving /\ ProducerOrder

LEMMA RankValues ==
    /\ Rank("header") = 1
    /\ Rank("bytes") = 2
    /\ Rank("newline") = 3
BY DEF Rank

(* A shorter file has no new disorder.                                     *)
LEMMA CutKeepsOrder ==
    ASSUME TypeOK, out' \in Seq(Pieces), Cut, NoInterleaving, ProducerOrder
    PROVE  NoInterleaving' /\ ProducerOrder'
<1>1. \A i \in 1..Len(out') : i \in 1..Len(out) /\ out'[i] = out[i]
  BY DEF Cut, TypeOK
<1>2. NoInterleaving'
  BY <1>1 DEF NoInterleaving, SameRecord
<1>3. ProducerOrder'
  BY <1>1 DEF ProducerOrder
<1> QED BY <1>2, <1>3

(* A piece of p's record keeps the order if the record's pieces so far end *)
(* the file and come before it, and no record of p in the file is younger. *)
LEMMA GrownKeepsOrder ==
    ASSUME TypeOK, out' \in Seq(Pieces), NoInterleaving, ProducerOrder,
           NEW p \in Producers, NEW part \in Parts,
           Grown(Piece(cur[p], part)),
           cur[p].prod = p,
           \A i \in 1..Len(out) : out[i].rec = cur[p] =>
                /\ Rank(out[i].part) < Rank(part)
                /\ \A k \in i..Len(out) : out[k].rec = cur[p],
           \A i \in 1..Len(out) : out[i].rec.prod = p =>
                out[i].rec.seq <= cur[p].seq
    PROVE  NoInterleaving' /\ ProducerOrder'
<1> DEFINE N == Len(out)
<1>1. N \in Nat /\ Len(out') = N + 1
  BY DEF TypeOK, Grown
<1>2. /\ \A i \in 1..N : out'[i] = out[i]
      /\ out'[N + 1].rec = cur[p]
      /\ out'[N + 1].part = part
  BY DEF Grown, Piece
<1> HIDE DEF N
<1>3. NoInterleaving'
  <2> SUFFICES ASSUME NEW i \in 1..Len(out'), NEW j \in 1..Len(out'),
                      i < j, out'[i].rec = out'[j].rec
               PROVE  /\ Rank(out'[i].part) < Rank(out'[j].part)
                      /\ \A k \in i..j : out'[i].rec = out'[k].rec
    BY DEF NoInterleaving, SameRecord
  <2>1. CASE j \in 1..N
    BY <2>1, <1>1, <1>2 DEF NoInterleaving, SameRecord, N
  <2>2. CASE j = N + 1
    <3>1. i \in 1..N /\ out[i].rec = cur[p]
      BY <2>2, <1>1, <1>2
    <3>2. \A k \in i..N : out'[k].rec = cur[p]
      BY <3>1, <1>1, <1>2 DEF N
    <3> QED BY <2>2, <3>1, <3>2, <1>1, <1>2 DEF N
  <2> QED BY <2>1, <2>2, <1>1
<1>4. ProducerOrder'
  <2> SUFFICES ASSUME NEW i \in 1..Len(out'), NEW j \in 1..Len(out'),
                      i < j, out'[i].rec.prod = out'[j].rec.prod
               PROVE  out'[i].rec.seq <= out'[j].rec.seq
    BY DEF ProducerOrder
  <2>1. CASE j \in 1..N
    BY <2>1, <1>1, <1>2 DEF ProducerOrder, N
  <2>2. CASE j = N + 1
    BY <2>2, <1>1, <1>2 DEF N
  <2> QED BY <2>1, <2>2, <1>1
<1> QED BY <1>3, <1>4

(* Header, Bytes and Newline in one: p, which holds the mutex, puts a      *)
(* piece of its record and moves on to the next statement.                 *)
LEMMA PutKeepsOrder ==
    ASSUME TypeOK, TypeOK', MutualExclusion, OrderInv,
           NEW p \in Producers, NEW part \in Parts, NEW next \in PCs,
           NEW spill \in 0..Len(out) + 1,
           pc[p] = part,
           Put(Piece(cur[p], part), spill),
           pc' = [pc EXCEPT ![p] = next],
           next \in {"bytes", "newline"} => Rank(part) < Rank(next),
           next \in {"bytes", "newline", "fflush"},
           UNCHANGED <<life, lock, cur, seq>>
    PROVE  OrderInv'
<1> USE RankValues DEF TypeOK
<1>1. Piece(cur[p], part) \in Pieces
  BY PieceType
<1>2. Grown(Piece(cur[p], part)) \/ Cut
  BY <1>1, PutOutcome
<1>3. CallInv'
  BY DEF OrderInv, CallInv, Appending, Parts
<1>4. \A q \in Producers : q # p => pc[q] \notin {"bytes", "newline"}
  BY DEF MutualExclusion, Holding, PCs, Parts
<1>5. \A i \in 1..Len(out) : out[i].rec = cur[p] =>
         /\ Rank(out[i].part) < Rank(part)
         /\ \A k \in i..Len(out) : out[k].rec = cur[p]
  <2>1. CASE part = "header"
    <3>1. \A i \in 1..Len(out) : out[i].rec # cur[p]
      BY <2>1, FieldTypes DEF OrderInv, CallInv, Fresh
    <3> QED BY <3>1
  <2>2. CASE part \in {"bytes", "newline"}
    BY <2>2 DEF OrderInv, AtEnd
  <2> QED BY <2>1, <2>2 DEF Parts
<1>6. \A i \in 1..Len(out) : out[i].rec.prod = p => out[i].rec.seq < seq[p]
  BY DEF OrderInv, Fresh
<1>7. cur[p].prod = p /\ seq[p] = cur[p].seq + 1
  BY DEF OrderInv, CallInv, Appending, Parts
<1>8. CASE Grown(Piece(cur[p], part))
  <2> DEFINE N == Len(out)
  <2>1. /\ N \in Nat /\ Len(out') = N + 1
        /\ \A i \in 1..N : out'[i] = out[i]
        /\ out'[N + 1].rec = cur[p]
        /\ out'[N + 1].part = part
    BY <1>8 DEF Grown, Piece
  <2>2. NoInterleaving' /\ ProducerOrder'
    <3>1. \A i \in 1..Len(out) : out[i].rec.prod = p =>
             out[i].rec.seq <= cur[p].seq
      BY SMTT(30), <1>6, <1>7, FieldTypes
    <3> QED BY <3>1, <1>5, <1>7, <1>8, GrownKeepsOrder DEF OrderInv
  <2>3. Fresh'
    <3> SUFFICES ASSUME NEW q \in Producers, NEW i \in 1..Len(out'),
                        out'[i].rec.prod = q
                 PROVE  /\ out'[i].rec.seq < seq[q]
                        /\ pc'[q] \in {"lock", "header"} =>
                              out'[i].rec.seq < cur[q].seq
      BY DEF Fresh
    <3>1. CASE i \in 1..N
      BY <3>1, <2>1 DEF OrderInv, Fresh
    <3>2. CASE i = N + 1
      BY <3>2, <2>1, <1>7, FieldTypes
    <3> QED BY <3>1, <3>2, <2>1
  <2>4. AtEnd'
    <3> SUFFICES ASSUME NEW q \in Producers, pc'[q] \in {"bytes", "newline"},
                        NEW i \in 1..Len(out'), out'[i].rec = cur[q]
                 PROVE  /\ Rank(out'[i].part) < Rank(pc'[q])
                        /\ \A k \in i..Len(out') : out'[k].rec = cur[q]
      BY DEF AtEnd
    <3>1. q = p /\ pc'[q] = next
      BY <1>4
    <3>2. CASE i \in 1..N
      <4>1. out[i].rec = cur[p] /\ out'[i].part = out[i].part
        BY <3>1, <3>2, <2>1
      <4>2. /\ Rank(out[i].part) < Rank(part)
            /\ \A k \in i..N : out[k].rec = cur[p]
        BY <4>1, <3>2, <1>5
      <4>3. Rank(out[i].part) \in Nat /\ Rank(part) \in Nat /\ Rank(next) \in Nat
        <5>1. out[i].part \in Parts
          BY <3>2, FieldTypes
        <5> QED BY SMTT(30), <5>1, <3>1 DEF Parts
      <4>4. \A k \in i..Len(out') : out'[k].rec = cur[q]
        <5> SUFFICES ASSUME NEW k \in i..Len(out')
                     PROVE  out'[k].rec = cur[q]
          OBVIOUS
        <5>1. k \in i..N \/ k = N + 1
          BY <2>1, <3>2
        <5>2. k \in i..N => k \in 1..N
          BY <2>1, <3>2
        <5> QED BY <5>1, <5>2, <4>2, <3>1, <2>1
      <4> QED BY <4>1, <4>2, <4>3, <4>4, <3>1
    <3>3. CASE i = N + 1
      BY <3>1, <3>3, <2>1
    <3> QED BY <3>2, <3>3, <2>1
  <2> QED BY <1>3, <2>2, <2>3, <2>4 DEF OrderInv
<1>9. CASE Cut
  <2>1. \A i \in 1..Len(out') : i \in 1..Len(out) /\ out'[i] = out[i]
    BY <1>9 DEF Cut
  <2>2. NoInterleaving' /\ ProducerOrder'
    BY <1>9, CutKeepsOrder DEF OrderInv
  <2>3. Fresh'
    BY <2>1 DEF OrderInv, Fresh
  <2>4. AtEnd'
    <3> SUFFICES ASSUME NEW q \in Producers, pc'[q] \in {"bytes", "newline"},
                        NEW i \in 1..Len(out'), out'[i].rec = cur[q]
                 PROVE  /\ Rank(out'[i].part) < Rank(pc'[q])
                        /\ \A k \in i..Len(out') : out'[k].rec = cur[q]
      BY DEF AtEnd
    <3>1. q = p /\ pc'[q] = next
      BY <1>4
    <3>2. /\ Rank(out[i].part) < Rank(part)
          /\ \A k \in i..Len(out) : out[k].rec = cur[p]
      BY <2>1, <3>1, <1>5
    <3>3. Rank(out[i].part) \in Nat /\ Rank(part) \in Nat /\ Rank(next) \in Nat
      <4>1. out[i].part \in Parts
        BY <2>1, FieldTypes
      <4> QED BY SMTT(30), <4>1, <3>1 DEF Parts
    <3> QED BY SMTT(30), <2>1, <3>1, <3>2, <3>3
  <2> QED BY <1>3, <2>2, <2>3, <2>4 DEF OrderInv
<1> QED BY <1>2, <1>8, <1>9

(* A step that adds nothing to the file, but may cut it, keeps the order   *)
(* if no record and no place in mid-append changes under it.               *)
LEMMA CutKeepsOrderInv ==
    ASSUME TypeOK, TypeOK', OrderInv, Cut, CallInv',
           UNCHANGED <<cur, seq>>,
           \A q \in Producers :
               /\ pc'[q] \in {"bytes", "newline"} => pc'[q] = pc[q]
               /\ pc'[q] \in {"lock", "header"} => pc[q] \in {"lock", "header"}
    PROVE  OrderInv'
<1>1. \A i \in 1..Len(out') : i \in 1..Len(out) /\ out'[i] = out[i]
  BY DEF Cut, TypeOK
<1>2. NoInterleaving' /\ ProducerOrder'
  BY CutKeepsOrder DEF OrderInv, TypeOK
<1>3. Fresh'
  BY <1>1 DEF OrderInv, Fresh
<1>4. AtEnd'
  <2> SUFFICES ASSUME NEW q \in Producers, pc'[q] \in {"bytes", "newline"},
                      NEW i \in 1..Len(out'), out'[i].rec = cur[q]
               PROVE  /\ Rank(out'[i].part) < Rank(pc'[q])
                      /\ \A k \in i..Len(out') : out'[k].rec = cur[q]
    BY DEF AtEnd
  <2>1. /\ Rank(out[i].part) < Rank(pc[q])
        /\ \A k \in i..Len(out) : out[k].rec = cur[q]
    BY <1>1 DEF OrderInv, AtEnd
  <2>2. \A k \in i..Len(out') : k \in 1..Len(out') /\ k \in i..Len(out)
    BY FieldTypes DEF Cut
  <2> QED BY <2>1, <2>2, <1>1
<1> QED BY <1>2, <1>3, <1>4 DEF OrderInv

LEMMA OrderInductive ==
    ASSUME TypeOK, TypeOK', MutualExclusion, OrderInv, [Next]_vars
    PROVE  OrderInv'
<1>1. CASE Open
  <2>1. out' = << >> /\ Len(out') = 0
    BY <1>1 DEF Open
  <2>2. CallInv'
    BY <1>1 DEF Open, OrderInv, CallInv, Appending
  <2> QED BY <2>1, <2>2 DEF OrderInv, Fresh, AtEnd, NoInterleaving, ProducerOrder
<1>2. CASE Close
  <2>1. Cut
    BY <1>2, DrainOutcome DEF Close
  <2>2. CallInv'
    BY <1>2 DEF Close, Quiescent, OrderInv, CallInv
  <2> QED BY <1>2, <2>1, <2>2, CutKeepsOrderInv DEF Close
<1>3. CASE Crash
  <2>1. Cut
    BY <1>3, SubSeqProperties DEF Crash, Cut, TypeOK
  <2>2. CallInv'
    BY <1>3 DEF Crash, OrderInv, CallInv, Appending
  <2> QED BY <1>3, <2>1, <2>2, CutKeepsOrderInv DEF Crash
<1>4. ASSUME NEW p \in Producers, NEW m \in Msgs, Call(p, m)
      PROVE  OrderInv'
  <2>1. CallInv'
    BY <1>4 DEF Call, OrderInv, CallInv, Appending, TypeOK
  <2>2. Fresh'
    <3> SUFFICES ASSUME NEW q \in Producers, NEW i \in 1..Len(out),
                        out[i].rec.prod = q
                 PROVE  /\ out[i].rec.seq < seq'[q]
                        /\ pc'[q] \in {"lock", "header"} =>
                              out[i].rec.seq < cur'[q].seq
      BY <1>4 DEF Call, Fresh
    <3>1. out[i].rec.seq < seq[q]
      BY DEF OrderInv, Fresh
    <3>2. CASE q = p
      <4>1. cur'[p].seq = seq[p] /\ seq'[p] = seq[p] + 1
        BY <1>4 DEF Call, TypeOK
      <4> QED BY <3>1, <3>2, <4>1, FieldTypes
    <3>3. CASE q # p
      <4>1. cur'[q] = cur[q] /\ seq'[q] = seq[q] /\ pc'[q] = pc[q]
        BY <1>4, <3>3 DEF Call, TypeOK
      <4> QED BY <3>1, <4>1 DEF OrderInv, Fresh
    <3> QED BY <3>2, <3>3
  <2>3. AtEnd'
    BY <1>4 DEF Call, OrderInv, AtEnd, TypeOK
  <2>4. NoInterleaving' /\ ProducerOrder'
    BY <1>4 DEF Call, OrderInv, NoInterleaving, ProducerOrder, SameRecord
  <2> QED BY <2>1, <2>2, <2>3, <2>4 DEF OrderInv
<1>5. ASSUME NEW p \in Producers, CallFlush(p) \/ Acquire(p) \/ Unlock(p)
      PROVE  OrderInv'
  <2>1. Cut
    BY <1>5, FieldTypes DEF CallFlush, Acquire, Unlock, Cut
  <2>2. CallInv'
    BY <1>5 DEF CallFlush, Acquire, Unlock, OrderInv, CallInv, Appending, TypeOK
  <2> QED BY <1>5, <2>1, <2>2, CutKeepsOrderInv
             DEF CallFlush, Acquire, Unlock, TypeOK
<1>6. ASSUME NEW p \in Producers, Header(p)
      PROVE  OrderInv'
  <2>1. PICK next \in {"bytes", "newline"} : pc' = [pc EXCEPT ![p] = next]
    BY <1>6 DEF Header
  <2>2. /\ next \in PCs /\ "header" \in Parts /\ Rank("header") < Rank(next)
        /\ Len(out) + 1 \in 0..Len(out) + 1
    BY RankValues, FieldTypes DEF PCs, Parts
  <2>3. /\ pc[p] = "header" /\ Put(Piece(cur[p], "header"), Len(out) + 1)
        /\ UNCHANGED <<life, lock, cur, seq>>
    BY <1>6 DEF Header
  <2> QED BY <2>1, <2>2, <2>3, PutKeepsOrder
<1>7. ASSUME NEW p \in Producers, Bytes(p)
      PROVE  OrderInv'
  <2>1. /\ "newline" \in PCs /\ "bytes" \in Parts
        /\ Rank("bytes") < Rank("newline") /\ Len(out) + 1 \in 0..Len(out) + 1
    BY RankValues, FieldTypes DEF PCs, Parts
  <2>2. /\ pc[p] = "bytes" /\ Put(Piece(cur[p], "bytes"), Len(out) + 1)
        /\ pc' = [pc EXCEPT ![p] = "newline"]
        /\ UNCHANGED <<life, lock, cur, seq>>
    BY <1>7 DEF Bytes
  <2> QED BY <2>1, <2>2, PutKeepsOrder
<1>8. ASSUME NEW p \in Producers, Newline(p)
      PROVE  OrderInv'
  <2>1. "fflush" \in PCs /\ "newline" \in Parts /\ Len(out) \in 0..Len(out) + 1
    BY FieldTypes DEF PCs, Parts
  <2>2. /\ pc[p] = "newline" /\ Put(Piece(cur[p], "newline"), Len(out))
        /\ pc' = [pc EXCEPT ![p] = "fflush"]
        /\ UNCHANGED <<life, lock, cur, seq>>
    BY <1>8 DEF Newline
  <2> QED BY <2>1, <2>2, PutKeepsOrder
<1>9. ASSUME NEW p \in Producers, Fflush(p)
      PROVE  OrderInv'
  <2>1. Cut
    BY <1>9, DrainOutcome DEF Fflush
  <2>2. CallInv'
    BY <1>9 DEF Fflush, OrderInv, CallInv, Appending, TypeOK
  <2> QED BY <1>9, <2>1, <2>2, CutKeepsOrderInv DEF Fflush, TypeOK
<1>10. CASE UNCHANGED vars
  BY <1>10 DEF vars, OrderInv, CallInv, Fresh, AtEnd, NoInterleaving,
               ProducerOrder, SameRecord
<1> QED BY <1>1, <1>2, <1>3, <1>4, <1>5, <1>6, <1>7, <1>8, <1>9, <1>10
           DEF Next, Step

LEMMA OrderAlways == Spec => []OrderInv
<1>1. Init => OrderInv
  BY DEF Init, OrderInv, CallInv, Fresh, AtEnd, NoInterleaving, ProducerOrder,
         Appending
<1> QED BY <1>1, OrderInductive, TypeCorrect, Exclusion, PTL DEF Spec

(* "guarded by a mutex so concurrent producers cannot corrupt it": for any *)
(* number of threads and appends, crashes and refused writes included, the *)
(* pieces of a record are never mixed with those of another.               *)
THEOREM NoMixing == Spec => []NoInterleaving
<1>1. OrderInv => NoInterleaving
  BY DEF OrderInv
<1> QED BY <1>1, OrderAlways, PTL

(* The records of one producer are in the file in the order of its calls.  *)
THEOREM InOrder == Spec => []ProducerOrder
<1>1. OrderInv => ProducerOrder
  BY DEF OrderInv
<1> QED BY <1>1, OrderAlways, PTL

(***************************************************************************)
(* Whole records and durability, on a disk that takes every write          *)
(***************************************************************************)

(* What the file ends with, seen from the statement an append is at.       *)
Chain ==
    /\ out # << >> => out[1].part = "header"
    /\ \A i \in 1..Len(out) - 1 : Follows(out[i], out[i + 1])

EndsWith(p) ==
    /\ pc[p] = "bytes" => /\ out # << >> /\ cur[p].len # 0
                         /\ out[Len(out)] = Piece(cur[p], "header")
    /\ pc[p] = "newline" => /\ out # << >>
                           /\ out[Len(out)] = Piece(cur[p],
                                 IF cur[p].len = 0 THEN "header" ELSE "bytes")

MidRecord == \E p \in Producers : pc[p] \in {"bytes", "newline"}

TornInv ==
    /\ Chain
    /\ \A p \in Producers : EndsWith(p)
    /\ (life # "crashed" /\ out # << >> /\ ~MidRecord)
          => out[Len(out)].part = "newline"

(* A piece that may follow the last one keeps the chain.                   *)
LEMMA GrownKeepsChain ==
    ASSUME TypeOK, TypeOK', Chain, NEW e \in Pieces, Grown(e),
           out = << >> => e.part = "header",
           out # << >> => Follows(out[Len(out)], e)
    PROVE  Chain' /\ out' # << >> /\ out'[Len(out')] = e
<1> DEFINE N == Len(out)
<1>1. /\ N \in Nat /\ Len(out') = N + 1 /\ out'[N + 1] = e
      /\ \A i \in 1..N : out'[i] = out[i]
      /\ (out = << >>) <=> (N = 0)
      /\ out' # << >>
  <2>1. N \in Nat /\ ((out = << >>) <=> (N = 0))
    BY EmptySeq DEF TypeOK
  <2>2. Len(out') = N + 1 /\ out'[N + 1] = e /\ \A i \in 1..N : out'[i] = out[i]
    BY DEF Grown
  <2>3. out' # << >>
    BY <2>1, <2>2
  <2> QED BY <2>1, <2>2, <2>3
<1> HIDE DEF N
<1>2. out'[1].part = "header"
  <2>1. CASE N = 0
    BY <2>1, <1>1
  <2>2. CASE N # 0
    BY <2>2, <1>1 DEF Chain, N
  <2> QED BY <2>1, <2>2
<1>3. ASSUME NEW i \in 1..N
      PROVE  Follows(out'[i], out'[i + 1])
  <2>1. CASE i = N
    <3>1. out # << >>
      BY <2>1, <1>1
    <3>2. Follows(out[N], e)
      BY <3>1 DEF N
    <3>3. out'[i] = out[N] /\ out'[i + 1] = e
      BY <2>1, <1>1
    <3> QED BY <3>2, <3>3
  <2>2. CASE i # N
    <3>1. i \in 1..N - 1 /\ i + 1 \in 1..N
      BY <2>2, <1>1
    <3>2. Follows(out[i], out[i + 1])
      BY <3>1 DEF Chain, N
    <3>3. out'[i] = out[i] /\ out'[i + 1] = out[i + 1]
      BY <3>1, <1>1
    <3> QED BY <3>2, <3>3
  <2> QED BY <2>1, <2>2
<1>4. Len(out') - 1 = N
  BY <1>1
<1> QED BY <1>1, <1>2, <1>3, <1>4 DEF Chain

(* While p holds the mutex no other thread is in mid-record.               *)
LEMMA OthersAreOut ==
    ASSUME TypeOK, MutualExclusion, NEW p \in Producers, pc[p] \in Holding
    PROVE  \A q \in Producers : q # p => pc[q] \notin Holding
BY DEF MutualExclusion

(* A step that leaves the file and every place in mid-record alone.        *)
LEMMA SameFileKeepsTorn ==
    ASSUME TypeOK, TornInv, out' = out,
           life' = "crashed" <=> life = "crashed",
           \A q \in Producers :
               /\ pc'[q] \in {"bytes", "newline"} <=> pc[q] \in {"bytes", "newline"}
               /\ pc[q] \in {"bytes", "newline"} => pc'[q] = pc[q] /\ cur'[q] = cur[q]
    PROVE  TornInv'
<1>1. Chain'
  BY DEF TornInv, Chain
<1>2. \A q \in Producers : EndsWith(q)'
  BY DEF TornInv, EndsWith
<1>3. MidRecord' <=> MidRecord
  BY DEF MidRecord
<1> QED BY <1>1, <1>2, <1>3 DEF TornInv

(* p, which holds the mutex, puts the next piece of its record.            *)
LEMMA PutKeepsTorn ==
    ASSUME TypeOK, TypeOK', MutualExclusion, TornInv, ~DiskErrors,
           NEW p \in Producers, NEW part \in Parts, NEW next \in PCs,
           NEW spill \in 0..Len(out) + 1,
           pc[p] = part,
           Put(Piece(cur[p], part), spill),
           pc' = [pc EXCEPT ![p] = next],
           UNCHANGED <<life, lock, cur, seq>>,
           out = << >> => part = "header",
           out # << >> => Follows(out[Len(out)], Piece(cur[p], part)),
           next = "bytes" => part = "header" /\ cur[p].len # 0,
           next = "newline" => part = IF cur[p].len = 0 THEN "header" ELSE "bytes",
           next \notin {"bytes", "newline"} => part = "newline"
    PROVE  TornInv'
<1>1. Piece(cur[p], part) \in Pieces /\ Piece(cur[p], part).part = part
  BY PieceType DEF Piece
<1>2. Grown(Piece(cur[p], part))
  BY <1>1, PutOutcome
<1>3. Chain' /\ out' # << >> /\ out'[Len(out')] = Piece(cur[p], part)
  BY <1>1, <1>2, GrownKeepsChain DEF TornInv
<1>4. pc[p] \in Holding
  BY DEF Holding, PCs, Parts
<1>5. \A q \in Producers : q # p => pc'[q] \notin {"bytes", "newline"}
  BY <1>4, OthersAreOut DEF Holding, PCs, TypeOK
<1>6. pc'[p] = next /\ cur' = cur
  BY DEF TypeOK
<1>7. \A q \in Producers : EndsWith(q)'
  <2> SUFFICES ASSUME NEW q \in Producers
               PROVE  EndsWith(q)'
    OBVIOUS
  <2>1. CASE q = p
    BY <2>1, <1>3, <1>6 DEF EndsWith
  <2>2. CASE q # p
    BY <2>2, <1>5 DEF EndsWith
  <2> QED BY <2>1, <2>2
<1>8. ~MidRecord' => out'[Len(out')].part = "newline"
  BY <1>1, <1>3, <1>6 DEF MidRecord
<1> QED BY <1>3, <1>7, <1>8 DEF TornInv

LEMMA TornInductive ==
    ASSUME TypeOK, TypeOK', MutualExclusion, OrderInv, TornInv, ~DiskErrors,
           [Next]_vars
    PROVE  TornInv'
<1>1. CASE Open
  <2>1. out' = << >> /\ Len(out') = 0
    BY <1>1 DEF Open
  <2>2. \A q \in Producers : pc'[q] = "idle"
    BY <1>1 DEF Open, OrderInv, CallInv
  <2> QED BY <2>1, <2>2 DEF TornInv, Chain, EndsWith
<1>2. CASE Close
  <2>1. out' = out
    BY <1>2, DrainOutcome DEF Close
  <2> QED BY <1>2, <2>1, SameFileKeepsTorn DEF Close
<1>3. CASE Crash
  <2>1. Len(out') = ondisk /\ \A i \in 1..ondisk : out'[i] = out[i]
    BY <1>3, SubSeqProperties DEF Crash, TypeOK
  <2>2. ondisk \in Nat /\ ondisk <= Len(out) /\ Len(out) \in Nat
    BY FieldTypes DEF TypeOK
  <2>3. Chain'
    <3>1. out' # << >> => out'[1].part = "header"
      <4>1. out' # << >> => ondisk # 0
        BY <2>1, EmptySeq DEF TypeOK
      <4>2. ondisk # 0 => out # << >> /\ out'[1] = out[1]
        BY <2>1, <2>2
      <4> QED BY <4>1, <4>2 DEF TornInv, Chain
    <3>2. ASSUME NEW i \in 1..Len(out') - 1
          PROVE  Follows(out'[i], out'[i + 1])
      <4>1. i \in 1..Len(out) - 1 /\ i \in 1..ondisk /\ i + 1 \in 1..ondisk
        BY <2>1, <2>2
      <4> QED BY <4>1, <2>1 DEF TornInv, Chain
    <3> QED BY <3>1, <3>2 DEF Chain
  <2> QED BY <1>3, <2>3 DEF Crash, TornInv, EndsWith
<1>4. ASSUME NEW p \in Producers, NEW m \in Msgs, Call(p, m)
      PROVE  TornInv'
  BY <1>4, SameFileKeepsTorn DEF Call, TypeOK
<1>5. ASSUME NEW p \in Producers, CallFlush(p) \/ Acquire(p) \/ Unlock(p)
      PROVE  TornInv'
  BY <1>5, SameFileKeepsTorn DEF CallFlush, Acquire, Unlock, TypeOK
<1>6. ASSUME NEW p \in Producers, Header(p)
      PROVE  TornInv'
  <2>1. /\ pc[p] = "header" /\ Put(Piece(cur[p], "header"), Len(out) + 1)
        /\ UNCHANGED <<life, lock, cur, seq>>
    BY <1>6 DEF Header
  <2>2. PICK next \in {"bytes", "newline"} :
           /\ pc' = [pc EXCEPT ![p] = next]
           /\ next = "bytes" => cur[p].len # 0
           /\ next = "newline" => cur[p].len = 0
    BY <1>6 DEF Header
  <2>3. /\ next \in PCs /\ "header" \in Parts /\ pc[p] \in Holding
        /\ Len(out) + 1 \in 0..Len(out) + 1
    BY <2>1, FieldTypes DEF PCs, Parts, Holding
  <2>4. ~MidRecord /\ life = "open"
    BY <2>1, <2>3, OthersAreOut
       DEF MidRecord, Holding, PCs, OrderInv, CallInv
  <2>5. out # << >> => Follows(out[Len(out)], Piece(cur[p], "header"))
    BY <2>4 DEF TornInv, Follows, Piece
  <2> QED BY <2>1, <2>2, <2>3, <2>5, PutKeepsTorn
<1>7. ASSUME NEW p \in Producers, Bytes(p)
      PROVE  TornInv'
  <2>1. /\ pc[p] = "bytes" /\ Put(Piece(cur[p], "bytes"), Len(out) + 1)
        /\ pc' = [pc EXCEPT ![p] = "newline"]
        /\ UNCHANGED <<life, lock, cur, seq>>
    BY <1>7 DEF Bytes
  <2>2. /\ "newline" \in PCs /\ "bytes" \in Parts
        /\ Len(out) + 1 \in 0..Len(out) + 1
    BY FieldTypes DEF PCs, Parts
  <2>3. out # << >> /\ cur[p].len # 0 /\ out[Len(out)] = Piece(cur[p], "header")
    BY <2>1 DEF TornInv, EndsWith
  <2>4. Follows(out[Len(out)], Piece(cur[p], "bytes"))
    BY <2>3 DEF Follows, Piece
  <2> QED BY <2>1, <2>2, <2>3, <2>4, PutKeepsTorn
<1>8. ASSUME NEW p \in Producers, Newline(p)
      PROVE  TornInv'
  <2>1. /\ pc[p] = "newline" /\ Put(Piece(cur[p], "newline"), Len(out))
        /\ pc' = [pc EXCEPT ![p] = "fflush"]
        /\ UNCHANGED <<life, lock, cur, seq>>
    BY <1>8 DEF Newline
  <2>2. /\ "fflush" \in PCs /\ "newline" \in Parts
        /\ Len(out) \in 0..Len(out) + 1
    BY FieldTypes DEF PCs, Parts
  <2>3. /\ out # << >>
        /\ out[Len(out)] = Piece(cur[p], IF cur[p].len = 0 THEN "header"
                                                          ELSE "bytes")
    BY <2>1 DEF TornInv, EndsWith
  <2>4. Follows(out[Len(out)], Piece(cur[p], "newline"))
    BY <2>3 DEF Follows, Piece
  <2> QED BY <2>1, <2>2, <2>3, <2>4, PutKeepsTorn
<1>9. ASSUME NEW p \in Producers, Fflush(p)
      PROVE  TornInv'
  <2>1. out' = out
    BY <1>9, DrainOutcome DEF Fflush
  <2> QED BY <1>9, <2>1, SameFileKeepsTorn DEF Fflush, TypeOK
<1>10. CASE UNCHANGED vars
  BY <1>10, SameFileKeepsTorn DEF vars
<1> QED BY <1>1, <1>2, <1>3, <1>4, <1>5, <1>6, <1>7, <1>8, <1>9, <1>10
           DEF Next, Step

LEMMA TornAlways == Spec => [](~DiskErrors => TornInv)
<1>1. Init => TornInv
  BY EmptySeq DEF Init, TornInv, Chain, EndsWith
<1>2. TypeOK /\ TypeOK' /\ MutualExclusion /\ OrderInv
        /\ (~DiskErrors => TornInv) /\ [Next]_vars
      => (~DiskErrors => TornInv)'
  BY TornInductive
<1> QED BY <1>1, <1>2, TypeCorrect, Exclusion, OrderAlways, PTL DEF Spec

(* On a disk that takes every write the file is, at every moment and after *)
(* every crash, whole lines with at most the last one unfinished, for any  *)
(* number of threads and messages, empty ones included.                    *)
THEOREM WholeRecords == Spec => []NoTornRecord
<1>1. TypeOK /\ MutualExclusion /\ (~DiskErrors => TornInv) => NoTornRecord
  <2> SUFFICES ASSUME TypeOK, MutualExclusion, ~DiskErrors, TornInv
               PROVE  NoTornRecord
    BY DEF NoTornRecord
  <2>1. lock = NoOne => ~MidRecord
    BY LogStoreConstants DEF MutualExclusion, MidRecord, Holding, PCs
  <2> QED BY <2>1 DEF NoTornRecord, TornInv, Chain
<1> QED BY <1>1, TypeCorrect, Exclusion, TornAlways, PTL

(***************************************************************************)
(* Durability                                                              *)
(***************************************************************************)

(* The newline of record n of p, and so the record, is with the kernel.    *)
Written(p, n) ==
    \E i \in 1..ondisk : /\ out[i].part = "newline"
                         /\ out[i].rec.prod = p
                         /\ out[i].rec.seq = n

(* Returned appends are with the kernel; so is one that has only the mutex *)
(* to give back; one that is about to flush is the end of the file.        *)
DurableFor(p) ==
    /\ \A n \in 0..Returned(p) - 1 : Written(p, n)
    /\ pc[p] = "fflush" => out # << >> /\ out[Len(out)] = Piece(cur[p], "newline")
    /\ pc[p] = "unlock" => Written(p, cur[p].seq)

DurableInv == life \in {"open", "closed"} => \A p \in Producers : DurableFor(p)

(* The file only grows, and so does the kernel's part of it.               *)
OnlyGrows ==
    /\ ondisk' \in Nat /\ ondisk' >= ondisk
    /\ Len(out') >= Len(out)
    /\ \A i \in 1..Len(out) : out'[i] = out[i]

LEMMA WrittenStays ==
    ASSUME TypeOK, OnlyGrows, NEW p \in Producers, NEW n, Written(p, n)
    PROVE  Written(p, n)'
<1>1. PICK i \in 1..ondisk : /\ out[i].part = "newline"
                             /\ out[i].rec.prod = p
                             /\ out[i].rec.seq = n
  BY DEF Written
<1>2. i \in 1..Len(out) /\ i \in 1..ondisk'
  BY FieldTypes DEF OnlyGrows, TypeOK
<1>3. out'[i] = out[i]
  BY <1>2 DEF OnlyGrows
<1> QED BY <1>1, <1>2, <1>3 DEF Written

(* What a thread was promised stays, unless the thread itself moves.       *)
LEMMA BystanderKeeps ==
    ASSUME TypeOK, OnlyGrows, NEW q \in Producers, DurableFor(q),
           pc'[q] = pc[q], cur'[q] = cur[q], seq'[q] = seq[q],
           pc[q] = "fflush" => out' = out
    PROVE  DurableFor(q)'
<1>1. Returned(q)' = Returned(q)
  BY DEF Returned
<1>2. \A n \in 0..Returned(q) - 1 : Written(q, n)'
  BY WrittenStays DEF DurableFor
<1>3. pc[q] = "unlock" => Written(q, cur[q].seq)'
  BY WrittenStays DEF DurableFor
<1>4. (pc[q] = "unlock" => Written(q, cur[q].seq))'
  BY <1>3 DEF Written
<1> QED BY <1>1, <1>2, <1>4 DEF DurableFor

LEMMA DurableInductive ==
    ASSUME TypeOK, TypeOK', MutualExclusion, OrderInv, DurableInv, ~DiskErrors,
           [Next]_vars
    PROVE  DurableInv'
<1>1. CASE Open
  <2> SUFFICES ASSUME NEW q \in Producers
               PROVE  DurableFor(q)'
    BY DEF DurableInv
  <2>1. pc'[q] = "idle" /\ seq'[q] = 0
    BY <1>1 DEF Open, OrderInv, CallInv
  <2>2. Returned(q)' = 0
    BY <2>1 DEF Returned
  <2> QED BY <2>1, <2>2 DEF DurableFor
<1>2. CASE Close
  <2>1. out' = out /\ ondisk' = Len(out)
    BY <1>2, DrainOutcome DEF Close
  <2>2. OnlyGrows
    BY <2>1, FieldTypes DEF OnlyGrows, TypeOK
  <2>3. ASSUME NEW q \in Producers
        PROVE  DurableFor(q)'
    BY <1>2, <2>1, <2>2, BystanderKeeps DEF Close, DurableInv
  <2> QED BY <2>3 DEF DurableInv
<1>3. CASE Crash
  BY <1>3 DEF Crash, DurableInv
<1>4. CASE UNCHANGED vars
  <2>1. OnlyGrows
    BY <1>4, FieldTypes DEF vars, OnlyGrows, TypeOK
  <2>2. ASSUME NEW q \in Producers, life \in {"open", "closed"}
        PROVE  DurableFor(q)'
    BY <1>4, <2>1, <2>2, BystanderKeeps DEF vars, DurableInv
  <2> QED BY <1>4, <2>2 DEF DurableInv, vars
<1>5. ASSUME NEW p \in Producers, pc[p] # "idle", Step(p)
      PROVE  DurableInv'
  <2>1. life = "open" /\ life' = "open"
    BY <1>5 DEF OrderInv, CallInv, Step, Acquire, Header, Bytes, Newline, Fflush,
                Unlock
  <2>2. DurableFor(p)
    BY <2>1 DEF DurableInv
  <2>3. /\ UNCHANGED <<cur, seq>>
        /\ \A q \in Producers : q # p => pc'[q] = pc[q]
    BY <1>5 DEF Step, Acquire, Header, Bytes, Newline, Fflush, Unlock, TypeOK
  <2>4. OnlyGrows
    <3>1. ASSUME NEW e \in Pieces, NEW spill \in 0..Len(out) + 1, Put(e, spill)
          PROVE  OnlyGrows
      BY <3>1, PutOutcome, FieldTypes DEF Grown, OnlyGrows, TypeOK
    <3>2. CASE Header(p) \/ Bytes(p) \/ Newline(p)
      <4>1. Len(out) + 1 \in 0..Len(out) + 1 /\ Len(out) \in 0..Len(out) + 1
        BY FieldTypes
      <4> QED BY <3>1, <3>2, <4>1, PieceType DEF Header, Bytes, Newline, Parts
    <3>3. CASE Fflush(p)
      BY <3>3, DrainOutcome, FieldTypes DEF Fflush, OnlyGrows, TypeOK
    <3>4. CASE Acquire(p) \/ Unlock(p)
      BY <3>4, FieldTypes DEF Acquire, Unlock, OnlyGrows, TypeOK
    <3> QED BY <1>5, <3>2, <3>3, <3>4 DEF Step
  <2>5. out' # out => pc[p] \in Holding
    <3>1. Fflush(p) => out' = out
      BY DrainOutcome DEF Fflush
    <3> QED BY <1>5, <3>1 DEF Step, Acquire, Unlock, Header, Bytes, Newline,
                              Holding, PCs
  <2>6. ASSUME NEW q \in Producers, q # p
        PROVE  DurableFor(q)'
    <3>1. pc[q] = "fflush" => out' = out
      BY <2>5, <2>6, OthersAreOut DEF Holding, PCs
    <3> QED BY <2>1, <2>3, <2>4, <2>6, <3>1, BystanderKeeps DEF DurableInv
  <2>7. DurableFor(p)'
    <3>1. \A n \in 0..Returned(p) - 1 : Written(p, n)'
      BY <2>2, <2>4, WrittenStays DEF DurableFor
    <3>2. CASE Acquire(p) \/ Header(p) \/ Bytes(p)
      <4>1. pc'[p] \notin {"fflush", "unlock"} /\ Returned(p)' = Returned(p)
        BY <3>2, <2>3 DEF Acquire, Header, Bytes, Returned, TypeOK
      <4> QED BY <3>1, <4>1 DEF DurableFor
    <3>3. CASE Newline(p)
      <4>1. pc'[p] = "fflush" /\ Returned(p)' = Returned(p)
        BY <3>3, <2>3 DEF Newline, Returned, TypeOK
      <4>2. Grown(Piece(cur[p], "newline"))
        <5>1. /\ Piece(cur[p], "newline") \in Pieces
              /\ Len(out) \in 0..Len(out) + 1
          BY PieceType, FieldTypes DEF Parts
        <5> QED BY <3>3, <5>1, PutOutcome DEF Newline
      <4>3. out' # << >> /\ out'[Len(out')] = Piece(cur[p], "newline")
        BY <4>2, FieldTypes DEF Grown
      <4>4. (out[Len(out)] = Piece(cur[p], "newline"))'
        BY <4>3, <2>3
      <4> QED BY <3>1, <4>1, <4>3, <4>4 DEF DurableFor
    <3>4. CASE Fflush(p)
      <4>1. out' = out /\ ondisk' = Len(out)
        BY <3>4, DrainOutcome DEF Fflush
      <4>2. Returned(p)' = Returned(p) /\ pc'[p] # "fflush"
        BY <3>4, <2>3 DEF Fflush, Returned, TypeOK
      <4>3. pc'[p] = "unlock" => Written(p, cur[p].seq)'
        <5> SUFFICES ASSUME pc'[p] = "unlock"
                     PROVE  Written(p, cur[p].seq)'
          OBVIOUS
        <5>1. pc[p] = "fflush"
          BY <3>4 DEF Fflush, TypeOK
        <5>2. out # << >> /\ out[Len(out)] = Piece(cur[p], "newline")
          BY <5>1, <2>2 DEF DurableFor
        <5>3. Len(out) \in 1..ondisk'
          BY <5>2, <4>1, EmptySeq, FieldTypes DEF TypeOK
        <5>4. out'[Len(out)].part = "newline" /\ out'[Len(out)].rec = cur[p]
          BY <5>2, <4>1 DEF Piece
        <5>5. cur[p].prod = p
          BY DEF OrderInv, CallInv
        <5> QED BY <5>3, <5>4, <5>5, <2>3 DEF Written
      <4>4. (Written(p, cur[p].seq))' <=> Written(p, cur[p].seq)'
        OBVIOUS
      <4> QED BY <3>1, <4>2, <4>3, <4>4 DEF DurableFor
    <3>5. CASE Unlock(p)
      <4>1. pc'[p] = "idle" /\ Returned(p)' = seq[p]
        BY <3>5, <2>3 DEF Unlock, Returned, TypeOK
      <4>2. CASE pc[p] = "flush_unlock"
        <5>1. Returned(p) = seq[p]
          BY <4>2 DEF Returned
        <5> QED BY <3>1, <4>1, <5>1 DEF DurableFor
      <4>3. CASE pc[p] = "unlock"
        <5>1. Returned(p) = seq[p] - 1 /\ seq[p] = cur[p].seq + 1
          BY <4>3 DEF Returned, OrderInv, CallInv, Appending
        <5>2. Written(p, cur[p].seq)'
          BY <4>3, <2>2, <2>3, <2>4, WrittenStays DEF DurableFor
        <5>3. \A n \in 0..seq[p] - 1 : n \in 0..Returned(p) - 1 \/ n = cur[p].seq
          BY <5>1, FieldTypes
        <5>4. Written(p, cur[p].seq)' => \A n : n = cur[p].seq => Written(p, n)'
          BY <2>3 DEF Written
        <5> QED BY <3>1, <4>1, <5>2, <5>3, <5>4 DEF DurableFor
      <4> QED BY <3>5, <4>2, <4>3 DEF Unlock
    <3> QED BY <1>5, <3>2, <3>3, <3>4, <3>5 DEF Step
  <2> QED BY <2>6, <2>7 DEF DurableInv
<1>6. ASSUME NEW p \in Producers,
             CallFlush(p) \/ \E m \in Msgs : Call(p, m)
      PROVE  DurableInv'
  <2>1. /\ life = "open" /\ out' = out /\ ondisk' = ondisk
        /\ pc[p] = "idle" /\ pc'[p] \in {"lock", "flush_lock"}
        /\ \A q \in Producers : q # p => /\ pc'[q] = pc[q] /\ cur'[q] = cur[q]
                                         /\ seq'[q] = seq[q]
    BY <1>6 DEF CallFlush, Call, TypeOK
  <2>2. OnlyGrows
    BY <2>1, FieldTypes DEF OnlyGrows, TypeOK
  <2>3. ASSUME NEW q \in Producers, q # p
        PROVE  DurableFor(q)'
    BY <2>1, <2>2, <2>3, BystanderKeeps DEF DurableInv
  <2>4. Returned(p)' = Returned(p)
    BY <1>6, FieldTypes DEF CallFlush, Call, Returned, TypeOK
  <2>5. \A n \in 0..Returned(p) - 1 : Written(p, n)'
    BY <2>1, <2>2, WrittenStays DEF DurableInv, DurableFor
  <2>6. DurableFor(p)'
    BY <2>1, <2>4, <2>5 DEF DurableFor
  <2> QED BY <2>3, <2>6 DEF DurableInv
<1>7. \A p \in Producers : Step(p) => pc[p] # "idle"
  BY DEF Step, Acquire, Header, Bytes, Newline, Fflush, Unlock
<1> QED BY <1>1, <1>2, <1>3, <1>4, <1>5, <1>6, <1>7 DEF Next

(* An append that returned is never lost by a crash of the process: for    *)
(* any number of threads, its record is complete in the kernel's file.     *)
THEOREM Durable == Spec => []ReturnedIsDurable
<1>1. Init => DurableInv
  BY DEF Init, DurableInv
<1>2. TypeOK /\ TypeOK' /\ MutualExclusion /\ OrderInv
        /\ (~DiskErrors => DurableInv) /\ [Next]_vars
      => (~DiskErrors => DurableInv)'
  BY DurableInductive
<1>3. (~DiskErrors => DurableInv) => ReturnedIsDurable
  BY DEF DurableInv, DurableFor, Written, ReturnedIsDurable
<1> QED BY <1>1, <1>2, <1>3, TypeCorrect, Exclusion, OrderAlways, PTL DEF Spec

(***************************************************************************)
(* Lines of a file                                                         *)
(***************************************************************************)
UpTo(ends, i) == {j \in ends : j <= i}
Ranked(ends) == [i \in ends |-> Cardinality(UpTo(ends, i))]

(* Every number up to the number of newlines is the rank of one of them.   *)
LEMMA Ranks ==
    ASSUME NEW n \in Nat, NEW ends \in SUBSET (1..n)
    PROVE  /\ IsFiniteSet(ends) /\ Cardinality(ends) \in Nat
           /\ \A i \in ends : Ranked(ends)[i] \in 1..Cardinality(ends)
           /\ \A i, j \in ends : i < j => Ranked(ends)[i] < Ranked(ends)[j]
           /\ \A k \in 1..Cardinality(ends) : \E i \in ends : Ranked(ends)[i] = k
<1>1. IsFiniteSet(1..n) /\ 1 \in Int /\ n \in Int
  BY FS_Interval
<1>2. IsFiniteSet(ends) /\ Cardinality(ends) \in Nat
  BY <1>1, FS_Subset, FS_CardinalityType
<1>3. ASSUME NEW S \in SUBSET ends
      PROVE  IsFiniteSet(S) /\ Cardinality(S) \in Nat /\ Cardinality(S) <= Cardinality(ends)
  BY <1>2, FS_Subset, FS_CardinalityType
<1>4. ASSUME NEW i \in ends
      PROVE  Ranked(ends)[i] \in 1..Cardinality(ends)
  <2>1. UpTo(ends, i) \in SUBSET ends /\ i \in UpTo(ends, i)
    BY DEF UpTo
  <2>2. Cardinality(UpTo(ends, i)) # 0
    BY <2>1, <1>3, FS_EmptySet
  <2>3. Ranked(ends)[i] = Cardinality(UpTo(ends, i))
    BY DEF Ranked
  <2> QED BY <2>1, <2>2, <2>3, <1>2, <1>3
<1>5. ASSUME NEW i \in ends, NEW j \in ends, i < j
      PROVE  Ranked(ends)[i] < Ranked(ends)[j]
  <2> DEFINE a == UpTo(ends, i)
             b == UpTo(ends, j)
  <2>1. a \in SUBSET ends /\ b \in SUBSET ends /\ a \subseteq b \ {j} /\ j \in b
    <3>1. \A x \in ends : x \in Int
      OBVIOUS
    <3>2. \A x \in ends : x <= i => x <= j /\ x # j
      BY <1>5, <3>1
    <3>3. j <= j
      BY <3>1
    <3>4. \A x : x \in a <=> x \in ends /\ x <= i
      BY DEF UpTo
    <3>5. \A x : x \in b <=> x \in ends /\ x <= j
      BY DEF UpTo
    <3> HIDE DEF a, b
    <3> QED BY <3>2, <3>3, <3>4, <3>5
  <2>2. Ranked(ends)[i] = Cardinality(a) /\ Ranked(ends)[j] = Cardinality(b)
    BY DEF Ranked
  <2> HIDE DEF a, b
  <2>3. IsFiniteSet(b \ {j}) /\ Cardinality(b \ {j}) = Cardinality(b) - 1
    BY <2>1, <1>3, FS_RemoveElement
  <2>4. Cardinality(a) <= Cardinality(b \ {j})
    BY <2>1, <2>3, FS_Subset
  <2>5. Cardinality(a) \in Nat /\ Cardinality(b) \in Nat
    BY <2>1, <1>3
  <2> QED BY <2>2, <2>3, <2>4, <2>5
<1>6. ASSUME NEW k \in 1..Cardinality(ends)
      PROVE  \E i \in ends : Ranked(ends)[i] = k
  <2> DEFINE m == Cardinality(ends)
             f == Ranked(ends)
  <2>1. f \in [ends -> 1..m]
    BY <1>4 DEF Ranked
  <2>2. \A i, j \in ends : f[i] = f[j] => i = j
    <3>1. \A i \in ends : f[i] \in Int /\ i \in Int
      BY <1>4
    <3> QED BY <1>5, <3>1
  <2> HIDE DEF f
  <2>3. f \in Injection(ends, 1..m)
    BY <2>1, <2>2, Zenon DEF Injection, IsInjective
  <2>4. IsFiniteSet(1..m) /\ Cardinality(1..m) = m
    BY <1>2, FS_Interval
  <2>5. f \in Surjection(ends, 1..m)
    BY <2>3, <2>4, FS_Injection
  <2> QED BY <2>5 DEF Surjection, f
<1> QED BY <1>2, <1>4, <1>5, <1>6

LEMMA NthOfEnds ==
    ASSUME NEW n \in Nat, NEW ends \in SUBSET (1..n), NEW k \in 1..Cardinality(ends)
    PROVE  Nth(ends, k) \in ends /\ Ranked(ends)[Nth(ends, k)] = k
<1>1. \E i \in ends : Ranked(ends)[i] = k
  BY Ranks
<1>2. \A i \in ends : Ranked(ends)[i] = Cardinality({j \in ends : j <= i})
  BY DEF Ranked, UpTo
<1>3. \E i \in ends : Cardinality({j \in ends : j <= i}) = k
  BY <1>1, <1>2
<1> QED BY <1>2, <1>3 DEF Nth

(* A file with the same newlines, and the same pieces at them, has the     *)
(* same lines.                                                             *)
LEMMA SameLines ==
    ASSUME NEW f, NEW g, Len(f) \in Nat, Newlines(g) = Newlines(f),
           \A i \in Newlines(f) : g[i] = f[i]
    PROVE  Lines(g) = Lines(f)
<1> DEFINE ends == Newlines(f)
<1>1. ends \in SUBSET (1..Len(f))
  BY DEF Newlines
<1> HIDE DEF ends
<1>2. \A k \in 1..Cardinality(ends) : g[Nth(ends, k)] = f[Nth(ends, k)]
  BY <1>1, NthOfEnds DEF ends
<1>3. /\ Lines(f) = [k \in 1..Cardinality(ends) |-> f[Nth(ends, k)].rec]
      /\ Lines(g) = [k \in 1..Cardinality(ends) |-> g[Nth(ends, k)].rec]
  BY DEF Lines, ends
<1> QED BY <1>2, <1>3

(* One more newline, behind the others, is one more line at the end.       *)
LEMMA OneMoreLine ==
    ASSUME NEW f, NEW g, Len(f) \in Nat, NEW n \in Nat \ {0},
           \A i \in Newlines(f) : i < n /\ g[i] = f[i],
           Newlines(g) = Newlines(f) \cup {n}
    PROVE  Lines(g) = Append(Lines(f), g[n].rec)
<1> DEFINE ends == Newlines(f)
           more == Newlines(g)
           m == Cardinality(ends)
<1>1. ends \in SUBSET (1..Len(f)) /\ ends \in SUBSET (1..n)
  BY DEF Newlines
<1>2. more = ends \cup {n} /\ \A i \in ends : i < n /\ g[i] = f[i]
  OBVIOUS
<1>3. Lines(f) = [k \in 1..m |-> f[Nth(ends, k)].rec]
  BY DEF Lines
<1>4. Lines(g) = [k \in 1..Cardinality(more) |-> g[Nth(more, k)].rec]
  BY DEF Lines
<1> HIDE DEF ends, more
<1>5. more \in SUBSET (1..n) /\ n \notin ends
  BY <1>1, <1>2
<1>6. IsFiniteSet(ends) /\ m \in Nat
  BY <1>1, Ranks
<1>7. Cardinality(more) = m + 1
  BY <1>2, <1>5, <1>6, FS_AddElement
<1>8. \A i \in ends : Ranked(more)[i] = Ranked(ends)[i]
  <2>1. \A i \in ends : UpTo(more, i) = UpTo(ends, i)
    BY <1>1, <1>2 DEF UpTo
  <2> QED BY <1>2, <2>1 DEF Ranked
<1>9. Ranked(more)[n] = m + 1
  <2>1. UpTo(more, n) = more
    <3>1. \A i \in more : i <= n
      BY <1>5
    <3> QED BY <3>1, Zenon DEF UpTo
  <2> QED BY <1>2, <1>7, <2>1 DEF Ranked
<1>10. ASSUME NEW k \in 1..m
       PROVE  Nth(more, k) = Nth(ends, k) /\ Nth(more, k) \in ends
  <2>1. Nth(ends, k) \in ends /\ Ranked(ends)[Nth(ends, k)] = k
    BY <1>1, NthOfEnds
  <2>2. k \in 1..Cardinality(more)
    BY <1>6, <1>7
  <2>3. Nth(more, k) \in more /\ Ranked(more)[Nth(more, k)] = k
    BY <1>5, <2>2, NthOfEnds
  <2>4. Nth(more, k) \in ends
    BY <1>2, <1>6, <1>9, <2>3
  <2>5. Ranked(ends)[Nth(more, k)] = k
    BY <1>8, <2>3, <2>4
  <2>6. \A i, j \in ends : i < j => Ranked(ends)[i] < Ranked(ends)[j]
    BY <1>1, Ranks
  <2>7. \A i \in ends : i \in Int
    BY <1>1
  <2> DEFINE a == Nth(ends, k)
             b == Nth(more, k)
  <2> HIDE DEF a, b
  <2>8. a \in ends /\ b \in ends /\ Ranked(ends)[a] = k /\ Ranked(ends)[b] = k
    BY <2>1, <2>4, <2>5 DEF a, b
  <2>9. ~(a < b) /\ ~(b < a)
    BY <2>6, <2>8
  <2>10. a = b
    BY <2>7, <2>8, <2>9
  <2> QED BY <2>4, <2>10 DEF a, b
<1>11. Nth(more, m + 1) = n
  <2>1. m + 1 \in 1..Cardinality(more)
    BY <1>6, <1>7
  <2>2. Nth(more, m + 1) \in more /\ Ranked(more)[Nth(more, m + 1)] = m + 1
    BY <1>5, <2>1, NthOfEnds
  <2>3. \A i \in ends : Ranked(more)[i] \in 1..m
    BY <1>1, <1>8, Ranks
  <2>4. \A i \in ends : Ranked(more)[i] # m + 1
    BY <1>6, <2>3
  <2> QED BY <1>2, <2>2, <2>4, Zenon
<1>12. \A k \in 1..m : g[Nth(more, k)] = f[Nth(ends, k)]
  BY <1>2, <1>10
<1>13. Len(Lines(f)) = m /\ \A k \in 1..m : Lines(f)[k] = f[Nth(ends, k)].rec
  BY <1>3, <1>6
<1>14. Append(Lines(f), g[n].rec)
         = [k \in 1..m + 1 |-> IF k = m + 1 THEN g[n].rec ELSE Lines(f)[k]]
  BY <1>3, <1>6, <1>13
<1>15. Lines(g) = [k \in 1..m + 1 |-> IF k = m + 1 THEN g[n].rec ELSE Lines(f)[k]]
  <2>1. \A k \in 1..m + 1 :
           g[Nth(more, k)].rec = IF k = m + 1 THEN g[n].rec ELSE Lines(f)[k]
    <3>1. \A k \in 1..m + 1 : k = m + 1 \/ k \in 1..m
      BY <1>6
    <3> QED BY <1>6, <1>11, <1>12, <1>13, <3>1
  <2> QED BY <1>4, <1>7, <2>1
<1> QED BY <1>14, <1>15

-----------------------------------------------------------------------------
(***************************************************************************)
(* The refinement                                                          *)
(***************************************************************************)

(* While an append is about to flush, its newline is the last piece, and   *)
(* still with stdio; stdio holds no other newline.                         *)
CommitInv ==
    /\ \A p \in Producers : pc[p] = "fflush" =>
          ondisk < Len(out) /\ out[Len(out)] = Piece(cur[p], "newline")
    /\ \A i \in ondisk + 1..Len(out) : out[i].part = "newline" =>
          i = Len(out) /\ \E p \in Producers : pc[p] = "fflush"

(* What the kernel has it keeps.                                           *)
KernelKeeps == ondisk' >= ondisk /\ \A i \in 1..ondisk : out'[i] = out[i]

LEMMA NewlinesOfPart ==
    ASSUME NEW S, NEW f \in Seq(S), NEW n \in 0..Len(f)
    PROVE  /\ Len(SubSeq(f, 1, n)) = n
           /\ \A i \in 1..n : SubSeq(f, 1, n)[i] = f[i]
           /\ Newlines(SubSeq(f, 1, n)) = {i \in 1..n : f[i].part = "newline"}
<1>1. Len(SubSeq(f, 1, n)) = n /\ \A i \in 1..n : SubSeq(f, 1, n)[i] = f[i]
  BY SubSeqProperties
<1> QED BY <1>1 DEF Newlines

(* The lines with the kernel stay as they are when no newline joins them.  *)
LEMMA DiskKeeps ==
    ASSUME TypeOK, TypeOK', KernelKeeps,
           \A i \in ondisk + 1..ondisk' : out'[i].part # "newline"
    PROVE  Lines(Disk)' = Lines(Disk)
<1>1. /\ out \in Seq(Pieces) /\ ondisk \in 0..Len(out)
      /\ out' \in Seq(Pieces) /\ ondisk' \in 0..Len(out')
      /\ ondisk \in Nat /\ ondisk' \in Nat
  BY FieldTypes, LenProperties DEF TypeOK
<1> DEFINE f == Disk
           g == Disk'
<1>2. /\ Len(f) = ondisk /\ \A i \in 1..ondisk : f[i] = out[i]
      /\ Newlines(f) = {i \in 1..ondisk : out[i].part = "newline"}
  BY <1>1, NewlinesOfPart DEF Disk
<1>3. /\ \A i \in 1..ondisk' : g[i] = out'[i]
      /\ Newlines(g) = {i \in 1..ondisk' : out'[i].part = "newline"}
  BY <1>1, NewlinesOfPart DEF Disk
<1> HIDE DEF f, g
<1>4. \A i \in 1..ondisk' : i \in 1..ondisk \/ i \in ondisk + 1..ondisk'
  BY <1>1
<1>5. \A i \in 1..ondisk : i \in 1..ondisk' /\ out'[i] = out[i]
  BY <1>1 DEF KernelKeeps
<1>6. Newlines(g) = Newlines(f)
  BY <1>2, <1>3, <1>4, <1>5
<1>7. \A i \in Newlines(f) : g[i] = f[i]
  BY <1>2, <1>3, <1>5
<1>8. Lines(g) = Lines(f)
  BY <1>1, <1>2, <1>6, <1>7, SameLines
<1> QED BY <1>8 DEF f, g

(* When one newline joins them, its line is the next one.                  *)
LEMMA DiskCommits ==
    ASSUME TypeOK, TypeOK', KernelKeeps,
           ondisk < ondisk', out'[ondisk'].part = "newline",
           \A i \in ondisk + 1..ondisk' : out'[i].part = "newline" => i = ondisk'
    PROVE  Lines(Disk)' = Append(Lines(Disk), out'[ondisk'].rec)
<1>1. /\ out \in Seq(Pieces) /\ ondisk \in 0..Len(out)
      /\ out' \in Seq(Pieces) /\ ondisk' \in 0..Len(out')
      /\ ondisk \in Nat /\ ondisk' \in Nat \ {0}
  BY FieldTypes, LenProperties DEF TypeOK
<1> DEFINE f == Disk
           g == Disk'
           n == ondisk'
<1>2. /\ Len(f) = ondisk /\ \A i \in 1..ondisk : f[i] = out[i]
      /\ Newlines(f) = {i \in 1..ondisk : out[i].part = "newline"}
  BY <1>1, NewlinesOfPart DEF Disk
<1>3. /\ \A i \in 1..n : g[i] = out'[i]
      /\ Newlines(g) = {i \in 1..n : out'[i].part = "newline"}
  BY <1>1, NewlinesOfPart DEF Disk
<1>4. n \in Nat \ {0} /\ n > ondisk /\ g[n] = out'[n]
  BY <1>1, <1>3
<1> HIDE DEF f, g
<1>5. \A i \in 1..n : i \in 1..ondisk \/ i \in ondisk + 1..n
  BY <1>1
<1>6. \A i \in 1..ondisk : i \in 1..n /\ i < n /\ out'[i] = out[i]
  BY <1>1 DEF KernelKeeps
<1>7. Newlines(g) = Newlines(f) \cup {n}
  <2>1. ASSUME NEW i \in Newlines(g)
        PROVE  i \in Newlines(f) \cup {n}
    BY <2>1, <1>2, <1>3, <1>5, <1>6
  <2>2. n \in Newlines(g)
    BY <1>1, <1>3
  <2>3. \A i \in Newlines(f) : i \in Newlines(g)
    BY <1>2, <1>3, <1>6
  <2> QED BY <2>1, <2>2, <2>3
<1>8. \A i \in Newlines(f) : i < n /\ g[i] = f[i]
  BY <1>2, <1>3, <1>6
<1> HIDE DEF n
<1>9. Len(f) \in Nat /\ n \in Nat \ {0}
  BY <1>1, <1>2, <1>4
<1>10. Lines(g) = Append(Lines(f), g[n].rec)
  BY <1>7, <1>8, <1>9, OneMoreLine, Zenon
<1> QED BY <1>4, <1>10 DEF f, g, n

LEMMA NoLines == Lines(SubSeq(<< >>, 1, 0)) = << >>
<1> DEFINE f == SubSeq(<< >>, 1, 0)
           none == [k \in 1..0 |-> f[Nth({}, k)].rec]
<1>1. << >> \in Seq({}) /\ Len(<< >>) = 0 /\ 0 \in 0..0
  BY EmptySeq
<1>2. Len(f) = 0
  BY <1>1, SubSeqProperties
<1> HIDE DEF f
<1>3. Newlines(f) = {}
  BY <1>2 DEF Newlines
<1>4. Cardinality({}) = 0
  BY FS_EmptySet
<1>5. Lines(f) = none
  BY <1>3, <1>4 DEF Lines
<1>6. none \in Seq({}) /\ Len(none) = 0
  OBVIOUS
<1> HIDE DEF none
<1>7. none = << >>
  BY <1>6, EmptySeq
<1> QED BY <1>5, <1>7 DEF f

(* Where the stages of AtomicLog are left as they are.                     *)
LEMMA SameStages ==
    ASSUME \A p \in Producers : Stage(p)' = Stage(p)
    PROVE  [p \in Producers |-> Stage(p)]' = [p \in Producers |-> Stage(p)]
OBVIOUS

(* A step that writes adds nothing to the lines with the kernel.           *)
LEMMA PutCommitsNothing ==
    ASSUME TypeOK, TypeOK', MutualExclusion, CommitInv, ~DiskErrors,
           NEW p \in Producers, pc[p] \in Holding, pc[p] # "fflush",
           NEW part \in Parts, NEW spill \in 0..Len(out) + 1,
           Put(Piece(cur[p], part), spill),
           part = "newline" => spill = Len(out)
    PROVE  /\ Lines(Disk)' = Lines(Disk)
           /\ ondisk' <= spill
           /\ Len(out') = Len(out) + 1
           /\ out'[Len(out')] = Piece(cur[p], part)
           /\ \A i \in ondisk' + 1..Len(out') :
                 out'[i].part = "newline" => i = Len(out')
<1>1. Grown(Piece(cur[p], part)) /\ ondisk' >= ondisk /\ ondisk' <= spill
  <2>1. Piece(cur[p], part) \in Pieces
    BY PieceType
  <2>2. ondisk' \in ondisk..spill
    BY DEF Put
  <2>3. ondisk \in Nat
    BY FieldTypes DEF TypeOK
  <2> QED BY <2>1, <2>2, <2>3, PutOutcome
<1>2. Len(out) \in Nat /\ ondisk \in 0..Len(out) /\ ondisk' \in Int
  BY FieldTypes DEF TypeOK
<1>3. \A q \in Producers : pc[q] # "fflush"
  BY DEF MutualExclusion, Holding, PCs
<1>4. \A i \in ondisk + 1..Len(out) : out'[i].part # "newline"
  <2>1. \A i \in ondisk + 1..Len(out) : i \in 1..Len(out)
    BY <1>2
  <2> QED BY <1>1, <1>3, <2>1 DEF CommitInv, Grown
<1>5. out'[Len(out) + 1] = Piece(cur[p], part) /\ Len(out') = Len(out) + 1
  BY <1>1 DEF Grown
<1>6. out'[Len(out) + 1].part = part
  BY <1>5 DEF Piece
<1>7. \A i \in ondisk + 1..ondisk' : out'[i].part # "newline"
  <2>1. ASSUME NEW i \in ondisk + 1..ondisk'
        PROVE  i \in ondisk + 1..Len(out) \/ (i = Len(out) + 1 /\ part # "newline")
    BY <1>1, <1>2
  <2> QED BY <1>4, <1>6, <2>1
<1>8. KernelKeeps
  BY <1>1, <1>2 DEF KernelKeeps, Grown
<1>9. ASSUME NEW i \in ondisk' + 1..Len(out')
      PROVE  i \in ondisk + 1..Len(out) \/ i = Len(out')
  <2> DEFINE d == ondisk'
             n == Len(out)
  <2>0. Len(out') = n + 1
    BY <1>5
  <2>1. i \in d + 1..n + 1 /\ d \in Int /\ n \in Nat /\ ondisk \in Nat /\ d >= ondisk
    <3>1. i \in d + 1..n + 1
      BY <2>0, Zenon
    <3>2. d \in Int /\ n \in Nat /\ ondisk \in Nat
      BY <1>2
    <3>3. d >= ondisk
      BY <1>1
    <3> QED BY <3>1, <3>2, <3>3, Zenon
  <2> HIDE DEF d, n
  <2>2. i \in ondisk + 1..n \/ i = n + 1
    BY <2>1
  <2> QED BY <2>2, <1>5 DEF n
<1> QED BY <1>1, <1>4, <1>5, <1>7, <1>8, <1>9, DiskKeeps

LEMMA Refines ==
    ASSUME TypeOK, TypeOK', MutualExclusion, OrderInv, CommitInv, ~DiskErrors,
           [Next]_vars
    PROVE  CommitInv' /\ [Atomic!Next]_Atomic!vars
<1> DEFINE AtomicStep == [Atomic!Next]_Atomic!vars
<1>0. /\ Len(out) \in Nat /\ ondisk \in 0..Len(out) /\ ondisk \in Nat
      /\ pc \in [Producers -> PCs] /\ cur \in [Producers -> Records]
      /\ seq \in [Producers -> Nat]
  BY FieldTypes DEF TypeOK
<1>1. CASE Open
  <2>1. \A p \in Producers : pc[p] = "idle"
    BY <1>1 DEF Open, OrderInv, CallInv
  <2>2. out' = << >> /\ ondisk' = 0 /\ UNCHANGED <<pc, cur>>
    BY <1>1 DEF Open
  <2>3. CommitInv'
    BY <2>1, <2>2 DEF CommitInv
  <2>4. Lines(Disk)' = << >>
    BY <2>2, NoLines DEF Disk
  <2>5. Atomic!Open
    BY <1>1, <2>2, <2>4 DEF Open, Atomic!Open, Stage
  <2> QED BY <2>3, <2>5 DEF Atomic!Next
<1>2. CASE Close
  <2>1. out' = out /\ ondisk' = Len(out) /\ UNCHANGED <<pc, cur>>
    BY <1>2, DrainOutcome DEF Close
  <2>2. \A p \in Producers : pc[p] = "idle"
    BY <1>2 DEF Close, Quiescent
  <2>3. CommitInv'
    BY <1>0, <2>1, <2>2 DEF CommitInv
  <2>4. Lines(Disk)' = Lines(Disk)
    <3>1. KernelKeeps
      BY <1>0, <2>1 DEF KernelKeeps
    <3>2. \A i \in ondisk + 1..ondisk' : out'[i].part # "newline"
      BY <2>1, <2>2 DEF CommitInv
    <3> QED BY <3>1, <3>2, DiskKeeps
  <2>5. Atomic!Close
    BY <1>2, <2>1, <2>2, <2>4 DEF Close, Atomic!Close, Stage
  <2> QED BY <2>3, <2>5 DEF Atomic!Next
<1>3. CASE Crash
  <2>1. /\ out' = SubSeq(out, 1, ondisk) /\ ondisk' = ondisk /\ cur' = cur
        /\ pc' = [p \in Producers |-> "idle"]
    BY <1>3 DEF Crash
  <2>2. Len(out') = ondisk /\ \A i \in 1..ondisk : out'[i] = out[i]
    BY <1>0, <2>1, NewlinesOfPart DEF TypeOK
  <2>3. CommitInv'
    BY <1>0, <2>1, <2>2 DEF CommitInv
  <2>4. Lines(Disk)' = Lines(Disk)
    <3>1. KernelKeeps /\ \A i \in ondisk + 1..ondisk' : FALSE
      BY <1>0, <2>1, <2>2 DEF KernelKeeps
    <3> QED BY <3>1, DiskKeeps
  <2>5. Atomic!Crash
    BY <1>3, <2>1, <2>4 DEF Crash, Atomic!Crash, Stage
  <2> QED BY <2>3, <2>5 DEF Atomic!Next
<1>4. CASE UNCHANGED vars
  BY <1>4 DEF vars, CommitInv, Atomic!vars, Disk, Stage
<1>5. ASSUME NEW p \in Producers, NEW m \in Msgs, Call(p, m)
      PROVE  CommitInv' /\ AtomicStep
  <2> DEFINE r == [prod |-> p, seq |-> seq[p], level |-> LevelName(m.level),
                   len |-> m.len]
  <2>1. /\ pc[p] = "idle" /\ pc' = [pc EXCEPT ![p] = "lock"] /\ life = "open"
        /\ cur' = [cur EXCEPT ![p] = r] /\ UNCHANGED <<life, out, ondisk>>
    BY <1>5 DEF Call
  <2>2. r \in [prod : Producers, seq : 0..MaxSeq, level : LevelNames,
               len : {k.len : k \in Msgs} \cup {0}]
    <3>1. seq[p] \in 0..MaxSeq
      BY <1>0, <1>5, LogStoreConstants DEF Call
    <3>2. LevelName(m.level) \in LevelNames
      BY LevelNameType, LogStoreConstants
    <3> QED BY <3>1, <3>2
  <2> HIDE DEF r
  <2>3. \A q \in Producers : pc'[q] = "fflush" <=> pc[q] = "fflush"
    BY <1>0, <2>1
  <2>4. CommitInv'
    <3>1. \A q \in Producers : pc[q] = "fflush" => cur'[q] = cur[q]
      BY <1>0, <2>1
    <3> QED BY <2>1, <2>3, <3>1 DEF CommitInv, Piece
  <2>5. [q \in Producers |-> Stage(q)]'
           = [[q \in Producers |-> Stage(q)] EXCEPT ![p] = "pending"]
    BY <1>0, <2>1 DEF Stage
  <2>6. Stage(p) = "idle"
    BY <2>1 DEF Stage
  <2>7. Atomic!Invoke(p, r)
    BY <2>1, <2>5, <2>6 DEF Atomic!Invoke, Disk
  <2> QED BY <2>2, <2>4, <2>7 DEF Atomic!Next
<1>6. ASSUME NEW p \in Producers, CallFlush(p) \/ Acquire(p)
      PROVE  CommitInv' /\ AtomicStep
  <2>1. /\ pc[p] \in {"idle", "lock", "flush_lock"}
        /\ pc' = [pc EXCEPT ![p] = IF pc[p] = "idle" THEN "flush_lock"
                                   ELSE IF pc[p] = "lock" THEN "header"
                                   ELSE "flush_fflush"]
        /\ UNCHANGED <<life, cur, out, ondisk>>
    BY <1>6 DEF CallFlush, Acquire
  <2>2. \A q \in Producers : pc'[q] = "fflush" <=> pc[q] = "fflush"
    BY <1>0, <2>1
  <2>3. \A q \in Producers : Stage(q)' = Stage(q)
    BY <1>0, <2>1 DEF Stage
  <2>4. CommitInv'
    BY <2>1, <2>2 DEF CommitInv, Piece
  <2>5. UNCHANGED Atomic!vars
    BY <2>1, <2>3, SameStages DEF Atomic!vars, Disk
  <2> QED BY <2>4, <2>5
<1>7. ASSUME NEW p \in Producers, Header(p) \/ Bytes(p) \/ Newline(p)
      PROVE  CommitInv' /\ AtomicStep
  <2>1. PICK part \in Parts, spill \in 0..Len(out) + 1 :
           /\ Put(Piece(cur[p], part), spill)
           /\ part = "newline" => spill = Len(out)
           /\ (part = "newline") <=> pc'[p] = "fflush"
    <3>1. Len(out) + 1 \in 0..Len(out) + 1 /\ Len(out) \in 0..Len(out) + 1
      BY <1>0
    <3>2. CASE Header(p)
      BY <1>0, <3>1, <3>2 DEF Header, Parts
    <3>3. CASE Bytes(p)
      BY <1>0, <3>1, <3>3 DEF Bytes, Parts
    <3>4. CASE Newline(p)
      BY <1>0, <3>1, <3>4 DEF Newline, Parts
    <3> QED BY <1>7, <3>2, <3>3, <3>4
  <2>2. /\ pc[p] \in {"header", "bytes", "newline"} /\ UNCHANGED <<life, cur>>
        /\ pc'[p] \in {"bytes", "newline", "fflush"}
        /\ \A q \in Producers : q # p => pc'[q] = pc[q]
    BY <1>0, <1>7 DEF Header, Bytes, Newline
  <2>3. /\ Lines(Disk)' = Lines(Disk)
        /\ ondisk' <= spill
        /\ Len(out') = Len(out) + 1
        /\ out'[Len(out')] = Piece(cur[p], part)
        /\ \A i \in ondisk' + 1..Len(out') : out'[i].part = "newline" => i = Len(out')
    BY <2>1, <2>2, PutCommitsNothing DEF Holding, PCs
  <2>4. \A q \in Producers : q # p => pc'[q] # "fflush"
    BY <2>2 DEF MutualExclusion, Holding, PCs
  <2>5. out'[Len(out')].part = part
    BY <2>3 DEF Piece
  <2>6. CommitInv'
    <3>1. ASSUME NEW q \in Producers, pc'[q] = "fflush"
          PROVE  ondisk' < Len(out') /\ out'[Len(out')] = Piece(cur'[q], "newline")
      <4>1. q = p /\ part = "newline"
        BY <2>1, <2>4, <3>1
      <4>2. ondisk' < Len(out')
        <5>1. ondisk' \in Int
          BY DEF TypeOK
        <5> QED BY <1>0, <2>1, <2>3, <4>1, <5>1
      <4> QED BY <2>2, <2>3, <4>1, <4>2
    <3>2. ASSUME NEW i \in ondisk' + 1..Len(out'), out'[i].part = "newline"
          PROVE  i = Len(out') /\ pc'[p] = "fflush"
      BY <2>1, <2>3, <2>5, <3>2
    <3> QED BY <3>1, <3>2 DEF CommitInv, Piece
  <2>7. \A q \in Producers : Stage(q)' = Stage(q)
    BY <2>2 DEF Stage
  <2>8. UNCHANGED Atomic!vars
    BY <2>2, <2>3, <2>7, SameStages DEF Atomic!vars
  <2> QED BY <2>6, <2>8
<1>8. ASSUME NEW p \in Producers, Fflush(p)
      PROVE  CommitInv' /\ AtomicStep
  <2>1. /\ pc[p] \in {"fflush", "flush_fflush"} /\ UNCHANGED <<life, cur>>
        /\ pc' = [pc EXCEPT ![p] = IF pc[p] = "fflush" THEN "unlock"
                                                       ELSE "flush_unlock"]
        /\ out' = out /\ ondisk' = Len(out)
    BY <1>8, DrainOutcome DEF Fflush
  <2>2. \A q \in Producers : q # p => pc[q] # "fflush"
    BY <2>1 DEF MutualExclusion, Holding, PCs
  <2>3. \A q \in Producers : pc'[q] # "fflush"
    BY <1>0, <2>1, <2>2
  <2>4. CommitInv'
    BY <1>0, <2>1, <2>3 DEF CommitInv
  <2>5. KernelKeeps
    BY <1>0, <2>1 DEF KernelKeeps
  <2>6. CASE pc[p] = "fflush"
    <3>1. ondisk < Len(out) /\ out[Len(out)] = Piece(cur[p], "newline")
      BY <2>6 DEF CommitInv
    <3>2. /\ ondisk < ondisk' /\ out'[ondisk'].part = "newline"
          /\ out'[ondisk'].rec = cur[p]
          /\ \A i \in ondisk + 1..ondisk' : out'[i].part = "newline" => i = ondisk'
      BY <2>1, <3>1 DEF CommitInv, Piece
    <3>3. Lines(Disk)' = Append(Lines(Disk), cur[p])
      BY <2>5, <3>2, DiskCommits
    <3>4. [q \in Producers |-> Stage(q)]'
             = [[q \in Producers |-> Stage(q)] EXCEPT ![p] = "committed"]
      BY <1>0, <2>1, <2>6 DEF Stage
    <3>5. Stage(p) = "pending"
      BY <2>6 DEF Stage
    <3>6. Atomic!Commit(p)
      BY <2>1, <3>3, <3>4, <3>5 DEF Atomic!Commit
    <3> QED BY <2>4, <3>6 DEF Atomic!Next
  <2>7. CASE pc[p] = "flush_fflush"
    <3>1. \A i \in ondisk + 1..ondisk' : out'[i].part # "newline"
      BY <2>1, <2>2, <2>7 DEF CommitInv
    <3>2. Lines(Disk)' = Lines(Disk)
      BY <2>5, <3>1, DiskKeeps
    <3>3. \A q \in Producers : Stage(q)' = Stage(q)
      BY <1>0, <2>1, <2>7 DEF Stage
    <3>4. UNCHANGED Atomic!vars
      BY <2>1, <3>2, <3>3, SameStages DEF Atomic!vars
    <3> QED BY <2>4, <3>4
  <2> QED BY <2>1, <2>6, <2>7
<1>9. ASSUME NEW p \in Producers, Unlock(p)
      PROVE  CommitInv' /\ AtomicStep
  <2>1. /\ pc[p] \in {"unlock", "flush_unlock"} /\ UNCHANGED <<life, cur, out, ondisk>>
        /\ pc' = [pc EXCEPT ![p] = "idle"]
    BY <1>9 DEF Unlock
  <2>2. \A q \in Producers : pc'[q] = "fflush" <=> pc[q] = "fflush"
    BY <1>0, <2>1
  <2>3. CommitInv'
    BY <2>1, <2>2 DEF CommitInv, Piece
  <2>4. CASE pc[p] = "unlock"
    <3>1. [q \in Producers |-> Stage(q)]'
             = [[q \in Producers |-> Stage(q)] EXCEPT ![p] = "idle"]
      BY <1>0, <2>1 DEF Stage
    <3>2. Stage(p) = "committed"
      BY <2>4 DEF Stage
    <3>3. Atomic!Return(p)
      BY <2>1, <3>1, <3>2 DEF Atomic!Return, Disk
    <3> QED BY <2>3, <3>3 DEF Atomic!Next
  <2>5. CASE pc[p] = "flush_unlock"
    <3>1. \A q \in Producers : Stage(q)' = Stage(q)
      BY <1>0, <2>1, <2>5 DEF Stage
    <3>2. UNCHANGED Atomic!vars
      BY <2>1, <3>1, SameStages DEF Atomic!vars, Disk
    <3> QED BY <2>3, <3>2
  <2> QED BY <2>1, <2>4, <2>5
<1> QED BY <1>1, <1>2, <1>3, <1>4, <1>5, <1>6, <1>7, <1>8, <1>9 DEF Next, Step

(* logstore.c implements the log of logstore.h: on a disk that takes what  *)
(* it is given, every append takes effect at one instant, its fflush, and  *)
(* no crash takes back what took effect, for any threads and messages.     *)
THEOREM Implements == ~DiskErrors => (Spec => ImplementsAtomicLog)
<1> SUFFICES ASSUME ~DiskErrors
             PROVE  Spec => ImplementsAtomicLog
  OBVIOUS
<1>1. Init => CommitInv /\ Atomic!Init
  <2> SUFFICES ASSUME Init
               PROVE  CommitInv /\ Atomic!Init
    OBVIOUS
  <2>1. CommitInv
    BY DEF Init, CommitInv
  <2>2. Lines(Disk) = << >>
    BY NoLines DEF Disk, Init
  <2>3. cur \in [Producers -> [prod : Producers, seq : 0..MaxSeq, level : LevelNames,
                               len : {m.len : m \in Msgs} \cup {0}]]
    BY LogStoreConstants DEF Init, LevelNames
  <2> QED BY <2>1, <2>2, <2>3 DEF Init, Atomic!Init, Stage
<1>2. TypeOK /\ TypeOK' /\ MutualExclusion /\ OrderInv /\ CommitInv /\ [Next]_vars
        => CommitInv' /\ [Atomic!Next]_Atomic!vars
  BY Refines
<1> QED BY <1>1, <1>2, TypeCorrect, Exclusion, OrderAlways, PTL
        DEF Spec, ImplementsAtomicLog, Atomic!Spec
=============================================================================
