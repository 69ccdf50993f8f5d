------------------------------ MODULE LogStore ------------------------------
(***************************************************************************)
(* emulator/logstore.c: the one log file that the device (vCPU thread),    *)
(* the network listener and the vhost backend append to.  An append is     *)
(* several stdio calls under a mutex; stdio keeps what it is given in a    *)
(* buffer and hands it to the kernel when the buffer overflows and when    *)
(* fflush is called.                                                       *)
(***************************************************************************)
EXTENDS Naturals, Sequences, FiniteSets

CONSTANTS Producers,    \* threads that append
          Msgs,         \* [level : Nat, len : Nat], what a caller may log
          MaxSeq,       \* bound: appends per producer in one run
          DiskErrors,   \* may the kernel refuse a write (disk full)?
          NoOne         \* the value of an unheld mutex

ASSUME LogStoreConstants ==
    /\ Msgs \subseteq [level : Nat, len : Nat]
    /\ Msgs # {}
    /\ MaxSeq \in Nat
    /\ DiskErrors \in BOOLEAN
    /\ NoOne \notin Producers

(***************************************************************************)
(* Definitions named Bug_... are deliberate mistakes, each placed before   *)
(* the definition it could replace; no specification uses them.  They show *)
(* that a property notices the mistake.                                    *)
(***************************************************************************)

VARIABLES life,     \* "unopened", "open", "closed" or "crashed"
          lock,     \* holder of ls->lock
          pc,       \* pc[p]: the statement of append or flush p is at
          cur,      \* cur[p]: the record of p's last append
          seq,      \* seq[p]: the sequence number p supplies next
          out,      \* every piece handed to stdio and not discarded, in order
          ondisk    \* how many pieces of out the kernel has

vars == <<life, lock, pc, cur, seq, out, ondisk>>

Bug_LevelName(level) ==   \* the default case is forgotten
    IF level \in 0..3 THEN <<"DEBUG", "INFO", "WARN", "ERROR">>[level + 1]
                      ELSE "(null)"

(* level_name: a level outside 0..3 gets the placeholder.                  *)
LevelName(level) ==
    IF level \in 0..3 THEN <<"DEBUG", "INFO", "WARN", "ERROR">>[level + 1]
                      ELSE "LVL?"

LevelNames == {"DEBUG", "INFO", "WARN", "ERROR", "LVL?"}

Records == [prod : Producers, seq : Nat, level : LevelNames, len : Nat]

(* The pieces of a record's line: "[seq] LEVEL ", the bytes, the newline.  *)
Parts == {"header", "bytes", "newline"}
Pieces == [rec : Records, part : Parts]

Piece(r, part) == [rec |-> r, part |-> part]

PCs == {"idle", "lock", "header", "bytes", "newline", "fflush", "unlock",
        "flush_lock", "flush_fflush", "flush_unlock"}

Holding == PCs \ {"idle", "lock", "flush_lock"}

(* logstore.c: the mutex is held by a thread or by nobody, every record of *)
(* the file carries a level name of level_name, and the kernel never has   *)
(* more of the file than stdio was given.                                  *)
TypeOK ==
    /\ life \in {"unopened", "open", "closed", "crashed"}
    /\ lock \in Producers \cup {NoOne}
    /\ pc \in [Producers -> PCs]
    /\ cur \in [Producers -> Records]
    /\ seq \in [Producers -> Nat]
    /\ out \in Seq(Pieces)
    /\ ondisk \in 0..Len(out)

Init ==
    /\ life = "unopened"
    /\ lock = NoOne
    /\ pc = [p \in Producers |-> "idle"]
    /\ cur = [p \in Producers |->
                [prod |-> p, seq |-> 0, level |-> "DEBUG", len |-> 0]]
    /\ seq = [p \in Producers |-> 0]
    /\ out = << >>
    /\ ondisk = 0

Bug_Open ==   \* fopen(path, "a")
    /\ life \in {"unopened", "crashed"}
    /\ life' = "open"
    /\ seq' = [p \in Producers |-> 0]
    /\ UNCHANGED <<lock, pc, cur, out, ondisk>>

(* logstore_open: fopen(path, "w") truncates, so a restart after a crash   *)
(* starts from an empty file with new counters.  A failing open changes    *)
(* nothing and is not an action.                                           *)
Open ==
    /\ life \in {"unopened", "crashed"}
    /\ life' = "open"
    /\ seq' = [p \in Producers |-> 0]
    /\ out' = << >>
    /\ ondisk' = 0
    /\ UNCHANGED <<lock, pc, cur>>

(* A thread calls logstore_append with its next sequence number.           *)
Call(p, m) ==
    /\ life = "open"
    /\ pc[p] = "idle"
    /\ seq[p] < MaxSeq
    /\ cur' = [cur EXCEPT ![p] = [prod |-> p, seq |-> seq[p],
                                  level |-> LevelName(m.level),
                                  len |-> m.len]]
    /\ seq' = [seq EXCEPT ![p] = @ + 1]
    /\ pc' = [pc EXCEPT ![p] = "lock"]
    /\ UNCHANGED <<life, lock, out, ondisk>>

CallFlush(p) ==
    /\ life = "open"
    /\ pc[p] = "idle"
    /\ pc' = [pc EXCEPT ![p] = "flush_lock"]
    /\ UNCHANGED <<life, lock, cur, seq, out, ondisk>>

Acquire(p) ==
    /\ pc[p] \in {"lock", "flush_lock"}
    /\ lock = NoOne
    /\ lock' = p
    /\ pc' = [pc EXCEPT ![p] = IF @ = "lock" THEN "header" ELSE "flush_fflush"]
    /\ UNCHANGED <<life, cur, seq, out, ondisk>>

(* stdio takes one piece; up to "spill" pieces of the file go to the       *)
(* kernel because the buffer overflowed.  When the kernel refuses them the *)
(* buffer is emptied all the same and the new piece is dropped; the code   *)
(* looks at none of the return values.                                     *)
Put(piece, spill) ==
    \/ /\ out' = Append(out, piece)
       /\ ondisk' \in ondisk..spill
    \/ /\ DiskErrors
       /\ \E n \in ondisk..Len(out) : out' = SubSeq(out, 1, n) /\ ondisk' = n

Bug_Header(p) ==   \* an empty message returns early, without its newline
    /\ pc[p] = "header"
    /\ Put(Piece(cur[p], "header"), Len(out) + 1)
    /\ pc' = [pc EXCEPT ![p] = IF cur[p].len # 0 THEN "bytes" ELSE "fflush"]
    /\ UNCHANGED <<life, lock, cur, seq>>

Header(p) ==
    /\ pc[p] = "header"
    /\ Put(Piece(cur[p], "header"), Len(out) + 1)
    /\ pc' = [pc EXCEPT ![p] = IF cur[p].len # 0 THEN "bytes" ELSE "newline"]
    /\ UNCHANGED <<life, lock, cur, seq>>

Bug_Bytes(p) ==   \* the mutex covers the header and the bytes only
    /\ pc[p] = "bytes"
    /\ Put(Piece(cur[p], "bytes"), Len(out) + 1)
    /\ pc' = [pc EXCEPT ![p] = "newline"]
    /\ lock' = NoOne
    /\ UNCHANGED <<life, cur, seq>>

Bytes(p) ==
    /\ pc[p] = "bytes"
    /\ Put(Piece(cur[p], "bytes"), Len(out) + 1)
    /\ pc' = [pc EXCEPT ![p] = "newline"]
    /\ UNCHANGED <<life, lock, cur, seq>>

Bug_Newline(p) ==   \* the record is left in the stdio buffer
    /\ pc[p] = "newline"
    /\ Put(Piece(cur[p], "newline"), Len(out))
    /\ pc' = [pc EXCEPT ![p] = "unlock"]
    /\ UNCHANGED <<life, lock, cur, seq>>

(* fputc leaves its character in the buffer of a fully buffered stream.    *)
Newline(p) ==
    /\ pc[p] = "newline"
    /\ Put(Piece(cur[p], "newline"), Len(out))
    /\ pc' = [pc EXCEPT ![p] = "fflush"]
    /\ UNCHANGED <<life, lock, cur, seq>>

Drain ==
    \/ out' = out /\ ondisk' = Len(out)
    \/ /\ DiskErrors
       /\ \E n \in ondisk..Len(out) : out' = SubSeq(out, 1, n) /\ ondisk' = n

Bug_Fflush(p) ==   \* logstore_flush returns with the mutex held
    /\ pc[p] \in {"fflush", "flush_fflush"}
    /\ Drain
    /\ pc' = [pc EXCEPT ![p] = IF @ = "fflush" THEN "unlock" ELSE "idle"]
    /\ UNCHANGED <<life, lock, cur, seq>>

Fflush(p) ==
    /\ pc[p] \in {"fflush", "flush_fflush"}
    /\ Drain
    /\ pc' = [pc EXCEPT ![p] = IF @ = "fflush" THEN "unlock" ELSE "flush_unlock"]
    /\ UNCHANGED <<life, lock, cur, seq>>

Unlock(p) ==
    /\ pc[p] \in {"unlock", "flush_unlock"}
    /\ lock' = NoOne
    /\ pc' = [pc EXCEPT ![p] = "idle"]
    /\ UNCHANGED <<life, cur, seq, out, ondisk>>

Quiescent == \A p \in Producers : pc[p] = "idle"

(* logstore_close takes no lock: its callers must have joined every other  *)
(* producer first.  Module Emulator shows that main.c does.                *)
Close ==
    /\ life = "open"
    /\ Quiescent
    /\ Drain
    /\ life' = "closed"
    /\ UNCHANGED <<lock, pc, cur, seq>>

(* The process is killed: what stdio still buffers is gone.                *)
Crash ==
    /\ life = "open"
    /\ life' = "crashed"
    /\ lock' = NoOne
    /\ pc' = [p \in Producers |-> "idle"]
    /\ out' = SubSeq(out, 1, ondisk)
    /\ UNCHANGED <<cur, seq, ondisk>>

Step(p) ==
    \/ Acquire(p) \/ Header(p) \/ Bytes(p) \/ Newline(p)
    \/ Fflush(p) \/ Unlock(p)

Next ==
    \/ Open \/ Close \/ Crash
    \/ \E p \in Producers :
          \/ \E m \in Msgs : Call(p, m)
          \/ CallFlush(p)
          \/ Step(p)

Spec == Init /\ [][Next]_vars

(* A thread inside the critical section keeps running: nothing in it waits *)
(* for another thread.  The mutex itself promises no fairness.             *)
Release(p) == Step(p) /\ pc[p] \in Holding

FairSpec == Spec /\ \A p \in Producers : WF_vars(Release(p))

-----------------------------------------------------------------------------
(***************************************************************************)
(* Properties                                                              *)
(***************************************************************************)

(* The mutex works: at most the holder is between lock and unlock, for     *)
(* every path through append and flush, the empty message included.        *)
MutualExclusion ==
    \A p \in Producers : pc[p] \in Holding <=> lock = p

SameRecord(i, j) == out[i].rec = out[j].rec

Rank(part) == CASE part = "header" -> 1 [] part = "bytes" -> 2
                [] part = "newline" -> 3

(* "guarded by a mutex so concurrent producers cannot corrupt it": the     *)
(* pieces of a record stand next to each other in the file, in the order   *)
(* of the line, each once.  It holds even when the disk fills up.          *)
NoInterleaving ==
    \A i, j \in 1..Len(out) :
        i < j /\ SameRecord(i, j) =>
            /\ Rank(out[i].part) < Rank(out[j].part)
            /\ \A k \in i..j : SameRecord(i, k)

(* What may follow piece a in a file of whole records.                     *)
Follows(a, b) ==
    IF a.part = "newline" THEN b.part = "header"
    ELSE /\ b.rec = a.rec
         /\ b.part = IF a.part = "header" /\ a.rec.len # 0 THEN "bytes"
                                                           ELSE "newline"

(* Without disk errors the file is whole lines followed by at most one     *)
(* unfinished line, after a crash too; and the unfinished line is there    *)
(* only while its append runs or after a crash.                            *)
NoTornRecord ==
    ~DiskErrors =>
        /\ out # << >> => out[1].part = "header"
        /\ \A i \in 1..Len(out) - 1 : Follows(out[i], out[i + 1])
        /\ (life # "crashed" /\ lock = NoOne /\ out # << >>)
              => out[Len(out)].part = "newline"

Disk == SubSeq(out, 1, ondisk)

(* How many appends of p have returned in this run of the program.         *)
Returned(p) == IF pc[p] \in {"idle", "flush_lock", "flush_fflush",
                             "flush_unlock"} THEN seq[p] ELSE seq[p] - 1

(* An append that returned is complete in the kernel's file, so no crash   *)
(* of the process loses it: the newline of every record 0..n-1 is there.   *)
ReturnedIsDurable ==
    (~DiskErrors /\ life \in {"open", "closed"}) =>
        \A p \in Producers : \A n \in 0..Returned(p) - 1 :
            \E i \in 1..ondisk :
                /\ out[i].part = "newline"
                /\ out[i].rec.prod = p
                /\ out[i].rec.seq = n

(* Records of one producer appear in the file in the order of their        *)
(* sequence numbers, whatever the other producers do.                      *)
ProducerOrder ==
    \A i, j \in 1..Len(out) :
        i < j /\ out[i].rec.prod = out[j].rec.prod
            => out[i].rec.seq <= out[j].rec.seq

(* The mutex is never kept: a holder lets go of it, or the process dies.   *)
LockIsReleased == \A p \in Producers : lock = p ~> lock # p

(* The records of a file's complete lines, in file order: the k-th line    *)
(* ends at the newline that has k newlines up to itself.                   *)
Newlines(file) == {i \in 1..Len(file) : file[i].part = "newline"}
Nth(ends, k) == CHOOSE i \in ends : Cardinality({j \in ends : j <= i}) = k
Lines(file) ==
    LET ends == Newlines(file)
    IN  [k \in 1..Cardinality(ends) |-> file[Nth(ends, k)].rec]

(* How far an append of p has got, in the terms of AtomicLog.              *)
Stage(p) == IF pc[p] \in {"lock", "header", "bytes", "newline", "fflush"}
            THEN "pending"
            ELSE IF pc[p] = "unlock" THEN "committed" ELSE "idle"

Atomic == INSTANCE AtomicLog WITH
    log <- Lines(Disk),
    st <- [p \in Producers |-> Stage(p)],
    rec <- cur,
    Records <- [prod : Producers, seq : 0..MaxSeq, level : LevelNames,
                len : {m.len : m \in Msgs} \cup {0}]

(* logstore.c implements the atomic log: fflush is the instant at which an *)
(* append takes effect, and a crash undoes no record that took effect.     *)
ImplementsAtomicLog == Atomic!Spec

=============================================================================
