----------------------------- MODULE AtomicLog -----------------------------
(***************************************************************************)
(* What logstore.h promises its callers: a log file that is a sequence of  *)
(* whole records, to which every call of logstore_append adds exactly its  *)
(* own record, at one instant between the call and the return.             *)
(***************************************************************************)
EXTENDS Sequences

CONSTANTS Producers,   \* threads that hold a pointer to the store
          Records      \* the records they may append

VARIABLES log,         \* the complete records in the file, in file order
          st,          \* st[p]: where the append of p stands
          rec,         \* rec[p]: the record p is appending
          life         \* life cycle of the store

vars == <<log, st, rec, life>>

Init ==
    /\ log = << >>
    /\ st = [p \in Producers |-> "idle"]
    /\ rec \in [Producers -> Records]
    /\ life = "unopened"

(* logstore_open truncates the file.                                       *)
Open ==
    /\ life \in {"unopened", "crashed"}
    /\ life' = "open"
    /\ log' = << >>
    /\ UNCHANGED <<st, rec>>

Invoke(p, r) ==
    /\ life = "open"
    /\ st[p] = "idle"
    /\ st' = [st EXCEPT ![p] = "pending"]
    /\ rec' = [rec EXCEPT ![p] = r]
    /\ UNCHANGED <<log, life>>

Commit(p) ==
    /\ st[p] = "pending"
    /\ st' = [st EXCEPT ![p] = "committed"]
    /\ log' = Append(log, rec[p])
    /\ UNCHANGED <<rec, life>>

Return(p) ==
    /\ st[p] = "committed"
    /\ st' = [st EXCEPT ![p] = "idle"]
    /\ UNCHANGED <<log, rec, life>>

Close ==
    /\ life = "open"
    /\ \A p \in Producers : st[p] = "idle"
    /\ life' = "closed"
    /\ UNCHANGED <<log, st, rec>>

(* A crash forgets the calls in progress and nothing that was committed.   *)
Crash ==
    /\ life = "open"
    /\ life' = "crashed"
    /\ st' = [p \in Producers |-> "idle"]
    /\ UNCHANGED <<log, rec>>

Next ==
    \/ Open \/ Close \/ Crash
    \/ \E p \in Producers :
          Commit(p) \/ Return(p) \/ \E r \in Records : Invoke(p, r)

Spec == Init /\ [][Next]_vars
=============================================================================
