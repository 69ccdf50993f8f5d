--------------------------- MODULE EmulatorProofs ---------------------------
(***************************************************************************)
(* Proofs about Emulator: main.c uses the log store only as logstore.c     *)
(* allows, so everything LogStoreProofs proves of the store holds in the   *)
(* program, whatever fails during start-up and whenever a signal arrives.  *)
(***************************************************************************)
EXTENDS Emulator, TLAPS

StoreMsgs == {[level |-> 1, len |-> 0], [level |-> 2, len |-> 1]}

LP == INSTANCE LogStoreProofs WITH
        Producers <- Threads, Msgs <- StoreMsgs,
        DiskErrors <- FALSE, NoOne <- "none"

(* Where the main thread stands while the store is open.                   *)
Open == {"start", "create", "load", "bootinfo", "listen", "run",
         "sigint", "test", "gap", "paused", "stop", "join", "close"}

(* Where it stands while the listener may run.                             *)
Listening == {"sigint", "test", "gap", "paused", "run", "stop", "join"}

(* A thread is inside the store only while it appends, and it appends only *)
(* while the store is open.                                                *)
Usage ==
    /\ pc \in [Threads -> LS!PCs]
    /\ main # "run" => pc["main"] = "idle"
    /\ net # "service" => pc["net"] = "idle"
    /\ Alive => main \in Listening
    /\ main = "open" => life = "unopened"
    /\ main \in Open => life = "open"
    /\ life = "closed" => main = "exited"

Control ==
    /\ mode \in {"collector", "guest"}
    /\ main \in Open \cup {"open", "exited", "killed"}
    /\ net \in {"absent", "poll", "service", "blocked", "exited"}
    /\ stop \in BOOLEAN /\ handler \in BOOLEAN /\ gstop \in BOOLEAN
    /\ code \in 0..1

IndInv == Control /\ Usage

-----------------------------------------------------------------------------
LEMMA StoreConstants == LP!LogStoreConstants
<1>1. StoreMsgs \subseteq [level : Nat, len : Nat] /\ StoreMsgs # {}
  BY DEF StoreMsgs
<1> QED BY <1>1, EmulatorConstants DEF LP!LogStoreConstants, Threads

(* What a thread does in the store leaves the other one alone.             *)
LEMMA InsideStore ==
    ASSUME pc \in [Threads -> LS!PCs], NEW p \in Threads,
           \/ LS!Step(p) \/ LS!CallFlush(p)
           \/ \E m \in StoreMsgs : LS!Call(p, m)
    PROVE  /\ pc' \in [Threads -> LS!PCs] /\ life' = life
           /\ \A q \in Threads \ {p} : pc'[q] = pc[q]
           /\ LP!Next
<1>1. CASE LS!CallFlush(p)
  BY <1>1 DEF LS!CallFlush, LS!PCs, LP!Next, LP!CallFlush
<1>2. CASE \E m \in StoreMsgs : LS!Call(p, m)
  <2>1. PICK m \in StoreMsgs : LS!Call(p, m)
    BY <1>2
  <2>2. LP!Call(p, m)
    BY <2>1 DEF LS!Call, LP!Call, LS!LevelName, LP!LevelName
  <2>3. /\ pc' = [pc EXCEPT ![p] = "lock"] /\ life' = life
    BY <2>1 DEF LS!Call
  <2> QED BY <2>2, <2>3 DEF LS!PCs, LP!Next
<1>3. CASE LS!Step(p)
  <2>1. LP!Step(p)
    BY <1>3 DEF LS!Step, LP!Step, LS!Acquire, LP!Acquire, LS!Header, LP!Header,
        LS!Bytes, LP!Bytes, LS!Newline, LP!Newline, LS!Fflush, LP!Fflush,
        LS!Unlock, LP!Unlock, LS!Put, LP!Put, LS!Drain, LP!Drain,
        LS!Piece, LP!Piece
  <2>2. \E s \in LS!PCs : pc' = [pc EXCEPT ![p] = s] /\ life' = life
    BY <1>3 DEF LS!Step, LS!Acquire, LS!Header, LS!Bytes, LS!Newline,
        LS!Fflush, LS!Unlock, LS!PCs
  <2> QED BY <2>1, <2>2 DEF LP!Next
<1> QED BY <1>1, <1>2, <1>3

(* main calls logstore_close only when no thread is inside the store.      *)
LEMMA ClosesQuiescent ==
    ASSUME Usage, NEW from \in Open \ Listening, NEW status,
           CloseStore(from, status)
    PROVE  LP!Close
<1>1. life = "open" /\ \A p \in Threads : pc[p] = "idle"
  BY DEF Usage, Alive, CloseStore, Open, Listening, Threads
<1> QED BY <1>1 DEF CloseStore, LP!Close, LP!Quiescent, LS!Drain, LP!Drain

-----------------------------------------------------------------------------
(***************************************************************************)
(* The inductive invariant, and each step as a step of the store           *)
(***************************************************************************)
LEMMA InitInd == Init => IndInv /\ LP!Init
<1> SUFFICES ASSUME Init PROVE IndInv /\ LP!Init
  OBVIOUS
<1>1. Control
  <2>1. mode \in {"collector", "guest"} /\ code \in 0..1
    BY EmulatorConstants DEF Init
  <2> QED BY <2>1, Zenon DEF Init, Control
<1>2. Usage
  BY DEF Init, LS!Init, Usage, Alive, LS!PCs, Threads, Open
<1>3. LP!Init
  BY DEF Init, LS!Init, LP!Init
<1> QED BY <1>1, <1>2, <1>3 DEF IndInv

LEMMA StepInd ==
    ASSUME IndInv, [Next]_vars
    PROVE  IndInv' /\ (LP!Next \/ UNCHANGED store)
<1> USE DEF IndInv
<1>1. ASSUME NEW from \in Open \ Listening, NEW status \in 0..1,
             CloseStore(from, status)
      PROVE  IndInv' /\ LP!Next
  <2>1. LP!Close
    BY <1>1, ClosesQuiescent
  <2>2. Control'
    BY <1>1 DEF CloseStore, Control
  <2>3. Usage'
    BY <1>1 DEF CloseStore, Usage, Alive, Open, Listening
  <2> QED BY <2>1, <2>2, <2>3 DEF LP!Next
<1>2. CASE OpenStore
  <2>1. LP!Open
    BY <1>2 DEF OpenStore, LS!Open, LP!Open
  <2>2. Control'
    BY <1>2 DEF OpenStore, Control, Open
  <2>3. Usage'
    BY <1>2 DEF OpenStore, LS!Open, Usage, Alive, Open, Listening
  <2> QED BY <2>1, <2>2, <2>3 DEF LP!Next
<1>3. ASSUME \/ OpenFails \/ NetlogStart \/ SetStop \/ Join \/ InstallHandlers
             \/ TestStop \/ Pause \/ CreateFails \/ Create \/ LoadBinary
             \/ LoadBootinfo \/ Listen \/ StartFailsGuest \/ VmmReturns
             \/ NetExits \/ NetFails \/ NetServes \/ NetBlocks \/ NetUnblocks
             \/ NetRoundEnds
      PROVE  IndInv' /\ UNCHANGED store
  <2>1. UNCHANGED store
    BY <1>3 DEF OpenFails, NetlogStart, SetStop, Join, InstallHandlers,
        TestStop, Pause, CreateFails, Create, LoadBinary, LoadBootinfo, Listen,
        StartFailsGuest, VmmReturns, NetExits, NetFails, NetServes, NetBlocks,
        NetUnblocks, NetRoundEnds, ListenerTo, Goto, Fail
  <2>2. Control'
    <3>1. stop' \in BOOLEAN /\ handler' \in BOOLEAN /\ gstop' \in BOOLEAN
      BY <1>3, Zenon DEF OpenFails, NetlogStart, SetStop, Join, InstallHandlers,
        TestStop, Pause, CreateFails, Create, LoadBinary, LoadBootinfo, Listen,
        StartFailsGuest, VmmReturns, NetExits, NetFails, NetServes, NetBlocks,
        NetUnblocks, NetRoundEnds, ListenerTo, Goto, Fail, Control
    <3>2. /\ mode' \in {"collector", "guest"} /\ code' \in 0..1
          /\ main' \in Open \cup {"open", "exited", "killed"}
          /\ net' \in {"absent", "poll", "service", "blocked", "exited"}
      BY <1>3 DEF OpenFails, NetlogStart, SetStop, Join, InstallHandlers,
        TestStop, Pause, CreateFails, Create, LoadBinary, LoadBootinfo, Listen,
        StartFailsGuest, VmmReturns, NetExits, NetFails, NetServes, NetBlocks,
        NetUnblocks, NetRoundEnds, ListenerTo, Goto, Fail, Control, Open
    <3> QED BY <3>1, <3>2, Zenon DEF Control
  <2>3. Usage'
    BY <1>3, <2>1 DEF OpenFails, NetlogStart, SetStop, Join, InstallHandlers,
        TestStop, Pause, CreateFails, Create, LoadBinary, LoadBootinfo, Listen,
        StartFailsGuest, VmmReturns, NetExits, NetFails, NetServes, NetBlocks,
        NetUnblocks, NetRoundEnds, ListenerTo, Goto, Fail, Control, Open,
        Listening, Usage, Alive, store
  <2> QED BY <2>1, <2>2, <2>3
<1>4. CASE Signal
  <2>1. CASE handler
    <3>1. Control' /\ UNCHANGED store
      BY <1>4, <2>1 DEF Signal, Control, Open
    <3>2. Usage'
      BY <1>4, <2>1 DEF Signal, Usage, Alive, Open, Listening, store
    <3> QED BY <3>1, <3>2
  <2>2. CASE ~handler /\ life = "open"
    <3>1. LP!Crash
      BY <1>4, <2>2 DEF Signal, LS!Crash, LP!Crash
    <3>2. Control'
      BY <1>4, <2>2 DEF Signal, Control
    <3>3. Usage'
      BY <1>4, <2>2, <3>1 DEF Signal, LP!Crash, Usage, Alive, Control, Open, Listening,
         LS!PCs, Threads
    <3> QED BY <3>1, <3>2, <3>3 DEF LP!Next
  <2>3. CASE ~handler /\ life # "open"
    <3>1. Control' /\ UNCHANGED store
      BY <1>4, <2>3 DEF Signal, Control
    <3>2. Usage'
      BY <1>4, <2>3, <3>1 DEF Signal, Running, Usage, Alive, Control, Open, Listening,
         store
    <3> QED BY <3>1, <3>2
  <2> QED BY <2>1, <2>2, <2>3
<1>5. ASSUME VmmAppend \/ VmmStep
      PROVE  IndInv' /\ LP!Next
  <2>1. /\ \/ LS!Step("main") \/ LS!CallFlush("main")
           \/ \E m \in StoreMsgs : LS!Call("main", m)
        /\ UNCHANGED control
    BY <1>5 DEF VmmAppend, VmmStep, StoreMsgs
  <2>2. main = "run"
    <3>1. LS!Step("main") => pc["main"] # "idle"
      BY DEF LS!Step, LS!Acquire, LS!Header, LS!Bytes, LS!Newline,
         LS!Fflush, LS!Unlock
    <3> QED BY <1>5, <3>1 DEF VmmAppend, VmmStep, Usage
  <2>3. /\ pc' \in [Threads -> LS!PCs] /\ life' = life
        /\ pc'["net"] = pc["net"] /\ LP!Next
    BY <2>1, InsideStore DEF Usage, Threads
  <2>4. Control' /\ Usage'
    BY <2>1, <2>2, <2>3 DEF Control, control, Usage, Alive
  <2> QED BY <2>3, <2>4
<1>6. ASSUME NetAppend \/ NetStep
      PROVE  IndInv' /\ LP!Next
  <2>1. /\ \/ LS!Step("net") \/ LS!CallFlush("net")
           \/ \E m \in StoreMsgs : LS!Call("net", m)
        /\ UNCHANGED control /\ net = "service"
    BY <1>6 DEF NetAppend, NetStep, StoreMsgs
  <2>2. /\ pc' \in [Threads -> LS!PCs] /\ life' = life
        /\ pc'["main"] = pc["main"] /\ LP!Next
    BY <2>1, InsideStore DEF Usage, Threads
  <2>3. Control' /\ Usage'
    BY <2>1, <2>2 DEF Control, control, Usage, Alive
  <2> QED BY <2>2, <2>3
<1>7. CASE Close \/ StartFailsCollector \/ LoadFails
  BY <1>1, <1>7 DEF Close, StartFailsCollector, LoadFails, Open, Listening, Control
<1>8. CASE UNCHANGED vars
  BY <1>8 DEF vars, control, store, Control, Usage, Alive
<1> QED BY <1>2, <1>3, <1>4, <1>5, <1>6, <1>7, <1>8 DEF Next, MainStep, Listener

(* main.c keeps the inductive invariant.                                   *)
THEOREM Inductive == Spec => []IndInv
<1>1. IndInv /\ [Next]_vars => IndInv'
  BY StepInd
<1> QED BY <1>1, InitInd, PTL DEF Spec

-----------------------------------------------------------------------------
(***************************************************************************)
(* The theorems                                                            *)
(***************************************************************************)
(* main.c implements what logstore.c requires of its callers: seen through *)
(* the store's variables every run of the program is one of LogStore, in   *)
(* which logstore_close is only called when no thread is inside the store. *)
THEOREM UsesStore == Spec => LP!Spec
<1>1. IndInv /\ [Next]_vars => [LP!Next]_LP!vars
  BY StepInd DEF store, LP!vars
<1> QED BY <1>1, InitInd, Inductive, PTL DEF Spec, LP!Spec

(* main.c: the main thread is at one of its statements, and the store      *)
(* keeps its types.                                                        *)
THEOREM TypeCorrect == Spec => []TypeOK
<1>1. LP!Spec => []LP!TypeOK
  BY StoreConstants, LP!TypeCorrect, PTL
<1>2. IndInv /\ LP!TypeOK => TypeOK
  <2>1. LP!TypeOK => LS!TypeOK
    BY DEF LP!TypeOK, LS!TypeOK, LP!PCs, LS!PCs, LP!Pieces, LS!Pieces,
       LP!Records, LS!Records, LP!Parts, LS!Parts, LP!LevelNames, LS!LevelNames
  <2> QED BY <2>1 DEF IndInv, Control, Open, TypeOK
<1> QED BY <1>1, <1>2, UsesStore, Inductive, PTL

(* main.c joins the listener before it closes the store: once the store is *)
(* closed no thread is inside it or can enter it.                          *)
THEOREM ClosedLast == Spec => []StoreClosedLast
<1>1. IndInv => StoreClosedLast
  BY DEF IndInv, Usage, Alive, Listening, StoreClosedLast, LS!Quiescent, Threads
<1> QED BY <1>1, Inductive, PTL

(* When main has returned and the store is closed, every record a thread   *)
(* began to append is whole and in the file.                               *)
THEOREM ExitKeepsRecords == Spec => []ExitLosesNothing
<1>1. LP!Spec => []LP!ReturnedIsDurable /\ []LP!NoTornRecord
  BY StoreConstants, LP!Durable, LP!WholeRecords, PTL
<1>2. IndInv /\ LP!ReturnedIsDurable /\ LP!NoTornRecord => ExitLosesNothing
  <2>1. LP!ReturnedIsDurable => LS!ReturnedIsDurable
    BY DEF LP!ReturnedIsDurable, LS!ReturnedIsDurable, LP!Returned, LS!Returned
  <2>2. LP!NoTornRecord => LS!NoTornRecord
    BY DEF LP!NoTornRecord, LS!NoTornRecord, LP!Follows, LS!Follows
  <2>3. IndInv /\ life = "closed" => \A p \in Threads : LS!Returned(p) = seq[p]
    BY DEF IndInv, Usage, Alive, Listening, LS!Returned, Threads
  <2> QED BY <2>1, <2>2, <2>3 DEF ExitLosesNothing
<1> QED BY <1>1, <1>2, UsesStore, Inductive, PTL
=============================================================================
