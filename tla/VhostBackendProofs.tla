------------------------- MODULE VhostBackendProofs -------------------------
(***************************************************************************)
(* Proofs about VhostBackend, for any set of queues, any eventfds and any  *)
(* size of the descriptor table, from VhostBackendConstants alone.         *)
(***************************************************************************)
EXTENDS VhostBackend, RingArith, SequenceTheorems, FiniteSetTheorems

Fds == 0..MaxFd - 1

-----------------------------------------------------------------------------
(***************************************************************************)
(* Descriptors.  A holder is one field that can hold a descriptor, and a   *)
(* table t of descriptors is accounted for by the fields own when the open *)
(* ones are those that a field holds, and no two fields hold the same one. *)
(***************************************************************************)
Holders == (Queues \X {"kick", "call", "err"}) \cup (DevFds \X {"dev"})

Own(k, c, e, d) ==
    [h \in Holders |-> IF h[2] = "kick" THEN k[h[1]]
                       ELSE IF h[2] = "call" THEN c[h[1]]
                       ELSE IF h[2] = "err" THEN e[h[1]] ELSE d[h[1]]]

OwnFds == Own(kickFd, callFd, errFd, devFd)

Accounts(own, t) ==
    /\ \A h \in Holders : own[h] \in Fds \cup {-1}
    /\ \A f \in Fds : t[f] # Closed <=> \E h \in Holders : own[h] = f
    /\ \A g, h \in Holders : own[g] = own[h] /\ own[g] # -1 => g = h

(* Field h comes to hold n, and nothing else changes hands.                *)
Takes(own, own2, h, n) ==
    own2[h] = n /\ \A g \in Holders : g # h => own2[g] = own[g]

(* Fields by name.                                                         *)
LEMMA HolderNames ==
    /\ \A x, y, a, b : <<x, a>> = <<y, b>> <=> x = y /\ a = b
    /\ \A q \in Queues : {<<q, "kick">>, <<q, "call">>, <<q, "err">>} \subseteq Holders
    /\ \A d \in DevFds : <<d, "dev">> \in Holders
BY DEF Holders

LEMMA HolderKinds ==
    ASSUME NEW h \in Holders
    PROVE  \/ \E q \in Queues : h \in {<<q, "kick">>, <<q, "call">>, <<q, "err">>}
           \/ \E d \in DevFds : h = <<d, "dev">>
<1>1. CASE h \in Queues \X {"kick", "call", "err"}
  <2>1. PICK q \in Queues, x \in {"kick", "call", "err"} : h = <<q, x>>
    BY <1>1
  <2> QED BY <2>1
<1>2. CASE h \in DevFds \X {"dev"}
  <2>1. PICK d \in DevFds : h = <<d, "dev">>
    BY <1>2
  <2> QED BY <2>1
<1> QED BY <1>1, <1>2 DEF Holders

LEMMA OwnPoints ==
    ASSUME NEW k, NEW c, NEW e, NEW d
    PROVE  /\ \A q \in Queues : /\ Own(k, c, e, d)[<<q, "kick">>] = k[q]
                                /\ Own(k, c, e, d)[<<q, "call">>] = c[q]
                                /\ Own(k, c, e, d)[<<q, "err">>] = e[q]
           /\ \A x \in DevFds : Own(k, c, e, d)[<<x, "dev">>] = d[x]
           /\ DOMAIN Own(k, c, e, d) = Holders
           /\ Own(k, c, e, d) = [h \in Holders |-> Own(k, c, e, d)[h]]
BY HolderNames DEF Own

LEMMA OwnAt ==
    /\ \A q \in Queues : /\ <<q, "kick">> \in Holders /\ OwnFds[<<q, "kick">>] = kickFd[q]
                         /\ <<q, "call">> \in Holders /\ OwnFds[<<q, "call">>] = callFd[q]
                         /\ <<q, "err">> \in Holders /\ OwnFds[<<q, "err">>] = errFd[q]
    /\ \A d \in DevFds : <<d, "dev">> \in Holders /\ OwnFds[<<d, "dev">>] = devFd[d]
BY HolderNames, OwnPoints DEF OwnFds

(* A message that changes one field, seen from the holders.                *)
LEMMA OwnTakes ==
    ASSUME NEW k, NEW c, NEW e, NEW d, NEW k2, NEW c2, NEW e2, NEW d2,
           NEW h \in Holders, NEW n,
           \A q \in Queues : k2[q] = IF h = <<q, "kick">> THEN n ELSE k[q],
           \A q \in Queues : c2[q] = IF h = <<q, "call">> THEN n ELSE c[q],
           \A q \in Queues : e2[q] = IF h = <<q, "err">> THEN n ELSE e[q],
           \A x \in DevFds : d2[x] = IF h = <<x, "dev">> THEN n ELSE d[x]
    PROVE  Takes(Own(k, c, e, d), Own(k2, c2, e2, d2), h, n)
<1> DEFINE old == Own(k, c, e, d)
           new == Own(k2, c2, e2, d2)
<1>1. /\ \A q \in Queues : /\ old[<<q, "kick">>] = k[q]
                           /\ old[<<q, "call">>] = c[q]
                           /\ old[<<q, "err">>] = e[q]
      /\ \A x \in DevFds : old[<<x, "dev">>] = d[x]
  BY OwnPoints
<1>2. /\ \A q \in Queues : /\ new[<<q, "kick">>] = k2[q]
                           /\ new[<<q, "call">>] = c2[q]
                           /\ new[<<q, "err">>] = e2[q]
      /\ \A x \in DevFds : new[<<x, "dev">>] = d2[x]
  BY OwnPoints
<1> HIDE DEF old, new
<1>3. ASSUME NEW g \in Holders
      PROVE  new[g] = IF g = h THEN n ELSE old[g]
  <2>1. CASE \E q \in Queues : g \in {<<q, "kick">>, <<q, "call">>, <<q, "err">>}
    <3>1. PICK q \in Queues : g = <<q, "kick">> \/ g = <<q, "call">> \/ g = <<q, "err">>
      BY <2>1
    <3>2. CASE g = <<q, "kick">>
      BY <1>1, <1>2, <3>2
    <3>3. CASE g = <<q, "call">>
      BY <1>1, <1>2, <3>3
    <3>4. CASE g = <<q, "err">>
      BY <1>1, <1>2, <3>4
    <3> QED BY <3>1, <3>2, <3>3, <3>4
  <2>2. CASE \E x \in DevFds : g = <<x, "dev">>
    <3>1. PICK x \in DevFds : g = <<x, "dev">>
      BY <2>2
    <3> QED BY <1>1, <1>2, <3>1
  <2> QED BY <2>1, <2>2, HolderKinds
<1>4. Takes(old, new, h, n)
  BY <1>3 DEF Takes
<1> QED BY <1>4 DEF old, new

(* When no field holds anything.                                           *)
LEMMA NoneHeld ==
    ASSUME NEW k, NEW c, NEW e, NEW d, NEW t,
           k = [q \in Queues |-> -1], c = k, e = k, d = [x \in DevFds |-> -1],
           \A f \in Fds : t[f] = Closed
    PROVE  Accounts(Own(k, c, e, d), t)
<1>1. \A h \in Holders : Own(k, c, e, d)[h] = -1
  BY DEF Own, Holders
<1>2. -1 \notin Fds
  BY DEF Fds
<1> QED BY <1>1, <1>2 DEF Accounts

(* The lowest free number is free, when there is one.                      *)
LEMMA ReceivedIsFree ==
    ASSUME Free # {}
    PROVE  Received \in Fds /\ fds[Received] = Closed
<1>1. Free \in SUBSET Nat
  BY VhostBackendConstants DEF Free
<1>2. Received \in Free
  BY <1>1, MinInSet DEF Received
<1> QED BY <1>2 DEF Free, Fds

(* Field h gives up what it held and takes n, which refers to e: the table *)
(* changes as every message that passes a descriptor changes it.           *)
LEMMA Replace ==
    ASSUME NEW own, NEW own2, NEW t \in [Fds -> KickEvents \cup {Other, Closed}],
           NEW h \in Holders, NEW n \in Fds \cup {-1},
           NEW e \in KickEvents \cup {Other},
           Accounts(own, t), Takes(own, own2, h, n), n # -1 => t[n] = Closed
    PROVE  LET t2 == Close(IF n = -1 THEN t ELSE [t EXCEPT ![n] = e], own[h])
           IN  /\ t2 \in [Fds -> KickEvents \cup {Other, Closed}]
               /\ Accounts(own2, t2)
<1> DEFINE t1 == IF n = -1 THEN t ELSE [t EXCEPT ![n] = e]
           t2 == Close(t1, own[h])
<1>0. Closed # e /\ -1 \notin Fds
  BY VhostBackendConstants DEF Fds
<1>1. \A g \in Holders : own[g] \in Fds \cup {-1}
  BY DEF Accounts
<1>2. own2[h] = n /\ \A g \in Holders : g # h => own2[g] = own[g]
  BY DEF Takes
<1>3. t1 \in [Fds -> KickEvents \cup {Other, Closed}]
      /\ \A f \in Fds : t1[f] = IF f = n THEN e ELSE t[f]
  BY <1>0
<1>4. n # -1 => n # own[h]
  BY <1>1 DEF Accounts
<1>5. t2 \in [Fds -> KickEvents \cup {Other, Closed}]
      /\ \A f \in Fds : t2[f] = IF f = own[h] THEN Closed ELSE t1[f]
  BY <1>0, <1>1, <1>3 DEF Close
<1>6. ASSUME NEW f \in Fds
      PROVE  t2[f] # Closed <=> \E g \in Holders : own2[g] = f
  <2>1. CASE f = n
    <3>1. f # -1 /\ f # own[h] /\ own2[h] = f
      BY <2>1, <1>0, <1>2, <1>4
    <3>2. t2[f] = e
      BY <2>1, <3>1, <1>3, <1>5
    <3> QED BY <3>1, <3>2, <1>0
  <2>2. CASE f # n /\ f = own[h]
    <3>1. f # -1 /\ t2[f] = Closed
      BY <2>2, <1>0, <1>5
    <3>2. ASSUME NEW g \in Holders, own2[g] = f
          PROVE  FALSE
      <4>1. g # h /\ own[g] = f
        BY <2>2, <3>2, <1>2
      <4> QED BY <2>2, <3>1, <4>1 DEF Accounts
    <3> QED BY <3>1, <3>2
  <2>3. CASE f # n /\ f # own[h]
    <3>1. t2[f] = t[f]
      BY <2>3, <1>3, <1>5
    <3>2. t[f] # Closed <=> \E g \in Holders : own[g] = f
      BY DEF Accounts
    <3> QED BY <2>3, <3>1, <3>2, <1>2
  <2> QED BY <2>1, <2>2, <2>3
<1>7. ASSUME NEW g \in Holders, NEW k \in Holders, own2[g] = own2[k], own2[g] # -1
      PROVE  g = k
  <2>1. ASSUME NEW j \in Holders, own[j] = n, n # -1
        PROVE  FALSE
    BY <2>1, <1>0 DEF Accounts
  <2> QED BY <1>7, <2>1, <1>2 DEF Accounts
<1> HIDE DEF t1, t2
<1>8. Accounts(own2, t2)
  BY <1>1, <1>2, <1>6, <1>7 DEF Accounts
<1> QED BY <1>5, <1>8 DEF t1, t2

-----------------------------------------------------------------------------
(***************************************************************************)
(* The watch table.                                                        *)
(***************************************************************************)
Entry(f, p) == [fd |-> f, q |-> p]

LEMMA WatchOfShort ==
    ASSUME NEW f, NEW p, NEW g
    PROVE  /\ WatchOf(<< >>, g) = 0
           /\ WatchOf(<<Entry(f, p)>>, g) = IF f = g THEN 1 ELSE 0
<1>1. Min({1}) = 1
  BY MinInSet
<1>2. WatchOf(<< >>, g) = 0
  BY DEF WatchOf, SelectInSeq
<1>3. {i \in 1..Len(<<Entry(f, p)>>) : <<Entry(f, p)>>[i].fd = g} = IF f = g THEN {1} ELSE {}
  BY DEF Entry
<1> QED BY <1>1, <1>2, <1>3 DEF WatchOf, SelectInSeq

LEMMA WatchTable ==
    ASSUME NEW f, NEW p, NEW g
    PROVE  /\ SetWatch(<< >>, g, p) = <<Entry(g, p)>>
           /\ RemoveWatch(<< >>, g) = << >>
           /\ RemoveWatch(<<Entry(f, p)>>, g) = IF f = g THEN << >> ELSE <<Entry(f, p)>>
<1>1. MAXW > 0
  BY VhostBackendConstants
<1>2. SetWatch(<< >>, g, p) = <<Entry(g, p)>>
  BY <1>1, WatchOfShort DEF SetWatch, Entry
<1>3. ASSUME f = g
      PROVE  RemoveWatch(<<Entry(f, p)>>, g) = << >>
  BY <1>3, WatchOfShort DEF RemoveWatch, Front, Last
<1> QED BY <1>2, <1>3, WatchOfShort DEF RemoveWatch

-----------------------------------------------------------------------------
(***************************************************************************)
(* The inductive invariant.                                                *)
(***************************************************************************)
Types ==
    /\ life \in {"running", "panicked", "aborted", "exited", "closed"}
    /\ why \in {"none", "frontend", "reply", "mmap", "remap", "eventfd"}
    /\ phase \in {"poll", "dispatch", "serve"}
    /\ fds \in [Fds -> KickEvents \cup {Other, Closed}]
    /\ readable \subseteq KickEvents
    /\ kickFd \in [Queues -> Fds \cup {-1}]
    /\ callFd \in [Queues -> Fds \cup {-1}]
    /\ errFd \in [Queues -> Fds \cup {-1}]
    /\ devFd \in [DevFds -> Fds \cup {-1}]
    /\ started \subseteq Queues /\ synced \subseteq Queues /\ addressed \subseteq Queues
    /\ ring \in [Queues -> 0..MaxMaps] /\ region \in [Queues -> 0..MaxMaps]
    /\ maps \in 0..MaxMaps
    /\ lastAvail \in [Queues -> 0..MaxAvail] /\ base \in [Queues -> 0..MaxAvail]
    /\ published \in 0..MaxAvail

(* Only the transmit queue gets a handler, from its start to its stop; the *)
(* loop watches its kick descriptor and nothing else; the descriptor table *)
(* is accounted for.                                                       *)
Watched ==
    IF TX \in handler /\ kickFd[TX] # -1 THEN <<Entry(kickFd[TX], TX)>> ELSE << >>

Table ==
    /\ handler = started \cap {TX}
    /\ life = "running" => W = Watched
    /\ Accounts(OwnFds, fds)

(* What poll reported is the kick descriptor; it stays readable while the  *)
(* message is executed, and when it is served, unless the queue was        *)
(* stopped or rewired: then no watch is found for it.                      *)
Reported ==
    /\ ready = << >> \/ \E f \in Fds : ready = <<f>>
    /\ phase = "serve" => ready # << >>
    /\ life = "running" =>
       /\ phase = "dispatch" /\ ready # << >> =>
             TX \in handler /\ ready = <<kickFd[TX]>> /\ fds[kickFd[TX]] \in readable
       /\ phase = "serve" /\ TX \in handler /\ ready = <<kickFd[TX]>> =>
             fds[kickFd[TX]] \in readable
    /\ why # "eventfd"

(* A started queue was given its index and its address, and a ring whose   *)
(* address stands is nowhere or in the present mapping.                    *)
Rings ==
    /\ started \subseteq synced \cap addressed
    /\ life = "running" => \A q \in addressed : ring[q] \in {0, region[q]}

(* What was emitted is the guest's buffers from zero, without a gap; where *)
(* the queue goes on from is kept in last_avail_idx while the frontend's   *)
(* index holds, and by the frontend while the queue is stopped.            *)
Emission ==
    /\ emitted \in Seq(Nat)
    /\ Len(emitted) <= published
    /\ \A k \in 1..Len(emitted) : emitted[k] = k - 1
    /\ TX \in synced => lastAvail[TX] = Len(emitted)
    /\ TX \notin started => base[TX] = Len(emitted)

IndInv == Types /\ Table /\ Reported /\ Rings /\ Emission

LEMMA Initially == Init => IndInv
<1> SUFFICES ASSUME Init PROVE IndInv
  OBVIOUS
<1> USE VhostBackendConstants
<1>1. Types
  BY DEF Init, Types, Fds
<1>2. Table
  <2>1. \A f \in Fds : fds[f] = Closed
    BY DEF Init, Fds
  <2>2. Accounts(OwnFds, fds)
    BY SMTT(30), <2>1, NoneHeld DEF Init, OwnFds
  <2> QED BY <2>2 DEF Init, Table, Watched
<1>3. Reported /\ Rings
  BY DEF Init, Reported, Rings
<1>4. Emission
  <2>1. emitted \in Seq(Nat) /\ Len(emitted) = 0
    BY EmptySeq DEF Init
  <2> QED BY <2>1 DEF Init, Emission
<1> QED BY <1>1, <1>2, <1>3, <1>4 DEF IndInv

-----------------------------------------------------------------------------
(***************************************************************************)
(* Types.                                                                  *)
(***************************************************************************)
LEMMA TxKickTypes ==
    ASSUME Types, NEW q \in Queues, TxKick(q)
    PROVE  lastAvail' \in [Queues -> 0..MaxAvail]
BY DEF TxKick, Types

LEMMA NewFdType ==
    ASSUME NEW nofd \in BOOLEAN, Arrives(nofd)
    PROVE  NewFd(nofd) \in Fds \cup {-1}
           /\ (NewFd(nofd) # -1 => fds[NewFd(nofd)] = Closed)
BY ReceivedIsFree DEF NewFd, Arrives

LEMMA PassedType ==
    ASSUME Types, NEW old \in Fds \cup {-1}, NEW e \in KickEvents \cup {Other},
           NEW nofd \in BOOLEAN, Arrives(nofd)
    PROVE  Passed(e, nofd, old) \in [Fds -> KickEvents \cup {Other, Closed}]
BY ReceivedIsFree DEF Passed, Close, Arrives, Types

(* A passed descriptor takes its place and the one it replaces is closed.  *)
LEMMA PassedReplaces ==
    ASSUME Types, NEW own2, NEW h \in Holders, NEW e \in KickEvents \cup {Other},
           NEW nofd \in BOOLEAN, Arrives(nofd), Accounts(OwnFds, fds),
           Takes(OwnFds, own2, h, NewFd(nofd))
    PROVE  /\ Passed(e, nofd, OwnFds[h]) \in [Fds -> KickEvents \cup {Other, Closed}]
           /\ Accounts(own2, Passed(e, nofd, OwnFds[h]))
<1> DEFINE n == NewFd(nofd)
<1>1. n \in Fds \cup {-1} /\ (n # -1 => fds[n] = Closed)
  BY NewFdType
<1>2. fds \in [Fds -> KickEvents \cup {Other, Closed}]
  BY DEF Types
<1>3. Passed(e, nofd, OwnFds[h])
        = Close(IF n = -1 THEN fds ELSE [fds EXCEPT ![n] = e], OwnFds[h])
  <2>1. CASE nofd
    BY <2>1 DEF Passed, NewFd
  <2>2. CASE ~nofd
    <3>1. n = Received /\ n # -1
      BY <2>2, ReceivedIsFree DEF NewFd, Arrives, Fds
    <3> QED BY <2>2, <3>1 DEF Passed
  <2> QED BY <2>1, <2>2
<1>4. Accounts(OwnFds, fds) /\ Takes(OwnFds, own2, h, n)
  OBVIOUS
<1> HIDE DEF n
<1>5. LET t2 == Close(IF n = -1 THEN fds ELSE [fds EXCEPT ![n] = e], OwnFds[h])
      IN  /\ t2 \in [Fds -> KickEvents \cup {Other, Closed}]
          /\ Accounts(own2, t2)
  BY <1>1, <1>2, <1>4, Replace
<1> QED BY <1>3, <1>5 DEF n

(* A field gives up what it held.                                          *)
LEMMA CloseFrees ==
    ASSUME NEW own, NEW own2, NEW t \in [Fds -> KickEvents \cup {Other, Closed}],
           NEW h \in Holders, Accounts(own, t), Takes(own, own2, h, -1)
    PROVE  /\ Close(t, own[h]) \in [Fds -> KickEvents \cup {Other, Closed}]
           /\ Accounts(own2, Close(t, own[h]))
<1> DEFINE n == -1
<1>1. n \in Fds \cup {-1} /\ n = -1 /\ Other \in KickEvents \cup {Other}
  OBVIOUS
<1> HIDE DEF n
<1>2. /\ Close(IF n = -1 THEN t ELSE [t EXCEPT ![n] = Other], own[h])
             \in [Fds -> KickEvents \cup {Other, Closed}]
      /\ Accounts(own2, Close(IF n = -1 THEN t ELSE [t EXCEPT ![n] = Other], own[h]))
  BY <1>1, Replace
<1> QED BY <1>1, <1>2

(* A message that maps memory fails, or finds every ring again.            *)
Remapped ==
    /\ ring' \in [Queues -> 0..MaxMaps] /\ region' \in [Queues -> 0..MaxMaps]
    /\ maps' \in 0..MaxMaps
    /\ \A q \in Queues : ring'[q] \in {0, region'[q]}
    /\ Goes
    /\ UNCHANGED <<life, why, fds, readable, W, kickFd, callFd, errFd, started,
                   handler, sized, lastAvail, guest, devFd>>

Aborts ==
    /\ life' = "aborted"
    /\ UNCHANGED <<why, phase, ready, fds, readable, W, queues, dev, guest>>

LibPanic == \E reason \in {"frontend", "reply", "mmap", "remap"} : Panic(reason)

LEMMA RemapSteps ==
    ASSUME Types, life = "running", NEW r \in [Queues -> 0..MaxMaps],
           NEW reason \in {"frontend", "remap"}, RemapRings(r, reason)
    PROVE  \/ Panic(reason)
           \/ /\ life' = "running"
              /\ ring' \in [Queues -> 0..MaxMaps]
              /\ \A q \in Queues : ring'[q] \in {0, r[q]} /\ (r[q] = 0 => ring'[q] = 0)
              /\ Goes
              /\ UNCHANGED <<life, why, fds, readable, W, kickFd, callFd, errFd,
                             started, handler, sized, lastAvail, guest, devFd>>
<1>1. CASE Panic(reason)
  BY <1>1
<1>2. CASE ~Panic(reason)
  <2>1. /\ {q \in Queues : ring[q] # 0 /\ r[q] = 0} = {}
        /\ ring' = [q \in Queues |-> IF ring[q] = 0 THEN 0 ELSE r[q]]
        /\ Goes
        /\ UNCHANGED <<life, why, fds, readable, W, kickFd, callFd, errFd,
                       started, handler, sized, lastAvail, guest, devFd>>
    BY <1>2, Zenon DEF RemapRings, MapRing
  <2>2. 0 \in 0..MaxMaps
    BY VhostBackendConstants
  <2>3. ring' \in [Queues -> 0..MaxMaps]
    BY <2>1, <2>2
  <2>4. \A q \in Queues : ring'[q] \in {0, r[q]} /\ (r[q] = 0 => ring'[q] = 0)
    BY <2>1
  <2>5. life' = "running"
    BY <2>1
  <2> QED BY <2>1, <2>3, <2>4, <2>5, Zenon
<1> QED BY <1>1, <1>2

LEMMA SetMemTableSteps ==
    ASSUME Types, NEW cover \in SUBSET Queues, NEW n \in 1..MaxRegions,
           SetMemTable(cover, n)
    PROVE  LibPanic \/ Aborts \/ Remapped
<1> DEFINE new == [q \in Queues |-> IF q \in cover THEN maps + 1 ELSE 0]
<1>1. life = "running" /\ maps < MaxMaps
  BY DEF SetMemTable, Dispatching
<1>2. new \in [Queues -> 0..MaxMaps] /\ maps + 1 \in 0..MaxMaps
  BY <1>1, VhostBackendConstants DEF Types
<1>3. CASE Panic("mmap")
  BY <1>3 DEF LibPanic
<1>4. CASE life' = "aborted"
  BY <1>4, <1>1 DEF SetMemTable, RemapRings, Panic, Aborts
<1>5. CASE RemapRings(new, "frontend") /\ ~Panic("frontend")
  <2>1. /\ life' = "running"
        /\ ring' \in [Queues -> 0..MaxMaps]
        /\ \A q \in Queues : ring'[q] \in {0, new[q]}
        /\ Goes
        /\ UNCHANGED <<life, why, fds, readable, W, kickFd, callFd, errFd,
                       started, handler, sized, lastAvail, guest, devFd>>
    BY <1>1, <1>2, <1>5, RemapSteps, Zenon
  <2>2. region' = new /\ maps' = maps + 1
    BY <2>1 DEF SetMemTable, Panic
  <2> QED BY <1>2, <2>1, <2>2, Zenon DEF Remapped
<1>6. CASE Panic("frontend")
  BY <1>6 DEF LibPanic
<1> QED BY <1>3, <1>4, <1>5, <1>6 DEF SetMemTable

LEMMA AddMemRegSteps ==
    ASSUME Types, NEW cover \in SUBSET Queues, AddMemReg(cover)
    PROVE  LibPanic \/ Remapped
<1> DEFINE new == [q \in Queues |-> IF q \in cover THEN maps + 1 ELSE region[q]]
<1>1. life = "running" /\ maps < MaxMaps /\ \A q \in cover : region[q] = 0
  BY DEF AddMemReg, Dispatching
<1>2. region \in [Queues -> 0..MaxMaps] /\ maps + 1 \in 0..MaxMaps
  BY <1>1, VhostBackendConstants DEF Types
<1>3. new \in [Queues -> 0..MaxMaps]
  BY <1>2
<1>4. CASE Panic("mmap") \/ Panic("remap")
  BY <1>4 DEF LibPanic
<1>5. CASE RemapRings(region, "remap") /\ ~Panic("remap")
  <2>1. /\ life' = "running"
        /\ ring' \in [Queues -> 0..MaxMaps]
        /\ \A q \in Queues : ring'[q] \in {0, region[q]} /\ (region[q] = 0 => ring'[q] = 0)
        /\ Goes
        /\ UNCHANGED <<life, why, fds, readable, W, kickFd, callFd, errFd,
                       started, handler, sized, lastAvail, guest, devFd>>
    BY <1>1, <1>2, <1>5, RemapSteps, Zenon
  <2>2. CASE Panic("mmap")
    BY <2>2 DEF LibPanic
  <2>3. CASE region' = new /\ maps' = maps + 1
    <3>1. \A q \in Queues : ring'[q] \in {0, new[q]}
      BY <1>1, <2>1
    <3> QED BY <1>2, <1>3, <2>1, <2>3, <3>1, Zenon DEF Remapped
  <2> QED BY <2>1, <2>2, <2>3 DEF AddMemReg
<1> QED BY <1>4, <1>5 DEF AddMemReg

LEMMA TypesStep ==
    ASSUME IndInv, [Next]_vars
    PROVE  Types'
<1> USE VhostBackendConstants
<1>0. Types /\ Accounts(OwnFds, fds) /\ emitted \in Seq(Nat)
  BY DEF IndInv, Table, Emission
<1>1. CASE Features \/ Queries \/ Refused \/ ReplyFails \/ Disconnected
  BY <1>0, <1>1 DEF Types, Features, Queries, Refused, ReplyFails, Disconnected,
     Goes, Panic, queues, dev, guest
<1>2. ASSUME NEW cover \in SUBSET Queues, AddMemReg(cover)
      PROVE  Types'
  BY <1>0, <1>2, AddMemRegSteps DEF Types, LibPanic, Remapped, Goes, Panic, queues,
     dev, guest
<1>3. ASSUME NEW cover \in SUBSET Queues, RemMemReg(cover)
      PROVE  Types'
  BY SMTT(30), <1>0, <1>3 DEF Types, RemMemReg, Goes, queues
<1>4. ASSUME NEW cover \in SUBSET Queues, NEW n \in 1..MaxRegions, SetMemTable(cover, n)
      PROVE  Types'
  BY <1>0, <1>4, SetMemTableSteps DEF Types, LibPanic, Aborts, Remapped, Goes, Panic,
     queues, dev, guest
<1>5. ASSUME NEW d \in DevFds, SetDevFd(d)
      PROVE  Types'
  <2>1. fds' \in [Fds -> KickEvents \cup {Other, Closed}]
    BY <1>0, <1>5, PassedType DEF Types, SetDevFd
  <2>2. Received \in Fds
    BY <1>5, ReceivedIsFree DEF SetDevFd, Arrives
  <2> QED BY <1>0, <1>5, <2>1, <2>2 DEF Types, SetDevFd, Goes, queues, guest
<1>6. ASSUME NEW q \in Queues, SetVringNum(q) \/ SetVringAddr(q) \/ SetVringBase(q)
      PROVE  Types'
  BY ZenonT(30), <1>0, <1>6 DEF Types, SetVringNum, SetVringAddr, SetVringBase, MapRing, Goes,
     Panic, queues, dev, guest
<1>7. ASSUME NEW q \in Queues, GetVringBase(q)
      PROVE  Types'
  BY <1>0, <1>7 DEF Types, GetVringBase, Close, Goes, dev
<1>8. ASSUME NEW q \in Queues, VringKick(q)
      PROVE  Types'
  <2>1. lastAvail' \in [Queues -> 0..MaxAvail]
    BY <1>0, <1>8, TxKickTypes DEF VringKick, Types
  <2> QED BY <1>0, <1>8, <2>1 DEF Types, VringKick, Goes, dev
<1>9. ASSUME NEW q \in Queues, NEW nofd \in BOOLEAN, NEW e \in KickEvents,
             SetVringKick(q, e, nofd)
      PROVE  Types'
  <2>1. fds' \in [Fds -> KickEvents \cup {Other, Closed}]
    BY <1>0, <1>9, PassedType DEF Types, SetVringKick
  <2>2. NewFd(nofd) \in Fds \cup {-1}
    BY <1>9, NewFdType DEF SetVringKick
  <2> QED BY <1>0, <1>9, <2>1, <2>2 DEF Types, SetVringKick, Goes, dev, guest
<1>10. ASSUME NEW q \in Queues, NEW nofd \in BOOLEAN,
              SetVringCall(q, nofd) \/ SetVringErr(q, nofd)
       PROVE  Types'
  <2>1. NewFd(nofd) \in Fds \cup {-1}
    BY <1>10, NewFdType DEF SetVringCall, SetVringErr
  <2>2. CASE SetVringCall(q, nofd)
    <3>1. fds' \in [Fds -> KickEvents \cup {Other, Closed}]
      BY <1>0, <2>2, PassedType DEF Types, SetVringCall
    <3> QED BY <1>0, <2>1, <2>2, <3>1 DEF Types, SetVringCall, Goes, dev, guest
  <2>3. CASE SetVringErr(q, nofd)
    <3>1. fds' \in [Fds -> KickEvents \cup {Other, Closed}]
      BY <1>0, <2>3, PassedType DEF Types, SetVringErr
    <3> QED BY <1>0, <2>1, <2>3, <3>1 DEF Types, SetVringErr, Goes, dev, guest
  <2> QED BY <1>10, <2>2, <2>3
<1>11. CASE Serve
  <2> DEFINE i == WatchOf(W, Head(ready))
  <2>1. CASE i > 0 /\ KickCb(W[i].q)
    <3>1. CASE Panic("eventfd")
      BY <1>0, <3>1 DEF Types, Panic, queues, dev, guest
    <3>2. CASE ~Panic("eventfd")
      <4>1. lastAvail' \in [Queues -> 0..MaxAvail]
        <5>1. CASE W[i].q \in handler
          <6>1. W[i].q \in Queues
            BY <5>1 DEF IndInv, Table
          <6> QED BY <1>0, <2>1, <3>2, <5>1, <6>1, TxKickTypes DEF KickCb
        <5>2. CASE W[i].q \notin handler
          BY <1>0, <2>1, <3>2, <5>2 DEF KickCb, Types
        <5> QED BY <5>1, <5>2
      <4> QED BY <1>0, <2>1, <3>2, <4>1 DEF Types, KickCb, dev
    <3> QED BY <3>1, <3>2
  <2>2. CASE i = 0
    <3>1. ~(i > 0)
      BY <2>2
    <3>2. /\ phase' = "poll" \/ phase' = "serve"
          /\ UNCHANGED <<life, why, fds, readable, W, queues, dev, guest>>
      <4> HIDE DEF i
      <4> QED BY <1>11, <3>1, Zenon DEF Serve, i
    <3> QED BY <1>0, <3>2 DEF Types, queues, dev, guest
  <2> QED BY <1>11, <2>1, <2>2 DEF Serve
<1>12. CASE PollFails
  BY SMTT(30), <1>0, <1>12 DEF Types, PollFails, guest
<1>13. ASSUME NEW sock \in BOOLEAN, Poll(sock)
       PROVE  Types'
  BY <1>0, <1>13 DEF Types, Poll, queues, dev, guest
<1>14. CASE Publish \/ GuestReset \/ \E e \in KickEvents : Kick(e)
  <2>1. CASE Publish
    <3>1. published' \in 0..MaxAvail
      BY <1>0, <2>1 DEF Types, Publish
    <3> QED BY <1>0, <2>1, <3>1 DEF Types, Publish, queues, dev
  <2>2. CASE GuestReset
    BY SMTT(30), <1>0, <2>2 DEF Types, GuestReset, queues, dev
  <2>3. ASSUME NEW e \in KickEvents, Kick(e)
        PROVE  Types'
    <3>1. readable' \subseteq KickEvents
      BY <1>0, <2>3 DEF Types, Kick
    <3> QED BY <1>0, <2>3, <3>1 DEF Types, Kick, queues, dev, guest
  <2> QED BY <1>14, <2>1, <2>2, <2>3
<1>15. CASE UNCHANGED vars
  BY <1>0, <1>15 DEF Types, vars, queues, dev, guest
<1> QED BY <1>1, <1>2, <1>3, <1>4, <1>5, <1>6, <1>7, <1>8, <1>9, <1>10, <1>11,
           <1>12, <1>13, <1>14, <1>15 DEF Next, Backend, Dispatch

-----------------------------------------------------------------------------
(***************************************************************************)
(* Watches and descriptors.                                                *)
(***************************************************************************)
(* What the messages do to the fields, seen from the holders.              *)
LEMMA OwnSteps ==
    ASSUME Types, NEW n
    PROVE  /\ \A q \in Queues :
                /\ kickFd' = [kickFd EXCEPT ![q] = n] /\ UNCHANGED <<callFd, errFd, devFd>>
                     => Takes(OwnFds, OwnFds', <<q, "kick">>, n)
                /\ callFd' = [callFd EXCEPT ![q] = n] /\ UNCHANGED <<kickFd, errFd, devFd>>
                     => Takes(OwnFds, OwnFds', <<q, "call">>, n)
                /\ errFd' = [errFd EXCEPT ![q] = n] /\ UNCHANGED <<kickFd, callFd, devFd>>
                     => Takes(OwnFds, OwnFds', <<q, "err">>, n)
           /\ \A d \in DevFds :
                devFd' = [devFd EXCEPT ![d] = n] /\ UNCHANGED <<kickFd, callFd, errFd>>
                  => Takes(OwnFds, OwnFds', <<d, "dev">>, n)
<1> USE HolderNames, OwnTakes
<1>1. ASSUME NEW q \in Queues, kickFd' = [kickFd EXCEPT ![q] = n],
             UNCHANGED <<callFd, errFd, devFd>>
      PROVE  Takes(OwnFds, OwnFds', <<q, "kick">>, n)
  BY <1>1 DEF Types, OwnFds
<1>2. ASSUME NEW q \in Queues, callFd' = [callFd EXCEPT ![q] = n],
             UNCHANGED <<kickFd, errFd, devFd>>
      PROVE  Takes(OwnFds, OwnFds', <<q, "call">>, n)
  BY <1>2 DEF Types, OwnFds
<1>3. ASSUME NEW q \in Queues, errFd' = [errFd EXCEPT ![q] = n],
             UNCHANGED <<kickFd, callFd, devFd>>
      PROVE  Takes(OwnFds, OwnFds', <<q, "err">>, n)
  BY <1>3 DEF Types, OwnFds
<1>4. ASSUME NEW d \in DevFds, devFd' = [devFd EXCEPT ![d] = n],
             UNCHANGED <<kickFd, callFd, errFd>>
      PROVE  Takes(OwnFds, OwnFds', <<d, "dev">>, n)
  BY <1>4 DEF Types, OwnFds
<1> QED BY <1>1, <1>2, <1>3, <1>4

(* A step that touches neither descriptors nor handlers nor watches.       *)
LEMMA TableQuiet ==
    ASSUME Table, UNCHANGED <<fds, kickFd, callFd, errFd, devFd, handler, started>>,
           life' = "running" => life = "running" /\ W' = W
    PROVE  Table'
<1>1. OwnFds' = OwnFds
  BY DEF OwnFds
<1>2. Accounts(OwnFds, fds)'
  BY <1>1 DEF Table, Accounts
<1> QED BY <1>2 DEF Table, Watched, Entry

(* A queue's kick descriptor is no other queue's.                          *)
LEMMA KickIsOwn ==
    ASSUME Table, NEW q \in Queues, NEW p \in Queues, kickFd[q] = kickFd[p],
           kickFd[q] # -1
    PROVE  q = p
<1>1. \A g, h \in Holders : OwnFds[g] = OwnFds[h] /\ OwnFds[g] # -1 => g = h
  BY DEF Table, Accounts
<1>2. /\ <<q, "kick">> \in Holders /\ OwnFds[<<q, "kick">>] = kickFd[q]
      /\ <<p, "kick">> \in Holders /\ OwnFds[<<p, "kick">>] = kickFd[p]
  BY OwnAt, Zenon
<1>3. <<q, "kick">> = <<p, "kick">>
  BY <1>1, <1>2, Zenon
<1> QED BY <1>3

(* The watches once queue q's were removed: those of the others.           *)
LEMMA Unwatched ==
    ASSUME Table, NEW q \in Queues, life = "running"
    PROVE  (IF kickFd[q] = -1 THEN W ELSE RemoveWatch(W, kickFd[q]))
             = IF q = TX THEN << >> ELSE Watched
<1>1. W = Watched /\ TX \in Queues
  BY VhostBackendConstants DEF Table
<1>2. CASE kickFd[q] = -1
  BY <1>1, <1>2 DEF Watched
<1>3. CASE kickFd[q] # -1 /\ Watched = << >>
  BY <1>1, <1>3, WatchTable
<1>4. CASE kickFd[q] # -1 /\ Watched # << >>
  <2>1. Watched = <<Entry(kickFd[TX], TX)>>
    BY <1>4 DEF Watched
  <2>2. RemoveWatch(W, kickFd[q])
          = IF kickFd[TX] = kickFd[q] THEN << >> ELSE Watched
    BY <1>1, <2>1, WatchTable
  <2>3. kickFd[TX] = kickFd[q] <=> q = TX
    BY <1>1, <1>4, KickIsOwn
  <2> QED BY <1>4, <2>2, <2>3
<1> QED BY <1>2, <1>3, <1>4

LEMMA TableStep ==
    ASSUME IndInv, [Next]_vars
    PROVE  Table'
<1>0. Types /\ Table /\ Accounts(OwnFds, fds) /\ TX \in Queues /\ Types'
      /\ handler = started \cap {TX} /\ (life = "running" => W = Watched)
  BY TypesStep, VhostBackendConstants DEF IndInv, Table
<1>1. CASE Features \/ Queries \/ Refused \/ ReplyFails \/ Disconnected
  BY <1>0, <1>1, TableQuiet DEF Features, Queries, Refused, ReplyFails, Disconnected,
     Dispatching, Goes, Panic, queues, dev
<1>2. ASSUME NEW cover \in SUBSET Queues, AddMemReg(cover)
      PROVE  Table'
  BY <1>0, <1>2, AddMemRegSteps, TableQuiet DEF LibPanic, Panic, Remapped, queues, dev
<1>3. ASSUME NEW cover \in SUBSET Queues, RemMemReg(cover)
      PROVE  Table'
  BY <1>0, <1>3, TableQuiet DEF RemMemReg, queues
<1>4. ASSUME NEW cover \in SUBSET Queues, NEW n \in 1..MaxRegions, SetMemTable(cover, n)
      PROVE  Table'
  BY <1>0, <1>4, SetMemTableSteps, TableQuiet DEF LibPanic, Panic, Aborts, Remapped,
     queues, dev
<1>5. ASSUME NEW d \in DevFds, SetDevFd(d)
      PROVE  Table'
  <2>1. Takes(OwnFds, OwnFds', <<d, "dev">>, Received)
    BY <1>0, <1>5, OwnSteps DEF SetDevFd, queues
  <2>2. NewFd(FALSE) = Received /\ Arrives(FALSE) /\ fds' = Passed(Other, FALSE, devFd[d])
    BY <1>5 DEF SetDevFd, NewFd
  <2>3. Accounts(OwnFds', fds')
    BY <1>0, <2>1, <2>2, OwnAt, PassedReplaces
  <2>4. Accounts(OwnFds, fds)'
    BY <2>3 DEF Accounts
  <2> QED BY <1>0, <1>5, <2>4 DEF SetDevFd, Table, Watched, Entry, queues
<1>6. ASSUME NEW q \in Queues, SetVringNum(q) \/ SetVringAddr(q) \/ SetVringBase(q)
      PROVE  Table'
  BY <1>0, <1>6, TableQuiet DEF SetVringNum, SetVringAddr, SetVringBase, Panic, queues, dev
<1>7. ASSUME NEW q \in Queues, GetVringBase(q)
      PROVE  Table'
  <2> DEFINE own1 == Own(kickFd, [callFd EXCEPT ![q] = -1], errFd, devFd)
             t1 == Close(fds, callFd[q])
             t2 == Close(t1, kickFd[q])
  <2>1. Takes(OwnFds, own1, <<q, "call">>, -1)
    BY <1>0, HolderNames, OwnTakes DEF OwnFds, Types
  <2>2. Takes(own1, OwnFds', <<q, "kick">>, -1)
    BY <1>0, <1>7, HolderNames, OwnTakes DEF OwnFds, Types, GetVringBase, dev
  <2>3. t1 \in [Fds -> KickEvents \cup {Other, Closed}] /\ Accounts(own1, t1)
    <3>1. <<q, "call">> \in Holders /\ OwnFds[<<q, "call">>] = callFd[q]
      BY OwnAt
    <3>2. fds \in [Fds -> KickEvents \cup {Other, Closed}]
      BY <1>0 DEF Types
    <3> QED BY <1>0, <2>1, <3>1, <3>2, CloseFrees
  <2> HIDE DEF own1, t1
  <2>4. own1[<<q, "kick">>] = kickFd[q] /\ <<q, "kick">> \in Holders
    BY <2>1, HolderNames, OwnAt DEF Takes
  <2>5. Accounts(OwnFds', t2)
    BY <2>2, <2>3, <2>4, CloseFrees
  <2> USE DEF own1, t1
  <2>6. Accounts(OwnFds, fds)'
    <3>1. fds' = t2
      BY <1>7 DEF GetVringBase
    <3> QED BY <2>5, <3>1 DEF Accounts
  <2>7. handler' = started' \cap {TX}
    BY <1>0, <1>7 DEF GetVringBase, StartedHandlers
  <2>8. life = "running" /\ life' = "running"
    BY <1>7 DEF GetVringBase, Dispatching
  <2>9. W' = IF q = TX THEN << >> ELSE Watched
    <3>1. CASE q = TX /\ kickFd[q] # -1
      <4>1. RemoveWatch(W, kickFd[q]) = << >>
        BY <1>0, <2>8, <3>1, Unwatched
      <4> QED BY <1>7, <3>1, <4>1, WatchTable DEF GetVringBase, StartedWatches
    <3>2. CASE q # TX \/ kickFd[q] = -1
      <4>1. W' = IF kickFd[q] = -1 THEN W ELSE RemoveWatch(W, kickFd[q])
        BY <1>7, <3>2 DEF GetVringBase, StartedWatches
      <4> QED BY <1>0, <2>8, <4>1, Unwatched
    <3> QED BY <3>1, <3>2
  <2>10. W' = Watched'
    <3>1. CASE q = TX
      BY <1>0, <1>7, <2>7, <2>9, <3>1 DEF GetVringBase, Watched
    <3>2. CASE q # TX
      <4>1. kickFd'[TX] = kickFd[TX] /\ (TX \in handler' <=> TX \in handler)
        BY <1>0, <1>7, <3>2 DEF GetVringBase, StartedHandlers, Types
      <4> QED BY <2>9, <3>2, <4>1 DEF Watched, Entry
    <3> QED BY <3>1, <3>2
  <2> QED BY <2>6, <2>7, <2>10 DEF Table
<1>8. ASSUME NEW q \in Queues, VringKick(q)
      PROVE  Table'
  <2>1. Accounts(OwnFds, fds)'
    BY <1>0, <1>8 DEF VringKick, dev, OwnFds, Accounts
  <2>2. handler' = started' \cap {TX}
    BY <1>0, <1>8 DEF VringKick, StartedHandlers
  <2>3. life = "running" /\ life' = "running" /\ kickFd' = kickFd
    BY <1>8 DEF VringKick, Dispatching
  <2>4. CASE q # TX \/ q \in started
    <3>1. W' = W /\ handler' = handler
      BY <1>0, <1>8, <2>4 DEF VringKick, StartedHandlers, StartedWatches
    <3> QED BY <1>0, <2>1, <2>2, <2>3, <3>1 DEF Table, Watched, Entry
  <2>5. CASE q = TX /\ q \notin started
    <3>1. W = << >>
      BY <1>0, <2>3, <2>5 DEF Watched
    <3>2. W' = IF kickFd[TX] = -1 THEN << >> ELSE <<Entry(kickFd[TX], TX)>>
      BY <1>8, <2>5, <3>1, WatchTable DEF VringKick, StartedWatches
    <3>3. TX \in handler'
      BY <1>8, <2>5 DEF VringKick, StartedHandlers
    <3> QED BY <2>1, <2>2, <2>3, <3>2, <3>3 DEF Table, Watched, Entry
  <2> QED BY <2>4, <2>5
<1>9. ASSUME NEW q \in Queues, NEW nofd \in BOOLEAN, NEW e \in KickEvents,
             SetVringKick(q, e, nofd)
      PROVE  Table'
  <2>1. Takes(OwnFds, OwnFds', <<q, "kick">>, NewFd(nofd))
    BY <1>0, <1>9, OwnSteps DEF SetVringKick, dev
  <2>2. Accounts(OwnFds', fds')
    BY <1>0, <1>9, <2>1, OwnAt, PassedReplaces DEF SetVringKick
  <2>3. Accounts(OwnFds, fds)'
    BY <2>2 DEF Accounts
  <2>4. handler' = started' \cap {TX}
    BY <1>0, <1>9 DEF SetVringKick, StartedHandlers
  <2>5. life = "running" /\ life' = "running"
    BY <1>9 DEF SetVringKick, Dispatching
  <2>6. W' = StartedWatches(IF q = TX THEN << >> ELSE Watched, q, NewFd(nofd), TRUE)
    BY <1>0, <1>9, <2>5, Unwatched DEF SetVringKick
  <2>7. kickFd' = [kickFd EXCEPT ![q] = NewFd(nofd)]
    BY <1>9 DEF SetVringKick
  <2>8. CASE q = TX
    <3>1. TX \in handler' /\ kickFd'[TX] = NewFd(nofd)
      BY <1>0, <1>9, <2>7, <2>8 DEF SetVringKick, StartedHandlers, Types
    <3>2. W' = IF NewFd(nofd) = -1 THEN << >> ELSE <<Entry(NewFd(nofd), TX)>>
      BY <2>6, <2>8, WatchTable DEF StartedWatches
    <3> QED BY <2>3, <2>4, <3>1, <3>2 DEF Table, Watched, Entry
  <2>9. CASE q # TX
    <3>1. handler' = handler /\ kickFd'[TX] = kickFd[TX]
      BY <1>0, <1>9, <2>7, <2>9 DEF SetVringKick, StartedHandlers, Types
    <3>2. W' = Watched
      BY <2>6, <2>9 DEF StartedWatches
    <3> QED BY <2>3, <2>4, <3>1, <3>2 DEF Table, Watched, Entry
  <2> QED BY <2>8, <2>9
<1>10. ASSUME NEW q \in Queues, NEW nofd \in BOOLEAN,
              SetVringCall(q, nofd) \/ SetVringErr(q, nofd)
       PROVE  Table'
  <2>1. CASE SetVringCall(q, nofd)
    <3>1. Takes(OwnFds, OwnFds', <<q, "call">>, NewFd(nofd))
      BY <1>0, <2>1, OwnSteps DEF SetVringCall, dev
    <3>2. Accounts(OwnFds', fds')
      BY <1>0, <2>1, <3>1, OwnAt, PassedReplaces DEF SetVringCall
    <3>3. Accounts(OwnFds, fds)'
      BY <3>2 DEF Accounts
    <3> QED BY <1>0, <2>1, <3>3 DEF SetVringCall, Table, Watched, Entry
  <2>2. CASE SetVringErr(q, nofd)
    <3>1. Takes(OwnFds, OwnFds', <<q, "err">>, NewFd(nofd))
      BY <1>0, <2>2, OwnSteps DEF SetVringErr, dev
    <3>2. Accounts(OwnFds', fds')
      BY <1>0, <2>2, <3>1, OwnAt, PassedReplaces DEF SetVringErr
    <3>3. Accounts(OwnFds, fds)'
      BY <3>2 DEF Accounts
    <3> QED BY <1>0, <2>2, <3>3 DEF SetVringErr, Table, Watched, Entry
  <2> QED BY <1>10, <2>1, <2>2
<1>11. CASE Serve
  BY <1>0, <1>11, TableQuiet DEF Serve, KickCb, Panic, queues, dev
<1>12. CASE PollFails
  <2>3. \A f \in Fds : fds'[f] = Closed
    <3>1. SUFFICES ASSUME NEW f \in Fds, fds[f] # Closed
                   PROVE  fds'[f] = Closed
      BY <1>0, <1>12 DEF PollFails, Types
    <3>2. PICK h \in Holders : OwnFds[h] = f
      BY <1>0, <3>1 DEF Accounts
    <3>3. \/ \E q \in Queues : f \in {kickFd[q], callFd[q], errFd[q]}
          \/ \E d \in DevFds : f = devFd[d]
      BY ZenonT(30), <3>2, HolderKinds, OwnAt
    <3>4. DOMAIN fds = Fds
      BY <1>0 DEF Types
    <3>5. f \in (UNION {{kickFd[q], callFd[q], errFd[q]} : q \in Queues})
                 \cup {devFd[d] : d \in DevFds}
      BY <3>3
    <3> QED BY <1>12, <3>4, <3>5 DEF PollFails
  <2>4. Accounts(OwnFds', fds')
    <3>1. /\ kickFd' = [q \in Queues |-> -1] /\ callFd' = kickFd' /\ errFd' = kickFd'
          /\ devFd' = [d \in DevFds |-> -1]
      BY <1>12 DEF PollFails
    <3>2. Accounts(Own(kickFd', callFd', errFd', devFd'), fds')
      BY <2>3, <3>1, NoneHeld
    <3> QED BY <3>2 DEF OwnFds
  <2>5. Accounts(OwnFds, fds)'
    BY <2>4 DEF Accounts
  <2> QED BY <1>0, <1>12, <2>5 DEF PollFails, Table
<1>13. ASSUME NEW sock \in BOOLEAN, Poll(sock)
       PROVE  Table'
  BY <1>0, <1>13, TableQuiet DEF Poll, queues, dev
<1>14. CASE Publish \/ GuestReset \/ \E e \in KickEvents : Kick(e)
  BY <1>0, <1>14, TableQuiet DEF Publish, GuestReset, Kick, queues, dev
<1>15. CASE UNCHANGED vars
  BY <1>0, <1>15, TableQuiet DEF vars, queues, dev
<1> QED BY <1>1, <1>2, <1>3, <1>4, <1>5, <1>6, <1>7, <1>8, <1>9, <1>10, <1>11,
           <1>12, <1>13, <1>14, <1>15 DEF Next, Backend, Dispatch

-----------------------------------------------------------------------------
(***************************************************************************)
(* Reported descriptors.                                                   *)
(***************************************************************************)

(* No other field holds the transmit queue's kick descriptor.              *)
LEMMA KickAlone ==
    ASSUME Table, kickFd[TX] # -1
    PROVE  /\ \A q \in Queues : /\ callFd[q] # kickFd[TX] /\ errFd[q] # kickFd[TX]
                                /\ q # TX => kickFd[q] # kickFd[TX]
           /\ \A d \in DevFds : devFd[d] # kickFd[TX]
<1>1. \A g, h \in Holders : OwnFds[g] = OwnFds[h] /\ OwnFds[g] # -1 => g = h
  BY DEF Table, Accounts
<1>2. TX \in Queues
  BY VhostBackendConstants
<1>3. <<TX, "kick">> \in Holders /\ OwnFds[<<TX, "kick">>] = kickFd[TX]
  BY <1>2, OwnAt
<1>4. \A h \in Holders : OwnFds[h] = kickFd[TX] => h = <<TX, "kick">>
  BY <1>1, <1>3
<1>5. ASSUME NEW q \in Queues
      PROVE  /\ callFd[q] # kickFd[TX] /\ errFd[q] # kickFd[TX]
             /\ q # TX => kickFd[q] # kickFd[TX]
  <2>1. /\ <<q, "call">> # <<TX, "kick">> /\ <<q, "err">> # <<TX, "kick">>
        /\ q # TX => <<q, "kick">> # <<TX, "kick">>
    BY HolderNames
  <2> QED BY <1>4, <2>1, OwnAt
<1>6. ASSUME NEW d \in DevFds
      PROVE  devFd[d] # kickFd[TX]
  <2>1. <<d, "dev">> # <<TX, "kick">>
    BY HolderNames
  <2> QED BY <1>4, <2>1, OwnAt
<1> QED BY <1>5, <1>6

(* An open descriptor that is not the replaced one stays what it is.       *)
LEMMA PassedKeeps ==
    ASSUME Types, NEW f \in Fds, fds[f] # Closed, NEW old \in Fds \cup {-1}, f # old,
           NEW e, NEW nofd \in BOOLEAN, Arrives(nofd)
    PROVE  Passed(e, nofd, old)[f] = fds[f] /\ NewFd(nofd) # f
<1>1. CASE nofd
  <2>1. NewFd(nofd) = -1 /\ -1 \notin Fds
    BY <1>1 DEF NewFd, Fds
  <2> QED BY <1>1, <2>1 DEF Passed, Close, Types
<1>2. CASE ~nofd
  <2>1. Received \in Fds /\ fds[Received] = Closed
    BY <1>2, ReceivedIsFree DEF Arrives
  <2> QED BY <1>2, <2>1 DEF Passed, Close, NewFd, Types
<1> QED BY <1>1, <1>2

(* A message that leaves the reported kick descriptor alone, or stops or   *)
(* rewires its queue.                                                      *)
LEMMA GoesReported ==
    ASSUME Reported, Dispatching, Goes, UNCHANGED <<life, why, readable>>,
           \A f \in Fds : /\ ready = <<f>> /\ f = kickFd[TX] /\ fds[f] \in readable
                          /\ TX \in handler /\ kickFd'[TX] = f
                          => fds'[f] = fds[f]
    PROVE  Reported'
<1>1. ready' = ready /\ life' = life /\ why' = why /\ life = "running"
  BY DEF Goes, Dispatching
<1>2. phase' = IF ready = << >> THEN "poll" ELSE "serve"
  BY DEF Goes
<1>3. ASSUME phase' = "serve", TX \in handler', ready' = <<kickFd'[TX]>>
      PROVE  fds'[kickFd'[TX]] \in readable'
  <2>1. PICK f \in Fds : ready = <<f>>
    BY <1>2, <1>3 DEF Reported
  <2>2. ready = <<kickFd[TX]>> /\ fds[kickFd[TX]] \in readable /\ TX \in handler
    BY <1>1, <2>1 DEF Reported, Dispatching
  <2>3. f = kickFd[TX] /\ kickFd'[TX] = f
    <3>1. \A a, b : <<a>> = <<b>> => a = b
      OBVIOUS
    <3>2. <<f>> = <<kickFd[TX]>> /\ <<f>> = <<kickFd'[TX]>>
      BY <1>1, <1>3, <2>1, <2>2
    <3> QED BY <3>1, <3>2
  <2>4. fds'[f] = fds[f]
    BY <2>1, <2>2, <2>3
  <2> QED BY <2>2, <2>3, <2>4
<1>4. ready' = << >> \/ \E f \in Fds : ready' = <<f>>
  BY <1>1 DEF Reported
<1>5. why' # "eventfd"
  BY <1>1 DEF Reported
<1> QED BY <1>1, <1>2, <1>3, <1>4, <1>5 DEF Reported

(* A step after which the loop does not run, or that does not touch what   *)
(* was reported, except that more may become readable.                     *)
LEMMA ReportedQuiet ==
    ASSUME Reported, why' # "eventfd", ready' = ready, phase' = phase,
           life' = "running" => /\ life = "running" /\ UNCHANGED <<handler, kickFd, fds>>
                                /\ readable \subseteq readable'
    PROVE  Reported'
BY DEF Reported

LEMMA PollHits ==
    ASSUME Table, life = "running", NEW sock \in BOOLEAN, Poll(sock)
    PROVE  \/ ready' = << >> /\ sock
           \/ /\ ready' = <<kickFd[TX]>> /\ TX \in handler /\ kickFd[TX] # -1
              /\ fds[kickFd[TX]] \in readable
<1> DEFINE hits == {i \in 1..Len(W) : fds[W[i].fd] \in readable}
<1>1. W = Watched
  BY DEF Table
<1>2. PICK order \in [1..Cardinality(hits) -> hits] :
           ready' = [i \in DOMAIN order |-> W[order[i]].fd]
  BY DEF Poll
<1>3. sock \/ hits # {}
  BY DEF Poll
<1>4. CASE hits = {}
  <2>1. Cardinality(hits) = 0
    BY <1>4, FS_EmptySet
  <2>2. DOMAIN order = {}
    BY <1>2, <2>1
  <2>3. ready' = << >>
    BY <1>2, <2>2
  <2> QED BY <1>3, <1>4, <2>3
<1>5. CASE hits # {}
  <2>1. TX \in handler /\ kickFd[TX] # -1 /\ W = <<Entry(kickFd[TX], TX)>>
    BY <1>1, <1>5 DEF Watched
  <2>2. hits = {1} /\ W[1].fd = kickFd[TX] /\ fds[W[1].fd] \in readable
    BY <1>5, <2>1 DEF Entry
  <2>3. Cardinality(hits) = 1
    BY <2>2, FS_Singleton
  <2> HIDE DEF hits
  <2>4. DOMAIN order = 1..1 /\ \A i \in 1..1 : order[i] = 1
    BY <1>2, <2>2, <2>3
  <2>5. ready' = [i \in 1..1 |-> kickFd[TX]]
    BY <1>2, <2>2, <2>4
  <2>6. ready' = <<kickFd[TX]>>
    BY <2>5
  <2> QED BY <2>1, <2>2, <2>6
<1> QED BY <1>4, <1>5

LEMMA ReportedStep ==
    ASSUME IndInv, [Next]_vars
    PROVE  Reported'
<1>0. Types /\ Table /\ Reported /\ TX \in Queues /\ -1 \notin Fds
      /\ Closed \notin KickEvents
  BY VhostBackendConstants DEF IndInv, Fds
<1>16. ASSUME NEW f \in Fds, f = kickFd[TX], fds[f] \in readable
      PROVE  fds[f] # Closed /\ kickFd[TX] # -1
  BY <1>0, <1>16 DEF Types
<1>1. CASE Features \/ Queries \/ Refused \/ ReplyFails \/ Disconnected
  <2>1. CASE Features \/ Queries
    BY <1>0, <2>1, GoesReported DEF Features, Queries
  <2>2. CASE Refused \/ ReplyFails \/ Disconnected
    BY <1>0, <2>2, ReportedQuiet DEF Refused, ReplyFails, Disconnected, Panic, Reported
  <2> QED BY <1>1, <2>1, <2>2
<1>17. CASE LibPanic \/ Aborts
  BY <1>0, <1>17, ReportedQuiet DEF LibPanic, Panic, Aborts, Reported
<1>18. ASSUME Dispatching, Remapped
      PROVE  Reported'
  BY <1>0, <1>18, GoesReported DEF Remapped
<1>2. ASSUME NEW cover \in SUBSET Queues, AddMemReg(cover)
      PROVE  Reported'
  BY <1>0, <1>2, <1>17, <1>18, AddMemRegSteps DEF AddMemReg
<1>3. ASSUME NEW cover \in SUBSET Queues, RemMemReg(cover)
      PROVE  Reported'
  BY <1>0, <1>3, GoesReported DEF RemMemReg
<1>4. ASSUME NEW cover \in SUBSET Queues, NEW n \in 1..MaxRegions, SetMemTable(cover, n)
      PROVE  Reported'
  BY <1>0, <1>4, <1>17, <1>18, SetMemTableSteps DEF SetMemTable
<1>5. ASSUME NEW d \in DevFds, SetDevFd(d)
      PROVE  Reported'
  <2>1. ASSUME NEW f \in Fds, f = kickFd[TX], fds[f] \in readable
        PROVE  fds'[f] = fds[f]
    <3>1. devFd[d] \in Fds \cup {-1} /\ devFd[d] # f
      BY <1>0, <1>16, <2>1, KickAlone DEF Types
    <3> QED BY <1>0, <1>5, <1>16, <2>1, <3>1, PassedKeeps DEF SetDevFd
  <2> QED BY <1>0, <1>5, <2>1, GoesReported DEF SetDevFd
<1>6. ASSUME NEW q \in Queues, SetVringNum(q) \/ SetVringAddr(q) \/ SetVringBase(q)
      PROVE  Reported'
  <2>1. CASE Panic("frontend")
    BY <1>17, <2>1 DEF LibPanic
  <2>2. CASE ~Panic("frontend")
    BY <1>0, <1>6, <2>2, GoesReported DEF SetVringNum, SetVringAddr, SetVringBase
  <2> QED BY <2>1, <2>2
<1>7. ASSUME NEW q \in Queues, GetVringBase(q)
      PROVE  Reported'
  <2>1. ASSUME NEW f \in Fds, f = kickFd[TX], fds[f] \in readable, kickFd'[TX] = f
        PROVE  fds'[f] = fds[f]
    <3>1. q # TX
      BY <1>0, <1>7, <2>1 DEF GetVringBase, Types
    <3>2. f # callFd[q] /\ f # kickFd[q]
      BY <1>16, <1>0, <2>1, <3>1, KickAlone
    <3>3. callFd[q] \in Fds \cup {-1} /\ kickFd[q] \in Fds \cup {-1}
      BY <1>0 DEF Types
    <3>4. Close(fds, callFd[q])[f] = fds[f] /\ DOMAIN Close(fds, callFd[q]) = Fds
      BY <1>0, <3>2, <3>3 DEF Close, Types
    <3>5. Close(Close(fds, callFd[q]), kickFd[q])[f] = Close(fds, callFd[q])[f]
      BY <3>2, <3>3, <3>4 DEF Close
    <3> QED BY <1>7, <3>4, <3>5 DEF GetVringBase
  <2> QED BY <1>0, <1>7, <2>1, GoesReported DEF GetVringBase
<1>8. ASSUME NEW q \in Queues, VringKick(q)
      PROVE  Reported'
  BY <1>0, <1>8, GoesReported DEF VringKick
<1>9. ASSUME NEW q \in Queues, NEW nofd \in BOOLEAN, NEW e \in KickEvents,
             SetVringKick(q, e, nofd)
      PROVE  Reported'
  <2>1. ASSUME NEW f \in Fds, f = kickFd[TX], fds[f] \in readable, kickFd'[TX] = f
        PROVE  fds'[f] = fds[f]
    <3>1. Arrives(nofd) /\ fds' = Passed(e, nofd, kickFd[q])
          /\ kickFd' = [kickFd EXCEPT ![q] = NewFd(nofd)]
      BY <1>9 DEF SetVringKick
    <3>2. NewFd(nofd) # f
      BY <1>0, <1>16, <2>1, <3>1, PassedKeeps
    <3>3. q # TX
      BY <1>0, <2>1, <3>1, <3>2 DEF Types
    <3>4. kickFd[q] # f /\ kickFd[q] \in Fds \cup {-1}
      BY <1>0, <1>16, <2>1, <3>3, KickAlone DEF Types
    <3> QED BY <1>0, <1>16, <2>1, <3>1, <3>4, PassedKeeps
  <2> QED BY <1>0, <1>9, <2>1, GoesReported DEF SetVringKick
<1>10. ASSUME NEW q \in Queues, NEW nofd \in BOOLEAN,
              SetVringCall(q, nofd) \/ SetVringErr(q, nofd)
       PROVE  Reported'
  <2>1. ASSUME NEW f \in Fds, f = kickFd[TX], fds[f] \in readable
        PROVE  fds'[f] = fds[f]
    <3>1. callFd[q] \in Fds \cup {-1} /\ callFd[q] # f
          /\ errFd[q] \in Fds \cup {-1} /\ errFd[q] # f
      BY <1>0, <1>16, <2>1, KickAlone DEF Types
    <3> QED BY <1>0, <1>10, <1>16, <2>1, <3>1, PassedKeeps DEF SetVringCall, SetVringErr
  <2> QED BY <1>0, <1>10, <2>1, GoesReported DEF SetVringCall, SetVringErr
<1>11. CASE Serve
  <2>1. life = "running" /\ phase = "serve" /\ W = Watched
    BY <1>0, <1>11 DEF Serve, Table
  <2>2. PICK f \in Fds : ready = <<f>>
    BY <1>0, <2>1 DEF Reported
  <2>3. Head(ready) = f /\ Tail(ready) = << >>
    BY <2>2
  <2>4. CASE WatchOf(W, f) > 0
    <3>1. W = <<Entry(kickFd[TX], TX)>> /\ TX \in handler /\ kickFd[TX] # -1
          /\ kickFd[TX] = f /\ WatchOf(W, f) = 1
      BY <2>1, <2>4, WatchOfShort DEF Watched
    <3>2. W[1].q = TX
      BY <3>1 DEF Entry
    <3>3. fds[kickFd[TX]] \in readable
      BY <1>0, <2>1, <2>2, <3>1 DEF Reported
    <3>4. KickCb(TX)
      BY <1>11, <2>3, <2>4, <3>1, <3>2 DEF Serve
    <3>5. ready' = << >> /\ phase' = "poll" /\ why' = why /\ life' = life
      BY <2>3, <3>1, <3>3, <3>4 DEF KickCb
    <3> QED BY <1>0, <3>5 DEF Reported
  <2>5. CASE WatchOf(W, f) = 0
    <3>1. /\ ready' = Tail(ready) /\ why' = why
          /\ phase' = IF Tail(ready) = << >> THEN "poll" ELSE "serve"
      <4>1. ~(WatchOf(W, Head(ready)) > 0)
        BY <2>3, <2>5
      <4> QED BY <1>11, <4>1, Zenon DEF Serve
    <3> QED BY <1>0, <2>3, <3>1 DEF Reported
  <2> QED BY <1>11, <2>3, <2>4, <2>5 DEF Serve
<1>12. CASE PollFails
  BY <1>0, <1>12, ReportedQuiet DEF PollFails, Reported
<1>13. ASSUME NEW sock \in BOOLEAN, Poll(sock)
       PROVE  Reported'
  <2>1. /\ life = "running" /\ UNCHANGED <<life, why, fds, readable, handler, kickFd>>
        /\ phase' = IF sock THEN "dispatch" ELSE "serve"
    BY <1>13 DEF Poll, queues
  <2>2. why' # "eventfd"
    BY <1>0, <2>1 DEF Reported
  <2>3. CASE ready' = << >> /\ sock
    BY <2>1, <2>2, <2>3 DEF Reported
  <2>4. CASE /\ ready' = <<kickFd[TX]>> /\ TX \in handler /\ kickFd[TX] # -1
             /\ fds[kickFd[TX]] \in readable
    <3>1. kickFd[TX] \in Fds /\ ready' # << >>
      BY <1>0, <2>4 DEF Types
    <3> QED BY <2>1, <2>2, <2>4, <3>1 DEF Reported
  <2> QED BY <1>0, <1>13, <2>1, <2>3, <2>4, PollHits
<1>14. CASE Publish \/ GuestReset \/ \E e \in KickEvents : Kick(e)
  BY <1>0, <1>14, ReportedQuiet DEF Publish, GuestReset, Kick, queues, Reported
<1>15. CASE UNCHANGED vars
  BY <1>0, <1>15, ReportedQuiet DEF vars, queues, Reported
<1> QED BY <1>1, <1>2, <1>3, <1>4, <1>5, <1>6, <1>7, <1>8, <1>9, <1>10, <1>11,
           <1>12, <1>13, <1>14, <1>15 DEF Next, Backend, Dispatch

-----------------------------------------------------------------------------
(***************************************************************************)
(* Rings.                                                                  *)
(***************************************************************************)
LEMMA RingsQuiet ==
    ASSUME Rings, started' \subseteq synced' \cap addressed',
           life' = "running" => life = "running" /\ UNCHANGED <<ring, region, addressed>>
    PROVE  Rings'
BY DEF Rings

LEMMA RingsStep ==
    ASSUME IndInv, [Next]_vars
    PROVE  Rings'
<1>0. Types /\ Rings /\ started \subseteq synced \cap addressed
  BY DEF IndInv, Rings
<1>1. CASE Features \/ Queries \/ Refused \/ ReplyFails \/ Disconnected
  BY <1>0, <1>1, RingsQuiet DEF Features, Queries, Refused, ReplyFails, Disconnected,
     Dispatching, Panic, queues, dev, guest
<1>2. CASE LibPanic \/ Aborts
  BY <1>0, <1>2, RingsQuiet DEF LibPanic, Panic, Aborts, queues, guest
<1>3. CASE Remapped
  <2>1. /\ UNCHANGED <<started, synced, addressed>>
        /\ \A q \in Queues : ring'[q] \in {0, region'[q]}
    BY <1>3 DEF Remapped, guest
  <2> QED BY <1>0, <2>1 DEF Rings, Types
<1>4. ASSUME NEW cover \in SUBSET Queues,
             \/ AddMemReg(cover)
             \/ \E n \in 1..MaxRegions : SetMemTable(cover, n)
      PROVE  Rings'
  BY <1>0, <1>2, <1>3, <1>4, AddMemRegSteps, SetMemTableSteps
<1>5. ASSUME NEW cover \in SUBSET Queues, RemMemReg(cover)
      PROVE  Rings'
  <2>1. /\ UNCHANGED <<life, ring, started, synced>>
        /\ addressed' = addressed \ cover /\ \A q \in cover : q \notin started
        /\ \A q \in Queues : q \notin cover => region'[q] = region[q]
    BY <1>5 DEF RemMemReg, queues
  <2>2. \A q \in addressed' : ring'[q] = ring[q] /\ region'[q] = region[q]
    BY <1>0, <2>1 DEF Types
  <2> QED BY <1>0, <2>1, <2>2 DEF Rings
<1>6. ASSUME NEW d \in DevFds, SetDevFd(d)
      PROVE  Rings'
  BY <1>0, <1>6, RingsQuiet DEF SetDevFd, queues, guest
<1>7. ASSUME NEW q \in Queues, SetVringNum(q) \/ SetVringBase(q)
      PROVE  Rings'
  BY <1>0, <1>7, RingsQuiet DEF SetVringNum, SetVringBase, dev, guest
<1>8. ASSUME NEW q \in Queues, SetVringAddr(q)
      PROVE  Rings'
  <2>1. CASE Panic("frontend")
    BY <1>2, <2>1 DEF LibPanic
  <2>2. CASE ~Panic("frontend")
    <3>1. /\ ring' = [ring EXCEPT ![q] = region[q]] /\ addressed' = addressed \cup {q}
          /\ UNCHANGED <<life, region, started, synced>>
      BY <1>8, <2>2 DEF SetVringAddr, MapRing, dev
    <3> QED BY <1>0, <3>1 DEF Rings, Types
  <2> QED BY <2>1, <2>2
<1>9. ASSUME NEW q \in Queues, GetVringBase(q)
      PROVE  Rings'
  BY <1>0, <1>9, RingsQuiet DEF GetVringBase, dev
<1>10. ASSUME NEW q \in Queues, VringKick(q)
       PROVE  Rings'
  BY <1>0, <1>10, RingsQuiet DEF VringKick, dev
<1>11. ASSUME NEW q \in Queues, NEW nofd \in BOOLEAN, NEW e \in KickEvents,
              SetVringKick(q, e, nofd)
       PROVE  Rings'
  BY <1>0, <1>11, RingsQuiet DEF SetVringKick, dev, guest
<1>12. ASSUME NEW q \in Queues, NEW nofd \in BOOLEAN,
              SetVringCall(q, nofd) \/ SetVringErr(q, nofd)
       PROVE  Rings'
  BY <1>0, <1>12, RingsQuiet DEF SetVringCall, SetVringErr, dev, guest
<1>13. CASE Serve
  BY <1>0, <1>13, RingsQuiet DEF Serve, KickCb, Panic, queues, dev, guest
<1>14. CASE PollFails
  BY <1>0, <1>14, RingsQuiet DEF PollFails, guest
<1>15. ASSUME NEW sock \in BOOLEAN, Poll(sock)
       PROVE  Rings'
  BY <1>0, <1>15, RingsQuiet DEF Poll, queues, dev, guest
<1>16. CASE Publish \/ GuestReset \/ \E e \in KickEvents : Kick(e)
  BY <1>0, <1>16, RingsQuiet DEF Publish, GuestReset, Kick, queues, dev, guest
<1>17. CASE UNCHANGED vars
  BY <1>0, <1>17, RingsQuiet DEF vars, queues, dev, guest
<1> QED BY <1>1, <1>4, <1>5, <1>6, <1>7, <1>8, <1>9, <1>10, <1>11, <1>12, <1>13,
           <1>14, <1>15, <1>16, <1>17 DEF Next, Backend, Dispatch

-----------------------------------------------------------------------------
(***************************************************************************)
(* Emission.                                                               *)
(***************************************************************************)

(* Exactly the buffers published since the last time are emitted.          *)
LEMMA TxKickEmits ==
    ASSUME Types, Emission, TX \in synced, TxKick(TX), published' = published
    PROVE  /\ emitted' \in Seq(Nat) /\ Len(emitted') <= published'
           /\ \A k \in 1..Len(emitted') : emitted'[k] = k - 1
           /\ lastAvail'[TX] = Len(emitted')
<1> DEFINE L == lastAvail[TX]
           mod == MaxAvail + 1
           n == (published + mod - L) % mod
           more == [k \in 1..n |-> (L + k - 1) % mod]
<1>0. TX \in Queues /\ mod \in Nat \ {0} /\ MaxAvail \in Nat
  BY VhostBackendConstants
<1>1. L = Len(emitted) /\ L \in Nat /\ published \in Nat /\ L <= published
      /\ published <= MaxAvail
  BY <1>0 DEF Types, Emission
<1>2. CASE UNCHANGED <<emitted, lastAvail>>
  BY <1>1, <1>2 DEF Emission
<1>3. CASE emitted' = emitted \o more /\ lastAvail' = [lastAvail EXCEPT ![TX] = published]
  <2>1. n = published - L
    <3> DEFINE d == published - L
    <3>1. d \in 0..mod - 1 /\ d \in Int /\ published + mod - L = d + mod * 1 /\ 1 \in Int
      BY <1>0, <1>1
    <3> HIDE DEF d, mod
    <3>2. (d + mod * 1) % mod = d % mod
      BY <1>0, <3>1, ModShift, Zenon
    <3>3. d % mod = d
      BY <1>0, <3>1, ModSmall, Zenon
    <3>4. (published + mod - L) % mod = d
      BY <3>1, <3>2, <3>3, Zenon
    <3> QED BY <3>4 DEF d
  <2>2. n \in Nat
    BY <1>1, <2>1
  <2>3. ASSUME NEW k \in 1..n
        PROVE  (L + k - 1) % mod = L + k - 1 /\ L + k - 1 \in Nat
    <3>1. L + k - 1 \in 0..mod - 1
      BY <1>0, <1>1, <2>1, <2>2, <2>3
    <3> HIDE DEF mod
    <3>2. (L + k - 1) % mod = L + k - 1
      BY <1>0, <3>1, ModSmall, Zenon
    <3> QED BY <3>1, <3>2
  <2> HIDE DEF n, mod
  <2>4. more \in Seq(Nat) /\ Len(more) = n /\ \A k \in 1..n : more[k] = L + k - 1
    <3>1. more = [k \in 1..n |-> more[k]] /\ \A k \in 1..n : more[k] = L + k - 1 /\ more[k] \in Nat
      BY <2>3
    <3> HIDE DEF more
    <3>2. more \in [1..n -> Nat]
      BY <3>1
    <3> QED BY <2>2, <3>1, <3>2
  <2> HIDE DEF more
  <2>5. emitted \in Seq(Nat) /\ \A k \in 1..Len(emitted) : emitted[k] = k - 1
    BY DEF Emission
  <2>6. /\ emitted \o more \in Seq(Nat) /\ Len(emitted \o more) = L + n
        /\ \A k \in 1..L + n : (emitted \o more)[k]
                                  = IF k <= L THEN emitted[k] ELSE more[k - L]
    <3>1. /\ emitted \o more \in Seq(Nat)
          /\ Len(emitted \o more) = Len(emitted) + Len(more)
          /\ \A k \in 1..Len(emitted) + Len(more) : (emitted \o more)[k]
                = IF k <= Len(emitted) THEN emitted[k] ELSE more[k - Len(emitted)]
      BY <2>4, <2>5, ConcatProperties, Zenon
    <3>2. Len(emitted) = L /\ Len(more) = n
      BY <1>1, <2>4, Zenon
    <3> HIDE DEF L
    <3> QED BY <3>1, <3>2, Zenon
  <2>7. ASSUME NEW k \in 1..L + n
        PROVE  (emitted \o more)[k] = k - 1
    <3>1. CASE k <= L
      BY <1>1, <2>2, <2>5, <2>6, <3>1
    <3>2. CASE ~(k <= L)
      <4>1. k - L \in 1..n
        BY <1>1, <2>2, <3>2
      <4>2. more[k - L] = L + (k - L) - 1
        BY <2>4, <4>1
      <4> QED BY <1>1, <2>6, <3>2, <4>2
    <3> QED BY <3>1, <3>2
  <2>8. lastAvail'[TX] = published
    BY <1>0, <1>3 DEF Types
  <2>9. L + n = published /\ published <= published
    BY <1>1, <2>1
  <2> QED BY <1>3, <2>6, <2>7, <2>8, <2>9, Zenon
<1>4. \/ UNCHANGED <<emitted, lastAvail>>
      \/ emitted' = emitted \o more /\ lastAvail' = [lastAvail EXCEPT ![TX] = published]
  <2>1. CASE ring[TX] # 0 /\ TX \in sized
    BY <2>1, Zenon DEF TxKick
  <2>2. CASE ~(ring[TX] # 0 /\ TX \in sized)
    BY <2>2 DEF TxKick
  <2> QED BY <2>1, <2>2
<1> HIDE DEF more, L, n, mod
<1> QED BY <1>2, <1>3, <1>4, Zenon

LEMMA EmissionQuiet ==
    ASSUME Emission, UNCHANGED <<published, emitted, lastAvail, base>>,
           synced' \subseteq synced, started \subseteq started'
    PROVE  Emission'
BY DEF Emission

LEMMA EmissionStep ==
    ASSUME IndInv, [Next]_vars
    PROVE  Emission'
<1>0. Types /\ Emission /\ started \subseteq synced /\ TX \in Queues
      /\ handler = started \cap {TX}
  BY VhostBackendConstants DEF IndInv, Rings, Table
<1>1. CASE Features \/ Queries \/ Refused \/ ReplyFails \/ Disconnected
  BY <1>0, <1>1, EmissionQuiet DEF Features, Queries, Refused, ReplyFails, Disconnected,
     Panic, queues, guest
<1>2. CASE LibPanic \/ Aborts \/ Remapped
  BY <1>0, <1>2, EmissionQuiet DEF LibPanic, Panic, Aborts, Remapped, queues, guest
<1>3. ASSUME NEW cover \in SUBSET Queues,
             \/ AddMemReg(cover)
             \/ \E n \in 1..MaxRegions : SetMemTable(cover, n)
      PROVE  Emission'
  BY <1>0, <1>2, <1>3, AddMemRegSteps, SetMemTableSteps
<1>4. ASSUME NEW cover \in SUBSET Queues, RemMemReg(cover)
      PROVE  Emission'
  BY <1>0, <1>4, EmissionQuiet DEF RemMemReg, queues
<1>5. ASSUME NEW d \in DevFds, SetDevFd(d)
      PROVE  Emission'
  BY <1>0, <1>5, EmissionQuiet DEF SetDevFd, queues, guest
<1>6. ASSUME NEW q \in Queues, SetVringNum(q) \/ SetVringAddr(q)
      PROVE  Emission'
  BY <1>0, <1>6, EmissionQuiet DEF SetVringNum, SetVringAddr, Panic, queues, guest
<1>7. ASSUME NEW q \in Queues, SetVringBase(q)
      PROVE  Emission'
  <2>1. /\ UNCHANGED <<published, emitted, base, started>> /\ q \notin started
        /\ lastAvail' = [lastAvail EXCEPT ![q] = base[q]] /\ synced' = synced \cup {q}
    BY <1>7 DEF SetVringBase
  <2> QED BY <1>0, <2>1 DEF Emission, Types
<1>8. ASSUME NEW q \in Queues, GetVringBase(q)
      PROVE  Emission'
  <2>1. /\ UNCHANGED <<published, emitted, lastAvail>> /\ q \in started
        /\ base' = [base EXCEPT ![q] = lastAvail[q]] /\ synced' = synced \ {q}
        /\ started' = started \ {q}
    BY <1>8 DEF GetVringBase
  <2> QED BY <1>0, <2>1 DEF Emission, Types
<1>9. ASSUME NEW q \in Queues, VringKick(q)
      PROVE  Emission'
  <2>1. /\ UNCHANGED <<published, base, synced>> /\ q \in synced
        /\ started' = started \cup {q}
    BY <1>9 DEF VringKick
  <2>2. CASE UNCHANGED <<emitted, lastAvail>>
    BY <1>0, <2>1, <2>2, EmissionQuiet
  <2>3. CASE q = TX /\ TxKick(TX)
    BY <1>0, <2>1, <2>3, TxKickEmits DEF Emission
  <2>4. q \in handler' => q = TX
    BY <1>0, <1>9 DEF VringKick, StartedHandlers
  <2> QED BY <1>9, <2>2, <2>3, <2>4 DEF VringKick
<1>10. ASSUME NEW q \in Queues, NEW nofd \in BOOLEAN, NEW e \in KickEvents,
              SetVringKick(q, e, nofd)
       PROVE  Emission'
  BY <1>0, <1>10, EmissionQuiet DEF SetVringKick, guest
<1>11. ASSUME NEW q \in Queues, NEW nofd \in BOOLEAN,
              SetVringCall(q, nofd) \/ SetVringErr(q, nofd)
       PROVE  Emission'
  BY <1>0, <1>11, EmissionQuiet DEF SetVringCall, SetVringErr, guest
<1>12. CASE Serve
  <2>1. CASE UNCHANGED <<emitted, lastAvail>>
    BY <1>0, <1>12, <2>1, EmissionQuiet DEF Serve, KickCb, Panic, queues, guest
  <2>2. ASSUME NEW q, q \in handler, TxKick(q), UNCHANGED <<base, synced, started, published>>
        PROVE  Emission'
    <3>1. q = TX /\ TX \in synced
      BY <1>0, <2>2
    <3> QED BY <1>0, <2>2, <3>1, TxKickEmits DEF Emission
  <2> QED BY <1>12, <2>1, <2>2 DEF Serve, KickCb, Panic, queues, guest
<1>13. CASE PollFails
  BY <1>0, <1>13, EmissionQuiet DEF PollFails, guest
<1>14. ASSUME NEW sock \in BOOLEAN, Poll(sock)
       PROVE  Emission'
  BY <1>0, <1>14, EmissionQuiet DEF Poll, queues, guest
<1>15. CASE Publish
  <2>1. UNCHANGED <<emitted, lastAvail, base, synced, started>> /\ published' = published + 1
    BY <1>15 DEF Publish, queues
  <2>2. Len(emitted) \in Nat /\ published \in Nat
    BY <1>0 DEF Emission, Types
  <2> QED BY <1>0, <2>1, <2>2 DEF Emission
<1>16. CASE GuestReset
  <2>1. /\ emitted' = << >> /\ published' = 0 /\ base' = [base EXCEPT ![TX] = 0]
        /\ UNCHANGED <<synced, started>> /\ TX \notin synced
    BY <1>16 DEF GuestReset, queues
  <2>2. emitted' \in Seq(Nat) /\ Len(emitted') = 0
    BY <2>1, EmptySeq
  <2> QED BY <1>0, <2>1, <2>2 DEF Emission, Types
<1>17. CASE \E e \in KickEvents : Kick(e)
  BY <1>0, <1>17, EmissionQuiet DEF Kick, queues, guest
<1>18. CASE UNCHANGED vars
  BY <1>0, <1>18, EmissionQuiet DEF vars, queues, guest
<1> QED BY <1>1, <1>3, <1>4, <1>5, <1>6, <1>7, <1>8, <1>9, <1>10, <1>11, <1>12,
           <1>13, <1>14, <1>15, <1>16, <1>17, <1>18 DEF Next, Backend, Dispatch

-----------------------------------------------------------------------------
(* The invariant holds in every state of every behaviour: whatever messages *)
(* come, whatever poll reports and whatever the guest does.                *)
THEOREM Inductive == Spec => []IndInv
<1>1. Init => IndInv
  BY Initially
<1>2. IndInv /\ [Next]_vars => IndInv'
  BY TypesStep, TableStep, ReportedStep, RingsStep, EmissionStep DEF IndInv
<1> QED BY <1>1, <1>2, PTL DEF Spec

(* No message between poll and a callback makes the callback read an       *)
(* eventfd that is closed, empty, or something else under a reused number. *)
THEOREM PanicsAreForeign == Spec => []NoSpuriousPanic
<1>1. IndInv => NoSpuriousPanic
  BY DEF IndInv, Reported, NoSpuriousPanic
<1> QED BY <1>1, Inductive, PTL

(* While the process runs, the loop polls the kick descriptor of every     *)
(* queue with a handler, once, and nothing else.                           *)
THEOREM WatchesKept == Spec => [](life = "running" => WatchesExact)
<1>1. IndInv /\ life = "running" => WatchesExact
  <2> SUFFICES ASSUME IndInv, life = "running"
               PROVE  /\ IsInjective(W)
                      /\ Range(W) = {[fd |-> kickFd[q], q |-> q] :
                                        q \in {r \in handler : kickFd[r] # -1}}
    BY DEF WatchesExact
  <2>1. W = Watched /\ handler \subseteq {TX}
    BY DEF IndInv, Table
  <2>2. CASE TX \in handler /\ kickFd[TX] # -1
    <3>1. W = <<[fd |-> kickFd[TX], q |-> TX]>>
      BY <2>1, <2>2 DEF Watched, Entry
    <3>2. {r \in handler : kickFd[r] # -1} = {TX}
      BY <2>1, <2>2
    <3> QED BY <3>1, <3>2 DEF IsInjective, Range
  <2>3. CASE ~(TX \in handler /\ kickFd[TX] # -1)
    <3>1. W = << >>
      BY <2>1, <2>3 DEF Watched
    <3>2. {r \in handler : kickFd[r] # -1} = {}
      BY <2>1, <2>3
    <3> QED BY <3>1, <3>2 DEF IsInjective, Range
  <2> QED BY <2>2, <2>3
<1> QED BY <1>1, Inductive, PTL

(* Descriptors are neither leaked nor closed twice nor held twice, in every *)
(* life, also after vu_deinit.                                             *)
THEOREM NoFdLeak == Spec => []FdsAccounted
<1>1. IndInv => FdsAccounted
  <2> SUFFICES ASSUME IndInv PROVE FdsAccounted
    OBVIOUS
  <2>1. Types /\ Accounts(OwnFds, fds) /\ -1 \notin Fds /\ DOMAIN fds = Fds
    BY DEF IndInv, Table, Types, Fds
  <2>3. ASSUME NEW h \in Holders, OwnFds[h] # -1
        PROVE  <<h[2], h[1], OwnFds[h]>> \in Held
    <3>1. ASSUME NEW q \in Queues, h = <<q, "kick">>
          PROVE  <<h[2], h[1], OwnFds[h]>> \in Held
      <4>1. h[2] = "kick" /\ h[1] = q
        BY <3>1
      <4>2. OwnFds[h] = kickFd[q]
        BY <3>1, OwnAt, Zenon
      <4>3. kickFd[q] # -1
        BY <2>3, <4>2, Zenon
      <4>4. <<"kick", q, kickFd[q]>> \in Held
        BY <4>3 DEF Held
      <4> QED BY <4>1, <4>2, <4>4, Zenon
    <3>2. ASSUME NEW q \in Queues, h = <<q, "call">>
          PROVE  <<h[2], h[1], OwnFds[h]>> \in Held
      <4>1. h[2] = "call" /\ h[1] = q
        BY <3>2
      <4>2. OwnFds[h] = callFd[q]
        BY <3>2, OwnAt, Zenon
      <4>3. callFd[q] # -1
        BY <2>3, <4>2, Zenon
      <4>4. <<"call", q, callFd[q]>> \in Held
        BY <4>3 DEF Held
      <4> QED BY <4>1, <4>2, <4>4, Zenon
    <3>3. ASSUME NEW q \in Queues, h = <<q, "err">>
          PROVE  <<h[2], h[1], OwnFds[h]>> \in Held
      <4>1. h[2] = "err" /\ h[1] = q
        BY <3>3
      <4>2. OwnFds[h] = errFd[q]
        BY <3>3, OwnAt, Zenon
      <4>3. errFd[q] # -1
        BY <2>3, <4>2, Zenon
      <4>4. <<"err", q, errFd[q]>> \in Held
        BY <4>3 DEF Held
      <4> QED BY <4>1, <4>2, <4>4, Zenon
    <3>4. ASSUME NEW d \in DevFds, h = <<d, "dev">>
          PROVE  <<h[2], h[1], OwnFds[h]>> \in Held
      <4>1. h[2] = "dev" /\ h[1] = d
        BY <3>4
      <4>2. OwnFds[h] = devFd[d]
        BY <3>4, OwnAt, Zenon
      <4>3. devFd[d] # -1
        BY <2>3, <4>2, Zenon
      <4>4. <<"dev", d, devFd[d]>> \in Held
        BY <4>3 DEF Held
      <4> QED BY <4>1, <4>2, <4>4, Zenon
    <3> QED BY <3>1, <3>2, <3>3, <3>4, HolderKinds
  <2>4. ASSUME NEW h \in Held
        PROVE  /\ h = <<h[1], h[2], h[3]>> /\ <<h[2], h[1]>> \in Holders
               /\ OwnFds[<<h[2], h[1]>>] = h[3] /\ h[3] \in Fds
    <3>1. h[3] # -1
      BY Zenon DEF Held
    <3>2. \/ \E q \in Queues : \/ h = <<"kick", q, kickFd[q]>>
                              \/ h = <<"call", q, callFd[q]>>
                              \/ h = <<"err", q, errFd[q]>>
          \/ \E d \in DevFds : h = <<"dev", d, devFd[d]>>
      BY Zenon DEF Held
    <3>3. \E g \in Holders : h = <<g[2], g[1], OwnFds[g]>> /\ g = <<g[1], g[2]>>
      <4>1. ASSUME NEW q \in Queues
            PROVE  /\ h = <<"kick", q, kickFd[q]>> =>
                        h = <<<<q, "kick">>[2], <<q, "kick">>[1], OwnFds[<<q, "kick">>]>>
                   /\ h = <<"call", q, callFd[q]>> =>
                        h = <<<<q, "call">>[2], <<q, "call">>[1], OwnFds[<<q, "call">>]>>
                   /\ h = <<"err", q, errFd[q]>> =>
                        h = <<<<q, "err">>[2], <<q, "err">>[1], OwnFds[<<q, "err">>]>>
        BY OwnAt
      <4>2. ASSUME NEW d \in DevFds, h = <<"dev", d, devFd[d]>>
            PROVE  h = <<<<d, "dev">>[2], <<d, "dev">>[1], OwnFds[<<d, "dev">>]>>
        BY <4>2, OwnAt
      <4>3. \A g \in Holders : g = <<g[1], g[2]>>
        BY DEF Holders
      <4> QED BY <3>2, <4>1, <4>2, <4>3, OwnAt, Zenon
    <3>4. PICK g \in Holders : h = <<g[2], g[1], OwnFds[g]>> /\ g = <<g[1], g[2]>>
      BY <3>3
    <3>5. h[1] = g[2] /\ h[2] = g[1] /\ h[3] = OwnFds[g]
      BY <3>4
    <3>6. <<h[2], h[1]>> = g /\ h = <<h[1], h[2], h[3]>>
      BY <3>4, <3>5
    <3> QED BY <2>1, <3>1, <3>5, <3>6 DEF Accounts
  <2>5. {f \in DOMAIN fds : fds[f] # Closed} = {h[3] : h \in Held}
    <3>1. ASSUME NEW f \in Fds, fds[f] # Closed
          PROVE  f \in {h[3] : h \in Held}
      <4>1. PICK h \in Holders : OwnFds[h] = f
        BY <2>1, <3>1 DEF Accounts
      <4>2. h = <<h[1], h[2]>>
        BY DEF Holders
      <4>3. <<h[2], h[1], f>> \in Held
        BY <2>1, <2>3, <3>1, <4>1
      <4> QED BY <4>3
    <3>2. ASSUME NEW h \in Held
          PROVE  h[3] \in Fds /\ fds[h[3]] # Closed
      BY <2>1, <2>4 DEF Accounts
    <3> QED BY <2>1, <3>1, <3>2
  <2>6. ASSUME NEW g \in Held, NEW h \in Held, g[3] = h[3]
        PROVE  g = h
    <3>1. /\ <<g[2], g[1]>> \in Holders /\ OwnFds[<<g[2], g[1]>>] = g[3] /\ g[3] # -1
          /\ <<h[2], h[1]>> \in Holders /\ OwnFds[<<h[2], h[1]>>] = h[3]
      BY <2>1, <2>4, <2>6
    <3>2. <<g[2], g[1]>> = <<h[2], h[1]>>
      BY <2>1, <2>6, <3>1 DEF Accounts
    <3> QED BY <2>4, <2>6, <3>2
  <2> QED BY <2>5, <2>6 DEF FdsAccounted
<1> QED BY <1>1, Inductive, PTL

(* The handler never follows a ring pointer into memory that was unmapped. *)
THEOREM RingsCurrent == Spec => []NoStaleRing
<1>1. IndInv => NoStaleRing
  BY DEF IndInv, Table, Rings, NoStaleRing
<1> QED BY <1>1, Inductive, PTL

(* Across stops, restarts and rewirings each buffer is emitted once, in    *)
(* order.                                                                  *)
THEOREM InOrder == Spec => []EmittedOnceInOrder
<1>1. IndInv => EmittedOnceInOrder
  BY DEF IndInv, Emission, EmittedOnceInOrder
<1> QED BY <1>1, Inductive, PTL
=============================================================================
