---------------------------- MODULE NetlogProofs ----------------------------
(***************************************************************************)
(* Proofs about the listener's connection table and about the text it      *)
(* passes on, for any producers, any scripts, any capacity, and any        *)
(* results of poll, accept and read.                                       *)
(***************************************************************************)
EXTENDS Netlog, TLAPS, SequenceTheorems, WellFoundedInduction

Types ==
    /\ client \in [Producers -> {"new", "connected", "closed", "reset"}]
    /\ socket \in [Producers -> {"none", "backlog", "accepted", "closed"}]
    /\ backlog \in Seq(Producers)
    /\ pc \in {"top", "accept", "service", "exit", "done"}
    /\ conns \in Seq(Range(conns))
    /\ nc <= MaxConn
    /\ \A s \in 1..nc : DOMAIN conns[s] = {"p", "buf"}
    /\ i \in Nat /\ keep \in Nat

(* The loop that compacts the table writes below where it reads.           *)
Compacting == pc = "service" => keep < i /\ i <= nc + 1

(* The indices of the connections that are live, also in that loop.        *)
LiveSlots == IF pc = "service" THEN (1..keep) \cup (i..nc) ELSE 1..nc

(* The live entries are the accepted sockets, each once.                   *)
Table ==
    /\ \A s \in LiveSlots : /\ conns[s].p \in Producers
                            /\ socket[conns[s].p] = "accepted"
    /\ \A s, t \in LiveSlots : conns[s].p = conns[t].p => s = t
    /\ \A p \in Producers : socket[p] = "accepted" =>
          \E s \in LiveSlots : conns[s].p = p

(* What waits for accept is in no other place, and once.                   *)
Waiting ==
    /\ \A k \in 1..Len(backlog) : socket[backlog[k]] = "backlog"
    /\ \A k, l \in 1..Len(backlog) : backlog[k] = backlog[l] => k = l
    /\ \A p \in Producers : client[p] = "new" => socket[p] = "none"

IndInv == Types /\ Compacting /\ Table /\ Waiting

-----------------------------------------------------------------------------
(***************************************************************************)
(* Sequences                                                               *)
(***************************************************************************)
(* A sequence over some set is one over its own elements.                  *)
LEMMA OverItsRange ==
    ASSUME NEW T, NEW s \in Seq(T)
    PROVE  s \in Seq(Range(s))
<1>1. Len(s) \in Nat /\ DOMAIN s = 1..Len(s) /\ s = [k \in 1..Len(s) |-> s[k]]
  OBVIOUS
<1>2. \A k \in 1..Len(s) : s[k] \in Range(s)
  BY <1>1 DEF Range
<1> HIDE DEF Range
<1> QED BY <1>1, <1>2

(* The live connections are the entries at the live indices, in order.     *)
LEMMA LiveEntries ==
    ASSUME Types, Compacting
    PROVE  /\ Len(LiveConns) \in Nat
           /\ \A s \in 1..Len(LiveConns) : \E t \in LiveSlots :
                LiveConns[s] = conns[t] /\ t = (IF pc = "service" /\ s > keep
                                               THEN s + i - keep - 1 ELSE s)
           /\ \A t \in LiveSlots : \E s \in 1..Len(LiveConns) : LiveConns[s] = conns[t]
<1>1. CASE pc # "service"
  <2>1. LiveConns = conns /\ LiveSlots = 1..Len(conns) /\ Len(conns) \in Nat
    BY <1>1 DEF LiveConns, LiveSlots, nc, Types
  <2> QED BY <1>1, <2>1
<1>2. CASE pc = "service"
  <2> DEFINE T == Range(conns)
             a == SubSeq(conns, 1, keep)
             b == SubSeq(conns, i, nc)
  <2>1. /\ conns \in Seq(T) /\ keep \in Nat /\ i \in Nat /\ nc \in Nat /\ nc = Len(conns)
        /\ keep < i /\ i <= nc + 1
    BY <1>2 DEF Types, Compacting, nc
  <2>2. LiveConns = a \o b /\ LiveSlots = (1..keep) \cup (i..nc)
    BY <1>2 DEF LiveConns, Live, LiveSlots
  <2> HIDE DEF T
  <2>3. a \in Seq(T) /\ Len(a) = keep /\ \A k \in 1..keep : a[k] = conns[k]
    BY <2>1
  <2>4. b \in Seq(T) /\ Len(b) = nc + 1 - i /\ \A k \in 1..nc + 1 - i : b[k] = conns[k + i - 1]
    BY <2>1
  <2> HIDE DEF a, b
  <2>5. /\ Len(a \o b) = Len(a) + Len(b)
        /\ \A k \in 1..Len(a) + Len(b) :
              (a \o b)[k] = IF k <= Len(a) THEN a[k] ELSE b[k - Len(a)]
    BY <2>3, <2>4, ConcatProperties, Zenon
  <2>6. Len(LiveConns) = keep + (nc + 1 - i)
    BY <2>2, <2>3, <2>4, <2>5
  <2>7. ASSUME NEW s \in 1..keep + (nc + 1 - i)
        PROVE  LiveConns[s] = conns[IF s > keep THEN s + i - keep - 1 ELSE s]
    <3>1. CASE s <= keep
      <4>1. (a \o b)[s] = a[s]
        BY <2>1, <2>3, <2>4, <2>5, <3>1
      <4> QED BY <2>1, <2>2, <2>3, <3>1, <4>1
    <3>2. CASE ~(s <= keep)
      <4>1. (a \o b)[s] = b[s - keep] /\ s - keep \in 1..nc + 1 - i
        BY <2>1, <2>3, <2>4, <2>5, <3>2
      <4>2. b[s - keep] = conns[(s - keep) + i - 1] /\ (s - keep) + i - 1 = s + i - keep - 1
        BY <2>1, <2>4, <4>1
      <4> QED BY <2>1, <2>2, <3>2, <4>1, <4>2
    <3> QED BY <2>1, <3>1, <3>2
  <2>8. ASSUME NEW s \in 1..keep + (nc + 1 - i)
        PROVE  (IF s > keep THEN s + i - keep - 1 ELSE s) \in LiveSlots
    BY <2>1, <2>2
  <2>9. ASSUME NEW t \in LiveSlots
        PROVE  \E s \in 1..keep + (nc + 1 - i) : LiveConns[s] = conns[t]
    <3>1. CASE t \in 1..keep
      <4>1. t \in 1..keep + (nc + 1 - i) /\ ~(t > keep)
        BY <2>1, <3>1
      <4> QED BY <2>7, <4>1
    <3>2. CASE t \in i..nc
      <4> DEFINE s == t + keep + 1 - i
      <4>1. s \in 1..keep + (nc + 1 - i) /\ s > keep /\ s + i - keep - 1 = t
        BY <2>1, <3>2
      <4> HIDE DEF s
      <4> QED BY <2>7, <4>1
    <3> QED BY <2>2, <3>1, <3>2
  <2>10. keep + (nc + 1 - i) \in Nat
    BY <2>1
  <2> QED BY <1>2, <2>6, <2>7, <2>8, <2>9, <2>10
<1> QED BY <1>1, <1>2

-----------------------------------------------------------------------------
(***************************************************************************)
(* Steps that leave the table alone                                        *)
(***************************************************************************)
LEMMA Constants ==
    MaxConn \in Nat \ {0} /\ ReadMax \in Nat \ {0}
BY NetlogConstants

LEMMA Initially == Init => IndInv
<1> SUFFICES ASSUME Init PROVE IndInv
  OBVIOUS
<1>1. conns = << >> /\ Len(conns) = 0 /\ conns \in Seq(Range(conns))
  BY EmptySeq DEF Init
<1>2. backlog \in Seq(Producers) /\ Len(backlog) = 0
  BY EmptySeq DEF Init
<1> QED BY <1>1, <1>2, Constants
        DEF Init, IndInv, Types, Compacting, Table, Waiting, LiveSlots, nc

(* Nobody enters or leaves the table, and outside the compacting loop all  *)
(* entries are live.                                                       *)
LEMMA TableQuiet ==
    ASSUME IndInv, UNCHANGED <<socket, backlog, conns, i, keep>>,
           \/ pc' = pc
           \/ pc # "service" /\ pc' \in {"top", "accept", "exit"},
           client' \in [Producers -> {"new", "connected", "closed", "reset"}],
           \A p \in Producers : client'[p] = "new" => client[p] = "new"
    PROVE  IndInv'
<1>1. nc' = nc /\ Range(conns)' = Range(conns)
  BY DEF nc, Range
<1>2. LiveSlots' = LiveSlots
  BY <1>1 DEF LiveSlots
<1>3. Types' /\ Compacting'
  BY <1>1 DEF IndInv, Types, Compacting
<1>4. Table'
  BY <1>2 DEF IndInv, Table
<1>5. Waiting'
  BY DEF IndInv, Waiting
<1> QED BY <1>3, <1>4, <1>5 DEF IndInv

LEMMA NothingMoves ==
    ASSUME IndInv, UNCHANGED <<client, socket, backlog, conns, i, keep, pc>>
    PROVE  IndInv'
<1>1. client' \in [Producers -> {"new", "connected", "closed", "reset"}]
  BY DEF IndInv, Types
<1> QED BY <1>1, TableQuiet

LEMMA ClientStep ==
    ASSUME IndInv, NEW p \in Producers, Connect(p) \/ Send(p) \/ Disconnect(p)
    PROVE  IndInv'
<1> USE DEF IndInv
<1>1. CASE Connect(p)
  <2>1. /\ client[p] = "new" /\ socket[p] = "none"
        /\ client' = [client EXCEPT ![p] = "connected"]
        /\ socket' = [socket EXCEPT ![p] = "backlog"]
        /\ backlog' = Append(backlog, p)
        /\ UNCHANGED <<pc, conns, i, keep>>
    BY <1>1 DEF Connect, Waiting, thread
  <2>2. LiveSlots' = LiveSlots /\ nc' = nc
    BY <2>1 DEF LiveSlots, nc
  <2>3. /\ Len(backlog') = Len(backlog) + 1 /\ backlog' \in Seq(Producers)
        /\ \A k \in 1..Len(backlog) : backlog'[k] = backlog[k] /\ backlog[k] # p
        /\ backlog'[Len(backlog) + 1] = p /\ Len(backlog) \in Nat
    BY <2>1 DEF Types, Waiting
  <2>4. Types' /\ Compacting'
    BY <2>1, <2>2, <2>3 DEF Types, Compacting
  <2>5. Table'
    BY <2>1, <2>2 DEF Types, Table
  <2>6. Waiting'
    <3>1. \A k \in 1..Len(backlog') : socket'[backlog'[k]] = "backlog"
      BY <2>1, <2>3 DEF Types, Waiting
    <3>2. \A k, l \in 1..Len(backlog') : backlog'[k] = backlog'[l] => k = l
      BY <2>3 DEF Waiting
    <3>3. \A q \in Producers : client'[q] = "new" => socket'[q] = "none"
      BY <2>1 DEF Types, Waiting
    <3> QED BY <3>1, <3>2, <3>3 DEF Waiting
  <2> QED BY <2>4, <2>5, <2>6
<1>2. CASE Send(p)
  BY <1>2, NothingMoves DEF Send, thread
<1>3. CASE Disconnect(p)
  <2>1. /\ client' \in [Producers -> {"new", "connected", "closed", "reset"}]
        /\ \A q \in Producers : client'[q] = "new" => client[q] = "new"
    BY <1>3 DEF Disconnect, Types
  <2> QED BY <1>3, <2>1, TableQuiet DEF Disconnect, thread
<1> QED BY <1>1, <1>2, <1>3

LEMMA StopperStep ==
    ASSUME IndInv, Stopper
    PROVE  IndInv'
<1> USE DEF IndInv
<1>1. CASE SetStop \/ Join
  BY <1>1, NothingMoves DEF SetStop, Join, thread
<1>2. CASE Shutdown
  <2>1. /\ backlog' = << >> /\ UNCHANGED <<client, pc, conns, i, keep>>
        /\ socket' = [p \in Producers |->
                        IF socket[p] = "backlog" THEN "closed" ELSE socket[p]]
    BY <1>2 DEF Shutdown, thread
  <2>2. backlog' \in Seq(Producers) /\ Len(backlog') = 0
    BY <2>1, EmptySeq
  <2>3. LiveSlots' = LiveSlots /\ nc' = nc
    BY <2>1 DEF LiveSlots, nc
  <2>4. \A p \in Producers : socket'[p] = "accepted" <=> socket[p] = "accepted"
    BY <2>1
  <2>5. Types' /\ Compacting'
    BY <2>1, <2>2, <2>3 DEF Types, Compacting
  <2>6. Table'
    BY <2>1, <2>3, <2>4 DEF Table
  <2>7. Waiting'
    BY <2>1, <2>2 DEF Waiting
  <2> QED BY <2>5, <2>6, <2>7
<1> QED BY <1>1, <1>2 DEF Stopper

-----------------------------------------------------------------------------
(***************************************************************************)
(* Steps that change the table                                             *)
(***************************************************************************)
(* What is accepted came from the backlog, and so is in no slot yet.       *)
LEMMA AcceptStep ==
    ASSUME IndInv, Accept
    PROVE  IndInv'
<1> USE DEF IndInv
<1> DEFINE p == Head(backlog)
           c == [p |-> Head(backlog), buf |-> << >>]
<1>1. /\ pc = "accept" /\ backlog # << >> /\ backlog' = Tail(backlog)
      /\ pc' = "service" /\ i' = 1 /\ keep' = 0 /\ client' = client
  BY DEF Accept, StartService
<1>2. backlog \in Seq(Producers) /\ p \in Producers /\ socket[p] = "backlog"
      /\ Len(backlog) \in Nat \ {0} /\ p = backlog[1]
  BY <1>1 DEF Types, Waiting
<1>3. /\ backlog' \in Seq(Producers) /\ Len(backlog') = Len(backlog) - 1
      /\ \A k \in 1..Len(backlog) - 1 : backlog'[k] = backlog[k + 1]
  BY <1>1, <1>2
<1>4. LiveSlots = 1..nc /\ LiveSlots' = 1..nc' /\ conns \in Seq(Range(conns)) /\ nc \in Nat
  BY <1>1 DEF LiveSlots, Types, nc
<1>5. CASE nc < MaxConn /\ conns' = Append(conns, c)
           /\ socket' = [socket EXCEPT ![p] = "accepted"]
  <2>1. /\ conns' \in Seq(Range(conns) \cup {c})
        /\ nc' = nc + 1 /\ conns'[nc + 1] = c
        /\ \A s \in 1..nc : conns'[s] = conns[s]
    <3> DEFINE T == Range(conns)
    <3>1. conns \in Seq(T)
      BY <1>4
    <3> HIDE DEF T, c
    <3> QED BY <1>5, <3>1 DEF nc, T
  <2>2. conns' \in Seq(Range(conns'))
    BY <2>1, OverItsRange
  <2>3. Types' /\ Compacting'
    <3>1. nc' <= MaxConn /\ \A s \in 1..nc' : DOMAIN conns'[s] = {"p", "buf"}
      <4>1. DOMAIN c = {"p", "buf"}
        OBVIOUS
      <4> HIDE DEF c
      <4>2. \A s \in 1..nc + 1 : s \in 1..nc \/ s = nc + 1
        BY <1>4
      <4>3. \A s \in 1..nc : DOMAIN conns[s] = {"p", "buf"}
        BY DEF Types
      <4>4. nc + 1 <= MaxConn
        BY <1>4, <1>5, Constants
      <4> QED BY <2>1, <4>1, <4>2, <4>3, <4>4
    <3>2. socket' \in [Producers -> {"none", "backlog", "accepted", "closed"}]
      BY <1>2, <1>5 DEF Types
    <3>3. pc' = "service" /\ i' = 1 /\ keep' = 0 /\ i' <= nc' + 1
      BY <1>1, <1>4, <2>1
    <3> HIDE DEF p, c
    <3> QED BY <1>1, <1>3, <2>2, <3>1, <3>2, <3>3 DEF Types, Compacting
  <2>4. c.p = p
    OBVIOUS
  <2> HIDE DEF c
  <2>5. Table'
    <3>1. \A s \in 1..nc : /\ conns'[s].p \in Producers /\ conns'[s].p # p
                           /\ socket'[conns'[s].p] = "accepted"
      <4>1. \A s \in 1..nc : conns[s].p \in Producers /\ socket[conns[s].p] = "accepted"
        BY <1>4 DEF Table
      <4>2. \A q \in Producers : socket[q] = "accepted" => q # p /\ socket'[q] = "accepted"
        BY <1>2, <1>5 DEF Types
      <4> HIDE DEF p
      <4> QED BY <2>1, <4>1, <4>2
    <3>2. \A s, t \in 1..nc : conns'[s].p = conns'[t].p => s = t
      BY <1>4, <2>1 DEF Table
    <3>3. conns'[nc + 1].p = p /\ socket'[p] = "accepted"
      BY <1>2, <1>5, <2>1, <2>4 DEF Types
    <3>4. \A q \in Producers : q # p /\ socket'[q] = "accepted" =>
             \E s \in 1..nc : conns'[s].p = q
      <4>1. \A q \in Producers : q # p => socket'[q] = socket[q]
        BY <1>5 DEF Types
      <4>2. \A q \in Producers : socket[q] = "accepted" => \E s \in 1..nc : conns[s].p = q
        BY <1>4 DEF Table
      <4> HIDE DEF p
      <4> QED BY <2>1, <4>1, <4>2
    <3>5. \A s \in 1..nc + 1 : s \in 1..nc \/ s = nc + 1
      BY <1>4
    <3>6. 1..nc \subseteq 1..nc + 1 /\ nc + 1 \in 1..nc + 1
      BY <1>4
    <3>7. LiveSlots' = 1..nc + 1
      BY <1>4, <2>1
    <3> HIDE DEF p
    <3>8. \A s \in 1..nc + 1 : conns'[s].p \in Producers /\ socket'[conns'[s].p] = "accepted"
      BY <1>2, <3>1, <3>3, <3>5
    <3>9. \A s, t \in 1..nc + 1 : conns'[s].p = conns'[t].p => s = t
      BY <3>1, <3>2, <3>3, <3>5
    <3>10. \A q \in Producers : socket'[q] = "accepted" => \E s \in 1..nc + 1 : conns'[s].p = q
      BY <3>3, <3>4, <3>6
    <3> QED BY <3>7, <3>8, <3>9, <3>10 DEF Table
  <2>6. Waiting'
    <3>1. \A k \in 1..Len(backlog') : backlog'[k] # p /\ backlog'[k] \in Producers
                                      /\ socket[backlog'[k]] = "backlog"
      BY <1>2, <1>3 DEF Waiting
    <3>2. \A k, l \in 1..Len(backlog') : backlog'[k] = backlog'[l] => k = l
      BY <1>2, <1>3 DEF Waiting
    <3> QED BY <1>1, <1>2, <1>5, <3>1, <3>2 DEF Waiting, Types
  <2> QED BY <2>3, <2>5, <2>6
<1>6. CASE conns' = conns /\ socket' = [socket EXCEPT ![p] = "closed"]
  <2>1. Types' /\ Compacting' /\ nc' = nc
    BY <1>1, <1>2, <1>3, <1>4, <1>6 DEF Types, Compacting, nc
  <2>2. Table'
    BY <1>2, <1>4, <1>6, <2>1 DEF Types, Table
  <2>3. Waiting'
    <3>1. \A k \in 1..Len(backlog') : backlog'[k] # p /\ backlog'[k] \in Producers
                                      /\ socket[backlog'[k]] = "backlog"
      BY <1>2, <1>3 DEF Waiting
    <3>2. \A k, l \in 1..Len(backlog') : backlog'[k] = backlog'[l] => k = l
      BY <1>2, <1>3 DEF Waiting
    <3> QED BY <1>1, <1>2, <1>6, <3>1, <3>2 DEF Waiting, Types
  <2> QED BY <2>1, <2>2, <2>3
<1> QED BY <1>5, <1>6 DEF Accept

(* A connection that stays moves down to a slot the loop has left behind;  *)
(* one that goes has its socket closed.                                    *)
LEMMA ServiceStep ==
    ASSUME IndInv, Service
    PROVE  IndInv'
<1> USE DEF IndInv
<1>1. /\ pc = "service" /\ pc' = "service" /\ i <= nc /\ i' = i + 1
      /\ UNCHANGED <<client, backlog>>
  BY DEF Service
<1>2. /\ keep < i /\ i \in Nat /\ keep \in Nat /\ nc \in Nat
      /\ conns \in Seq(Range(conns)) /\ i \in 1..nc /\ keep + 1 \in 1..nc
  BY <1>1 DEF Types, Compacting, nc
<1>3. /\ LiveSlots = (1..keep) \cup (i..nc)
      /\ LiveSlots' = (1..keep') \cup (i + 1..nc')
  BY <1>1 DEF LiveSlots
<1>4. i \in LiveSlots /\ conns[i].p \in Producers /\ socket[conns[i].p] = "accepted"
  BY <1>2, <1>3 DEF Table
<1>5. CASE socket' = [socket EXCEPT ![conns[i].p] = "closed"] /\ UNCHANGED <<conns, keep>>
  <2>1. Types' /\ Compacting' /\ nc' = nc
    BY <1>1, <1>2, <1>4, <1>5 DEF Types, Compacting, nc
  <2>2. LiveSlots' = LiveSlots \ {i}
    BY <1>2, <1>3, <1>5, <2>1
  <2>3. Table'
    BY <1>4, <1>5, <2>2 DEF Table, Types
  <2>4. Waiting'
    BY <1>1, <1>4, <1>5 DEF Waiting, Types
  <2> QED BY <2>1, <2>3, <2>4
<1>6. ASSUME NEW c, c.p = conns[i].p, DOMAIN c = {"p", "buf"}, conns' = [conns EXCEPT ![keep + 1] = c],
             keep' = keep + 1, socket' = socket
      PROVE  IndInv'
  <2>1. /\ nc' = nc /\ conns' \in Seq(Range(conns) \cup {c})
        /\ conns'[keep + 1] = c
        /\ \A s \in 1..nc : s # keep + 1 => conns'[s] = conns[s]
    <3> DEFINE T == Range(conns)
    <3>1. conns \in Seq(T)
      BY <1>2
    <3> HIDE DEF T
    <3> QED BY <1>2, <1>6, <3>1 DEF nc, T
  <2>2. conns' \in Seq(Range(conns'))
    BY <2>1, OverItsRange
  <2>3. Types' /\ Compacting'
    BY <1>1, <1>2, <1>6, <2>1, <2>2 DEF Types, Compacting
  <2>4. LiveSlots' = (1..keep + 1) \cup (i + 1..nc)
    BY <1>3, <1>6, <2>1
  <2>5. \A s \in LiveSlots' : \/ s = keep + 1
                              \/ s \in LiveSlots /\ s # i /\ s # keep + 1 /\ s \in 1..nc
    BY <1>2, <1>3, <2>4
  <2>6. \A s \in LiveSlots : \/ s = i
                             \/ s \in LiveSlots' /\ s # keep + 1 /\ s \in 1..nc
    BY <1>2, <1>3, <2>4
  <2>7. keep + 1 \in LiveSlots'
    BY <1>2, <2>4
  <2>8. Table'
    <3>1. \A s \in LiveSlots' : /\ conns'[s].p \in Producers
                                /\ socket'[conns'[s].p] = "accepted"
      BY <1>4, <1>6, <2>1, <2>5 DEF Table
    <3>2. \A s, t \in LiveSlots' : conns'[s].p = conns'[t].p => s = t
      BY <1>4, <1>6, <2>1, <2>5 DEF Table
    <3>3. \A p \in Producers : socket'[p] = "accepted" =>
             \E s \in LiveSlots' : conns'[s].p = p
      BY <1>4, <1>6, <2>1, <2>6, <2>7 DEF Table
    <3> QED BY <3>1, <3>2, <3>3 DEF Table
  <2>9. Waiting'
    BY <1>1, <1>6 DEF Waiting
  <2> QED BY <2>3, <2>8, <2>9
<1>7. \/ socket' = [socket EXCEPT ![conns[i].p] = "closed"] /\ UNCHANGED <<conns, keep>>
      \/ \E c : /\ c.p = conns[i].p /\ DOMAIN c = {"p", "buf"}
                /\ conns' = [conns EXCEPT ![keep + 1] = c]
                /\ keep' = keep + 1 /\ socket' = socket
  <2>1. DOMAIN conns[i] = {"p", "buf"}
    BY <1>2 DEF Types
  <2>2. \A b : /\ [conns[i] EXCEPT !.buf = b].p = conns[i].p
              /\ DOMAIN [conns[i] EXCEPT !.buf = b] = {"p", "buf"}
    BY <2>1
  <2>3. \/ socket' = [socket EXCEPT ![conns[i].p] = "closed"] /\ UNCHANGED <<conns, keep>>
        \/ \E b : /\ \/ conns' = [conns EXCEPT ![keep + 1] = [conns[i] EXCEPT !.buf = b]]
                     \/ conns' = [conns EXCEPT ![keep + 1] = conns[i]]
                  /\ keep' = keep + 1 /\ socket' = socket
    BY Zenon DEF Service, Keep
  <2> QED BY <2>1, <2>2, <2>3, Zenon
<1> QED BY <1>5, <1>6, <1>7

(* What the loop kept is the new table.                                    *)
LEMMA ServiceDoneStep ==
    ASSUME IndInv, ServiceDone
    PROVE  IndInv'
<1> USE DEF IndInv
<1>1. /\ pc = "service" /\ i > nc /\ conns' = SubSeq(conns, 1, keep) /\ pc' = "top"
      /\ i' = 1 /\ keep' = 0 /\ UNCHANGED <<client, socket, backlog>>
  BY DEF ServiceDone
<1>2. keep \in 0..nc /\ nc = Len(conns) /\ nc \in Nat /\ conns \in Seq(Range(conns))
      /\ i \in Nat /\ keep < i
  BY <1>1 DEF Types, Compacting, nc
<1>3. /\ conns' \in Seq(Range(conns)) /\ nc' = keep
      /\ \A s \in 1..keep : conns'[s] = conns[s]
  <2> DEFINE T == Range(conns)
  <2>1. conns \in Seq(T)
    BY <1>2
  <2> HIDE DEF T
  <2> QED BY <1>1, <1>2, <2>1 DEF nc, T
<1>4. conns' \in Seq(Range(conns'))
  BY <1>3, OverItsRange
<1>5. Types' /\ Compacting'
  <2>1. nc' <= MaxConn /\ \A s \in 1..nc' : DOMAIN conns'[s] = {"p", "buf"}
    <3>1. /\ nc <= MaxConn /\ MaxConn \in Nat
          /\ \A s \in 1..nc : DOMAIN conns[s] = {"p", "buf"}
      BY Constants DEF Types
    <3>2. nc' <= MaxConn
      BY <1>2, <1>3, <3>1
    <3>3. ASSUME NEW s \in 1..nc'
          PROVE  DOMAIN conns'[s] = {"p", "buf"}
      <4>1. s \in 1..keep /\ s \in 1..nc
        BY <1>2, <1>3, <3>3
      <4>2. conns'[s] = conns[s]
        BY <1>3, <4>1
      <4> QED BY <3>1, <4>1, <4>2
    <3> QED BY <3>2, <3>3
  <2> QED BY <1>1, <1>4, <2>1 DEF Types, Compacting
<1>6. LiveSlots = 1..keep /\ LiveSlots' = 1..keep
  BY <1>1, <1>2, <1>3 DEF LiveSlots
<1>7. Table'
  BY <1>1, <1>3, <1>6 DEF Table
<1>8. Waiting'
  BY <1>1 DEF Waiting
<1> QED BY <1>5, <1>7, <1>8

LEMMA ExitStep ==
    ASSUME IndInv, Exit
    PROVE  IndInv'
<1> USE DEF IndInv
<1>1. /\ pc = "exit" /\ pc' = "done" /\ conns' = << >>
      /\ UNCHANGED <<client, backlog, i, keep>>
      /\ socket' = [p \in Producers |->
                      IF \E s \in 1..nc : conns[s].p = p THEN "closed" ELSE socket[p]]
  BY DEF Exit
<1>2. Len(conns') = 0 /\ conns' \in Seq(Range(conns'))
  BY <1>1, EmptySeq
<1>3. LiveSlots = 1..nc /\ LiveSlots' = {} /\ nc' = 0
  BY <1>1, <1>2 DEF LiveSlots, nc
<1>4. Types' /\ Compacting'
  BY <1>1, <1>2, <1>3, Constants DEF Types, Compacting
<1>5. Table'
  BY <1>1, <1>3 DEF Table
<1>6. Waiting'
  <2>1. \A p \in Producers : socket[p] # "accepted" => socket'[p] = socket[p]
    BY <1>1, <1>3 DEF Table
  <2>2. \A k \in 1..Len(backlog) : backlog[k] \in Producers
    BY DEF Types
  <2> QED BY <1>1, <2>1, <2>2 DEF Waiting
<1> QED BY <1>4, <1>5, <1>6

LEMMA ListenerStep ==
    ASSUME IndInv, Listener
    PROVE  IndInv'
<1>1. CASE LoopEnds \/ Poll \/ PollFails \/ StopSeen
  <2>1. client' \in [Producers -> {"new", "connected", "closed", "reset"}] /\ client' = client
    BY <1>1 DEF LoopEnds, Poll, PollFails, StopSeen, IndInv, Types
  <2> QED BY <1>1, <2>1, TableQuiet DEF LoopEnds, Poll, PollFails, StopSeen
<1>2. CASE NoAccept
  BY <1>2 DEF NoAccept, StartService, IndInv, Types, Compacting, Table, Waiting,
              LiveSlots, nc
<1> QED BY <1>1, <1>2, AcceptStep, ServiceStep, ServiceDoneStep, ExitStep DEF Listener

-----------------------------------------------------------------------------
(* The listener keeps the inductive invariant, whatever its clients do and *)
(* whenever netlog_stop is called.                                         *)
THEOREM Inductive == Spec => []IndInv
<1>1. IndInv /\ [Next]_vars => IndInv'
  <2>1. IndInv /\ UNCHANGED vars => IndInv'
    BY NothingMoves DEF vars
  <2> QED BY <2>1, ListenerStep, StopperStep, ClientStep DEF Next
<1> QED BY <1>1, Initially, PTL DEF Spec

(* No descriptor leaks and none is used after close: after every accept,   *)
(* drop and compaction the accepted sockets are those in the table, each   *)
(* once.                                                                   *)
THEOREM SocketsAccounted == Spec => []TableMatchesSockets
<1>1. IndInv => TableMatchesSockets
  <2> SUFFICES ASSUME IndInv PROVE TableMatchesSockets
    OBVIOUS
  <2> DEFINE n == Len(LiveConns)
  <2>1. /\ n \in Nat
        /\ \A s \in 1..n : \E t \in LiveSlots :
              LiveConns[s] = conns[t] /\ t = (IF pc = "service" /\ s > keep
                                             THEN s + i - keep - 1 ELSE s)
        /\ \A t \in LiveSlots : \E s \in 1..n : LiveConns[s] = conns[t]
    BY LiveEntries DEF IndInv
  <2>2. keep \in Nat /\ i \in Nat /\ (pc = "service" => keep < i)
    BY DEF IndInv, Types, Compacting
  <2> HIDE DEF n
  <2>3. {p \in Producers : socket[p] = "accepted"} = {LiveConns[s].p : s \in 1..n}
    BY <2>1 DEF IndInv, Table
  <2>4. ASSUME NEW s \in 1..n, NEW t \in 1..n, LiveConns[s].p = LiveConns[t].p
        PROVE  s = t
    <3> DEFINE at(k) == IF pc = "service" /\ k > keep THEN k + i - keep - 1 ELSE k
    <3>1. /\ at(s) \in LiveSlots /\ LiveConns[s] = conns[at(s)]
          /\ at(t) \in LiveSlots /\ LiveConns[t] = conns[at(t)]
      BY <2>1
    <3>2. at(s) = at(t)
      BY <2>4, <3>1 DEF IndInv, Table
    <3> QED BY <2>1, <2>2, <3>2
  <2> QED BY <2>3, <2>4 DEF TableMatchesSockets, n
<1> QED BY <1>1, Inductive, PTL
-----------------------------------------------------------------------------
(***************************************************************************)
(* Induction on the numbers up to a bound                                  *)
(***************************************************************************)
LEMMA Least ==
    ASSUME NEW T, T \subseteq Nat, T # {}
    PROVE  \E k \in T : \A m \in T : k <= m
<1> DEFINE R == OpToRel(<, Nat)
<1>1. IsWellFoundedOn(R, Nat)
  BY NatLessThanWellFounded, Zenon
<1>2. \A x, y \in Nat : <<x, y>> \in R <=> x < y
  BY DEF OpToRel
<1> HIDE DEF R
<1>3. PICK x \in T : \A y \in T : ~ (<<y, x>> \in R)
  BY <1>1, WFMin, Zenon
<1>4. ASSUME NEW y \in T
      PROVE  x <= y
  <2>1. ~ (<<y, x>> \in R) /\ x \in Nat /\ y \in Nat
    BY <1>3
  <2>2. ~(y < x)
    BY <1>2, <2>1, Zenon
  <2> QED BY <2>1, <2>2
<1> QED BY <1>4

LEMMA UpTo ==
    ASSUME NEW N \in Nat, NEW S, 0 \in S, \A n \in 0..N - 1 : n \in S => n + 1 \in S
    PROVE  \A n \in 0..N : n \in S
<1> DEFINE T == {n \in 0..N : n \notin S}
<1> SUFFICES ASSUME T # {} PROVE FALSE
  OBVIOUS
<1>1. T \subseteq Nat
  OBVIOUS
<1>2. PICK k \in T : \A m \in T : k <= m
  BY <1>1, Least, Zenon
<1>3. k # 0 /\ k \in 0..N /\ k \notin S
  BY <1>2
<1>4. k - 1 \in 0..N - 1 /\ (k - 1) + 1 = k /\ ~(k <= k - 1)
  BY <1>3
<1>5. k - 1 \in S
  BY <1>2, <1>4
<1> QED BY <1>3, <1>4, <1>5

(* f starts with a, and step makes each of its values from the one before. *)
Iterates(f, A, a, N, step) ==
    /\ f \in [0..N -> A]
    /\ f[0] = a
    /\ \A n \in 1..N : f[n] = step[<<n, f[n - 1]>>]

(* Such a function exists.                                                 *)
LEMMA Recursion ==
    ASSUME NEW A, NEW a \in A, NEW N \in Nat, NEW step \in [(1..N) \X A -> A]
    PROVE  \E f : Iterates(f, A, a, N, step)
<1> DEFINE Good(m, f) == f[0] = a /\ \A n \in 1..m : f[n] = step[<<n, f[n - 1]>>]
           S == {m \in 0..N : \E f \in [0..m -> A] : Good(m, f)}
<1>1. 0 \in S
  <2> DEFINE g == [n \in 0..0 |-> a]
  <2>1. g \in [0..0 -> A] /\ Good(0, g) /\ 0 \in 0..N
    OBVIOUS
  <2> HIDE DEF g, Good
  <2> QED BY <2>1
<1>2. ASSUME NEW m \in 0..N - 1, m \in S
      PROVE  m + 1 \in S
  <2>1. PICK f \in [0..m -> A] : Good(m, f)
    BY <1>2
  <2> DEFINE g == [n \in 0..m + 1 |-> IF n = m + 1 THEN step[<<m + 1, f[m]>>] ELSE f[n]]
  <2>2. m + 1 \in 1..N /\ f[m] \in A /\ step[<<m + 1, f[m]>>] \in A
    <3>1. m + 1 \in 1..N /\ f[m] \in A
      OBVIOUS
    <3>2. <<m + 1, f[m]>> \in (1..N) \X A
      BY <3>1
    <3> QED BY <3>1, <3>2
  <2>3. g \in [0..m + 1 -> A]
    BY <2>2
  <2>4. g[m + 1] = step[<<m + 1, f[m]>>] /\ \A n \in 0..m : g[n] = f[n]
    OBVIOUS
  <2> HIDE DEF g
  <2>5. Good(m + 1, g)
    <3>1. g[0] = a
      BY <2>1, <2>4
    <3>2. ASSUME NEW n \in 1..m + 1
          PROVE  g[n] = step[<<n, g[n - 1]>>]
      <4>1. CASE n = m + 1
        <5>1. n - 1 = m /\ m \in 0..m
          BY <4>1
        <5> QED BY <2>4, <4>1, <5>1
      <4>2. CASE n # m + 1
        <5>1. n \in 1..m /\ n \in 0..m /\ n - 1 \in 0..m
          BY <4>2
        <5> QED BY <2>1, <2>4, <5>1
      <4> QED BY <4>1, <4>2
    <3> QED BY <3>1, <3>2
  <2>6. m + 1 \in 0..N
    BY <2>2
  <2> HIDE DEF Good
  <2> QED BY <2>3, <2>5, <2>6
<1> HIDE DEF S
<1>3. N \in S
  <2>1. \A n \in 0..N : n \in S
    BY <1>1, <1>2, UpTo, Zenon
  <2> QED BY <2>1
<1> QED BY <1>3 DEF S, Iterates

-----------------------------------------------------------------------------
(***************************************************************************)
(* The text of the records of one producer                                 *)
(***************************************************************************)
Text == Seq(STRING)

(* f[n] is the text of p in the first n records.                           *)
Reads(f, p, records) ==
    /\ f \in [0..Len(records) -> Text]
    /\ f[0] = << >>
    /\ TextOf(p, records) = f[Len(records)]
    /\ \A n \in 1..Len(records) :
          f[n] = IF records[n].from = p THEN f[n - 1] \o records[n].line
                                        ELSE f[n - 1]

LEMMA TextSteps ==
    ASSUME NEW p, NEW records, Len(records) \in Nat,
           \A k \in 1..Len(records) : records[k].line \in Text
    PROVE  \E f : Reads(f, p, records)
<1> DEFINE N == Len(records)
           next(n, t) == IF records[n].from = p THEN t \o records[n].line ELSE t
           step == [nt \in (1..N) \X Text |-> next(nt[1], nt[2])]
           body(g) == [n \in 0..N |-> IF n = 0 THEN << >>
                                      ELSE IF records[n].from = p
                                           THEN g[n - 1] \o records[n].line
                                           ELSE g[n - 1]]
           text == CHOOSE g : g = body(g)
<1>1. \A n \in 1..N, t \in Text : next(n, t) \in Text
  <2>1. \A t, l \in Text : t \o l \in Text
    BY DEF Text
  <2> QED BY <2>1
<1>2. step \in [(1..N) \X Text -> Text]
  <2> HIDE DEF next
  <2> QED BY <1>1
<1>3. << >> \in Text
  BY DEF Text
<1>4. PICK f : Iterates(f, Text, << >>, N, step)
  <2> HIDE DEF step, N
  <2>1. N \in Nat
    BY DEF N
  <2> QED BY <1>2, <1>3, <2>1, Recursion, Zenon
<1>5. f \in [0..N -> Text] /\ f[0] = << >>
  BY <1>4, Zenon DEF Iterates
<1>6. \A n \in 1..N : f[n] = next(n, f[n - 1])
  <2>1. \A n \in 1..N : f[n - 1] \in Text /\ <<n, f[n - 1]>> \in (1..N) \X Text
    BY <1>5
  <2>2. \A n \in 1..N : f[n] = step[<<n, f[n - 1]>>]
    BY <1>4, Zenon DEF Iterates
  <2> HIDE DEF next
  <2> QED BY <2>1, <2>2
<1>7. f = body(f)
  <2> HIDE DEF N
  <2>1. \A n \in 1..N : f[n] = IF records[n].from = p THEN f[n - 1] \o records[n].line
                                                      ELSE f[n - 1]
    BY <1>6, Zenon
  <2>2. \A n \in 0..N : n = 0 \/ n \in 1..N
    BY DEF N
  <2> QED BY <1>5, <2>1, <2>2
<1>8. text = body(text)
  <2> HIDE DEF body
  <2> QED BY <1>7, Zenon
<1>9. TextOf(p, records) = text[N]
  BY Zenon DEF TextOf
<1> HIDE DEF text, step
<1>10. text[N] = f[N]
  <2> DEFINE S == {n \in 0..N : text[n] = f[n]}
  <2>1. 0 \in S
    <3>1. 0 \in 0..N
      OBVIOUS
    <3> HIDE DEF N
    <3>2. text[0] = << >>
      BY <1>8, <3>1
    <3> QED BY <1>5, <3>1, <3>2
  <2>2. ASSUME NEW n \in 0..N - 1, n \in S
        PROVE  n + 1 \in S
    <3>1. n + 1 \in 0..N /\ n + 1 # 0 /\ (n + 1) - 1 = n /\ n + 1 \in 1..N
      OBVIOUS
    <3>2. text[n + 1] = next(n + 1, text[n])
      BY <1>8, <3>1
    <3>3. f[n + 1] = next(n + 1, f[n])
      BY <1>6, <3>1
    <3> QED BY <2>2, <3>1, <3>2, <3>3
  <2> HIDE DEF S
  <2>3. N \in Nat /\ N \in 0..N
    OBVIOUS
  <2> HIDE DEF N
  <2>4. \A n \in 0..N : n \in S
    BY <2>1, <2>2, <2>3, UpTo, Zenon
  <2> QED BY <2>3, <2>4 DEF S
<1> QED BY <1>5, <1>6, <1>9, <1>10 DEF Reads

(* One more record adds its line to the text of its producer, and nothing  *)
(* to that of the others.                                                  *)
LEMMA TextOfOneMore ==
    ASSUME NEW p, NEW records, NEW more, Len(records) \in Nat,
           \A k \in 1..Len(more) : more[k].line \in Text,
           Len(more) = Len(records) + 1,
           \A k \in 1..Len(records) : more[k] = records[k]
    PROVE  /\ TextOf(p, records) \in Text
           /\ TextOf(p, more) =
                 IF more[Len(more)].from = p
                 THEN TextOf(p, records) \o more[Len(more)].line
                 ELSE TextOf(p, records)
<1> DEFINE N == Len(records)
<1>1. PICK f : Reads(f, p, records)
  <2>1. \A k \in 1..N : records[k].line \in Text
    OBVIOUS
  <2> QED BY <2>1, TextSteps, Zenon
<1>2. PICK g : Reads(g, p, more)
  <2>1. Len(more) \in Nat
    OBVIOUS
  <2> QED BY <2>1, TextSteps, Zenon
<1>3. /\ f \in [0..N -> Text] /\ f[0] = << >> /\ TextOf(p, records) = f[N]
      /\ \A n \in 1..N : f[n] = IF records[n].from = p
                                THEN f[n - 1] \o records[n].line ELSE f[n - 1]
      /\ g \in [0..N + 1 -> Text] /\ g[0] = << >> /\ TextOf(p, more) = g[N + 1]
      /\ \A n \in 1..N + 1 : g[n] = IF more[n].from = p
                                    THEN g[n - 1] \o more[n].line ELSE g[n - 1]
  BY <1>1, <1>2 DEF Reads
<1>4. g[N] = f[N]
  <2> DEFINE S == {n \in 0..N : g[n] = f[n]}
  <2>1. 0 \in S
    BY <1>3
  <2>2. ASSUME NEW n \in 0..N - 1, n \in S
        PROVE  n + 1 \in S
    <3>1. n + 1 \in 0..N /\ (n + 1) - 1 = n /\ n + 1 \in 1..N /\ n + 1 \in 1..N + 1
      OBVIOUS
    <3>2. /\ f[n + 1] = IF records[n + 1].from = p
                        THEN f[n] \o records[n + 1].line ELSE f[n]
          /\ g[n + 1] = IF more[n + 1].from = p
                        THEN g[n] \o more[n + 1].line ELSE g[n]
      BY <1>3, <3>1
    <3>3. more[n + 1] = records[n + 1] /\ g[n] = f[n]
      BY <2>2, <3>1
    <3>4. g[n + 1] = f[n + 1]
      BY <3>2, <3>3
    <3> QED BY <3>1, <3>4
  <2> HIDE DEF S
  <2>3. \A n \in 0..N : n \in S
    BY <2>1, <2>2, UpTo, Zenon
  <2> QED BY <2>3 DEF S
<1>5. /\ N + 1 \in 1..N + 1 /\ (N + 1) - 1 = N /\ N \in 0..N
      /\ f[N] \in Text
  BY <1>3
<1>6. g[N + 1] = IF more[N + 1].from = p THEN g[N] \o more[N + 1].line ELSE g[N]
  BY <1>3, <1>5
<1> QED BY <1>3, <1>4, <1>5, <1>6

-----------------------------------------------------------------------------
(***************************************************************************)
(* What feed makes of the characters of a read                             *)
(***************************************************************************)
States == [buf : Text, lines : Seq(Text)]

LEMMA CharStates ==
    ASSUME NEW st \in States, NEW ch \in STRING
    PROVE  FeedChar(st, ch) \in States
<1>1. st.buf \in Text /\ st.lines \in Seq(Text)
  BY DEF States
<1>2. << >> \in Text /\ <<ch>> \in Text /\ st.buf \o <<ch>> \in Text /\ Append(st.buf, ch) \in Text
  <2>1. st.buf \in Seq(STRING)
    BY <1>1 DEF Text
  <2> QED BY <2>1 DEF Text
<1>3. \A l \in Text : Append(st.lines, l) \in Seq(Text)
  BY <1>1
<1> QED BY <1>1, <1>2, <1>3 DEF FeedChar, States

(* f[n] is the state of feed after n characters.                           *)
Feeds(f, buf, data) ==
    /\ f \in [0..Len(data) -> States]
    /\ f[0] = [buf |-> buf, lines |-> << >>]
    /\ Feed(buf, data) = f[Len(data)]
    /\ \A n \in 1..Len(data) : f[n] = FeedChar(f[n - 1], data[n])

LEMMA FeedSteps ==
    ASSUME NEW buf \in Text, NEW data \in Text
    PROVE  \E f : Feeds(f, buf, data)
<1> DEFINE N == Len(data)
           start == [buf |-> buf, lines |-> << >>]
           step == [nt \in (1..N) \X States |-> FeedChar(nt[2], data[nt[1]])]
           body(g) == [n \in 0..N |-> IF n = 0 THEN start ELSE FeedChar(g[n - 1], data[n])]
           fed == CHOOSE g : g = body(g)
<1>1. \A n \in 1..N, t \in States : FeedChar(t, data[n]) \in States
  <2>1. \A n \in 1..N : data[n] \in STRING
    BY DEF Text
  <2> QED BY <2>1, CharStates
<1>2. step \in [(1..N) \X States -> States]
  BY <1>1
<1>3. start \in States /\ N \in Nat /\ N \in 0..N
  BY DEF States, Text
<1>4. PICK f : Iterates(f, States, start, N, step)
  <2> HIDE DEF step, N, start
  <2> QED BY <1>2, <1>3, Recursion, Zenon
<1> HIDE DEF N, start
<1>5. f \in [0..N -> States] /\ f[0] = start
  BY <1>4, Zenon DEF Iterates
<1>6. \A n \in 1..N : f[n] = FeedChar(f[n - 1], data[n])
  <2>1. \A n \in 1..N : f[n - 1] \in States /\ <<n, f[n - 1]>> \in (1..N) \X States
    BY <1>3, <1>5
  <2>2. \A n \in 1..N : f[n] = step[<<n, f[n - 1]>>]
    BY <1>4, Zenon DEF Iterates
  <2> QED BY <2>1, <2>2
<1>7. f = body(f)
  <2>1. \A n \in 0..N : n = 0 \/ n \in 1..N
    BY <1>3
  <2> QED BY <1>5, <1>6, <2>1
<1>8. fed = body(fed)
  <2> HIDE DEF body
  <2> QED BY <1>7, Zenon
<1>9. Feed(buf, data) = fed[N]
  BY Zenon DEF Feed, N, start
<1> HIDE DEF fed, step
<1>10. fed[N] = f[N]
  <2> DEFINE S == {n \in 0..N : fed[n] = f[n]}
  <2>1. 0 \in S
    <3>1. 0 \in 0..N
      BY <1>3
    <3> QED BY <1>5, <1>8, <3>1
  <2>2. ASSUME NEW n \in 0..N - 1, n \in S
        PROVE  n + 1 \in S
    <3>1. n + 1 \in 0..N /\ n + 1 # 0 /\ (n + 1) - 1 = n /\ n + 1 \in 1..N
      BY <1>3
    <3>2. fed[n + 1] = FeedChar(fed[n], data[n + 1])
      BY <1>8, <3>1
    <3>3. f[n + 1] = FeedChar(f[n], data[n + 1])
      BY <1>6, <3>1
    <3> QED BY <2>2, <3>1, <3>2, <3>3
  <2> HIDE DEF S
  <2>3. \A n \in 0..N : n \in S
    BY <1>3, <2>1, <2>2, UpTo, Zenon
  <2> QED BY <1>3, <2>3 DEF S
<1> QED BY <1>5, <1>6, <1>9, <1>10 DEF Feeds, N, start

-----------------------------------------------------------------------------
(***************************************************************************)
(* The store with the records of a read                                    *)
(***************************************************************************)
Stored ==
    /\ stored \in Seq(Range(stored))
    /\ \A k \in 1..Len(stored) : stored[k].line \in Text

With(p, lines) == stored \o NewRecords(p, lines)

LEMMA WithEntries ==
    ASSUME Stored, NEW p, NEW lines \in Seq(Text)
    PROVE  /\ Len(stored) \in Nat /\ Len(lines) \in Nat
           /\ With(p, lines) \in Seq(Range(With(p, lines)))
           /\ Len(With(p, lines)) = Len(stored) + Len(lines)
           /\ \A k \in 1..Len(stored) : With(p, lines)[k] = stored[k]
           /\ \A k \in 1..Len(lines) :
                 With(p, lines)[Len(stored) + k] = Record(p, Len(stored) + k - 1, lines[k])
           /\ \A k \in 1..Len(stored) + Len(lines) : With(p, lines)[k].line \in Text
<1> DEFINE new == NewRecords(p, lines)
           T == Range(stored)
           U == {Record(p, Len(stored) + k - 1, lines[k]) : k \in 1..Len(lines)}
<1>1. stored \in Seq(T) /\ Len(stored) \in Nat /\ Len(lines) \in Nat
  BY DEF Stored
<1>2. /\ new \in Seq(U) /\ Len(new) = Len(lines)
      /\ \A k \in 1..Len(lines) : new[k] = Record(p, Len(stored) + k - 1, lines[k])
  BY <1>1 DEF NewRecords
<1> HIDE DEF T, U, new
<1>3. stored \in Seq(T \cup U) /\ new \in Seq(T \cup U)
  BY <1>1, <1>2
<1>4. /\ stored \o new \in Seq(T \cup U)
      /\ Len(stored \o new) = Len(stored) + Len(new)
      /\ \A k \in 1..Len(stored) + Len(new) :
            (stored \o new)[k] = IF k <= Len(stored) THEN stored[k] ELSE new[k - Len(stored)]
  BY <1>3, ConcatProperties, Zenon
<1>5. With(p, lines) = stored \o new
  BY DEF With, new
<1>6. With(p, lines) \in Seq(Range(With(p, lines)))
  BY <1>4, <1>5, OverItsRange
<1>7. \A k \in 1..Len(stored) : With(p, lines)[k] = stored[k]
  BY <1>1, <1>2, <1>4, <1>5
<1>8. \A k \in 1..Len(lines) :
         With(p, lines)[Len(stored) + k] = Record(p, Len(stored) + k - 1, lines[k])
  <2> TAKE k \in 1..Len(lines)
  <2>1. /\ Len(stored) + k \in 1..Len(stored) + Len(new) /\ ~(Len(stored) + k <= Len(stored))
        /\ (Len(stored) + k) - Len(stored) = k
    BY <1>1, <1>2
  <2> QED BY <1>2, <1>4, <1>5, <2>1
<1>9. \A k \in 1..Len(stored) + Len(lines) : With(p, lines)[k].line \in Text
  <2> TAKE k \in 1..Len(stored) + Len(lines)
  <2>1. CASE k \in 1..Len(stored)
    BY <1>7, <2>1 DEF Stored
  <2>2. CASE k \notin 1..Len(stored)
    <3> DEFINE j == k - Len(stored)
    <3>1. j \in 1..Len(lines) /\ k = Len(stored) + j
      BY <1>1, <2>2
    <3> HIDE DEF j
    <3>2. With(p, lines)[k] = Record(p, Len(stored) + j - 1, lines[j]) /\ lines[j] \in Text
      BY <1>8, <3>1
    <3> QED BY <3>2 DEF Record
  <2> QED BY <2>1, <2>2
<1> QED BY <1>1, <1>2, <1>4, <1>5, <1>6, <1>7, <1>8, <1>9

(* A line is added to the text of its producer only.                       *)
LEMMA OneMoreLine ==
    ASSUME Stored, NEW p, NEW q, NEW lines \in Seq(Text), NEW line \in Text
    PROVE  /\ TextOf(q, With(p, lines)) \in Text
           /\ TextOf(q, With(p, Append(lines, line))) =
                 IF q = p THEN TextOf(q, With(p, lines)) \o line
                          ELSE TextOf(q, With(p, lines))
<1> DEFINE more == Append(lines, line)
           n == Len(stored) + Len(lines)
<1>1. /\ more \in Seq(Text) /\ Len(more) = Len(lines) + 1 /\ Len(lines) \in Nat
      /\ \A k \in 1..Len(lines) : more[k] = lines[k]
      /\ more[Len(lines) + 1] = line
  OBVIOUS
<1> HIDE DEF more
<1>2. /\ Len(stored) \in Nat
      /\ Len(With(p, lines)) = n
      /\ \A k \in 1..Len(stored) : With(p, lines)[k] = stored[k]
      /\ \A k \in 1..Len(lines) :
            With(p, lines)[Len(stored) + k] = Record(p, Len(stored) + k - 1, lines[k])
  BY WithEntries, Zenon
<1>3. /\ Len(With(p, more)) = Len(stored) + Len(more)
      /\ \A k \in 1..Len(stored) : With(p, more)[k] = stored[k]
      /\ \A k \in 1..Len(more) :
            With(p, more)[Len(stored) + k] = Record(p, Len(stored) + k - 1, more[k])
      /\ \A k \in 1..Len(stored) + Len(more) : With(p, more)[k].line \in Text
  BY <1>1, WithEntries, Zenon
<1>4. n \in Nat /\ Len(With(p, more)) = n + 1
  BY <1>1, <1>2, <1>3
<1>5. \A k \in 1..n : With(p, more)[k] = With(p, lines)[k]
  <2> TAKE k \in 1..n
  <2>1. CASE k \in 1..Len(stored)
    BY <1>2, <1>3, <2>1
  <2>2. CASE k \notin 1..Len(stored)
    <3> DEFINE j == k - Len(stored)
    <3>1. j \in 1..Len(lines) /\ j \in 1..Len(more) /\ k = Len(stored) + j
      BY <1>1, <1>2, <2>2
    <3> HIDE DEF j
    <3>2. more[j] = lines[j]
      BY <1>1, <3>1
    <3> QED BY <1>2, <1>3, <3>1, <3>2
  <2> QED BY <2>1, <2>2
<1>6. With(p, more)[n + 1].from = p /\ With(p, more)[n + 1].line = line
  <2>1. Len(more) \in 1..Len(more) /\ Len(stored) + Len(more) = n + 1
    BY <1>1, <1>2
  <2>2. With(p, more)[n + 1] = Record(p, Len(stored) + Len(more) - 1, line)
    BY <1>1, <1>3, <2>1
  <2> QED BY <2>2 DEF Record
<1>7. \A k \in 1..n + 1 : With(p, more)[k].line \in Text
  <2>1. Len(stored) + Len(more) = n + 1
    BY <1>1, <1>2
  <2> QED BY <1>3, <2>1
<1> HIDE DEF n
<1> DEFINE a == With(p, lines)
           b == With(p, more)
<1>8. Len(a) = n /\ Len(b) = n + 1
  BY <1>2, <1>4
<1> HIDE DEF a, b
<1>9. /\ TextOf(q, a) \in Text
      /\ TextOf(q, b) = IF b[n + 1].from = q THEN TextOf(q, a) \o b[n + 1].line
                                             ELSE TextOf(q, a)
  <2>1. /\ Len(a) \in Nat /\ Len(b) = Len(a) + 1
        /\ \A k \in 1..Len(b) : b[k].line \in Text
        /\ \A k \in 1..Len(a) : b[k] = a[k]
    BY <1>4, <1>5, <1>7, <1>8 DEF a, b
  <2>2. /\ TextOf(q, a) \in Text
        /\ TextOf(q, b) = IF b[Len(b)].from = q THEN TextOf(q, a) \o b[Len(b)].line
                                                ELSE TextOf(q, a)
    BY <2>1, TextOfOneMore, Zenon
  <2> QED BY <1>8, <2>2, Zenon
<1> QED BY <1>6, <1>9 DEF a, b, more


LEMMA Associative ==
    \A r, s, t \in Seq(STRING) : (r \o s) \o t = r \o (s \o t)
BY ConcatAssociative

(* A character goes to the end of what is stored and buffered, whether it  *)
(* ends a line, fits into the buffer or meets a full one.                  *)
LEMMA CharKept ==
    ASSUME Stored, NEW p, NEW q, NEW st \in States, NEW ch \in STRING
    PROVE  /\ TextOf(p, With(p, FeedChar(st, ch).lines)) \o FeedChar(st, ch).buf
                 = (TextOf(p, With(p, st.lines)) \o st.buf) \o <<ch>>
           /\ q # p => TextOf(q, With(p, FeedChar(st, ch).lines))
                          = TextOf(q, With(p, st.lines))
<1> DEFINE t == TextOf(p, With(p, st.lines))
           u == TextOf(q, With(p, st.lines))
           new == FeedChar(st, ch)
<1>1. st.buf \in Text /\ st.lines \in Seq(Text)
  BY DEF States
<1>2. << >> \in Text /\ <<ch>> \in Text /\ st.buf \o <<ch>> \in Text
  <2>1. st.buf \in Seq(STRING)
    BY <1>1 DEF Text
  <2> QED BY <2>1 DEF Text
<1>3. \A line \in Text : /\ t \in Text
                         /\ TextOf(p, With(p, Append(st.lines, line))) = t \o line
                         /\ q # p => TextOf(q, With(p, Append(st.lines, line))) = u
  BY <1>1, OneMoreLine
<1>4. t \in Text
  BY <1>2, <1>3
<1> HIDE DEF t, u
<1>5. /\ (t \o st.buf) \o <<ch>> = t \o (st.buf \o <<ch>>)
      /\ Append(st.buf, ch) = st.buf \o <<ch>>
      /\ (t \o (st.buf \o <<ch>>)) \o << >> = t \o (st.buf \o <<ch>>)
  <2>1. /\ t \in Seq(STRING) /\ st.buf \in Seq(STRING) /\ <<ch>> \in Seq(STRING)
        /\ st.buf \o <<ch>> \in Seq(STRING)
    BY <1>1, <1>2, <1>4 DEF Text
  <2>2. t \o (st.buf \o <<ch>>) \in Seq(STRING)
    BY <2>1, ConcatProperties, Zenon
  <2>3. (t \o st.buf) \o <<ch>> = t \o (st.buf \o <<ch>>)
    BY <2>1, Associative, Zenon
  <2>4. Append(st.buf, ch) = st.buf \o <<ch>>
    BY <2>1, AppendIsConcat, Zenon
  <2>5. (t \o (st.buf \o <<ch>>)) \o << >> = t \o (st.buf \o <<ch>>)
    BY <2>2, ConcatEmptySeq, Zenon
  <2> QED BY <2>3, <2>4, <2>5
<1>6. CASE ch = NL
  <2>1. new.buf = << >> /\ new.lines = Append(st.lines, st.buf \o <<ch>>)
    <3>1. new = [buf |-> << >>, lines |-> Append(st.lines, st.buf \o <<ch>>)]
      BY <1>6, Zenon DEF FeedChar
    <3> HIDE DEF new
    <3> QED BY <3>1
  <2> HIDE DEF new
  <2>2. /\ TextOf(p, With(p, new.lines)) = t \o (st.buf \o <<ch>>)
        /\ q # p => TextOf(q, With(p, new.lines)) = u
    BY <1>2, <1>3, <2>1
  <2>3. TextOf(p, With(p, new.lines)) \o new.buf = (t \o st.buf) \o <<ch>>
    BY <1>5, <2>1, <2>2
  <2> QED BY <2>2, <2>3 DEF t, u, new
<1>7. CASE ch # NL /\ Len(st.buf) < LineMax - 1
  <2>1. new.buf = Append(st.buf, ch) /\ new.lines = st.lines
    BY <1>7 DEF FeedChar, States
  <2> HIDE DEF new
  <2>2. TextOf(p, With(p, new.lines)) = t /\ TextOf(q, With(p, new.lines)) = u
    BY <2>1 DEF t, u
  <2>3. TextOf(p, With(p, new.lines)) \o new.buf = (t \o st.buf) \o <<ch>>
    BY <1>5, <2>1, <2>2
  <2> QED BY <2>2, <2>3 DEF t, u, new
<1>8. CASE ch # NL /\ ~(Len(st.buf) < LineMax - 1)
  <2>1. new.buf = <<ch>> /\ new.lines = Append(st.lines, st.buf)
    BY <1>8 DEF FeedChar
  <2> HIDE DEF new
  <2>2. /\ TextOf(p, With(p, new.lines)) = t \o st.buf
        /\ q # p => TextOf(q, With(p, new.lines)) = u
    BY <1>1, <1>3, <2>1
  <2>3. TextOf(p, With(p, new.lines)) \o new.buf = (t \o st.buf) \o <<ch>>
    BY <2>1, <2>2
  <2> QED BY <2>2, <2>3 DEF t, u, new
<1> QED BY <1>6, <1>7, <1>8

(* All characters of a read are kept, for this producer, in order.         *)
LEMMA FeedKept ==
    ASSUME Stored, NEW p, NEW q, NEW buf \in Text, NEW data \in Text
    PROVE  /\ Feed(buf, data) \in States
           /\ LinesOf(p) \in Text
           /\ TextOf(p, With(p, Feed(buf, data).lines)) \o Feed(buf, data).buf
                 = (LinesOf(p) \o buf) \o data
           /\ q # p => TextOf(q, With(p, Feed(buf, data).lines)) = LinesOf(q)
<1> DEFINE N == Len(data)
           t == LinesOf(p) \o buf
<1>1. PICK f : Feeds(f, buf, data)
  BY FeedSteps
<1>2. /\ f \in [0..N -> States] /\ Feed(buf, data) = f[N]
      /\ f[0].buf = buf /\ f[0].lines = << >>
      /\ \A n \in 1..N : f[n] = FeedChar(f[n - 1], data[n])
  BY <1>1 DEF Feeds
<1>3. N \in Nat /\ data \in Seq(STRING)
  BY DEF Text
<1>4. With(p, << >>) = stored
  <2>1. NewRecords(p, << >>) = << >>
    BY DEF NewRecords
  <2> QED BY <2>1, ConcatEmptySeq DEF With, Stored
<1>5. LinesOf(p) \in Text
  <2>1. << >> \in Seq(Text) /\ << >> \in Text
    BY DEF Text
  <2>2. TextOf(p, With(p, << >>)) \in Text
    BY <2>1, OneMoreLine, Zenon
  <2> QED BY <1>4, <2>2 DEF LinesOf
<1>6. t \in Seq(STRING)
  BY <1>5 DEF Text
<1> DEFINE Kept(n) == /\ TextOf(p, With(p, f[n].lines)) \o f[n].buf = t \o SubSeq(data, 1, n)
                      /\ q # p => TextOf(q, With(p, f[n].lines)) = LinesOf(q)
           S == {n \in 0..N : Kept(n)}
<1>7. 0 \in S
  <2>1. SubSeq(data, 1, 0) = << >>
    BY SubSeqEmpty
  <2>2. t \o << >> = t
    BY <1>6, ConcatEmptySeq, Zenon
  <2>3. TextOf(p, stored) \o buf = t /\ LinesOf(q) = TextOf(q, stored)
    BY DEF LinesOf
  <2>4. Kept(0)
    <3> HIDE DEF t
    <3> QED BY <1>2, <1>4, <2>1, <2>2, <2>3
  <2> HIDE DEF Kept
  <2> QED BY <1>3, <2>4
<1>8. ASSUME NEW n \in 0..N - 1, n \in S
      PROVE  n + 1 \in S
  <2>1. /\ n + 1 \in 0..N /\ n \in 0..N /\ (n + 1) - 1 = n /\ n + 1 \in 1..N
        /\ 1 \in 1..N /\ n + 1 \in 1..N /\ n + 1 \in 1..Len(data)
    BY <1>3
  <2>2. f[n] \in States /\ data[n + 1] \in STRING /\ f[n + 1] = FeedChar(f[n], data[n + 1])
    BY <1>2, <1>3, <2>1
  <2>3. Kept(n)
    BY <1>8
  <2>4. /\ TextOf(p, With(p, f[n + 1].lines)) \o f[n + 1].buf
              = (TextOf(p, With(p, f[n].lines)) \o f[n].buf) \o <<data[n + 1]>>
        /\ q # p => TextOf(q, With(p, f[n + 1].lines)) = TextOf(q, With(p, f[n].lines))
    BY <2>2, CharKept
  <2>5. /\ SubSeq(data, 1, n) \in Seq(STRING) /\ <<data[n + 1]>> \in Seq(STRING)
        /\ SubSeq(data, 1, n + 1) = SubSeq(data, 1, n) \o <<data[n + 1]>>
    BY <1>3, <2>1, <2>2
  <2> DEFINE a == SubSeq(data, 1, n)
             b == <<data[n + 1]>>
  <2> HIDE DEF a, b, t
  <2>6. (t \o a) \o b = t \o (a \o b)
    <3>1. a \in Seq(STRING) /\ b \in Seq(STRING)
      BY <2>5 DEF a, b
    <3> QED BY <1>6, <3>1, Associative, Zenon
  <2>7. Kept(n + 1)
    <3>1. TextOf(p, With(p, f[n + 1].lines)) \o f[n + 1].buf = (t \o a) \o b
      <4>1. TextOf(p, With(p, f[n].lines)) \o f[n].buf = t \o a
        BY <2>3, Zenon DEF a
      <4> QED BY <2>4, <4>1 DEF b
    <3>2. SubSeq(data, 1, n + 1) = a \o b
      BY <2>5 DEF a, b
    <3> QED BY <2>3, <2>4, <2>6, <3>1, <3>2, Zenon
  <2> HIDE DEF Kept
  <2> QED BY <2>1, <2>7
<1> HIDE DEF S
<1>9. N \in S
  <2> HIDE DEF N
  <2>1. \A n \in 0..N : n \in S
    BY <1>3, <1>7, <1>8, UpTo, Zenon
  <2> QED BY <1>3, <2>1
<1>10. Kept(N)
  <2> HIDE DEF Kept
  <2> QED BY <1>9 DEF S
<1>11. SubSeq(data, 1, N) = data
  BY <1>3, SubSeqFull
<1>12. Feed(buf, data) \in States
  <2>1. N \in 0..N
    BY <1>3
  <2> QED BY <1>2, <2>1
<1> HIDE DEF t, N
<1>13. /\ TextOf(p, With(p, Feed(buf, data).lines)) \o Feed(buf, data).buf = t \o data
       /\ q # p => TextOf(q, With(p, Feed(buf, data).lines)) = LinesOf(q)
  BY <1>2, <1>10, <1>11, Zenon
<1> QED BY <1>5, <1>12, <1>13, Zenon DEF t

-----------------------------------------------------------------------------
(***************************************************************************)
(* No text is lost                                                         *)
(***************************************************************************)
Taken(p) == SubSeq(Script[p], 1, taken[p])

Counts ==
    /\ taken \in [Producers -> Nat] /\ sent \in [Producers -> Nat]
    /\ \A p \in Producers : taken[p] <= sent[p] /\ sent[p] <= Len(Script[p])

(* For a live connection what was read is stored or in its buffer ...      *)
Buffered ==
    \A s \in LiveSlots : /\ conns[s].buf \in Text
                         /\ LinesOf(conns[s].p) \o conns[s].buf = Taken(conns[s].p)

(* ... for one that is gone the rest was dropped with its buffer ...       *)
Dropped == \A p \in Producers : \E rest \in Text : LinesOf(p) \o rest = Taken(p)

(* ... and for one that is still to come there is nothing.                 *)
Unseen == \A p \in Producers : socket[p] \in {"none", "backlog"} => taken[p] = 0

TextInv == Stored /\ Counts /\ Buffered /\ Dropped /\ Unseen

LEMMA Scripts ==
    /\ \A p \in Producers : Script[p] \in Seq(STRING) /\ Len(Script[p]) \in Nat
    /\ ReadMax \in Nat \ {0}
BY NetlogConstants

LEMMA TextInitially == Init => TextInv
<1> SUFFICES ASSUME Init PROVE TextInv
  OBVIOUS
<1>1. /\ stored = << >> /\ Len(stored) = 0 /\ conns = << >> /\ Len(conns) = 0 /\ pc = "top"
      /\ taken = [p \in Producers |-> 0] /\ sent = [p \in Producers |-> 0]
  BY DEF Init
<1>2. Stored
  <2>1. stored \in Seq(Range(stored))
    BY <1>1, EmptySeq, Zenon
  <2> QED BY <1>1, <2>1 DEF Stored
<1>3. Counts /\ Unseen
  BY <1>1, Scripts DEF Counts, Unseen
<1>4. Buffered
  BY <1>1 DEF Buffered, LiveSlots, nc
<1>5. ASSUME NEW p \in Producers
      PROVE  \E rest \in Text : LinesOf(p) \o rest = Taken(p)
  <2>1. Taken(p) = << >>
    BY <1>1, <1>5, SubSeqEmpty DEF Taken
  <2>2. PICK f : Reads(f, p, stored)
    <3>1. Len(stored) \in Nat /\ \A k \in 1..Len(stored) : stored[k].line \in Text
      BY <1>1
    <3> QED BY <3>1, TextSteps, Zenon
  <2>3. LinesOf(p) = << >>
    BY <1>1, <2>2 DEF Reads, LinesOf
  <2>4. << >> \in Text /\ << >> \o << >> = << >>
    BY DEF Text
  <2> QED BY <2>1, <2>3, <2>4
<1> QED BY <1>2, <1>3, <1>4, <1>5 DEF TextInv, Dropped

(* Steps that read nothing keep what the connections hold.                 *)
LEMMA TextQuiet ==
    ASSUME TextInv, UNCHANGED <<stored, taken>>,
           sent' \in [Producers -> Nat],
           \A p \in Producers : sent[p] <= sent'[p] /\ sent'[p] <= Len(Script[p]),
           \A s \in LiveSlots' : \E t \in LiveSlots :
              conns'[s].p = conns[t].p /\ conns'[s].buf = conns[t].buf,
           \A p \in Producers : socket'[p] \in {"none", "backlog"}
                                   => socket[p] \in {"none", "backlog"}
    PROVE  TextInv'
<1>1. \A p : LinesOf(p)' = LinesOf(p) /\ Taken(p)' = Taken(p)
  BY DEF LinesOf, Taken
<1>2. Stored'
  <2>1. Range(stored)' = Range(stored)
    BY DEF Range
  <2> QED BY <2>1 DEF TextInv, Stored
<1>3. Counts'
  <2>1. \A p \in Producers : taken'[p] <= sent'[p]
    BY DEF TextInv, Counts
  <2> QED BY <2>1 DEF TextInv, Counts
<1>4. Buffered'
  <2> SUFFICES ASSUME NEW s \in LiveSlots'
               PROVE  (/\ conns[s].buf \in Text
                       /\ LinesOf(conns[s].p) \o conns[s].buf = Taken(conns[s].p))'
    BY DEF Buffered
  <2>1. PICK t \in LiveSlots : conns'[s].p = conns[t].p /\ conns'[s].buf = conns[t].buf
    OBVIOUS
  <2>2. conns[t].buf \in Text /\ LinesOf(conns[t].p) \o conns[t].buf = Taken(conns[t].p)
    BY DEF TextInv, Buffered
  <2>3. LinesOf(conns[s].p)' = LinesOf(conns[t].p) /\ Taken(conns[s].p)' = Taken(conns[t].p)
    BY <2>1 DEF LinesOf, Taken
  <2> QED BY <2>1, <2>2, <2>3
<1>5. Dropped'
  BY <1>1 DEF TextInv, Dropped
<1>6. Unseen'
  BY DEF TextInv, Unseen
<1> QED BY <1>2, <1>3, <1>4, <1>5, <1>6 DEF TextInv

LEMMA ClientKeepsText ==
    ASSUME IndInv, TextInv, NEW p \in Producers, Connect(p) \/ Send(p) \/ Disconnect(p)
    PROVE  TextInv'
<1>1. UNCHANGED <<stored, taken, conns, pc, i, keep>>
  BY DEF Connect, Send, Disconnect, thread
<1>2. \A s \in LiveSlots' : \E t \in LiveSlots :
         conns'[s].p = conns[t].p /\ conns'[s].buf = conns[t].buf
  BY <1>1 DEF LiveSlots, nc
<1>3. /\ sent' \in [Producers -> Nat]
      /\ \A q \in Producers : sent[q] <= sent'[q] /\ sent'[q] <= Len(Script[q])
  <2>1. /\ sent \in [Producers -> Nat]
        /\ \A q \in Producers : sent[q] <= sent[q] /\ sent[q] <= Len(Script[q])
    BY DEF TextInv, Counts
  <2>2. CASE sent' = sent
    BY <2>1, <2>2
  <2>3. CASE \E n \in sent[p] + 1 .. Len(Script[p]) : sent' = [sent EXCEPT ![p] = n]
    BY <2>1, <2>3, Scripts
  <2> QED BY <2>2, <2>3 DEF Connect, Send, Disconnect
<1>4. \A q \in Producers : socket'[q] \in {"none", "backlog"} => socket[q] \in {"none", "backlog"}
  <2>1. CASE Connect(p)
    <3>1. client[p] = "new" /\ socket' = [socket EXCEPT ![p] = "backlog"]
      BY <2>1 DEF Connect
    <3>2. socket[p] = "none" /\ DOMAIN socket = Producers
      BY <3>1 DEF IndInv, Waiting, Types
    <3> QED BY <3>1, <3>2
  <2>2. CASE Send(p) \/ Disconnect(p)
    BY <2>2 DEF Send, Disconnect
  <2> QED BY <2>1, <2>2
<1> QED BY <1>1, <1>2, <1>3, <1>4, TextQuiet

LEMMA SentStays ==
    ASSUME TextInv, UNCHANGED sent
    PROVE  /\ sent' \in [Producers -> Nat]
           /\ \A p \in Producers : sent[p] <= sent'[p] /\ sent'[p] <= Len(Script[p])
BY DEF TextInv, Counts

LEMMA StopperKeepsText ==
    ASSUME IndInv, TextInv, Stopper \/ UNCHANGED vars
    PROVE  TextInv'
<1>1. UNCHANGED <<stored, taken, sent, conns, pc, i, keep>>
  BY DEF Stopper, SetStop, Shutdown, Join, thread, vars
<1>2. \A s \in LiveSlots' : \E t \in LiveSlots :
         conns'[s].p = conns[t].p /\ conns'[s].buf = conns[t].buf
  BY <1>1 DEF LiveSlots, nc
<1>3. \A q \in Producers : socket'[q] \in {"none", "backlog"} => socket[q] \in {"none", "backlog"}
  BY DEF Stopper, SetStop, Shutdown, Join, vars
<1> QED BY <1>1, <1>2, <1>3, SentStays, TextQuiet

(* The steps of the listener other than Accept and Service: it may move to *)
(* another part of the loop, cut the table or close its sockets.           *)
LEMMA LoopKeepsText ==
    ASSUME IndInv, TextInv,
           \/ LoopEnds \/ Poll \/ PollFails \/ StopSeen \/ NoAccept
           \/ ServiceDone \/ Exit
    PROVE  TextInv'
<1>1. UNCHANGED <<stored, taken, sent>>
  BY DEF LoopEnds, Poll, PollFails, StopSeen, NoAccept, ServiceDone, Exit
<1>2. \A q \in Producers : socket'[q] \in {"none", "backlog"} => socket[q] \in {"none", "backlog"}
  BY DEF LoopEnds, Poll, PollFails, StopSeen, NoAccept, ServiceDone, Exit
<1>3. LiveSlots' \subseteq LiveSlots /\ \A s \in LiveSlots' : conns'[s] = conns[s]
  <2>1. CASE LoopEnds \/ Poll \/ PollFails \/ StopSeen
    <3>1. conns' = conns /\ pc # "service" /\ pc' # "service" /\ nc' = nc
      BY <2>1 DEF LoopEnds, Poll, PollFails, StopSeen, nc
    <3> QED BY <3>1 DEF LiveSlots
  <2>2. CASE NoAccept
    <3>1. /\ conns' = conns /\ pc = "accept" /\ pc' = "service" /\ nc' = nc
          /\ i' = 1 /\ keep' = 0
      BY <2>2 DEF NoAccept, StartService, nc
    <3>2. LiveSlots = 1..nc /\ LiveSlots' = (1..0) \cup (1..nc)
      BY <3>1 DEF LiveSlots
    <3> QED BY <3>1, <3>2
  <2>3. CASE ServiceDone
    <3>1. /\ pc = "service" /\ i > nc /\ conns' = SubSeq(conns, 1, keep) /\ pc' = "top"
      BY <2>3 DEF ServiceDone
    <3>2. keep \in 0..nc /\ nc = Len(conns) /\ nc \in Nat /\ conns \in Seq(Range(conns))
      BY <3>1 DEF IndInv, Types, Compacting, nc
    <3>3. Len(conns') = keep /\ \A s \in 1..keep : conns'[s] = conns[s]
      <4> DEFINE T == Range(conns)
      <4>1. conns \in Seq(T)
        BY <3>2
      <4> HIDE DEF T
      <4> QED BY <3>1, <3>2, <4>1
    <3> QED BY <3>1, <3>3 DEF LiveSlots, nc
  <2>4. CASE Exit
    <3>1. pc' = "done" /\ conns' = << >> /\ Len(conns') = 0
      BY <2>4 DEF Exit
    <3>2. LiveSlots' = {}
      BY <3>1 DEF LiveSlots, nc
    <3> QED BY <3>2
  <2> QED BY <2>1, <2>2, <2>3, <2>4
<1> QED BY <1>1, <1>2, <1>3, SentStays, TextQuiet

(* A new connection starts with nothing read, stored or buffered.          *)
LEMMA AcceptKeepsText ==
    ASSUME IndInv, TextInv, Accept
    PROVE  TextInv'
<1> DEFINE p == Head(backlog)
           c == [p |-> Head(backlog), buf |-> << >>]
<1>1. /\ pc = "accept" /\ pc' = "service" /\ i' = 1 /\ keep' = 0
      /\ UNCHANGED <<stored, taken, sent>>
  BY DEF Accept, StartService
<1>2. p \in Producers /\ socket[p] = "backlog"
  <2>1. backlog # << >>
    BY DEF Accept
  <2>2. backlog \in Seq(Producers) /\ Len(backlog) \in Nat \ {0} /\ p = backlog[1]
    BY <2>1 DEF IndInv, Types
  <2> QED BY <2>2 DEF IndInv, Waiting
<1>3. /\ LiveSlots = 1..nc /\ LiveSlots' = 1..nc' /\ nc \in Nat
      /\ conns \in Seq(Range(conns)) /\ DOMAIN socket = Producers
  BY <1>1 DEF LiveSlots, IndInv, Types, nc
<1>4. CASE conns' = Append(conns, c) /\ socket' = [socket EXCEPT ![p] = "accepted"]
  <2>1. nc' = nc + 1 /\ conns'[nc + 1] = c /\ \A s \in 1..nc : conns'[s] = conns[s]
    <3> DEFINE T == Range(conns)
    <3>1. conns \in Seq(T)
      BY <1>3
    <3> HIDE DEF T, c
    <3> QED BY <1>4, <3>1 DEF nc
  <2>2. \A q : LinesOf(q)' = LinesOf(q) /\ Taken(q)' = Taken(q)
    BY <1>1 DEF LinesOf, Taken
  <2>3. LinesOf(p) = << >> /\ Taken(p) = << >> /\ LinesOf(p) \o << >> = Taken(p)
    <3>1. Taken(p) = << >>
      <4>1. taken[p] = 0
        BY <1>2 DEF TextInv, Unseen
      <4> QED BY <4>1, SubSeqEmpty DEF Taken
    <3>2. PICK rest \in Text : LinesOf(p) \o rest = << >>
      BY <1>2, <3>1 DEF TextInv, Dropped
    <3>3. LinesOf(p) \in Seq(STRING) /\ rest \in Seq(STRING)
      <4>1. << >> \in Text
        BY DEF Text
      <4>2. LinesOf(p) \in Text
        BY <4>1, FeedKept, Zenon DEF TextInv
      <4> QED BY <4>2 DEF Text
    <3>4. LinesOf(p) = << >>
      BY <3>2, <3>3, ConcatEqualIffEmpty
    <3> QED BY <3>1, <3>4
  <2>4. Buffered'
    <3> SUFFICES ASSUME NEW s \in LiveSlots'
                 PROVE  (/\ conns[s].buf \in Text
                         /\ LinesOf(conns[s].p) \o conns[s].buf = Taken(conns[s].p))'
      BY DEF Buffered
    <3>1. CASE s \in 1..nc
      <4>1. conns'[s] = conns[s] /\ s \in LiveSlots
        BY <1>3, <2>1, <3>1
      <4>2. conns[s].buf \in Text /\ LinesOf(conns[s].p) \o conns[s].buf = Taken(conns[s].p)
        BY <4>1 DEF TextInv, Buffered
      <4>3. LinesOf(conns[s].p)' = LinesOf(conns[s].p) /\ Taken(conns[s].p)' = Taken(conns[s].p)
        BY <1>1, <4>1 DEF LinesOf, Taken
      <4> QED BY <4>1, <4>2, <4>3
    <3>2. CASE s = nc + 1
      <4>1. conns'[s].p = p /\ conns'[s].buf = << >>
        BY <2>1, <3>2
      <4>2. LinesOf(conns[s].p)' = LinesOf(p) /\ Taken(conns[s].p)' = Taken(p)
        BY <1>1, <4>1 DEF LinesOf, Taken
      <4>3. << >> \in Text
        BY DEF Text
      <4> QED BY <2>3, <4>1, <4>2, <4>3
    <3>3. s \in 1..nc \/ s = nc + 1
      BY <1>3, <2>1
    <3> QED BY <3>1, <3>2, <3>3, Zenon
  <2>5. Stored'
    <3>1. Range(stored)' = Range(stored)
      BY <1>1 DEF Range
    <3> QED BY <1>1, <3>1 DEF TextInv, Stored
  <2>6. Counts' /\ Dropped'
    BY <1>1, <2>2 DEF TextInv, Counts, Dropped
  <2>7. Unseen'
    BY <1>1, <1>2, <1>3, <1>4 DEF TextInv, Unseen
  <2> QED BY <2>4, <2>5, <2>6, <2>7 DEF TextInv
<1>5. CASE conns' = conns /\ socket' = [socket EXCEPT ![p] = "closed"]
  <2>1. \A s \in LiveSlots' : \E t \in LiveSlots :
           conns'[s].p = conns[t].p /\ conns'[s].buf = conns[t].buf
    BY <1>3, <1>5 DEF nc
  <2>2. \A q \in Producers : socket'[q] \in {"none", "backlog"}
                                => socket[q] \in {"none", "backlog"}
    BY <1>2, <1>3, <1>5
  <2> QED BY <1>1, <2>1, <2>2, SentStays, TextQuiet
<1> QED BY <1>4, <1>5 DEF Accept

-----------------------------------------------------------------------------
(* What a round of the service loop reads, and what feed makes of it.      *)
Got == IF Unread(conns[i].p) < ReadMax THEN Unread(conns[i].p) ELSE ReadMax

Data == SubSeq(Script[conns[i].p], taken[conns[i].p] + 1, taken[conns[i].p] + Got)

Fed == Feed(conns[i].buf, Data)

LEMMA ServiceEffect ==
    ASSUME IndInv, Service
    PROVE  /\ \/ /\ "IN" \notin revents[i]
                 /\ UNCHANGED <<taken, stored>>
              \/ /\ "IN" \in revents[i]
                 /\ taken' = [taken EXCEPT ![conns[i].p] = @ + Got]
                 /\ stored' = With(conns[i].p, Fed.lines)
           /\ i \in LiveSlots
           /\ \A s \in LiveSlots' :
                 \/ s \in LiveSlots /\ s # i /\ conns'[s] = conns[s]
                 \/ /\ conns'[s].p = conns[i].p
                    /\ conns'[s].buf = IF "IN" \in revents[i] THEN Fed.buf ELSE conns[i].buf
           /\ \A p \in Producers : socket'[p] \in {"none", "backlog"}
                                      => socket[p] \in {"none", "backlog"}
           /\ UNCHANGED sent
<1> DEFINE read == "IN" \in revents[i]
           c == IF read THEN [conns[i] EXCEPT !.buf = Fed.buf] ELSE conns[i]
<1>1. /\ pc = "service" /\ pc' = "service" /\ i <= nc /\ i' = i + 1 /\ sent' = sent
      /\ \/ socket' = [socket EXCEPT ![conns[i].p] = "closed"] /\ UNCHANGED <<conns, keep>>
         \/ conns' = [conns EXCEPT ![keep + 1] = c] /\ keep' = keep + 1 /\ socket' = socket
      /\ \/ ~read /\ UNCHANGED <<taken, stored>>
         \/ /\ read
            /\ taken' = [taken EXCEPT ![conns[i].p] = @ + Got]
            /\ stored' = With(conns[i].p, Fed.lines)
  BY Zenon DEF Service, Keep, Got, Data, Fed, With
<1>2. /\ keep < i /\ i \in Nat /\ keep \in Nat /\ nc \in Nat /\ nc = Len(conns)
      /\ conns \in Seq(Range(conns)) /\ i \in 1..nc /\ keep + 1 \in 1..nc
  BY <1>1 DEF IndInv, Types, Compacting, nc
<1>3. /\ LiveSlots = (1..keep) \cup (i..nc)
      /\ LiveSlots' = (1..keep') \cup (i + 1..nc')
  BY <1>1 DEF LiveSlots
<1>4. i \in LiveSlots /\ DOMAIN socket = Producers
  BY <1>2, <1>3 DEF IndInv, Types
<1>5. \A p \in Producers : socket'[p] \in {"none", "backlog"}
                              => socket[p] \in {"none", "backlog"}
  BY <1>1, <1>4
<1>6. c.p = conns[i].p /\ c.buf = IF read THEN Fed.buf ELSE conns[i].buf
  <2>1. DOMAIN conns[i] = {"p", "buf"}
    BY <1>2 DEF IndInv, Types
  <2>2. \A b : /\ [conns[i] EXCEPT !.buf = b].p = conns[i].p
               /\ [conns[i] EXCEPT !.buf = b].buf = b
    BY <2>1
  <2> QED BY <2>2
<1>7. CASE UNCHANGED <<conns, keep>>
  <2>1. nc' = nc
    BY <1>7 DEF nc
  <2> QED BY <1>1, <1>2, <1>3, <1>4, <1>5, <1>7, <2>1
<1> HIDE DEF c
<1>8. CASE conns' = [conns EXCEPT ![keep + 1] = c] /\ keep' = keep + 1
  <2>1. /\ nc' = nc /\ conns'[keep + 1] = c
        /\ \A s \in 1..nc : s # keep + 1 => conns'[s] = conns[s]
    <3> DEFINE T == Range(conns)
    <3>1. conns \in Seq(T)
      BY <1>2
    <3> HIDE DEF T
    <3> QED BY <1>2, <1>8, <3>1 DEF nc
  <2>2. \A s \in LiveSlots' : \/ s = keep + 1
                              \/ s \in LiveSlots /\ s # i /\ s # keep + 1 /\ s \in 1..nc
    BY <1>2, <1>3, <1>8, <2>1
  <2>3. \A s \in LiveSlots' :
           \/ s \in LiveSlots /\ s # i /\ conns'[s] = conns[s]
           \/ /\ conns'[s].p = conns[i].p
              /\ conns'[s].buf = IF read THEN Fed.buf ELSE conns[i].buf
    BY <1>6, <2>1, <2>2
  <2> QED BY <1>1, <1>4, <1>5, <2>3
<1> QED BY <1>1, <1>7, <1>8

LEMMA Slice ==
    \A s \in Seq(STRING), m, n \in Nat :
        1 <= m /\ n <= Len(s) => SubSeq(s, m, n) \in Seq(STRING)
OBVIOUS

LEMMA ServiceKeepsText ==
    ASSUME IndInv, TextInv, Service
    PROVE  TextInv'
<1> DEFINE p == conns[i].p
<1>1. /\ i \in LiveSlots
      /\ \A s \in LiveSlots' :
            \/ s \in LiveSlots /\ s # i /\ conns'[s] = conns[s]
            \/ /\ conns'[s].p = p
               /\ conns'[s].buf = IF "IN" \in revents[i] THEN Fed.buf ELSE conns[i].buf
      /\ \A q \in Producers : socket'[q] \in {"none", "backlog"}
                                 => socket[q] \in {"none", "backlog"}
      /\ UNCHANGED sent
  BY ServiceEffect, Zenon
<1>2. p \in Producers /\ socket[p] = "accepted" /\ \A s \in LiveSlots : s # i => conns[s].p # p
  BY <1>1 DEF IndInv, Table
<1>3. CASE "IN" \notin revents[i] /\ UNCHANGED <<taken, stored>>
  <2>1. \A s \in LiveSlots' : \E t \in LiveSlots :
           conns'[s].p = conns[t].p /\ conns'[s].buf = conns[t].buf
    BY <1>1, <1>3
  <2> QED BY <1>1, <1>3, <2>1, SentStays, TextQuiet
<1>4. CASE /\ "IN" \in revents[i]
           /\ taken' = [taken EXCEPT ![p] = @ + Got]
           /\ stored' = With(p, Fed.lines)
  <2> DEFINE t == taken[p]
  <2>1. /\ conns[i].buf \in Text /\ LinesOf(p) \o conns[i].buf = Taken(p)
        /\ Stored /\ Counts /\ Script[p] \in Seq(STRING) /\ Len(Script[p]) \in Nat
    BY <1>1, <1>2, Scripts DEF TextInv, Buffered
  <2>2. /\ t \in Nat /\ Got \in Nat /\ t + Got <= sent[p] /\ sent[p] <= Len(Script[p])
        /\ sent[p] \in Nat
    <3>1. t \in Nat /\ sent[p] \in Nat /\ t <= sent[p] /\ sent[p] <= Len(Script[p])
      BY <1>2, <2>1 DEF Counts
    <3>2. Got = IF sent[p] - t < ReadMax THEN sent[p] - t ELSE ReadMax
      BY DEF Got, Unread
    <3> QED BY <3>1, <3>2, Scripts
  <2>3. Data \in Text /\ Taken(p) \o Data = SubSeq(Script[p], 1, t + Got)
    <3>1. Data = SubSeq(Script[p], t + 1, t + Got)
      BY DEF Data
    <3>2. t + 1 \in Nat /\ t + Got \in Nat /\ t + Got <= Len(Script[p]) /\ 1 <= t + 1
      <4>1. \A a, b, c, d \in Nat : a + b <= c /\ c <= d =>
               a + 1 \in Nat /\ a + b \in Nat /\ a + b <= d /\ 1 <= a + 1
        OBVIOUS
      <4> HIDE DEF t, p
      <4> QED BY <2>1, <2>2, <4>1, Zenon
    <3>3. Data \in Seq(STRING)
      BY <2>1, <3>1, <3>2, Slice, Zenon
    <3>4. SubSeq(Script[p], 1, t) \o SubSeq(Script[p], t + 1, t + Got)
             = SubSeq(Script[p], 1, t + Got)
      <4>1. 1 \in 1..Len(Script[p]) + 1 /\ t \in 1 - 1..Len(Script[p]) /\ t + Got \in t..Len(Script[p])
        BY <2>1, <2>2
      <4> QED BY <2>1, <4>1, ConcatAdjacentSubSeq
    <3> QED BY <3>1, <3>3, <3>4 DEF Text, Taken
  <2>4. /\ Fed \in States
        /\ TextOf(p, stored') \o Fed.buf = (LinesOf(p) \o conns[i].buf) \o Data
        /\ \A q : q # p => TextOf(q, stored') = LinesOf(q)
    <3>1. \A q : /\ Fed \in States
                 /\ TextOf(p, With(p, Fed.lines)) \o Fed.buf = (LinesOf(p) \o conns[i].buf) \o Data
                 /\ q # p => TextOf(q, With(p, Fed.lines)) = LinesOf(q)
      BY <2>1, <2>3, FeedKept, Zenon DEF Fed
    <3> QED BY <1>4, <3>1, Zenon
  <2>5. Fed.buf \in Text /\ Fed.lines \in Seq(Text)
    BY <2>4 DEF States
  <2>6. /\ taken'[p] = t + Got /\ taken' \in [Producers -> Nat]
        /\ \A q \in Producers : q # p => taken'[q] = taken[q]
    BY <1>2, <1>4, <2>1, <2>2 DEF Counts
  <2>7. TextOf(p, stored') \o Fed.buf = SubSeq(Script[p], 1, taken'[p])
    BY <2>1, <2>3, <2>4, <2>6
  <2> HIDE DEF p
  <2>8. Stored'
    <3>1. /\ With(p, Fed.lines) \in Seq(Range(With(p, Fed.lines)))
          /\ Len(With(p, Fed.lines)) = Len(stored) + Len(Fed.lines)
          /\ \A k \in 1..Len(stored) + Len(Fed.lines) : With(p, Fed.lines)[k].line \in Text
      BY <2>1, <2>5, WithEntries, Zenon
    <3>2. stored' \in Seq(Range(stored')) /\ \A k \in 1..Len(stored') : stored'[k].line \in Text
      BY <1>4, <3>1
    <3>3. Range(stored)' = Range(stored')
      BY DEF Range
    <3> QED BY <3>2, <3>3 DEF Stored
  <2>9. Counts'
    BY <1>1, <2>1, <2>2, <2>6 DEF Counts
  <2>10. Buffered'
    <3> SUFFICES ASSUME NEW s \in LiveSlots'
                 PROVE  (/\ conns[s].buf \in Text
                         /\ LinesOf(conns[s].p) \o conns[s].buf = Taken(conns[s].p))'
      BY DEF Buffered
    <3>1. /\ LinesOf(conns[s].p)' = TextOf(conns'[s].p, stored')
          /\ Taken(conns[s].p)' = SubSeq(Script[conns'[s].p], 1, taken'[conns'[s].p])
      BY DEF LinesOf, Taken
    <3>2. CASE s \in LiveSlots /\ s # i /\ conns'[s] = conns[s]
      <4>1. /\ conns[s].buf \in Text /\ LinesOf(conns[s].p) \o conns[s].buf = Taken(conns[s].p)
            /\ conns[s].p \in Producers /\ conns[s].p # p
        BY <1>2, <3>2 DEF TextInv, Buffered, IndInv, Table
      <4>2. TextOf(conns[s].p, stored') = LinesOf(conns[s].p)
        BY <2>4, <4>1, Zenon
      <4>3. SubSeq(Script[conns[s].p], 1, taken'[conns[s].p]) = Taken(conns[s].p)
        BY <2>6, <4>1 DEF Taken
      <4> QED BY <3>1, <3>2, <4>1, <4>2, <4>3
    <3>3. CASE conns'[s].p = p /\ conns'[s].buf = Fed.buf
      BY <2>5, <2>7, <3>1, <3>3
    <3> QED BY <1>1, <1>4, <3>2, <3>3
  <2>11. Dropped'
    <3> SUFFICES ASSUME NEW q \in Producers
                 PROVE  \E rest \in Text : LinesOf(q)' \o rest = Taken(q)'
      BY DEF Dropped
    <3>1. LinesOf(q)' = TextOf(q, stored') /\ Taken(q)' = SubSeq(Script[q], 1, taken'[q])
      BY DEF LinesOf, Taken
    <3>2. CASE q = p
      BY <2>5, <2>7, <3>1, <3>2
    <3>3. CASE q # p
      <4>1. LinesOf(q)' = LinesOf(q) /\ Taken(q)' = Taken(q)
        BY <2>4, <2>6, <3>1, <3>3 DEF Taken
      <4> QED BY <4>1 DEF TextInv, Dropped
    <3> QED BY <3>2, <3>3
  <2>12. Unseen'
    BY <1>1, <1>2, <2>6 DEF TextInv, Unseen
  <2> QED BY <2>8, <2>9, <2>10, <2>11, <2>12 DEF TextInv
<1> QED BY <1>3, <1>4, ServiceEffect

LEMMA StepKeepsText ==
    ASSUME IndInv, TextInv, [Next]_vars
    PROVE  TextInv'
BY LoopKeepsText, AcceptKeepsText, ServiceKeepsText, StopperKeepsText, ClientKeepsText
   DEF Next, Listener

(* What the listener has read of a connection is, in order, in the records *)
(* stored for it and in its buffer, however the reads, the over-long       *)
(* lines, the compaction and the other producers fall.                     *)
THEOREM TextKept == Spec => []NothingLostOrMixed
<1>1. IndInv /\ TextInv => NothingLostOrMixed
  <2> SUFFICES ASSUME IndInv, TextInv PROVE NothingLostOrMixed
    OBVIOUS
  <2>1. ASSUME NEW s \in 1..Len(LiveConns)
        PROVE  LinesOf(LiveConns[s].p) \o LiveConns[s].buf
                  = SubSeq(Script[LiveConns[s].p], 1, taken[LiveConns[s].p])
    <3>1. PICK t \in LiveSlots : LiveConns[s] = conns[t]
      BY LiveEntries DEF IndInv
    <3>2. LinesOf(conns[t].p) \o conns[t].buf = Taken(conns[t].p)
      BY DEF TextInv, Buffered
    <3> QED BY <3>1, <3>2 DEF Taken
  <2>2. ASSUME NEW p \in Producers
        PROVE  IsPrefix(LinesOf(p), SubSeq(Script[p], 1, sent[p]))
    <3> DEFINE l == LinesOf(p)
    <3>1. PICK rest \in Text : l \o rest = Taken(p)
      BY DEF TextInv, Dropped
    <3>2. l \in Seq(STRING) /\ rest \in Seq(STRING)
      <4>1. << >> \in Text
        BY DEF Text
      <4>2. LinesOf(p) \in Text
        BY <4>1, FeedKept, Zenon DEF TextInv
      <4> QED BY <4>2 DEF Text
    <3>3. /\ taken[p] \in Nat /\ sent[p] \in Nat /\ taken[p] <= sent[p]
          /\ sent[p] <= Len(Script[p])
          /\ Script[p] \in Seq(STRING) /\ Len(Script[p]) \in Nat
      BY Scripts DEF TextInv, Counts
    <3> HIDE DEF l
    <3>4. /\ Len(l) \in Nat /\ Len(rest) \in Nat
          /\ Len(l \o rest) = Len(l) + Len(rest)
          /\ \A k \in 1..Len(l) : (l \o rest)[k] = l[k]
      BY <3>2
    <3>5. /\ Len(Taken(p)) = taken[p]
          /\ \A k \in 1..taken[p] : Taken(p)[k] = Script[p][k]
      BY <3>3 DEF Taken
    <3>6. Len(l) <= taken[p] /\ \A k \in 1..Len(l) : l[k] = Script[p][k]
      <4>1. taken[p] = Len(l) + Len(rest)
        BY <3>1, <3>4, <3>5
      <4>2. Len(l) <= taken[p]
        BY <3>3, <3>4, <4>1
      <4>3. ASSUME NEW k \in 1..Len(l)
            PROVE  l[k] = Script[p][k]
        <5>1. k \in 1..taken[p]
          BY <3>3, <3>4, <4>2
        <5> QED BY <3>1, <3>4, <3>5, <5>1
      <4> QED BY <4>2, <4>3
    <3> DEFINE u == SubSeq(Script[p], 1, sent[p])
    <3>7. u \in Seq(STRING) /\ Len(u) = sent[p] /\ \A k \in 1..sent[p] : u[k] = Script[p][k]
      BY <3>3
    <3> HIDE DEF u
    <3>8. SubSeq(l, 1, Len(l)) = l
      BY <3>2
    <3>9. SubSeq(u, 1, Len(l)) = l
      <4>1. Len(l) <= Len(u) /\ \A k \in 1..Len(l) : u[k] = l[k]
        BY <3>3, <3>4, <3>6, <3>7
      <4> QED BY <3>2, <3>4, <3>7, <4>1
    <3>10. Len(l) <= Len(u)
      BY <3>3, <3>4, <3>6, <3>7
    <3> QED BY <3>8, <3>9, <3>10 DEF IsPrefix, l, u
  <2> QED BY <2>1, <2>2 DEF NothingLostOrMixed
<1>2. Init => TextInv
  BY TextInitially
<1>3. IndInv /\ TextInv /\ [Next]_vars => TextInv'
  BY StepKeepsText
<1> QED BY <1>1, <1>2, <1>3, Inductive, PTL DEF Spec

=============================================================================
