--------------------------- MODULE VuQueueProofs ----------------------------
(***************************************************************************)
(* Proofs about the queue interface of libvhost-user.c, for any size of    *)
(* the ring, any width of its indices, any features, and crashes of the    *)
(* backend at any point: no kick is lost, and no call; every buffer is in  *)
(* one place, is completed once, and is taken in the order of the offers.  *)
(***************************************************************************)
EXTENDS VuQueue, RingArith, SequenceTheorems, FiniteSetTheorems, WellFoundedInduction

Idx == 0..IdxMod - 1

Guests == [ring : [Heads -> Heads], idx : Idx, used : [Heads -> Heads],
           uidx : Idx, event : Idx, noNotify : BOOLEAN,
           usedEvent : Idx, noInterrupt : BOOLEAN]

Areas == [version : {0, 1}, used : Idx, last : Heads,
          desc : [Heads -> [inflight : BOOLEAN, counter : Nat]]]

Queues == [last : Idx, shadow : Idx, used : Idx, inuse : Int, counter : Nat,
           resubmit : Seq(Heads), signalled : Idx, valid : BOOLEAN,
           notification : BOOLEAN]

Elements == [head : Heads, fetched : BOOLEAN]

Types ==
    /\ callMode \in CallModes
    /\ guest \in Guests /\ area \in Areas /\ vq \in Queues
    /\ pc \in {"down", "stopped", "check", "repair", "wait", "run", "disable",
               "enable", "recheck", "counter", "mark", "pre", "flush", "clear",
               "post", "panicked"}
    /\ back \in {"run", "wait"}
    /\ cur \in Seq(Heads) /\ held \in Seq(Elements)
    /\ kick \in BOOLEAN /\ call \in BOOLEAN
    /\ driver \in [pc : {"idle", "decide", "armed", "asleep"},
                   free : SUBSET Heads, seen : Idx]
    /\ owed \in {"no", "yes", "lost"}
    /\ given \in [Heads -> Nat]
    /\ base \in Idx /\ offered \in Nat /\ ends \in Nat

(* What is being popped or given back, and that no more buffers are given  *)
(* back at a time than the ring has.                                       *)
InHand ==
    /\ pc \in {"counter", "mark", "pre", "clear", "post"} => Len(cur) = 1
    /\ pc \in {"flush"} => Len(cur) >= 1 /\ (Has("INFLIGHT") => Len(cur) = 1)
    /\ pc \notin {"counter", "mark", "pre", "flush", "clear", "post"} => cur = << >>
    /\ pc \in {"counter", "mark", "pre", "clear", "post"} => Has("INFLIGHT")
    /\ ~Has("INFLIGHT") => /\ Len(held) + Len(cur) <= vq.inuse
                           /\ vq.inuse <= Num
                           /\ vq.resubmit = << >>

-----------------------------------------------------------------------------
(* The driver has said, or is about to say, that the index went past x.    *)
Told(x) ==
    \/ kick
    \/ guest.idx = x
    \/ driver.pc = "decide" /\ (Has("EVENT_IDX") => guest.idx = Mod(x + 1))

(* The driver will say when the index goes past x.                         *)
Asked(x) == IF Has("EVENT_IDX") THEN guest.event = x ELSE ~guest.noNotify

(* The device waits, or will when it has given a buffer back.              *)
Waits == \/ pc = "wait"
         \/ pc \in {"pre", "flush", "clear", "post"} /\ back = "wait"

KickInv ==
    /\ Waits => kick \/ (vq.resubmit = << >> /\ Asked(vq.last) /\ Told(vq.last))
    /\ pc \in {"enable", "recheck"} => vq.resubmit = << >>
    /\ pc = "recheck" => IF Has("EVENT_IDX")
                         THEN vq.shadow = guest.event /\ Told(guest.event)
                         ELSE ~guest.noNotify
    /\ pc = "check" /\ ~Has("INFLIGHT") => kick
    /\ pc = "repair" => Has("INFLIGHT")
    \* a queue with a new area has never run
    /\ Has("INFLIGHT") /\ area.version = 0 =>
          /\ pc \in {"down", "stopped", "check"}
          /\ vq.resubmit = << >> /\ base = guest.uidx
          /\ Asked(base) /\ Told(base)
          /\ pc = "check" => vq.last = base

-----------------------------------------------------------------------------
(* Buffers used since the driver looked, and since the last call.          *)
Unlooked == Mod(guest.uidx - driver.seen)
Unsignalled == Mod(vq.used - vq.signalled)

CallInv ==
    /\ pc \notin {"down", "stopped"} \/ vq.valid => vq.used = guest.uidx
    /\ vq.valid => Unsignalled < IdxMod \div 2
    /\ owed = "lost" => ~vq.valid
    /\ driver.pc \in {"armed", "asleep"} /\ ~call /\ callMode # "none" =>
          /\ IF Has("EVENT_IDX") THEN guest.usedEvent = driver.seen
                                 ELSE ~guest.noInterrupt
          /\ owed = "no" => guest.uidx = driver.seen
          /\ owed = "yes" /\ vq.valid => Unlooked <= Unsignalled

IndInv == Types /\ InHand /\ KickInv /\ CallInv

-----------------------------------------------------------------------------
(***************************************************************************)
(* Indices                                                                 *)
(***************************************************************************)
LEMMA Sizes ==
    /\ Num \in Nat \ {0} /\ IdxMod \in Nat \ {0} /\ 2 * Num <= IdxMod
    /\ IdxMod \div 2 \in Nat /\ Num <= IdxMod \div 2 /\ 2 * (IdxMod \div 2) <= IdxMod
    /\ 0 \in Heads
<1>1. Num \in Nat \ {0} /\ IdxMod \in Nat \ {0} /\ IdxMod % (2 * Num) = 0
  BY VuQueueConstants
<1> DEFINE d == 2 * Num
<1>2. d \in Nat \ {0}
  BY <1>1
<1>3. 2 * Num <= IdxMod
  <2>1. SUFFICES ASSUME ~(d <= IdxMod) PROVE FALSE
    OBVIOUS
  <2> HIDE DEF d
  <2>2. IdxMod \in 0..d - 1
    BY <1>1, <1>2, <2>1
  <2>3. IdxMod % d = IdxMod
    BY <1>2, <2>2, ModSmall, Zenon
  <2> QED BY <1>1, <2>3 DEF d
<1>4. 0 \in Heads
  BY <1>1 DEF Heads
<1> QED BY <1>1, <1>3, <1>4

(* Reduction of what is at most one round off.                             *)
LEMMA ModIs ==
    ASSUME NEW n \in Int, -IdxMod <= n, n < 2 * IdxMod
    PROVE  /\ Mod(n) \in Idx
           /\ Mod(n) = IF n < 0 THEN n + IdxMod
                       ELSE IF n < IdxMod THEN n ELSE n - IdxMod
<1> DEFINE M == IdxMod
<1>0. M \in Nat \ {0}
  BY Sizes
<1>1. Mod(n) \in Idx
  BY <1>0, ModRange DEF Mod, Idx
<1>2. CASE n < 0
  <2>1. n + M \in 0..M - 1 /\ -1 \in Int /\ n = (n + M) + M * (-1)
    BY <1>0, <1>2
  <2> HIDE DEF M
  <2>2. n + M \in Int
    BY <1>0
  <2>3. ((n + M) + M * (-1)) % M = (n + M) % M
    BY <1>0, <2>1, <2>2, ModShift, Zenon
  <2>4. (n + M) % M = n + M
    BY <1>0, <2>1, ModSmall, Zenon
  <2>5. n % M = n + M
    BY <2>1, <2>3, <2>4, Zenon
  <2> QED BY <1>1, <1>2, <2>5 DEF Mod, M
<1>3. CASE n >= 0 /\ n < M
  <2>1. n \in 0..M - 1
    BY <1>0, <1>3
  <2> HIDE DEF M
  <2>2. n % M = n
    BY <1>0, <2>1, ModSmall, Zenon
  <2> QED BY <1>0, <1>1, <1>3, <2>2 DEF Mod, M
<1>4. CASE n >= M
  <2>1. n - M \in 0..M - 1 /\ 1 \in Int /\ n = (n - M) + M * 1
    BY <1>0, <1>4
  <2> HIDE DEF M
  <2>2. n - M \in Int
    BY <1>0
  <2>3. ((n - M) + M * 1) % M = (n - M) % M
    BY <1>0, <2>1, <2>2, ModShift, Zenon
  <2>4. (n - M) % M = n - M
    BY <1>0, <2>1, ModSmall, Zenon
  <2>5. n % M = n - M
    BY <2>1, <2>3, <2>4, Zenon
  <2>6. ~(n < 0) /\ ~(n < M)
    BY <1>0, <1>4
  <2> QED BY <1>1, <2>5, <2>6 DEF Mod, M
<1> QED BY <1>0, <1>2, <1>3, <1>4

LEMMA ModIdx ==
    ASSUME NEW n \in Int
    PROVE  Mod(n) \in Idx
BY Sizes, ModRange DEF Mod, Idx

(* The index after x, the distance between two indices, and what moves it. *)
LEMMA Indices ==
    ASSUME NEW x \in Idx, NEW y \in Idx
    PROVE  /\ Mod(x + 1) \in Idx /\ Mod(x + 1) = (IF x + 1 = IdxMod THEN 0 ELSE x + 1)
           /\ Mod(x - y) \in Idx /\ Mod(x - y) = (IF x < y THEN x - y + IdxMod ELSE x - y)
           /\ Mod(x - y - 1) = (IF x - y - 1 < 0 THEN x - y - 1 + IdxMod ELSE x - y - 1)
<1>1. x \in Nat /\ y \in Nat /\ x < IdxMod /\ y < IdxMod /\ IdxMod \in Nat \ {0}
  BY Sizes DEF Idx
<1> DEFINE a == x + 1
           b == x - y
           c == x - y - 1
<1>2. /\ a \in Int /\ -IdxMod <= a /\ a < 2 * IdxMod
      /\ b \in Int /\ -IdxMod <= b /\ b < 2 * IdxMod
      /\ c \in Int /\ -IdxMod <= c /\ c < 2 * IdxMod
  BY <1>1
<1> HIDE DEF a, b, c
<1>3. /\ Mod(a) \in Idx
      /\ Mod(a) = IF a < 0 THEN a + IdxMod ELSE IF a < IdxMod THEN a ELSE a - IdxMod
  BY <1>2, ModIs
<1>4. /\ Mod(b) \in Idx
      /\ Mod(b) = IF b < 0 THEN b + IdxMod ELSE IF b < IdxMod THEN b ELSE b - IdxMod
  BY <1>2, ModIs
<1>5. /\ Mod(c) \in Idx
      /\ Mod(c) = IF c < 0 THEN c + IdxMod ELSE IF c < IdxMod THEN c ELSE c - IdxMod
  BY <1>2, ModIs
<1>6. a >= 0 /\ a <= IdxMod /\ b < IdxMod /\ c < IdxMod
  BY <1>1 DEF a, b, c
<1>7. Mod(a) = IF a = IdxMod THEN 0 ELSE a
  BY <1>1, <1>2, <1>3, <1>6
<1>8. Mod(b) = IF b < 0 THEN b + IdxMod ELSE b
  BY <1>1, <1>2, <1>4, <1>6
<1>9. Mod(c) = IF c < 0 THEN c + IdxMod ELSE c
  BY <1>1, <1>2, <1>5, <1>6
<1>10. b < 0 <=> x < y
  BY <1>1 DEF b
<1> QED BY <1>3, <1>4, <1>7, <1>8, <1>9, <1>10, Zenon DEF a, b, c

-----------------------------------------------------------------------------
(***************************************************************************)
(* Types                                                                   *)
(***************************************************************************)
LEMMA Initially == Init => IndInv
<1> SUFFICES ASSUME Init PROVE IndInv
  OBVIOUS
<1>0. base \in Idx /\ 0 \in Idx
  BY VuQueueConstants, Sizes DEF Init, Idx
<1>1. << >> \in Seq(Heads) /\ << >> \in Seq(Elements) /\ Len(<< >>) = 0
  BY EmptySeq
<1>2. Types
  <2>1. guest \in Guests /\ area \in Areas /\ vq \in Queues
    BY <1>0, <1>1, Sizes DEF Init, Guests, Areas, Queues, NewVq
  <2> QED BY <1>0, <1>1, <2>1 DEF Init, Types
<1>3. InHand
  BY <1>1, Sizes DEF Init, InHand, NewVq
<1>4. KickInv
  BY <1>1 DEF Init, KickInv, Waits, Asked, Told, NewVq
<1>5. CallInv
  BY DEF Init, CallInv, NewVq
<1> QED BY <1>2, <1>3, <1>4, <1>5 DEF IndInv

(* The descriptors marked inflight make a list of heads.                   *)
LEMMA CheckTypes ==
    ASSUME Types, NEW w \in CheckQueueInflights(vq)
    PROVE  /\ w \in Queues
           /\ w.used = vq.used /\ w.signalled = vq.signalled /\ w.valid = vq.valid
<1> DEFINE marked == {h \in Heads : area.desc[h].inflight}
           n == vq.inuse + Cardinality(marked)
<1>1. PICK s \in Resubmits(marked, area.desc) :
         w = [vq EXCEPT !.inuse = n, !.last = Mod(n + vq.used), !.shadow = Mod(n + vq.used),
                        !.resubmit = s,
                        !.counter = IF s = << >> THEN 0 ELSE area.desc[s[1]].counter + 1]
  BY Zenon DEF CheckQueueInflights
<1>2. IsFiniteSet(marked) /\ Cardinality(marked) \in Nat
  <2>0. 0 \in Int /\ Num - 1 \in Int
    BY Sizes
  <2>1. IsFiniteSet(Heads)
    BY <2>0, FS_Interval, Zenon DEF Heads
  <2>2. IsFiniteSet(marked)
    BY <2>1, FS_Subset
  <2> QED BY <2>2, FS_CardinalityType
<1>3. s \in Seq(Heads)
  <2> DEFINE c == Cardinality(marked)
  <2>1. s \in [1..c -> marked]
    BY <1>1, Zenon DEF Resubmits, SetToSeqs
  <2>2. marked \subseteq Heads
    OBVIOUS
  <2>3. c \in Nat
    BY <1>2
  <2> HIDE DEF marked, c
  <2>4. s \in [1..c -> Heads]
    BY <2>1, <2>2
  <2> QED BY <2>3, <2>4
<1>4. (IF s = << >> THEN 0 ELSE area.desc[s[1]].counter + 1) \in Nat
  <2>1. CASE s # << >>
    <3>1. s[1] \in Heads
      BY <1>3, <2>1
    <3>2. area.desc[s[1]].counter \in Nat
      BY <3>1 DEF Types, Areas
    <3> QED BY <2>1, <3>2
  <2> QED BY <2>1
<1>5. n \in Int /\ vq.used \in Int
  BY <1>2 DEF Types, Queues, Idx
<1> HIDE DEF n, marked
<1>6. Mod(n + vq.used) \in Idx
  BY <1>5, ModIdx
<1> QED BY <1>1, <1>3, <1>4, <1>5, <1>6 DEF Types, Queues

(* The elements before the one that is taken out, and those after it.      *)
LEMMA RemoveOne ==
    ASSUME NEW S, NEW s \in Seq(S), NEW k \in 1..Len(s)
    PROVE  RemoveAt(s, k) \in Seq(S) /\ Len(RemoveAt(s, k)) = Len(s) - 1
<1> DEFINE a == SubSeq(s, 1, k - 1)
           b == SubSeq(s, k + 1, Len(s))
<1>1. a \in Seq(S) /\ Len(a) = k - 1 /\ b \in Seq(S) /\ Len(b) = Len(s) - k /\ Len(s) \in Nat
  OBVIOUS
<1> HIDE DEF a, b
<1>2. a \o b \in Seq(S) /\ Len(a \o b) = Len(a) + Len(b)
  BY <1>1, ConcatProperties, Zenon
<1>3. RemoveAt(s, k) = a \o b
  BY DEF RemoveAt, a, b
<1>4. Len(a) + Len(b) = Len(s) - 1
  BY <1>1
<1> QED BY <1>2, <1>3, <1>4, Zenon

(* The head that is being popped or given back.                            *)
LEMMA HeadInHand ==
    ASSUME Types, InHand, pc \in {"counter", "mark", "pre", "clear", "post"}
    PROVE  cur[1] \in Heads
<1>1. cur \in Seq(Heads) /\ Len(cur) = 1
  BY DEF Types, InHand
<1>2. 1 \in 1..Len(cur)
  BY <1>1
<1> QED BY <1>1, <1>2, ElementOfSeq, Zenon

LEMMA AreaTypes ==
    ASSUME Types, NEW h \in Heads
    PROVE  /\ \A b \in BOOLEAN : [area EXCEPT !.desc[h].inflight = b] \in Areas
           /\ \A n \in Nat : [area EXCEPT !.desc[h].counter = n] \in Areas
           /\ [area EXCEPT !.last = h] \in Areas
BY ZenonT(30) DEF Types, Areas

LEMMA ShadowTypes ==
    ASSUME Types, NEW w \in Queues
    PROVE  ShadowAfter(w) \in Idx
BY DEF Types, Guests, Queues, ShadowAfter

LEMMA SetNotificationTypes ==
    ASSUME Types, NEW enable \in BOOLEAN, SetNotification(enable)
    PROVE  /\ vq' \in Queues /\ guest' \in Guests
           /\ vq'.used = vq.used /\ vq'.signalled = vq.signalled /\ vq'.valid = vq.valid
           /\ vq'.last = vq.last /\ vq'.resubmit = vq.resubmit /\ vq'.inuse = vq.inuse
           /\ guest'.idx = guest.idx /\ guest'.uidx = guest.uidx
           /\ guest'.usedEvent = guest.usedEvent /\ guest'.noInterrupt = guest.noInterrupt
           /\ enable => /\ Has("EVENT_IDX") => /\ guest'.event = guest.idx
                                               /\ vq'.shadow = guest.idx
                        /\ ~Has("EVENT_IDX") => ~guest'.noNotify
<1> DEFINE v == [vq EXCEPT !.notification = enable]
<1>1. /\ v \in Queues /\ v.notification = enable
      /\ v.used = vq.used /\ v.signalled = vq.signalled /\ v.valid = vq.valid
      /\ v.last = vq.last /\ v.resubmit = vq.resubmit /\ v.inuse = vq.inuse
  BY DEF Types, Queues
<1>2. CASE Has("EVENT_IDX")
  <2>1. vq' = [v EXCEPT !.shadow = guest.idx]
        /\ guest' = IF enable THEN [guest EXCEPT !.event = guest.idx] ELSE guest
    BY <1>1, <1>2, Zenon DEF SetNotification, SetAvailEvent
  <2> HIDE DEF v
  <2>2. guest' \in Guests /\ vq' \in Queues
    BY <1>1, <2>1 DEF Types, Guests, Queues
  <2> QED BY <1>1, <1>2, <2>1, <2>2 DEF Types, Guests, Queues
<1>3. CASE ~Has("EVENT_IDX")
  <2>1. vq' = v /\ guest' = [guest EXCEPT !.noNotify = ~enable]
    BY <1>3, Zenon DEF SetNotification
  <2> HIDE DEF v
  <2>2. guest' \in Guests
    BY <2>1 DEF Types, Guests
  <2> QED BY <1>1, <1>3, <2>1, <2>2 DEF Types, Guests
<1> QED BY <1>2, <1>3

LEMMA NotifyTypes ==
    ASSUME Types, Notify
    PROVE  /\ vq' \in Queues /\ call' \in BOOLEAN
           /\ vq' = VringNotify(vq).v /\ VringNotify(vq).yes \in BOOLEAN
           /\ vq'.used = vq.used /\ vq'.last = vq.last /\ vq'.resubmit = vq.resubmit
           /\ vq'.inuse = vq.inuse /\ vq'.counter = vq.counter
           /\ \/ vq'.signalled = vq.signalled /\ vq'.valid = vq.valid
              \/ vq'.signalled = vq.used /\ vq'.valid
<1>1. ShadowAfter(vq) \in Idx
  BY ShadowTypes DEF Types
<1>2. vq' = VringNotify(vq).v /\ call' = (call \/ (VringNotify(vq).yes /\ callMode # "none"))
  BY DEF Notify
<1> DEFINE asks == Has("NOTIFY_ON_EMPTY") /\ vq.inuse = 0
           w == [vq EXCEPT !.shadow = IF asks THEN ShadowAfter(vq) ELSE @]
           x == [w EXCEPT !.valid = TRUE, !.signalled = vq.used]
<1>3. /\ w \in Queues /\ x \in Queues
      /\ w.used = vq.used /\ w.last = vq.last /\ w.resubmit = vq.resubmit
      /\ w.counter = vq.counter /\ x.counter = vq.counter
      /\ w.inuse = vq.inuse /\ w.signalled = vq.signalled /\ w.valid = vq.valid
      /\ x.used = vq.used /\ x.last = vq.last /\ x.resubmit = vq.resubmit
      /\ x.inuse = vq.inuse /\ x.signalled = vq.used /\ x.valid
  BY <1>1 DEF Types, Queues
<1>4. VringNotify(vq).v \in {w, x}
  BY DEF VringNotify
<1>5. VringNotify(vq).yes \in BOOLEAN
  <2>1. vq.valid \in BOOLEAN /\ guest.noInterrupt \in BOOLEAN
    BY DEF Types, Queues, Guests
  <2> QED BY <2>1 DEF VringNotify, NeedEvent
<1> HIDE DEF w, x
<1> QED BY <1>2, <1>3, <1>4, <1>5 DEF Types

LEMMA TypesStep ==
    ASSUME IndInv, [Next]_vars
    PROVE  Types'
<1>0. Types /\ InHand /\ 0 \in Idx /\ << >> \in Seq(Heads) /\ << >> \in Seq(Elements)
  BY Sizes DEF IndInv, Idx
<1> USE DEF outside
<1>1. CASE Start
  <2>1. vq' \in Queues /\ kick' \in BOOLEAN
    BY <1>0, <1>1 DEF Start, Types, Queues, Guests
  <2> QED BY <1>0, <1>1, <2>1 DEF Start, Types
<1>2. CASE CheckFresh
  <2>1. area' \in Areas
    BY <1>0, <1>2 DEF CheckFresh, Types, Areas
  <2> QED BY <1>0, <1>2, <2>1 DEF CheckFresh, Types
<1>3. CASE RepairMark
  <2>1. area' \in Areas
    BY ZenonT(30), <1>0, <1>3 DEF RepairMark, Types, Areas
  <2> QED BY <1>0, <1>3, <2>1 DEF RepairMark, Types
<1>4. CASE RepairIndex
  <2>1. area' \in Areas
    BY <1>0, <1>4 DEF RepairIndex, Types, Areas, Queues
  <2> QED BY <1>0, <1>4, <2>1 DEF RepairIndex, Types
<1>5. CASE Check
  <2>1. vq' \in Queues
    BY <1>0, <1>5, CheckTypes DEF Check
  <2> QED BY <1>0, <1>5, <2>1 DEF Check, Types
<1>6. CASE Stop
  <2>1. base' \in Idx /\ ends' \in Nat
    BY <1>0, <1>6 DEF Stop, Types, Queues
  <2> QED BY <1>0, <1>6, <2>1 DEF Stop, Types
<1>7. CASE Crash
  <2>1. base' \in Idx /\ ends' \in Nat /\ vq' \in Queues
    BY <1>0, <1>7 DEF Crash, Types, Queues, Guests, NewVq
  <2> QED BY <1>0, <1>7, <2>1 DEF Crash, Types
<1>8. CASE Wake
  BY <1>0, <1>8 DEF Wake, Types
<1>9. CASE PopResubmitted
  <2>1. vq.resubmit \in Seq(Heads) /\ vq.resubmit # << >> /\ Len(vq.resubmit) \in Nat \ {0}
    BY <1>0, <1>9 DEF PopResubmitted, Types, Queues
  <2>2. Front(vq.resubmit) \in Seq(Heads) /\ Last(vq.resubmit) \in Heads
    BY <2>1 DEF Front, Last
  <2>3. vq' \in Queues
    BY <1>0, <1>9, <2>2 DEF PopResubmitted, Types, Queues
  <2>4. held' \in Seq(Elements)
    BY <1>0, <1>9, <2>2 DEF PopResubmitted, Types, Elements
  <2> QED BY <1>0, <1>9, <2>3, <2>4 DEF PopResubmitted, Types
<1>10. CASE PopNothing
  <2>1. ShadowAfter(vq) \in Idx
    BY <1>0, ShadowTypes DEF Types
  <2>2. vq' \in Queues
    BY <1>0, <1>10, <2>1 DEF PopNothing, Types, Queues
  <2> QED BY <1>0, <1>10, <2>2 DEF PopNothing, Types
<1>11. CASE PopHead
  <2> DEFINE head == guest.ring[vq.last % Num]
             v == [vq EXCEPT !.shadow = ShadowAfter(vq), !.last = Mod(@ + 1),
                             !.inuse = @ + 1]
  <2>1. head \in Heads
    <3>1. vq.last \in Int /\ Num \in Nat \ {0}
      BY <1>0, Sizes DEF Types, Queues, Idx
    <3>2. vq.last % Num \in Heads
      BY <3>1, ModRange DEF Heads
    <3> QED BY <1>0, <3>2 DEF Types, Guests
  <2>2. v \in Queues
    <3>1. ShadowAfter(vq) \in Idx
      BY <1>0, ShadowTypes DEF Types
    <3>2. vq.last + 1 \in Int
      BY <1>0 DEF Types, Queues, Idx
    <3>3. Mod(vq.last + 1) \in Idx
      BY <3>2, ModIdx
    <3>4. vq.inuse \in Int /\ vq.inuse + 1 \in Int
      BY <1>0 DEF Types, Queues
    <3> QED BY <1>0, <3>1, <3>3, <3>4 DEF Types, Queues
  <2>3. CASE pc' = "panicked" /\ UNCHANGED <<guest, vq, cur, held>>
    BY <1>0, <1>11, <2>3 DEF PopHead, Types
  <2>4. CASE /\ vq' = v /\ guest' = IF Has("EVENT_IDX") THEN SetAvailEvent(guest, v, v.last)
                                                        ELSE guest
             /\ \/ pc' = "counter" /\ cur' = <<head>> /\ UNCHANGED held
                \/ held' = Append(held, [head |-> head, fetched |-> TRUE]) /\ UNCHANGED <<pc, cur>>
    <3> HIDE DEF head, v
    <3>1. guest' \in Guests
      BY <1>0, <2>2, <2>4 DEF SetAvailEvent, Types, Guests, Queues
    <3>2. held' \in Seq(Elements) /\ cur' \in Seq(Heads)
      <4>1. [head |-> head, fetched |-> TRUE] \in Elements /\ <<head>> \in Seq(Heads)
        BY <2>1 DEF Elements
      <4>2. Append(held, [head |-> head, fetched |-> TRUE]) \in Seq(Elements)
        BY <1>0, <4>1, AppendProperties, Zenon DEF Types
      <4> QED BY <1>0, <1>11, <2>4, <4>1, <4>2 DEF Types
    <3>3. pc' = "counter" \/ pc' = pc
      BY <2>4
    <3> QED BY <1>0, <1>11, <2>2, <2>4, <3>1, <3>2, <3>3 DEF PopHead, Types
  <2> QED BY <1>11, <2>3, <2>4, Zenon DEF PopHead
<1>12. CASE GetCounter
  <2>1. cur[1] \in Heads
    BY <1>0, <1>12, HeadInHand DEF GetCounter
  <2>2. vq.counter \in Nat /\ vq.counter + 1 \in Nat
    BY <1>0 DEF Types, Queues
  <2>3. area' \in Areas
    BY <1>0, <1>12, <2>1, <2>2, AreaTypes DEF GetCounter
  <2>4. vq' \in Queues
    BY <1>0, <1>12, <2>2 DEF GetCounter, Types, Queues
  <2> QED BY <1>0, <1>12, <2>3, <2>4 DEF GetCounter, Types
<1>13. CASE GetMark
  <2>1. cur[1] \in Heads
    BY <1>0, <1>13, HeadInHand DEF GetMark
  <2>2. area' \in Areas
    BY <1>0, <1>13, <2>1, AreaTypes DEF GetMark
  <2>3. held' \in Seq(Elements)
    BY <1>0, <1>13, <2>1 DEF GetMark, Types, Elements
  <2> QED BY <1>0, <1>13, <2>2, <2>3 DEF GetMark, Types
<1>14. ASSUME NEW k \in 1..Num, Rewind(k)
       PROVE  Types'
  <2>1. vq.last - k \in Int /\ k \in 1..Len(held) /\ k \in Nat
    BY SMTT(30), <1>0, <1>14 DEF Rewind, Types, Queues, Idx
  <2>2. Mod(vq.last - k) \in Idx
    BY <2>1, ModIdx
  <2>3. vq' \in Queues
    <3>1. vq.inuse \in Int /\ vq.inuse - k \in Int
      BY <1>0, <2>1 DEF Types, Queues
    <3> QED BY <1>0, <1>14, <2>2, <3>1 DEF Rewind, Types, Queues
  <2>4. held' \in Seq(Elements)
    BY <1>0, <1>14, <2>1 DEF Rewind, Types
  <2> QED BY <1>0, <1>14, <2>3, <2>4 DEF Rewind, Types
<1>15. CASE Disable \/ Enable
  <2>1. vq' \in Queues /\ guest' \in Guests
    BY <1>0, <1>15, SetNotificationTypes DEF Disable, Enable
  <2> QED BY <1>0, <1>15, <2>1 DEF Disable, Enable, Types
<1>16. CASE Recheck
  <2>1. ShadowAfter(vq) \in Idx
    BY <1>0, ShadowTypes DEF Types
  <2>2. vq' \in Queues /\ pc' \in {"wait", "run"}
    BY <1>0, <1>16, <2>1 DEF Recheck, Types, Queues
  <2> QED BY <1>0, <1>16, <2>2 DEF Recheck, Types
<1>17. ASSUME NEW k \in 1..Num, Fill(k)
       PROVE  Types'
  <2>1. k \in 1..Len(held) /\ held[k] \in Elements /\ held[k].head \in Heads
    <3>1. k \in 1..Len(held) /\ held \in Seq(Elements)
      BY <1>0, <1>17 DEF Fill, Types
    <3>2. held[k] \in Elements
      BY <3>1, ElementOfSeq, Zenon
    <3> QED BY <3>1, <3>2 DEF Elements
  <2>2. Mod(vq.used + Len(cur)) % Num \in Heads
    <3>1. vq.used + Len(cur) \in Int /\ Num \in Nat \ {0} /\ Idx \subseteq Int
      BY <1>0, Sizes DEF Types, Queues, Idx
    <3>2. Mod(vq.used + Len(cur)) \in Int
      BY <3>1, ModIdx
    <3> QED BY <3>1, <3>2, ModRange DEF Heads
  <2>3. guest' \in Guests
    BY <1>0, <1>17, <2>1 DEF Fill, Types, Guests
  <2>4. cur' \in Seq(Heads)
    BY <1>0, <1>17, <2>1 DEF Fill, Types
  <2>5. held' \in Seq(Elements)
    BY <1>0, <1>17, <2>1, RemoveOne DEF Fill, Types
  <2>6. back' \in {"run", "wait"} /\ pc' \in {"pre", "flush"}
    BY <1>0, <1>17 DEF Fill, Types
  <2> QED BY <1>0, <1>17, <2>3, <2>4, <2>5, <2>6 DEF Fill, Types
<1>18. CASE PrePut
  <2>1. cur[1] \in Heads
    BY <1>0, <1>18, HeadInHand DEF PrePut
  <2>2. area' \in Areas
    BY <1>0, <1>18, <2>1, AreaTypes DEF PrePut
  <2> QED BY <1>0, <1>18, <2>2 DEF PrePut, Types
<1>19. CASE Flush
  <2> DEFINE new == Mod(vq.used + Len(cur))
             v == [vq EXCEPT !.used = new, !.inuse = @ - Len(cur)]
  <2>1. vq.used + Len(cur) \in Int
    BY <1>0 DEF Types, Queues, Idx
  <2>2. new \in Idx
    BY <2>1, ModIdx
  <2> HIDE DEF new
  <2>3. v \in Queues /\ guest' \in Guests
    <3>1. vq.inuse \in Int /\ vq.inuse - Len(cur) \in Int
      BY <1>0 DEF Types, Queues
    <3>2. guest' = [guest EXCEPT !.uidx = new]
      BY <1>19, Zenon DEF Flush, new
    <3> QED BY <1>0, <2>2, <3>1, <3>2 DEF Types, Queues, Guests
  <2>4. vq' = Signalled(v, new, Len(cur))
    BY <1>19, Zenon DEF Flush, new
  <2> HIDE DEF v
  <2>5. vq' \in Queues
    BY <2>3, <2>4 DEF Signalled, Queues
  <2>6. pc' \in {"clear", "run", "wait"} /\ cur' \in Seq(Heads) /\ owed' = "yes"
    BY <1>0, <1>19 DEF Flush, Types
  <2> QED BY <1>0, <1>19, <2>3, <2>5, <2>6 DEF Flush, Types
<1>20. CASE PostClear
  <2>1. cur[1] \in Heads
    BY <1>0, <1>20, HeadInHand DEF PostClear
  <2>2. area' \in Areas
    BY <1>0, <1>20, <2>1, AreaTypes DEF PostClear
  <2> QED BY <1>0, <1>20, <2>2 DEF PostClear, Types
<1>21. CASE PostIndex
  <2>1. area' \in Areas
    BY <1>0, <1>21 DEF PostIndex, Types, Areas, Queues
  <2> QED BY <1>0, <1>21, <2>1 DEF PostIndex, Types
<1>22. CASE Notify
  <2>1. vq' \in Queues /\ call' \in BOOLEAN
    BY <1>0, <1>22, NotifyTypes
  <2>2. pc' \in {pc, "panicked"} /\ owed' = "no"
    BY <1>22 DEF Notify
  <2> QED BY <1>0, <1>22, <2>1, <2>2 DEF Notify, Types
<1>23. CASE Offer
  <2>1. Min(driver.free) \in Heads
    <3>1. driver.free \in SUBSET Nat /\ driver.free # {} /\ driver.free \subseteq Heads
      BY SMTT(30), <1>0, <1>23, Sizes DEF Offer, Types, Heads
    <3> QED BY <3>1, MinInSet
  <2>2. guest.idx + 1 \in Int /\ guest.idx \in Int /\ Num \in Nat \ {0}
    BY <1>0, Sizes DEF Types, Guests, Idx
  <2>3. Mod(guest.idx + 1) \in Idx
    BY <2>2, ModIdx
  <2>4. guest' \in Guests
    BY <1>0, <1>23, <2>1, <2>3 DEF Offer, Types, Guests
  <2>5. driver' \in [pc : {"idle", "decide", "armed", "asleep"}, free : SUBSET Heads, seen : Idx]
    BY <1>0, <1>23 DEF Offer, Types
  <2>6. offered' \in Nat
    BY <1>0, <1>23 DEF Offer, Types
  <2> QED BY <1>0, <1>23, <2>4, <2>5, <2>6 DEF Offer, Types
<1>24. CASE Decide
  <2>1. driver' \in [pc : {"idle", "decide", "armed", "asleep"}, free : SUBSET Heads, seen : Idx]
    BY <1>0, <1>24 DEF Decide, Types
  <2>2. kick' \in BOOLEAN
    BY <1>0, <1>24 DEF Decide, NeedEvent
  <2> QED BY <1>0, <1>24, <2>1, <2>2 DEF Decide, Types
<1>25. CASE Collect
  <2>1. driver.seen \in Int /\ driver.seen + 1 \in Int /\ Num \in Nat \ {0}
    BY <1>0, Sizes DEF Types, Idx
  <2>2. Mod(driver.seen + 1) \in Idx /\ driver.seen % Num \in Heads
    BY <2>1, ModIdx, ModRange DEF Heads
  <2>3. driver' \in [pc : {"idle", "decide", "armed", "asleep"}, free : SUBSET Heads, seen : Idx]
    BY <1>0, <1>25, <2>2 DEF Collect, Types, Guests
  <2> QED BY <1>0, <1>25, <2>3 DEF Collect, Types
<1>26. CASE Arm
  <2>1. driver' \in [pc : {"idle", "decide", "armed", "asleep"}, free : SUBSET Heads, seen : Idx]
    BY <1>0, <1>26 DEF Arm, Types
  <2>2. guest' \in Guests
    BY <1>0, <1>26 DEF Arm, Types, Guests
  <2> QED BY <1>0, <1>26, <2>1, <2>2 DEF Arm, Types
<1>27. CASE Nap
  <2>1. driver' \in [pc : {"idle", "decide", "armed", "asleep"}, free : SUBSET Heads, seen : Idx]
    BY <1>0, <1>27 DEF Nap, Types
  <2> QED BY <1>0, <1>27, <2>1 DEF Nap, Types
<1>28. CASE Interrupt
  <2>1. driver' \in [pc : {"idle", "decide", "armed", "asleep"}, free : SUBSET Heads, seen : Idx]
    BY <1>0, <1>28 DEF Interrupt, Types
  <2>2. guest' \in Guests
    BY <1>0, <1>28 DEF Interrupt, Types, Guests
  <2> QED BY <1>0, <1>28, <2>1, <2>2 DEF Interrupt, Types
<1>29. CASE UNCHANGED vars
  BY <1>0, <1>29 DEF vars, Types
<1> QED BY <1>1, <1>2, <1>3, <1>4, <1>5, <1>6, <1>7, <1>8, <1>9, <1>10, <1>11, <1>12,
           <1>13, <1>14, <1>15, <1>16, <1>17, <1>18, <1>19, <1>20, <1>21, <1>22,
           <1>23, <1>24, <1>25, <1>26, <1>27, <1>28, <1>29
        DEF Next, Driver, Backend

-----------------------------------------------------------------------------
(***************************************************************************)
(* What is in hand                                                         *)
(***************************************************************************)
(* Steps that take and give back nothing.                                  *)
LEMMA InHandQuiet ==
    ASSUME InHand, UNCHANGED <<features, cur, held>>,
           vq'.inuse = vq.inuse, vq'.resubmit = vq.resubmit \/ Has("INFLIGHT"),
           \/ pc' = pc
           \/ /\ pc \notin {"counter", "mark", "pre", "flush", "clear", "post"}
              /\ pc' \notin {"counter", "mark", "pre", "flush", "clear", "post"}
    PROVE  InHand'
BY DEF InHand, Has

LEMMA InHandStep ==
    ASSUME IndInv, [Next]_vars
    PROVE  InHand'
<1>0. Types /\ InHand /\ Len(cur) \in Nat /\ Len(held) \in Nat
      /\ vq.inuse \in Int /\ Num \in Nat
  <2>1. Types /\ InHand /\ Num \in Nat
    BY Sizes DEF IndInv
  <2>2. vq \in Queues /\ cur \in Seq(Heads) /\ held \in Seq(Elements)
    BY <2>1 DEF Types
  <2>3. vq.inuse \in Int
    BY <2>2 DEF Queues
  <2>4. Len(cur) \in Nat /\ Len(held) \in Nat
    BY <2>2
  <2> QED BY <2>1, <2>3, <2>4
<1>1. CASE Start
  <2>1. vq'.inuse = vq.inuse /\ vq'.resubmit = vq.resubmit
    BY <1>0, <1>1 DEF Start, Types, Queues
  <2> QED BY <1>0, <1>1, <2>1, InHandQuiet DEF Start
<1>2. CASE CheckFresh \/ RepairMark \/ RepairIndex \/ Wake
  BY <1>0, <1>2, InHandQuiet DEF CheckFresh, RepairMark, RepairIndex, Wake
<1>3. CASE Check
  BY <1>0, <1>3 DEF Check, InHand, Has
<1>4. CASE Stop
  <2>1. held' = << >> /\ Len(held') = 0
    BY <1>4, EmptySeq DEF Stop
  <2> QED BY <1>0, <1>4, <2>1 DEF Stop, InHand, Has
<1>5. CASE Crash
  <2>1. held' = << >> /\ Len(held') = 0 /\ cur' = << >> /\ Len(cur') = 0
    BY <1>5, EmptySeq DEF Crash
  <2>2. vq'.inuse = 0 /\ vq'.resubmit = << >>
    BY <1>5 DEF Crash, NewVq
  <2> QED BY <1>0, <1>5, <2>1, <2>2 DEF Crash, InHand
<1>6. CASE PopResubmitted
  <2>1. Has("INFLIGHT")
    BY <1>0, <1>6 DEF PopResubmitted, InHand
  <2> QED BY <1>0, <1>6, <2>1 DEF PopResubmitted, InHand, Has
<1>7. CASE PopNothing
  <2>1. vq'.inuse = vq.inuse /\ vq'.resubmit = vq.resubmit
    BY <1>0, <1>7 DEF PopNothing, Types, Queues
  <2> QED BY <1>0, <1>7, <2>1, InHandQuiet DEF PopNothing
<1>8. CASE PopHead
  <2> DEFINE head == guest.ring[vq.last % Num]
             v == [vq EXCEPT !.shadow = ShadowAfter(vq), !.last = Mod(@ + 1),
                             !.inuse = @ + 1]
  <2>1. cur = << >> /\ Len(cur) = 0 /\ pc = "run" /\ features' = features
    BY <1>0, <1>8, EmptySeq DEF PopHead, InHand
  <2>2. CASE pc' = "panicked" /\ UNCHANGED <<guest, vq, cur, held>>
    BY <1>0, <2>1, <2>2 DEF InHand, Has
  <2>3. CASE vq.inuse < Num /\ vq' = v
    <3>1. vq'.inuse = vq.inuse + 1 /\ vq'.resubmit = vq.resubmit
      BY <1>0, <2>3 DEF Types, Queues
    <3>2. CASE Has("INFLIGHT") /\ pc' = "counter" /\ cur' = <<head>> /\ UNCHANGED held
      <4>1. Len(cur') = 1
        BY <3>2
      <4> QED BY <2>1, <3>2, <4>1 DEF InHand, Has
    <3>3. CASE ~Has("INFLIGHT") /\ held' = Append(held, [head |-> head, fetched |-> TRUE])
               /\ UNCHANGED <<pc, cur>>
      <4> DEFINE e == [head |-> head, fetched |-> TRUE]
      <4> HIDE DEF e
      <4>1. Len(held') = Len(held) + 1
        BY <1>0, <3>3 DEF e, Types
      <4> HIDE DEF v
      <4> QED BY <1>0, <2>1, <2>3, <3>1, <3>3, <4>1 DEF InHand, Has
    <3>4. ~(vq.inuse >= Num)
      BY <1>0, <2>3
    <3>5. \/ Has("INFLIGHT") /\ pc' = "counter" /\ cur' = <<head>> /\ UNCHANGED held
          \/ /\ ~Has("INFLIGHT") /\ held' = Append(held, [head |-> head, fetched |-> TRUE])
             /\ UNCHANGED <<pc, cur>>
      BY <1>8, <3>4, Zenon DEF PopHead
    <3> QED BY <3>2, <3>3, <3>5
  <2>4. \/ pc' = "panicked" /\ UNCHANGED <<guest, vq, cur, held>>
        \/ ~(vq.inuse >= Num) /\ vq' = v
    BY <1>8, Zenon DEF PopHead
  <2>5. ~(vq.inuse >= Num) => vq.inuse < Num
    BY <1>0
  <2> QED BY <2>2, <2>3, <2>4, <2>5
<1>9. CASE GetCounter
  <2>1. Has("INFLIGHT") /\ Len(cur) = 1
    BY <1>0, <1>9 DEF GetCounter, InHand
  <2> QED BY <1>0, <1>9, <2>1 DEF GetCounter, InHand, Has
<1>10. CASE GetMark
  <2>1. Has("INFLIGHT")
    BY <1>0, <1>10 DEF GetMark, InHand
  <2> QED BY <1>0, <1>10, <2>1 DEF GetMark, InHand, Has
<1>11. ASSUME NEW k \in 1..Num, Rewind(k)
       PROVE  InHand'
  <2>1. k \in 1..Len(held) /\ Len(held') = Len(held) - k
    BY <1>0, <1>11 DEF Rewind, Types
  <2>2. vq'.inuse = vq.inuse - k /\ vq'.resubmit = vq.resubmit
    BY <1>0, <1>11, <2>1 DEF Rewind, Types, Queues
  <2>3. UNCHANGED <<features, cur, pc>>
    BY <1>11 DEF Rewind
  <2> QED BY <1>0, <2>1, <2>2, <2>3 DEF InHand, Has
<1>12. CASE Disable \/ Enable
  <2>1. vq'.inuse = vq.inuse /\ vq'.resubmit = vq.resubmit
    BY <1>0, <1>12, SetNotificationTypes DEF Disable, Enable
  <2> QED BY <1>0, <1>12, <2>1, InHandQuiet DEF Disable, Enable
<1>13. CASE Recheck
  <2>1. vq'.inuse = vq.inuse /\ vq'.resubmit = vq.resubmit
    BY <1>0, <1>13 DEF Recheck, Types, Queues
  <2> QED BY <1>0, <1>13, <2>1, InHandQuiet DEF Recheck
<1>14. ASSUME NEW k \in 1..Num, Fill(k)
       PROVE  InHand'
  <2>1. k \in 1..Len(held) /\ held \in Seq(Elements) /\ held[k].head \in Heads
    <3>1. k \in 1..Len(held) /\ held \in Seq(Elements)
      BY <1>0, <1>14 DEF Fill, Types
    <3>2. held[k] \in Elements
      BY <3>1, ElementOfSeq, Zenon
    <3> QED BY <3>1, <3>2 DEF Elements
  <2>2. Len(held') = Len(held) - 1
    BY <1>14, <2>1, RemoveOne DEF Fill
  <2>3. cur' = Append(cur, held[k].head) /\ Len(cur') = Len(cur) + 1
    BY <1>0, <1>14, <2>1 DEF Fill, Types
  <2>4. /\ UNCHANGED <<features, vq>>
        /\ pc' = IF Has("INFLIGHT") THEN "pre" ELSE "flush"
        /\ pc \in {"run", "wait", "flush"} /\ (pc = "flush" => ~Has("INFLIGHT"))
    BY <1>14 DEF Fill
  <2>5. pc # "flush" => Len(cur) = 0
    BY <1>0, <2>4, EmptySeq DEF InHand
  <2>6. /\ Has("INFLIGHT") => pc' = "pre" /\ Len(cur') = 1
        /\ ~Has("INFLIGHT") => /\ pc' = "flush" /\ Len(cur') >= 1
                               /\ Len(held') + Len(cur') = Len(held) + Len(cur)
    BY <1>0, <2>2, <2>3, <2>4, <2>5
  <2> QED BY <1>0, <2>4, <2>6 DEF InHand, Has
<1>15. CASE PrePut
  <2>1. Has("INFLIGHT") /\ Len(cur) = 1
    BY <1>0, <1>15 DEF PrePut, InHand
  <2> QED BY <1>0, <1>15, <2>1 DEF PrePut, InHand, Has
<1>16. CASE Flush
  <2> DEFINE new == Mod(vq.used + Len(cur))
             v == [vq EXCEPT !.used = new, !.inuse = @ - Len(cur)]
  <2>1. v.inuse = vq.inuse - Len(cur) /\ v.resubmit = vq.resubmit /\ DOMAIN v = DOMAIN vq
        /\ "inuse" \in DOMAIN v /\ "resubmit" \in DOMAIN v
    BY <1>0 DEF Types, Queues
  <2>2. vq' = Signalled(v, new, Len(cur))
    BY <1>16, Zenon DEF Flush
  <2> HIDE DEF v, new
  <2>3. vq'.inuse = vq.inuse - Len(cur) /\ vq'.resubmit = vq.resubmit
    BY <2>1, <2>2 DEF Signalled
  <2>4. pc = "flush" /\ UNCHANGED <<features, held>>
    BY <1>16 DEF Flush
  <2>5. CASE Has("INFLIGHT")
    <3>1. pc' = "clear" /\ UNCHANGED cur /\ Len(cur) = 1
      BY <1>0, <1>16, <2>4, <2>5 DEF Flush, InHand
    <3> QED BY <2>4, <2>5, <3>1 DEF InHand, Has
  <2>6. CASE ~Has("INFLIGHT")
    <3>1. pc' \in {"run", "wait"} /\ cur' = << >>
      BY <1>0, <1>16, <2>6 DEF Flush, Types
    <3>2. Len(cur') = 0
      BY <3>1, EmptySeq
    <3>3. Len(held) + Len(cur) <= vq.inuse /\ vq.inuse <= Num /\ vq.resubmit = << >>
      BY <1>0, <2>6 DEF InHand
    <3>4. Len(held') + Len(cur') <= vq'.inuse /\ vq'.inuse <= Num
      BY <1>0, <2>3, <2>4, <3>2, <3>3
    <3> QED BY <2>3, <2>4, <2>6, <3>1, <3>3, <3>4 DEF InHand, Has
  <2> QED BY <2>5, <2>6
<1>17. CASE PostClear
  <2>1. Has("INFLIGHT") /\ Len(cur) = 1
    BY <1>0, <1>17 DEF PostClear, InHand
  <2> QED BY <1>0, <1>17, <2>1 DEF PostClear, InHand, Has
<1>18. CASE PostIndex
  <2>1. Has("INFLIGHT") /\ pc' \in {"run", "wait"}
    BY <1>0, <1>18 DEF PostIndex, InHand, Types
  <2> QED BY <1>0, <1>18, <2>1 DEF PostIndex, InHand, Has
<1>19. CASE Notify
  <2>1. vq'.inuse = vq.inuse /\ vq'.resubmit = vq.resubmit
    BY <1>0, <1>19, NotifyTypes
  <2>2. pc' \in {pc, "panicked"} /\ pc \in {"run", "wait"} /\ UNCHANGED <<features, cur, held>>
    BY <1>19 DEF Notify
  <2> QED BY <1>0, <2>1, <2>2, InHandQuiet
<1>20. CASE Driver
  BY <1>0, <1>20, InHandQuiet DEF Driver, Offer, Decide, Collect, Arm, Nap, Interrupt
<1>21. CASE UNCHANGED vars
  BY <1>0, <1>21, InHandQuiet DEF vars
<1> QED BY <1>1, <1>2, <1>3, <1>4, <1>5, <1>6, <1>7, <1>8, <1>9, <1>10, <1>11, <1>12,
           <1>13, <1>14, <1>15, <1>16, <1>17, <1>18, <1>19, <1>20, <1>21
        DEF Next, Backend

-----------------------------------------------------------------------------
(***************************************************************************)
(* Kicks                                                                   *)
(***************************************************************************)
(* Steps of the device that do not let it wait for something else.         *)
LEMMA KickQuiet ==
    ASSUME KickInv, features' = features, area'.version = area.version,
           pc \notin {"down", "stopped", "check"},
           pc' \notin {"check", "repair", "enable", "recheck"},
           Waits' => /\ Waits /\ UNCHANGED <<kick, driver>>
                     /\ vq'.resubmit = vq.resubmit /\ vq'.last = vq.last
                     /\ guest'.idx = guest.idx /\ guest'.event = guest.event
                     /\ guest'.noNotify = guest.noNotify
    PROVE  KickInv'
<1>1. ~(Has("INFLIGHT") /\ area.version = 0) /\ (Has("INFLIGHT"))' = Has("INFLIGHT")
  BY DEF KickInv, Has
<1>2. Waits' => kick' \/ (vq'.resubmit = << >> /\ Asked(vq.last)' /\ Told(vq.last)')
  <2>1. CASE Waits'
    <3>1. kick \/ (vq.resubmit = << >> /\ Asked(vq.last) /\ Told(vq.last))
      BY <2>1 DEF KickInv
    <3>2. Asked(vq.last) => Asked(vq.last)'
      BY <2>1 DEF Asked, Has
    <3>3. Told(vq.last) => Told(vq.last)'
      BY <2>1 DEF Told, Has
    <3> QED BY <2>1, <3>1, <3>2, <3>3
  <2> QED BY <2>1
<1> QED BY <1>1, <1>2 DEF KickInv

(* What the driver has been asked to say, it says.                         *)
LEMMA DriverTells ==
    ASSUME Types, Driver, NEW x \in Idx, Asked(x)
    PROVE  /\ guest'.event = guest.event /\ guest'.noNotify = guest.noNotify
           /\ guest'.uidx = guest.uidx
           /\ kick => kick'
           /\ Told(x) => \/ kick'
                         \/ guest'.idx = x
                         \/ driver'.pc = "decide" /\ (Has("EVENT_IDX") => guest'.idx = Mod(x + 1))
<1>0. guest \in Guests /\ guest.idx \in Idx /\ guest.event \in Idx
      /\ driver \in [pc : {"idle", "decide", "armed", "asleep"}, free : SUBSET Heads, seen : Idx]
  BY DEF Types, Guests
<1>1. CASE Offer
  <2>1. /\ driver.pc = "idle" /\ driver'.pc = "decide"
        /\ guest'.idx = Mod(guest.idx + 1) /\ guest'.event = guest.event
        /\ guest'.noNotify = guest.noNotify /\ guest'.uidx = guest.uidx /\ kick' = kick
    BY <1>0, <1>1 DEF Offer, Guests
  <2> QED BY <2>1 DEF Told
<1>2. CASE Decide
  <2>1. guest' = guest /\ (kick => kick')
    BY <1>2 DEF Decide
  <2>2. CASE Has("EVENT_IDX") /\ guest.idx = Mod(x + 1)
    <3>1. guest.event = x
      BY <2>2 DEF Asked
    <3>2. Mod(guest.idx - x - 1) = 0
      BY <1>0, <2>2, Indices, Sizes DEF Idx
    <3>3. guest.idx - (guest.idx - 1) = 1
      BY <1>0 DEF Idx
    <3>4. Mod(1) = 1
      BY Sizes, ModIs
    <3>5. NeedEvent(guest.event, guest.idx, guest.idx - 1)
      BY <3>1, <3>2, <3>3, <3>4 DEF NeedEvent
    <3> QED BY <1>2, <2>1, <2>2, <3>5 DEF Decide
  <2>3. CASE ~Has("EVENT_IDX")
    BY <1>2, <2>1, <2>3 DEF Decide, Asked
  <2> QED BY <2>1, <2>2, <2>3 DEF Told
<1>3. CASE Collect
  <2>1. guest' = guest /\ kick' = kick /\ driver.pc = "idle"
    BY <1>3 DEF Collect
  <2> QED BY <2>1 DEF Told
<1>4. CASE Arm
  <2>1. /\ driver.pc = "idle" /\ guest'.idx = guest.idx /\ guest'.event = guest.event
        /\ guest'.noNotify = guest.noNotify /\ guest'.uidx = guest.uidx /\ kick' = kick
    BY <1>0, <1>4 DEF Arm, Guests
  <2> QED BY <2>1 DEF Told
<1>5. CASE Nap
  <2>1. guest' = guest /\ kick' = kick /\ driver.pc = "armed"
    BY <1>5 DEF Nap
  <2> QED BY <2>1 DEF Told
<1>6. CASE Interrupt
  <2>1. /\ guest'.idx = guest.idx /\ guest'.event = guest.event /\ kick' = kick
        /\ guest'.noNotify = guest.noNotify /\ guest'.uidx = guest.uidx
        /\ driver.pc = "decide" => driver'.pc = "decide"
    BY <1>0, <1>6 DEF Interrupt, Guests
  <2> QED BY <2>1 DEF Told
<1> QED BY <1>1, <1>2, <1>3, <1>4, <1>5, <1>6 DEF Driver

LEMMA DriverKicks ==
    ASSUME Types, KickInv, Driver
    PROVE  KickInv'
<1>1. UNCHANGED <<features, area, vq, pc, back, base>>
  BY DEF Driver, Offer, Decide, Collect, Arm, Nap, Interrupt
<1>2. vq.last \in Idx /\ base \in Idx /\ guest.event \in Idx
  BY DEF Types, Queues, Guests
<1>3. \A x \in Idx : Asked(x) =>
         /\ guest'.event = guest.event /\ guest'.noNotify = guest.noNotify
         /\ guest'.uidx = guest.uidx
         /\ kick => kick'
         /\ Told(x) => \/ kick'
                       \/ guest'.idx = x
                       \/ driver'.pc = "decide" /\ (Has("EVENT_IDX") => guest'.idx = Mod(x + 1))
  BY DriverTells
<1>4. guest'.event = guest.event /\ guest'.noNotify = guest.noNotify
      /\ guest'.uidx = guest.uidx /\ (kick => kick')
  BY DEF Driver, Offer, Decide, Collect, Arm, Nap, Interrupt, Types, Guests
<1>5. Waits' => kick' \/ (vq'.resubmit = << >> /\ Asked(vq.last)' /\ Told(vq.last)')
  BY <1>1, <1>2, <1>3, <1>4 DEF KickInv, Waits, Asked, Told, Has
<1>6. pc' = "recheck" => IF (Has("EVENT_IDX"))'
                         THEN vq'.shadow = guest'.event /\ Told(guest.event)'
                         ELSE ~guest'.noNotify
  BY <1>1, <1>2, <1>3, <1>4 DEF KickInv, Asked, Told, Has
<1>7. (Has("INFLIGHT"))' /\ area'.version = 0 => Asked(base)' /\ Told(base)'
  BY <1>1, <1>2, <1>3, <1>4 DEF KickInv, Asked, Told, Has
<1> QED BY <1>1, <1>4, <1>5, <1>6, <1>7 DEF KickInv, Has

LEMMA KickStep ==
    ASSUME IndInv, [Next]_vars
    PROVE  KickInv'
<1>0. Types /\ InHand /\ KickInv /\ guest \in Guests /\ vq \in Queues /\ area \in Areas
  BY DEF IndInv, Types
<1> USE DEF outside
<1>1. CASE Start
  <2>1. /\ pc \in {"down", "stopped"} /\ pc' = "check" /\ UNCHANGED <<features, guest, area, driver, base>>
        /\ vq'.last = IF Has("INFLIGHT") THEN base ELSE guest.uidx
        /\ vq'.resubmit = vq.resubmit
        /\ kick' = (kick \/ ~Has("INFLIGHT"))
    BY <1>0, <1>1 DEF Start, Queues
  <2> QED BY <1>0, <2>1 DEF KickInv, Waits, Asked, Told, Has
<1>2. CASE CheckFresh
  <2>1. /\ pc = "check" /\ pc' = "wait"
        /\ UNCHANGED <<features, guest, vq, driver, base, kick>>
        /\ Has("INFLIGHT") => area.version = 0 /\ area'.version = 1
    BY <1>0, <1>2 DEF CheckFresh, Areas
  <2> QED BY <1>0, <2>1 DEF KickInv, Waits, Asked, Told, Has
<1>3. CASE RepairMark
  <2>1. /\ pc = "check" /\ pc' = "repair" /\ Has("INFLIGHT") /\ area.version = 1
        /\ area'.version = 1 /\ features' = features
    BY <1>0, <1>3 DEF RepairMark, Areas
  <2> QED BY <2>1 DEF KickInv, Waits, Has
<1>4. CASE RepairIndex
  <2>1. /\ pc = "repair" /\ pc' = "check" /\ area'.version = area.version
        /\ features' = features
    BY <1>0, <1>4 DEF RepairIndex, Areas
  <2> QED BY <1>0, <2>1 DEF KickInv, Waits, Has
<1>5. CASE Check
  <2>1. /\ pc' = "wait" /\ Has("INFLIGHT") /\ area.version = 1 /\ kick'
        /\ UNCHANGED <<features, area>>
    BY <1>5 DEF Check
  <2> QED BY <2>1 DEF KickInv, Has
<1>6. CASE Stop
  <2>1. pc = "wait" /\ pc' = "stopped" /\ UNCHANGED <<features, area>>
    BY <1>6 DEF Stop
  <2> QED BY <1>0, <2>1 DEF KickInv, Waits, Has
<1>7. CASE Crash
  <2>1. /\ pc' = "down" /\ vq' = NewVq /\ base' = guest.uidx
        /\ UNCHANGED <<features, guest, area, driver, kick>>
        /\ pc \notin {"down", "stopped"}
    BY <1>7 DEF Crash
  <2> QED BY <1>0, <2>1 DEF KickInv, Waits, Asked, Told, Has, NewVq
<1>8. CASE Wake \/ PopResubmitted
  BY <1>0, <1>8, KickQuiet DEF Wake, PopResubmitted, Waits
<1>9. CASE PopNothing
  <2>1. /\ pc = "run" /\ pc' = "enable" /\ vq.resubmit = << >> /\ vq'.resubmit = vq.resubmit
        /\ UNCHANGED <<features, area>>
    BY <1>0, <1>9 DEF PopNothing, Queues
  <2> QED BY <1>0, <2>1 DEF KickInv, Waits, Has
<1>10. CASE PopHead
  <2>1. pc = "run" /\ pc' \in {"run", "counter", "panicked"} /\ UNCHANGED <<features, area>>
    BY <1>10 DEF PopHead
  <2> QED BY <1>0, <2>1, KickQuiet DEF Waits
<1>11. CASE GetCounter
  <2>1. pc = "counter" /\ pc' = "mark" /\ features' = features /\ area'.version = area.version
    BY <1>0, <1>11 DEF GetCounter, Areas
  <2> QED BY <1>0, <2>1, KickQuiet DEF Waits
<1>12. CASE GetMark
  <2>1. pc = "mark" /\ pc' = "run" /\ features' = features /\ area'.version = area.version
    BY <1>0, <1>12 DEF GetMark, Areas
  <2> QED BY <1>0, <2>1, KickQuiet DEF Waits
<1>13. ASSUME NEW k \in 1..Num, Rewind(k)
       PROVE  KickInv'
  <2>1. pc = "run" /\ UNCHANGED <<features, area, pc>>
    BY <1>13 DEF Rewind
  <2> QED BY <1>0, <2>1, KickQuiet DEF Waits
<1>14. CASE Disable
  <2>1. pc = "disable" /\ pc' = "run" /\ UNCHANGED <<features, area>>
    BY <1>14 DEF Disable
  <2> QED BY <1>0, <2>1, KickQuiet DEF Waits
<1>15. CASE Enable
  <2>1. pc = "enable" /\ pc' = "recheck" /\ UNCHANGED <<features, area, base, kick, driver>>
    BY <1>15 DEF Enable
  <2>2. /\ vq'.resubmit = vq.resubmit /\ guest'.idx = guest.idx
        /\ Has("EVENT_IDX") => guest'.event = guest.idx /\ vq'.shadow = guest.idx
        /\ ~Has("EVENT_IDX") => ~guest'.noNotify
    BY <1>0, <1>15, SetNotificationTypes DEF Enable
  <2>3. (Has("EVENT_IDX"))' = Has("EVENT_IDX") /\ (Has("INFLIGHT"))' = Has("INFLIGHT")
    BY <2>1 DEF Has
  <2>4. Has("EVENT_IDX") => Told(guest.event)'
    BY <2>2 DEF Told
  <2> QED BY <1>0, <2>1, <2>2, <2>3, <2>4 DEF KickInv, Waits
<1>16. CASE Recheck
  <2>1. /\ pc = "recheck" /\ pc' = (IF Empty(vq) THEN "wait" ELSE "run")
        /\ UNCHANGED <<features, area, base, kick, driver, guest>>
        /\ vq'.resubmit = vq.resubmit /\ vq'.last = vq.last
    BY <1>0, <1>16 DEF Recheck, Queues
  <2>2. CASE Empty(vq)
    <3>1. vq.shadow = vq.last /\ guest.idx = vq.last
      BY <2>2 DEF Empty, ShadowAfter
    <3>2. Asked(vq.last)' /\ Told(vq.last)'
      BY <1>0, <2>1, <3>1 DEF KickInv, Asked, Told, Has
    <3> QED BY <1>0, <2>1, <2>2, <3>2 DEF KickInv, Has
  <2>3. CASE ~Empty(vq)
    BY <1>0, <2>1, <2>3, KickQuiet DEF Waits
  <2> QED BY <2>2, <2>3
<1>17. ASSUME NEW k \in 1..Num, Fill(k)
       PROVE  KickInv'
  <2>1. /\ UNCHANGED <<features, area, vq, kick, driver>> /\ pc' \in {"pre", "flush"}
        /\ \/ pc \in {"run", "wait"} /\ back' = pc
           \/ pc = "flush" /\ UNCHANGED back
    BY <1>17 DEF Fill
  <2>2. guest'.idx = guest.idx /\ guest'.event = guest.event /\ guest'.noNotify = guest.noNotify
    BY <1>0, <1>17 DEF Fill, Guests
  <2> QED BY <1>0, <2>1, <2>2, KickQuiet DEF Waits
<1>18. CASE PrePut
  <2>1. /\ pc = "pre" /\ pc' = "flush" /\ area'.version = area.version
        /\ UNCHANGED <<features, guest, vq, back, kick, driver>>
    BY <1>0, <1>18 DEF PrePut, Areas
  <2> QED BY <1>0, <2>1, KickQuiet DEF Waits
<1>19. CASE Flush
  <2> DEFINE new == Mod(vq.used + Len(cur))
             v == [vq EXCEPT !.used = new, !.inuse = @ - Len(cur)]
  <2>1. v.last = vq.last /\ v.resubmit = vq.resubmit /\ DOMAIN v = DOMAIN vq
        /\ "last" \in DOMAIN v /\ "resubmit" \in DOMAIN v
    BY <1>0 DEF Queues
  <2>2. vq' = Signalled(v, new, Len(cur))
    BY <1>19, Zenon DEF Flush
  <2> HIDE DEF v, new
  <2>3. vq'.last = vq.last /\ vq'.resubmit = vq.resubmit
    BY <2>1, <2>2 DEF Signalled
  <2>4. guest'.idx = guest.idx /\ guest'.event = guest.event /\ guest'.noNotify = guest.noNotify
    BY <1>0, <1>19 DEF Flush, Guests
  <2>5. /\ pc = "flush" /\ (pc' = "clear" \/ pc' = back)
        /\ UNCHANGED <<features, area, back, kick, driver>>
    BY <1>19 DEF Flush
  <2>6. back \in {"run", "wait"}
    BY <1>0 DEF Types
  <2> QED BY <1>0, <2>3, <2>4, <2>5, <2>6, KickQuiet DEF Waits
<1>20. CASE PostClear
  <2>1. /\ pc = "clear" /\ pc' = "post" /\ area'.version = area.version
        /\ UNCHANGED <<features, guest, vq, back, kick, driver>>
    BY <1>0, <1>20 DEF PostClear, Areas
  <2> QED BY <1>0, <2>1, KickQuiet DEF Waits
<1>21. CASE PostIndex
  <2>1. /\ pc = "post" /\ pc' = back /\ area'.version = area.version /\ back \in {"run", "wait"}
        /\ UNCHANGED <<features, guest, vq, back, kick, driver>>
    BY <1>0, <1>21 DEF PostIndex, Areas, Types
  <2> QED BY <1>0, <2>1, KickQuiet DEF Waits
<1>22. CASE Notify
  <2>1. vq'.last = vq.last /\ vq'.resubmit = vq.resubmit
    BY <1>0, <1>22, NotifyTypes
  <2>2. /\ pc' \in {pc, "panicked"} /\ pc \in {"run", "wait"}
        /\ UNCHANGED <<features, guest, area, back, kick, driver>>
    BY <1>22 DEF Notify
  <2> QED BY <1>0, <2>1, <2>2, KickQuiet DEF Waits
<1>23. CASE Driver
  BY <1>0, <1>23, DriverKicks
<1>24. CASE UNCHANGED vars
  BY <1>0, <1>24 DEF vars, KickInv, Waits, Asked, Told, Has
<1> QED BY <1>1, <1>2, <1>3, <1>4, <1>5, <1>6, <1>7, <1>8, <1>9, <1>10, <1>11, <1>12,
           <1>13, <1>14, <1>15, <1>16, <1>17, <1>18, <1>19, <1>20, <1>21, <1>22,
           <1>23, <1>24
        DEF Next, Backend

-----------------------------------------------------------------------------
(***************************************************************************)
(* Calls                                                                   *)
(***************************************************************************)
LEMMA CallQuiet ==
    ASSUME CallInv, UNCHANGED <<features, callMode, call, driver, owed>>,
           vq'.used = vq.used, vq'.signalled = vq.signalled, vq'.valid = vq.valid,
           guest'.uidx = guest.uidx, guest'.usedEvent = guest.usedEvent,
           guest'.noInterrupt = guest.noInterrupt,
           pc \in {"down", "stopped"} => pc' \in {"down", "stopped"}
    PROVE  CallInv'
<1>1. Unlooked' = Unlooked /\ Unsignalled' = Unsignalled
  BY DEF Unlooked, Unsignalled
<1> QED BY <1>1 DEF CallInv, Has

(* What the driver does moves neither the used index nor what was called.  *)
LEMMA DriverCalls ==
    ASSUME Types, CallInv, Driver
    PROVE  CallInv'
<1>0. guest \in Guests /\ vq \in Queues
      /\ driver \in [pc : {"idle", "decide", "armed", "asleep"}, free : SUBSET Heads, seen : Idx]
  BY DEF Types
<1>1. UNCHANGED <<features, callMode, vq, pc, owed>>
  BY DEF Driver, Offer, Decide, Collect, Arm, Nap, Interrupt
<1>2. guest'.uidx = guest.uidx /\ Unsignalled' = Unsignalled
  BY <1>0, <1>1 DEF Driver, Offer, Decide, Collect, Arm, Nap, Interrupt, Guests, Unsignalled
<1>3. /\ pc' \notin {"down", "stopped"} \/ vq'.valid => vq'.used = guest'.uidx
      /\ vq'.valid => Unsignalled' < IdxMod \div 2
      /\ owed' = "lost" => ~vq'.valid
  BY <1>1, <1>2 DEF CallInv
<1>4. CASE Offer \/ Decide \/ Collect \/ Interrupt
  <2>1. driver'.pc \in {"idle", "decide"}
    BY <1>0, <1>4 DEF Offer, Decide, Collect, Interrupt
  <2> QED BY <1>3, <2>1 DEF CallInv
<1>5. CASE Arm
  <2>1. /\ driver'.seen = guest.uidx /\ guest'.usedEvent = driver'.seen
        /\ ~guest'.noInterrupt
    BY <1>0, <1>5 DEF Arm, Guests
  <2>2. Unlooked' = 0
    <3>1. guest'.uidx - driver'.seen = 0
      BY <1>0, <1>2, <2>1 DEF Guests, Idx
    <3>2. Mod(0) = 0
      BY Sizes, ModIs
    <3> QED BY <3>1, <3>2 DEF Unlooked
  <2>3. Unsignalled' \in Nat
    <3>1. vq.used \in Idx /\ vq.signalled \in Idx
      BY <1>0 DEF Queues
    <3>2. Mod(vq.used - vq.signalled) \in Idx
      BY <3>1, Indices, Zenon
    <3> QED BY <1>2, <3>2 DEF Unsignalled, Idx
  <2> QED BY <1>1, <1>2, <1>3, <2>1, <2>2, <2>3 DEF CallInv, Has
<1>6. CASE Nap
  <2>1. /\ driver.pc = "armed" /\ driver'.seen = driver.seen
        /\ guest' = guest /\ call' = call
    BY <1>0, <1>6 DEF Nap
  <2>2. Unlooked' = Unlooked
    BY <2>1 DEF Unlooked
  <2> QED BY <1>1, <1>2, <1>3, <2>1, <2>2 DEF CallInv, Has
<1> QED BY <1>4, <1>5, <1>6 DEF Driver

(* vu_queue_flush: signalled_used stays valid only while the used index is *)
(* less than half a round ahead of it.                                     *)
LEMMA FlushCalls ==
    ASSUME Types, InHand, CallInv, Flush
    PROVE  CallInv'
<1> DEFINE c == Len(cur)
           new == Mod(vq.used + c)
           v == [vq EXCEPT !.used = new, !.inuse = @ - c]
           H == IdxMod \div 2
<1>1. /\ guest \in Guests /\ vq \in Queues /\ pc = "flush" /\ vq.used = guest.uidx
      /\ guest.uidx \in Idx /\ vq.signalled \in Idx /\ vq.valid \in BOOLEAN
      /\ driver.seen \in Idx
  BY DEF Flush, CallInv, Types, Guests, Queues
<1>2. c \in 1..Num
  <2>1. c \in Nat /\ Len(held) \in Nat /\ vq.inuse \in Int
    BY DEF Types, Queues
  <2>2. c >= 1 /\ (Has("INFLIGHT") => c = 1)
        /\ (~Has("INFLIGHT") => Len(held) + c <= vq.inuse /\ vq.inuse <= Num)
    BY <1>1 DEF InHand
  <2> HIDE DEF c
  <2>3. c <= Num
    <3>1. CASE Has("INFLIGHT")
      BY <2>2, <3>1, Sizes
    <3>2. CASE ~Has("INFLIGHT")
      BY <2>1, <2>2, <3>2, Sizes
    <3> QED BY <3>1, <3>2
  <2> QED BY <2>1, <2>2, <2>3, Sizes
<1>3. /\ Num <= H /\ 2 * H <= IdxMod /\ H \in Nat /\ IdxMod \in Nat \ {0} /\ Num \in Nat
  BY Sizes
<1> HIDE DEF c, H
<1>4. /\ new \in Idx
      /\ new = IF guest.uidx + c < IdxMod THEN guest.uidx + c ELSE guest.uidx + c - IdxMod
  <2>1. guest.uidx + c \in Int /\ -IdxMod <= guest.uidx + c /\ guest.uidx + c < 2 * IdxMod
        /\ ~(guest.uidx + c < 0)
    BY <1>1, <1>2, <1>3 DEF Idx
  <2>2. new = Mod(guest.uidx + c)
    BY <1>1
  <2>3. PICK n \in Int : n = guest.uidx + c
    BY <2>1
  <2>4. Mod(n) \in Idx /\ Mod(n) = IF n < IdxMod THEN n ELSE n - IdxMod
    BY <2>1, <2>3, ModIs
  <2>5. new = Mod(n)
    BY <2>2, <2>3, Zenon
  <2> HIDE DEF new
  <2>6. guest.uidx \in Int /\ c \in Int /\ IdxMod \in Int
    BY <1>1, <1>2, <1>3 DEF Idx
  <2> QED BY <2>3, <2>4, <2>5, <2>6
<1>5. /\ v.used = new /\ v.signalled = vq.signalled /\ v.valid = vq.valid
      /\ DOMAIN v = DOMAIN vq /\ {"used", "signalled", "valid"} \subseteq DOMAIN v
  BY <1>1 DEF Queues
<1>6. vq' = Signalled(v, new, c)
  BY Zenon DEF Flush, c
<1>7. guest'.uidx = new /\ guest'.usedEvent = guest.usedEvent
      /\ guest'.noInterrupt = guest.noInterrupt
  BY <1>1 DEF Flush, Guests, c
<1>8. UNCHANGED <<features, callMode, call, driver>> /\ owed' = "yes"
  BY DEF Flush
<1> HIDE DEF v, new
<1>9. /\ vq'.used = new /\ vq'.signalled = vq.signalled
      /\ vq'.valid => vq.valid /\ ~(Signed(new - vq.signalled) < c)
  BY <1>5, <1>6 DEF Signalled
<1> DEFINE d == Mod(new - vq.signalled)
           e == Mod(vq.used - vq.signalled)
           u == Mod(new - driver.seen)
           w == Mod(guest.uidx - driver.seen)
<1>10. /\ d \in Nat /\ d = IF new < vq.signalled THEN new - vq.signalled + IdxMod
                            ELSE new - vq.signalled
       /\ e \in Nat /\ e = IF guest.uidx < vq.signalled THEN guest.uidx - vq.signalled + IdxMod
                            ELSE guest.uidx - vq.signalled
       /\ u \in Nat /\ u = IF new < driver.seen THEN new - driver.seen + IdxMod
                            ELSE new - driver.seen
       /\ w \in Nat /\ w = IF guest.uidx < driver.seen THEN guest.uidx - driver.seen + IdxMod
                            ELSE guest.uidx - driver.seen
  <2>1. new \in Idx /\ guest.uidx \in Idx /\ vq.signalled \in Idx /\ driver.seen \in Idx
        /\ e = Mod(guest.uidx - vq.signalled)
    BY <1>1, <1>4
  <2>2. /\ d \in Idx /\ d = IF new < vq.signalled THEN new - vq.signalled + IdxMod
                            ELSE new - vq.signalled
    BY <2>1, Indices, Zenon
  <2>3. /\ e \in Idx /\ e = IF guest.uidx < vq.signalled
                            THEN guest.uidx - vq.signalled + IdxMod
                            ELSE guest.uidx - vq.signalled
    BY <2>1, Indices, Zenon
  <2>4. /\ u \in Idx /\ u = IF new < driver.seen THEN new - driver.seen + IdxMod
                            ELSE new - driver.seen
    BY <2>1, Indices, Zenon
  <2>5. /\ w \in Idx /\ w = IF guest.uidx < driver.seen
                            THEN guest.uidx - driver.seen + IdxMod
                            ELSE guest.uidx - driver.seen
    BY <2>1, Indices, Zenon
  <2> HIDE DEF d, e, u, w
  <2> QED BY <2>2, <2>3, <2>4, <2>5 DEF Idx
<1>11. vq.valid => e < H
  BY DEF CallInv, Unsignalled, H
<1>12. ASSUME vq'.valid PROVE d < H /\ d = e + c
  <2>1. vq.valid /\ ~(Signed(new - vq.signalled) < c)
    BY <1>9, <1>12
  <2>2. e < H
    BY <1>11, <2>1
  <2>3. d = e + c
    BY <1>1, <1>2, <1>3, <1>4, <1>10, <2>2 DEF Idx
  <2>4. Signed(new - vq.signalled) = IF d < H THEN d ELSE d - IdxMod
    BY DEF Signed, H
  <2> HIDE DEF d, e
  <2>5. d \in Nat /\ e \in Nat
    BY <1>10
  <2> QED BY <1>2, <1>3, <2>1, <2>2, <2>3, <2>4, <2>5
<1>13. Unsignalled' = d /\ Unlooked' = u /\ Unlooked = w
  BY <1>7, <1>8, <1>9 DEF Unsignalled, Unlooked
<1>14. ASSUME vq'.valid, w <= e PROVE u <= d
  BY <1>1, <1>2, <1>3, <1>4, <1>10, <1>11, <1>12, <1>14 DEF Idx
<1>15. ASSUME driver.pc \in {"armed", "asleep"}, ~call, callMode # "none"
       PROVE  /\ IF Has("EVENT_IDX") THEN guest.usedEvent = driver.seen ELSE ~guest.noInterrupt
              /\ vq'.valid => w <= e
  <2>1. /\ IF Has("EVENT_IDX") THEN guest.usedEvent = driver.seen ELSE ~guest.noInterrupt
        /\ owed = "no" => guest.uidx = driver.seen
        /\ owed = "yes" /\ vq.valid => w <= e
        /\ owed = "lost" => ~vq.valid
    BY <1>15 DEF CallInv, Unlooked, Unsignalled
  <2>2. guest.uidx = driver.seen => w = 0
    BY <1>1, <1>10 DEF Idx
  <2> HIDE DEF e, w
  <2>3. owed \in {"no", "yes", "lost"}
    BY DEF Types
  <2> QED BY <1>9, <1>10, <2>1, <2>2, <2>3
<1> HIDE DEF d, e, u, w
<1> QED BY <1>7, <1>8, <1>9, <1>12, <1>13, <1>14, <1>15 DEF CallInv, H, Has

(* vring_notify: a driver that asked to be called for a buffer that is     *)
(* used is called.                                                         *)
LEMMA NotifyCalls ==
    ASSUME Types, CallInv, Notify
    PROVE  CallInv'
<1>1. /\ UNCHANGED <<features, callMode, guest, driver>>
      /\ owed = "yes" /\ owed' = "no" /\ pc \in {"run", "wait"}
      /\ call' = (call \/ (VringNotify(vq).yes /\ callMode # "none"))
  BY DEF Notify
<1>2. /\ vq'.used = vq.used
      /\ \/ vq'.signalled = vq.signalled /\ vq'.valid = vq.valid
         \/ vq'.signalled = vq.used /\ vq'.valid
  BY NotifyTypes
<1>3. /\ vq.used = guest.uidx /\ vq.used \in Idx /\ vq.signalled \in Idx
      /\ driver.seen \in Idx /\ vq.valid \in BOOLEAN
  BY <1>1 DEF CallInv, Types, Queues
<1>4. vq'.valid => Unsignalled' < IdxMod \div 2
  <2>1. CASE vq'.signalled = vq.signalled /\ vq'.valid = vq.valid
    BY <1>2, <2>1 DEF CallInv, Unsignalled
  <2>2. CASE vq'.signalled = vq.used
    <3>1. vq.used - vq.used = 0 /\ Mod(0) = 0 /\ 0 < IdxMod \div 2
      BY <1>3, Sizes, ModIs DEF Idx
    <3> QED BY <1>2, <2>2, <3>1 DEF Unsignalled
  <2> QED BY <1>2, <2>1, <2>2
<1>5. ASSUME driver.pc \in {"armed", "asleep"}, ~call', callMode # "none"
      PROVE  /\ IF Has("EVENT_IDX") THEN guest.usedEvent = driver.seen ELSE ~guest.noInterrupt
             /\ guest.uidx = driver.seen
  <2>1. ~call /\ ~VringNotify(vq).yes
    BY <1>1, <1>5
  <2>2. /\ IF Has("EVENT_IDX") THEN guest.usedEvent = driver.seen ELSE ~guest.noInterrupt
        /\ vq.valid => Unlooked <= Unsignalled
    BY <1>1, <1>5, <2>1 DEF CallInv
  <2>3. /\ Has("EVENT_IDX") /\ vq.valid
        /\ ~NeedEvent(guest.usedEvent, vq.used, vq.signalled)
    BY <2>1, <2>2 DEF VringNotify
  <2> DEFINE d == Mod(vq.used - vq.signalled)
             u == Mod(guest.uidx - driver.seen)
             z == Mod(guest.uidx - driver.seen - 1)
  <2>4. u <= d /\ ~(z < d)
    BY <1>3, <2>2, <2>3 DEF Unlooked, Unsignalled, NeedEvent
  <2>5. /\ u = IF guest.uidx < driver.seen THEN guest.uidx - driver.seen + IdxMod
               ELSE guest.uidx - driver.seen
        /\ z = IF guest.uidx - driver.seen - 1 < 0 THEN guest.uidx - driver.seen - 1 + IdxMod
               ELSE guest.uidx - driver.seen - 1
        /\ d \in Idx /\ guest.uidx \in Idx
    <3>1. guest.uidx \in Idx /\ driver.seen \in Idx /\ vq.used \in Idx /\ vq.signalled \in Idx
      BY <1>3
    <3> QED BY <3>1, Indices, Zenon
  <2> HIDE DEF u, z, d
  <2>6. guest.uidx = driver.seen
    BY <1>3, <2>4, <2>5, Sizes DEF Idx
  <2> QED BY <2>2, <2>6
<1> QED BY <1>1, <1>2, <1>3, <1>4, <1>5 DEF CallInv, Has

LEMMA CallStep ==
    ASSUME IndInv, [Next]_vars
    PROVE  CallInv'
<1>0. Types /\ InHand /\ CallInv /\ guest \in Guests /\ vq \in Queues
  BY DEF IndInv, Types
<1> USE DEF outside
<1>1. CASE Start
  <2>1. /\ vq'.used = guest.uidx /\ vq'.signalled = vq.signalled /\ vq'.valid = vq.valid
        /\ UNCHANGED <<features, callMode, guest, call, driver, owed>>
    BY <1>0, <1>1 DEF Start, Queues
  <2>2. vq.valid => Unsignalled' = Unsignalled
    BY <1>0, <2>1 DEF CallInv, Unsignalled
  <2>3. Unlooked' = Unlooked
    BY <2>1 DEF Unlooked
  <2> QED BY <1>0, <2>1, <2>2, <2>3 DEF CallInv, Has
<1>2. CASE Crash
  <2>1. /\ pc' = "down" /\ ~vq'.valid
        /\ owed' = IF owed = "no" THEN "no" ELSE "lost"
        /\ UNCHANGED <<features, callMode, guest, call, driver>>
    BY <1>2 DEF Crash, NewVq
  <2> QED BY <1>0, <2>1 DEF CallInv, Has
<1>3. CASE CheckFresh \/ RepairMark \/ RepairIndex \/ Wake \/ GetMark \/ PrePut
           \/ PostClear \/ PostIndex \/ Stop
  BY <1>0, <1>3, CallQuiet
     DEF CheckFresh, RepairMark, RepairIndex, Wake, GetMark, PrePut, PostClear,
         PostIndex, Stop
<1>4. CASE Check
  BY <1>0, <1>4, CheckTypes, CallQuiet DEF Check
<1>5. CASE PopResubmitted \/ PopNothing \/ GetCounter \/ Recheck
  <2>1. vq'.used = vq.used /\ vq'.signalled = vq.signalled /\ vq'.valid = vq.valid
    BY <1>0, <1>5 DEF PopResubmitted, PopNothing, GetCounter, Recheck, Queues
  <2> QED BY <1>0, <1>5, <2>1, CallQuiet DEF PopResubmitted, PopNothing, GetCounter, Recheck
<1>6. CASE PopHead
  <2> DEFINE v == [vq EXCEPT !.shadow = ShadowAfter(vq), !.last = Mod(@ + 1),
                             !.inuse = @ + 1]
  <2>1. v.used = vq.used /\ v.signalled = vq.signalled /\ v.valid = vq.valid
    BY <1>0 DEF Queues
  <2>2. vq' = vq \/ vq' = v
    BY <1>6, Zenon DEF PopHead
  <2>3. \/ guest' = guest
        \/ \E x : guest' = [guest EXCEPT !.event = x]
    BY <1>6, Zenon DEF PopHead, SetAvailEvent
  <2> HIDE DEF v
  <2>4. guest'.uidx = guest.uidx /\ guest'.usedEvent = guest.usedEvent
        /\ guest'.noInterrupt = guest.noInterrupt
    BY <1>0, <2>3 DEF Guests
  <2>5. UNCHANGED <<features, callMode, call, driver, owed>> /\ pc = "run"
    BY <1>6 DEF PopHead
  <2> QED BY <1>0, <2>1, <2>2, <2>4, <2>5, CallQuiet
<1>7. ASSUME NEW k \in 1..Num, Rewind(k)
      PROVE  CallInv'
  <2>1. vq'.used = vq.used /\ vq'.signalled = vq.signalled /\ vq'.valid = vq.valid
    BY <1>0, <1>7 DEF Rewind, Queues
  <2> QED BY <1>0, <1>7, <2>1, CallQuiet DEF Rewind
<1>8. CASE Disable \/ Enable
  BY <1>0, <1>8, SetNotificationTypes, CallQuiet DEF Disable, Enable
<1>9. ASSUME NEW k \in 1..Num, Fill(k)
      PROVE  CallInv'
  <2>1. guest'.uidx = guest.uidx /\ guest'.usedEvent = guest.usedEvent
        /\ guest'.noInterrupt = guest.noInterrupt
    BY <1>0, <1>9 DEF Fill, Guests
  <2>2. UNCHANGED <<features, callMode, call, driver, owed, vq>> /\ pc \in {"run", "wait", "flush"}
    BY <1>9 DEF Fill
  <2> QED BY <1>0, <2>1, <2>2, CallQuiet
<1>10. CASE UNCHANGED vars
  BY <1>0, <1>10, CallQuiet DEF vars
<1> QED BY <1>0, <1>1, <1>2, <1>3, <1>4, <1>5, <1>6, <1>7, <1>8, <1>9, <1>10,
           FlushCalls, NotifyCalls, DriverCalls
        DEF Next, Backend

-----------------------------------------------------------------------------
(***************************************************************************)
(* Lists of heads, on a ring and elsewhere                                 *)
(***************************************************************************)
(* The n entries of a ring from index i on are the heads of S, each once.  *)
On(ring, i, n, S) ==
    /\ n \in Nat
    /\ \A j \in 0..n - 1 : ring[(i + j) % Num] \in S
    /\ \A x \in S : \E j \in 0..n - 1 : ring[(i + j) % Num] = x
    /\ \A j, k \in 0..n - 1 : ring[(i + j) % Num] = ring[(i + k) % Num] => j = k

(* The n entries of a list hold each member of S once, and nothing else.   *)
Lists(s, n, S) ==
    /\ \A k \in 1..n : s[k] \in S
    /\ \A x \in S : \E k \in 1..n : s[k] = x
    /\ \A j, k \in 1..n : s[j] = s[k] => j = k

(* What n entries hold, wherever they are.                                 *)
Row(f, n, S) ==
    /\ \A j \in 0..n - 1 : f[j] \in S
    /\ \A x \in S : \E j \in 0..n - 1 : f[j] = x
    /\ \A j, k \in 0..n - 1 : f[j] = f[k] => j = k

LEMMA OnRow ==
    ASSUME NEW ring, NEW i, NEW n \in Nat, NEW S, NEW f,
           \A j \in 0..n - 1 : ring[(i + j) % Num] = f[j]
    PROVE  On(ring, i, n, S) <=> Row(f, n, S)
<1>1. ASSUME NEW j \in 0..n - 1, NEW k \in 0..n - 1
      PROVE  ring[(i + j) % Num] = ring[(i + k) % Num] <=> f[j] = f[k]
  OBVIOUS
<1>2. (\A j, k \in 0..n - 1 : ring[(i + j) % Num] = ring[(i + k) % Num] => j = k)
      <=> (\A j, k \in 0..n - 1 : f[j] = f[k] => j = k)
  BY <1>1, Zenon
<1>3. (\A j \in 0..n - 1 : ring[(i + j) % Num] \in S) <=> (\A j \in 0..n - 1 : f[j] \in S)
  BY Zenon
<1>4. ASSUME NEW x
      PROVE  (\E j \in 0..n - 1 : ring[(i + j) % Num] = x) <=> (\E j \in 0..n - 1 : f[j] = x)
  BY Zenon
<1>5. n \in Nat
  OBVIOUS
<1> QED BY <1>2, <1>3, <1>4, <1>5, Zenon DEF On, Row

LEMMA FewHeads ==
    /\ IsFiniteSet(Heads) /\ Cardinality(Heads) = Num
    /\ \A S \in SUBSET Heads : /\ IsFiniteSet(S) /\ Cardinality(S) \in 0..Num
                               /\ Cardinality(S) = 0 <=> S = {}
<1>0. 0 \in Int /\ Num - 1 \in Int /\ Num \in Nat \ {0}
  BY Sizes
<1>1. IsFiniteSet(Heads) /\ Cardinality(Heads) = IF 0 > Num - 1 THEN 0 ELSE (Num - 1) - 0 + 1
  BY <1>0, FS_Interval, Zenon DEF Heads
<1>2. Cardinality(Heads) = Num
  BY <1>0, <1>1
<1>3. ASSUME NEW S \in SUBSET Heads
      PROVE  /\ IsFiniteSet(S) /\ Cardinality(S) \in 0..Num
             /\ Cardinality(S) = 0 <=> S = {}
  <2>1. IsFiniteSet(S) /\ Cardinality(S) <= Cardinality(Heads)
    BY <1>1, FS_Subset, Zenon
  <2>2. Cardinality(S) \in Nat
    BY <2>1, FS_CardinalityType, Zenon
  <2>3. Cardinality(S) = 0 <=> S = {}
    BY <2>1, FS_EmptySet, Zenon
  <2>4. Cardinality(S) \in 0..Num
    BY <1>0, <1>2, <2>1, <2>2
  <2> QED BY <2>1, <2>3, <2>4, Zenon
<1> QED BY <1>1, <1>2, <1>3, Zenon

(* Slots less than the size of the ring apart are different.               *)
LEMMA SlotsApart ==
    ASSUME NEW i \in Int, NEW j \in 0..Num - 1, NEW k \in 0..Num - 1,
           (i + j) % Num = (i + k) % Num
    PROVE  j = k
<1>1. /\ i + j \in Int /\ i + k \in Int /\ Num \in Nat \ {0}
      /\ (i + j) - (i + k) < Num /\ (i + k) - (i + j) < Num
  BY Sizes
<1>2. i + j = i + k
  BY <1>1, ModInjective, Zenon
<1> QED BY <1>2

LEMMA SlotIn == ASSUME NEW i \in Int PROVE i % Num \in Heads
BY Sizes, ModRange DEF Heads

(* An index that has been reduced leads to the same slots.                 *)
LEMMA SlotOfMod ==
    ASSUME NEW i \in Int, NEW k \in Int
    PROVE  (Mod(i) + k) % Num = (i + k) % Num
<1>1. Num \in Nat \ {0} /\ IdxMod \in Nat \ {0} /\ 2 * Num \in Nat \ {0}
  BY Sizes
<1>2. IdxMod % Num = 0
  <2>1. IdxMod \in Int /\ IdxMod % (2 * Num) = 0
    BY <1>1, VuQueueConstants
  <2> DEFINE d == 2 * Num
  <2>2. PICK q \in Int, r \in 0..d - 1 : IdxMod % d = r /\ IdxMod = d * q + r
    BY <1>1, <2>1, DivMod, Zenon
  <2>3. IdxMod = 0 + Num * (2 * q) /\ 2 * q \in Int /\ 0 \in Int
    BY <1>1, <2>1, <2>2
  <2>4. (0 + Num * (2 * q)) % Num = 0 % Num
    BY <1>1, <2>3, ModShift, Zenon
  <2>5. 0 % Num = 0
    BY <1>1
  <2> QED BY <2>3, <2>4, <2>5, Zenon
<1>a. Num \in Nat \ {0}
  BY <1>1
<1>b. IdxMod \in Nat \ {0}
  BY <1>1
<1>3. ((i % IdxMod) + k) % Num = (i + k) % Num
  BY <1>a, <1>b, <1>2, SlotOfIndex, ZenonT(60)
<1> QED BY <1>3 DEF Mod

LEMMA ModInt == ASSUME NEW i \in Int PROVE Mod(i) \in Int
<1>1. Mod(i) \in Idx
  BY ModIdx
<1> QED BY <1>1, Sizes DEF Idx

LEMMA SameSlot ==
    ASSUME NEW i \in Int
    PROVE  Mod(i) % Num = i % Num
<1>1. 0 \in Int /\ i + 0 = i /\ Mod(i) + 0 = Mod(i)
  BY ModInt
<1>2. (Mod(i) + 0) % Num = (i + 0) % Num
  BY <1>1, SlotOfMod, Zenon
<1> QED BY <1>1, <1>2, Zenon

LEMMA OnMod ==
    ASSUME NEW ring, NEW i \in Int, NEW k \in Int, NEW n \in Nat, NEW S
    PROVE  On(ring, Mod(i) + k, n, S) <=> On(ring, i + k, n, S)
<1>1. ASSUME NEW j \in 0..n - 1
      PROVE  ((Mod(i) + k) + j) % Num = ((i + k) + j) % Num
  <2>1. k + j \in Int /\ (Mod(i) + k) + j = Mod(i) + (k + j) /\ (i + k) + j = i + (k + j)
    <3>1. Mod(i) \in Int
      BY Sizes, ModIdx DEF Idx
    <3> QED BY <3>1
  <2>2. (Mod(i) + (k + j)) % Num = (i + (k + j)) % Num
    BY <2>1, SlotOfMod, Zenon
  <2> QED BY <2>1, <2>2, Zenon
<1> DEFINE f == [j \in 0..n - 1 |-> ring[((i + k) + j) % Num]]
<1>2. \A j \in 0..n - 1 : ring[((i + k) + j) % Num] = f[j]
  OBVIOUS
<1> HIDE DEF f
<1>3. \A j \in 0..n - 1 : ring[((Mod(i) + k) + j) % Num] = f[j]
  BY <1>1, <1>2, Zenon
<1>4. On(ring, i + k, n, S) <=> Row(f, n, S)
  BY <1>2, OnRow, Zenon
<1>5. On(ring, Mod(i) + k, n, S) <=> Row(f, n, S)
  BY <1>3, OnRow, Zenon
<1> QED BY <1>4, <1>5, Zenon

LEMMA OnSize ==
    ASSUME NEW ring, NEW i \in Int, NEW n, NEW S \in SUBSET Heads, On(ring, i, n, S)
    PROVE  Cardinality(S) = n /\ n \in 0..Num /\ IsFiniteSet(S)
<1> DEFINE f == [j \in 1..n |-> ring[(i + (j - 1)) % Num]]
<1>0. n \in Nat
  BY DEF On
<1>1. f \in [1..n -> S]
  BY <1>0 DEF On
<1>2. \A a, b \in 1..n : f[a] = f[b] => a = b
  <2>1. ASSUME NEW a \in 1..n, NEW b \in 1..n, f[a] = f[b]
        PROVE  a = b
    <3>1. a - 1 \in 0..n - 1 /\ b - 1 \in 0..n - 1
      BY <1>0
    <3>2. ring[(i + (a - 1)) % Num] = ring[(i + (b - 1)) % Num]
      BY <2>1
    <3>3. a - 1 = b - 1
      BY <3>1, <3>2, Zenon DEF On
    <3> QED BY <3>3
  <2> QED BY <2>1, Zenon
<1>3. \A x \in S : \E a \in 1..n : f[a] = x
  <2>1. ASSUME NEW x \in S
        PROVE  \E a \in 1..n : f[a] = x
    <3>1. PICK j \in 0..n - 1 : ring[(i + j) % Num] = x
      BY Zenon DEF On
    <3>2. j + 1 \in 1..n /\ f[j + 1] = x
      BY <1>0, <3>1
    <3> QED BY <3>2
  <2> QED BY <2>1
<1> HIDE DEF f
<1>4. ExistsBijection(1..n, S)
  BY <1>1, <1>2, <1>3, Zenon DEF ExistsBijection, Bijection, Injection, Surjection, IsInjective
<1>5. 1 \in Int /\ n \in Int
  BY <1>0
<1>6. IsFiniteSet(1..n) /\ Cardinality(1..n) = IF 1 > n THEN 0 ELSE n - 1 + 1
  BY <1>5, FS_Interval, Zenon
<1>7. Cardinality(S) = Cardinality(1..n) /\ IsFiniteSet(S)
  BY <1>4, <1>6, FS_Bijection, Zenon
<1>8. Cardinality(S) \in 0..Num
  BY FewHeads
<1>9. Cardinality(S) = n
  BY <1>0, <1>6, <1>7
<1> QED BY <1>7, <1>8, <1>9, Zenon

(* Writing behind the entries that are on the ring.                        *)
LEMMA OnWrite ==
    ASSUME NEW ring \in [Heads -> Heads], NEW i \in Int, NEW n \in Nat, NEW S,
           On(ring, i, n, S), NEW d \in n..Num - 1, NEW h
    PROVE  On([ring EXCEPT ![(i + d) % Num] = h], i, n, S)
<1> DEFINE r == [ring EXCEPT ![(i + d) % Num] = h]
<1>1. ASSUME NEW j \in 0..n - 1
      PROVE  r[(i + j) % Num] = ring[(i + j) % Num]
  <2>1. j \in 0..Num - 1 /\ d \in 0..Num - 1 /\ j # d /\ i + j \in Int /\ i + d \in Int
    BY Sizes
  <2>2. (i + j) % Num # (i + d) % Num
    BY <2>1, SlotsApart, Zenon
  <2>3. (i + j) % Num \in Heads
    BY <2>1, SlotIn
  <2> QED BY <2>2, <2>3
<1> HIDE DEF r
<1>2. On(r, i, n, S)
  BY <1>1, Zenon DEF On
<1> QED BY <1>2 DEF r

(* One more entry, one that is on the ring behind the others.              *)
LEMMA OnExtend ==
    ASSUME NEW ring, NEW i \in Int, NEW n \in Nat, NEW S,
           On(ring, i, n, S), ring[(i + n) % Num] \notin S
    PROVE  On(ring, i, n + 1, S \cup {ring[(i + n) % Num]})
<1> DEFINE f == [j \in 0..n |-> ring[(i + j) % Num]]
           x == ring[(i + n) % Num]
<1>1. \A j \in 0..n : ring[(i + j) % Num] = f[j]
  OBVIOUS
<1>2. \A j \in 0..n - 1 : ring[(i + j) % Num] = f[j]
  OBVIOUS
<1>3. f[n] = x
  OBVIOUS
<1>4. 0..(n + 1) - 1 = 0..n /\ n + 1 \in Nat
  OBVIOUS
<1> HIDE DEF f
<1>5. Row(f, n, S)
  BY <1>2, OnRow, Zenon
<1>6. Row(f, n + 1, S \cup {x})
  <2> HIDE DEF x
  <2>0. x \notin S
    BY DEF x
  <2>1. \A j \in 0..n : j \in 0..n - 1 \/ j = n
    OBVIOUS
  <2>2. \A j \in 0..n : f[j] \in S \cup {x}
    BY <1>3, <1>5, <2>1 DEF Row
  <2>3. \A y \in S \cup {x} : \E j \in 0..n : f[j] = y
    BY <1>3, <1>5 DEF Row
  <2>4. \A j, k \in 0..n : f[j] = f[k] => j = k
    BY <1>3, <1>5, <2>0, <2>1, Zenon DEF Row
  <2> QED BY <1>4, <2>2, <2>3, <2>4, Zenon DEF Row
<1>7. \A j \in 0..(n + 1) - 1 : ring[(i + j) % Num] = f[j]
  BY <1>1, <1>4, Zenon
<1>8. On(ring, i, n + 1, S \cup {x})
  BY <1>4, <1>6, <1>7, OnRow, Zenon
<1> QED BY <1>8 DEF x

(* A new entry.                                                            *)
LEMMA OnAppend ==
    ASSUME NEW ring \in [Heads -> Heads], NEW i \in Int, NEW n \in Nat, NEW S,
           On(ring, i, n, S), n < Num, NEW h, h \notin S
    PROVE  On([ring EXCEPT ![(i + n) % Num] = h], i, n + 1, S \cup {h})
<1> DEFINE r == [ring EXCEPT ![(i + n) % Num] = h]
<1>1. n \in n..Num - 1 /\ i + n \in Int
  BY Sizes
<1>2. On(r, i, n, S)
  BY <1>1, OnWrite, Zenon
<1>3. r[(i + n) % Num] = h
  BY <1>1, SlotIn
<1> HIDE DEF r
<1>4. On(r, i, n + 1, S \cup {r[(i + n) % Num]})
  BY <1>2, <1>3, OnExtend, Zenon
<1> QED BY <1>3, <1>4 DEF r

(* Without its first c entries.                                            *)
LEMMA OnDrop ==
    ASSUME NEW ring, NEW i \in Int, NEW n \in Nat, NEW S, On(ring, i, n, S),
           NEW c \in 0..n
    PROVE  On(ring, i + c, n - c, S \ {ring[(i + j) % Num] : j \in 0..c - 1})
<1> DEFINE f == [j \in 0..n - 1 |-> ring[(i + j) % Num]]
           g == [j \in 0..(n - c) - 1 |-> f[c + j]]
           D == {ring[(i + j) % Num] : j \in 0..c - 1}
<1>1. \A j \in 0..n - 1 : ring[(i + j) % Num] = f[j]
  OBVIOUS
<1>2. \A j \in 0..(n - c) - 1 : g[j] = f[c + j] /\ c + j \in 0..n - 1
  OBVIOUS
<1>3. \A x : x \in D <=> \E j \in 0..c - 1 : ring[(i + j) % Num] = x
  BY Zenon
<1>4. 0..c - 1 \subseteq 0..n - 1
  OBVIOUS
<1> HIDE DEF f, g, D
<1>5. \A x : x \in D <=> \E j \in 0..c - 1 : f[j] = x
  BY <1>1, <1>3, <1>4, Zenon
<1>6. Row(f, n, S)
  BY <1>1, OnRow, Zenon
<1>7. Row(g, n - c, S \ D)
  <2>1. \A j \in 0..(n - c) - 1 : g[j] \in S \ D
    <3>1. ASSUME NEW j \in 0..(n - c) - 1, g[j] \in D
          PROVE  FALSE
      <4>1. PICK k \in 0..c - 1 : f[k] = f[c + j]
        BY <1>2, <1>5, <3>1
      <4>2. k \in 0..n - 1 /\ c + j \in 0..n - 1 /\ k # c + j
        OBVIOUS
      <4> QED BY <1>6, <4>1, <4>2, Zenon DEF Row
    <3> QED BY <1>2, <1>6, <3>1 DEF Row
  <2>2. \A x \in S \ D : \E j \in 0..(n - c) - 1 : g[j] = x
    <3>1. ASSUME NEW x \in S \ D
          PROVE  \E j \in 0..(n - c) - 1 : g[j] = x
      <4>1. PICK k \in 0..n - 1 : f[k] = x
        BY <1>6 DEF Row
      <4>2. ~(k \in 0..c - 1)
        BY <1>5, <4>1
      <4>3. k - c \in 0..(n - c) - 1 /\ c + (k - c) = k
        BY <4>2
      <4> QED BY <1>2, <4>1, <4>3
    <3> QED BY <3>1
  <2>3. \A j, k \in 0..(n - c) - 1 : g[j] = g[k] => j = k
    <3>1. ASSUME NEW j \in 0..(n - c) - 1, NEW k \in 0..(n - c) - 1, g[j] = g[k]
          PROVE  j = k
      <4>1. f[c + j] = f[c + k] /\ c + j \in 0..n - 1 /\ c + k \in 0..n - 1
        BY <1>2, <3>1
      <4>2. c + j = c + k
        BY <1>6, <4>1, Zenon DEF Row
      <4> QED BY <4>2
    <3> QED BY <3>1
  <2> QED BY <2>1, <2>2, <2>3, Zenon DEF Row
<1>8. \A j \in 0..(n - c) - 1 : ring[((i + c) + j) % Num] = g[j]
  <2>1. ASSUME NEW j \in 0..(n - c) - 1
        PROVE  ring[((i + c) + j) % Num] = g[j]
    <3>1. (i + c) + j = i + (c + j)
      OBVIOUS
    <3>2. ring[(i + (c + j)) % Num] = f[c + j]
      BY <1>1, <1>2, Zenon
    <3> QED BY <1>2, <3>1, <3>2, Zenon
  <2> QED BY <2>1, Zenon
<1>9. n - c \in Nat
  OBVIOUS
<1>10. On(ring, i + c, n - c, S \ D)
  BY <1>7, <1>8, <1>9, OnRow, Zenon
<1> QED BY <1>10 DEF D

(* Its first entry.                                                        *)
LEMMA OnFirst ==
    ASSUME NEW ring, NEW i \in Int, NEW n \in Nat \ {0}, NEW S, On(ring, i, n, S)
    PROVE  /\ ring[i % Num] \in S
           /\ On(ring, i + 1, n - 1, S \ {ring[i % Num]})
<1>1. 0 \in 0..n - 1 /\ i + 0 = i /\ 1 \in 0..n /\ n \in Nat
  OBVIOUS
<1>2. On(ring, i + 1, n - 1, S \ {ring[(i + j) % Num] : j \in 0..1 - 1})
  BY <1>1, OnDrop, Zenon
<1>3. {ring[(i + j) % Num] : j \in 0..1 - 1} = {ring[i % Num]}
  <2>1. 0..1 - 1 = {0}
    OBVIOUS
  <2> QED BY <1>1, <2>1
<1>4. ring[i % Num] \in S
  BY <1>1 DEF On
<1> QED BY <1>2, <1>3, <1>4, Zenon
-----------------------------------------------------------------------------
LEMMA ListsMore ==
    ASSUME NEW s, NEW n \in Nat, NEW S, NEW t, NEW x, Lists(s, n, S), x \notin S,
           \A k \in 1..n : t[k] = s[k], t[n + 1] = x
    PROVE  Lists(t, n + 1, S \cup {x})
<1>1. \A k \in 1..n + 1 : k \in 1..n \/ k = n + 1
  OBVIOUS
<1>2. n + 1 \in 1..n + 1 /\ \A k \in 1..n : k \in 1..n + 1
  OBVIOUS
<1>3. \A k \in 1..n + 1 : t[k] \in S \cup {x}
  BY <1>1 DEF Lists
<1>4. \A y \in S \cup {x} : \E k \in 1..n + 1 : t[k] = y
  BY <1>2 DEF Lists
<1>5. \A j, k \in 1..n + 1 : t[j] = t[k] => j = k
  BY <1>1, Zenon DEF Lists
<1> QED BY <1>3, <1>4, <1>5, Zenon DEF Lists

LEMMA ListsLess ==
    ASSUME NEW s, NEW n \in Nat, NEW S, NEW t, Lists(s, n, S), NEW k \in 1..n,
           \A j \in 1..n - 1 : t[j] = IF j < k THEN s[j] ELSE s[j + 1]
    PROVE  Lists(t, n - 1, S \ {s[k]}) /\ s[k] \in S
<1> DEFINE at(j) == IF j < k THEN j ELSE j + 1
<1>1. ASSUME NEW j \in 1..n - 1
      PROVE  at(j) \in 1..n /\ at(j) # k /\ t[j] = s[at(j)]
  BY <1>1
<1>2. ASSUME NEW i \in 1..n - 1, NEW j \in 1..n - 1, at(i) = at(j)
      PROVE  i = j
  BY <1>2
<1>3. ASSUME NEW i \in 1..n, i # k
      PROVE  \E j \in 1..n - 1 : at(j) = i
  <2>1. CASE i < k
    <3>1. i \in 1..n - 1 /\ at(i) = i
      BY <2>1
    <3> QED BY <3>1
  <2>2. CASE i > k
    <3>1. i - 1 \in 1..n - 1 /\ at(i - 1) = i
      BY <2>2
    <3> QED BY <3>1
  <2> QED BY <1>3, <2>1, <2>2
<1> HIDE DEF at
<1>4. \A j \in 1..n - 1 : t[j] \in S \ {s[k]}
  BY <1>1 DEF Lists
<1>5. \A y \in S \ {s[k]} : \E j \in 1..n - 1 : t[j] = y
  <2>1. ASSUME NEW y \in S \ {s[k]}
        PROVE  \E j \in 1..n - 1 : t[j] = y
    <3>1. PICK i \in 1..n : s[i] = y
      BY DEF Lists
    <3>2. PICK j \in 1..n - 1 : at(j) = i
      BY <1>3, <3>1
    <3> QED BY <1>1, <3>1, <3>2
  <2> QED BY <2>1
<1>6. \A i, j \in 1..n - 1 : t[i] = t[j] => i = j
  <2>1. ASSUME NEW i \in 1..n - 1, NEW j \in 1..n - 1, t[i] = t[j]
        PROVE  i = j
    <3>1. s[at(i)] = s[at(j)] /\ at(i) \in 1..n /\ at(j) \in 1..n
      BY <1>1, <2>1
    <3>2. at(i) = at(j)
      BY <3>1 DEF Lists
    <3> QED BY <1>2, <3>2
  <2> QED BY <2>1
<1>7. s[k] \in S
  BY DEF Lists
<1> QED BY <1>4, <1>5, <1>6, <1>7, Zenon DEF Lists

(* The entries of a list that one is taken out of.                         *)
LEMMA Removed ==
    ASSUME NEW T, NEW s \in Seq(T), NEW k \in 1..Len(s)
    PROVE  \A j \in 1..Len(s) - 1 : RemoveAt(s, k)[j] = IF j < k THEN s[j] ELSE s[j + 1]
<1> DEFINE a == SubSeq(s, 1, k - 1)
           b == SubSeq(s, k + 1, Len(s))
<1>1. /\ a \in Seq(T) /\ Len(a) = k - 1 /\ b \in Seq(T) /\ Len(b) = Len(s) - k
      /\ Len(s) \in Nat
  OBVIOUS
<1>2. \A j \in 1..k - 1 : a[j] = s[j]
  OBVIOUS
<1>3. \A j \in 1..Len(s) - k : b[j] = s[k + j]
  OBVIOUS
<1>4. RemoveAt(s, k) = a \o b
  BY DEF RemoveAt
<1> HIDE DEF a, b
<1>5. \A j \in 1..Len(a) + Len(b) : (a \o b)[j] = IF j <= Len(a) THEN a[j] ELSE b[j - Len(a)]
  BY <1>1, ConcatProperties, Zenon
<1>6. ASSUME NEW j \in 1..Len(s) - 1
      PROVE  (a \o b)[j] = IF j < k THEN s[j] ELSE s[j + 1]
  <2>1. CASE j < k
    <3>1. (a \o b)[j] = a[j] /\ j \in 1..k - 1
      BY <1>1, <1>5, <2>1
    <3> QED BY <1>2, <2>1, <3>1
  <2>2. CASE ~(j < k)
    <3>1. (a \o b)[j] = b[j - (k - 1)] /\ j - (k - 1) \in 1..Len(s) - k
          /\ k + (j - (k - 1)) = j + 1
      BY <1>1, <1>5, <2>2
    <3> QED BY <1>3, <2>2, <3>1
  <2> QED BY <2>1, <2>2
<1> QED BY <1>4, <1>6, Zenon

LEMMA ListsRemove ==
    ASSUME NEW T, NEW s \in Seq(T), NEW k \in 1..Len(s), NEW S, Lists(s, Len(s), S)
    PROVE  Lists(RemoveAt(s, k), Len(s) - 1, S \ {s[k]}) /\ s[k] \in S
<1>1. Len(s) \in Nat
  OBVIOUS
<1>2. \A j \in 1..Len(s) - 1 : RemoveAt(s, k)[j] = IF j < k THEN s[j] ELSE s[j + 1]
  BY Removed, Zenon
<1> QED BY <1>1, <1>2, ListsLess, Zenon

LEMMA ListsFront ==
    ASSUME NEW T, NEW s \in Seq(T), s # << >>, NEW S, Lists(s, Len(s), S)
    PROVE  /\ Lists(Front(s), Len(Front(s)), S \ {Last(s)}) /\ Last(s) \in S
           /\ Len(Front(s)) = Len(s) - 1
<1>1. Len(s) \in Nat /\ Len(s) \in 1..Len(s)
  OBVIOUS
<1>2. \A j \in 1..Len(s) - 1 : Front(s)[j] = IF j < Len(s) THEN s[j] ELSE s[j + 1]
  BY <1>1 DEF Front
<1>3. Len(Front(s)) = Len(s) - 1
  <2>1. PICK k \in 1..Len(s) : k = Len(s)
    BY <1>1
  <2>2. Len(SubSeq(s, 1, k - 1)) = k - 1
    OBVIOUS
  <2> QED BY <2>1, <2>2 DEF Front
<1>4. Lists(Front(s), Len(s) - 1, S \ {s[Len(s)]}) /\ s[Len(s)] \in S
  BY <1>1, <1>2, ListsLess, Zenon
<1> QED BY <1>3, <1>4, Zenon DEF Last

(* What SetToSeqs gives are lists of the set.                              *)
LEMMA ListsOfSet ==
    ASSUME NEW S, IsFiniteSet(S), NEW s \in SetToSeqs(S)
    PROVE  Lists(s, Cardinality(S), S)
<1> DEFINE n == Cardinality(S)
<1>1. s \in [1..n -> S] /\ \A i, j \in 1..n : i # j => s[i] # s[j]
  BY Zenon DEF SetToSeqs
<1>2. n \in Nat
  BY FS_CardinalityType
<1>3. 1 \in Int /\ n \in Int
  BY <1>2
<1>4. IsFiniteSet(1..n) /\ Cardinality(1..n) = IF 1 > n THEN 0 ELSE n - 1 + 1
  BY <1>3, FS_Interval, Zenon
<1>5. Cardinality(1..n) = Cardinality(S)
  <2> HIDE DEF n
  <2>1. Cardinality(1..n) = n
    BY <1>2, <1>4
  <2> QED BY <2>1 DEF n
<1>6. s \in Injection(1..n, S)
  BY <1>1, Zenon DEF Injection, IsInjective
<1>7. s \in Surjection(1..n, S)
  BY <1>5, <1>6, FS_Injection, Zenon
<1> HIDE DEF n
<1>8. \A x \in S : \E k \in 1..n : s[k] = x
  BY <1>7, Zenon DEF Surjection
<1>9. \A k \in 1..n : s[k] \in S
  BY <1>1
<1> QED BY <1>1, <1>8, <1>9, Zenon DEF Lists, n

-----------------------------------------------------------------------------
(***************************************************************************)
(* Where every buffer is                                                   *)
(***************************************************************************)
(* The marked heads, without one that was used and is not unmarked yet;    *)
(* and the heads that were used and the driver has not looked at.          *)
Marked == {h \in Heads : area.desc[h].inflight}
Kept == IF ~Has("INFLIGHT") THEN {}
        ELSE IF area.used = guest.uidx THEN Marked ELSE Marked \ {area.last}
Done == Heads \ (driver.free \cup Lent)

(* Whatever happens now, a new process will find what was lent: marked, or *)
(* on the ring from where vu_check_queue_inflights will take it up.        *)
Recoverable ==
    /\ Kept \subseteq Lent
    /\ guest.idx = Mod(guest.uidx + Cardinality(Lent))
    /\ On(guest.ring, guest.uidx + Cardinality(Kept), Cardinality(Lent \ Kept),
          Lent \ Kept)

(* A head is free, lent, or one entry of the used ring not yet looked at.  *)
Completed ==
    /\ driver.free \cap Lent = {}
    /\ guest.uidx = Mod(driver.seen + Cardinality(Done))
    /\ On(guest.used, driver.seen, Cardinality(Done), Done)

AreaInv ==
    /\ Has("INFLIGHT") /\ area.version = 0 => Marked = {} /\ area.used = guest.uidx
    /\ pc = "repair" => ~area.desc[area.last].inflight

IdleInv ==
    ~Running =>
        /\ held = << >> /\ vq.inuse = 0 /\ vq.resubmit = << >>
        /\ pc \in {"check", "repair"} => vq.shadow = vq.last
        /\ pc = "check" /\ ~Has("INFLIGHT") => vq.last = guest.uidx

Taking == pc \in {"counter", "mark"}
Putting == IF pc \in {"pre", "flush"} THEN {cur[1]} ELSE {}

(* What is kept is held, to be popped again, or being given back.          *)
Shared ==
    \E H, A \in SUBSET Heads :
        /\ Lists(HeldHeads, Len(held), H)
        /\ Lists(vq.resubmit, Len(vq.resubmit), A)
        /\ H \cap A = {} /\ Putting \cap (H \cup A) = {}
        /\ H \cup A \cup Putting = Kept

(* With inflight records what the device has is what is marked.            *)
InFlight ==
    Running /\ Has("INFLIGHT") =>
        /\ area.version = 1
        /\ vq.inuse = Cardinality(Kept) + IF Taking THEN 1 ELSE 0
        /\ vq.inuse = Len(held) + Len(vq.resubmit) + Len(Unused)
        /\ Shared
        /\ Taking => /\ Lent # Kept
                     /\ cur[1] = guest.ring[(guest.uidx + Cardinality(Kept)) % Num]
        /\ area.used # guest.uidx <=> pc \in {"clear", "post"}
        /\ pc \in {"flush", "clear", "post"} => area.last = cur[1]
        /\ pc = "post" => cur[1] \notin Marked
        /\ pc \in {"pre", "flush"} => guest.used[guest.uidx % Num] = cur[1]

(* Without them it is the first buffers on the ring.                       *)
Sequential ==
    Running /\ ~Has("INFLIGHT") =>
        /\ vq.inuse = Len(cur) + Len(held)
        /\ \A k \in 1..Len(cur) :
              /\ cur[k] = guest.ring[(guest.uidx + (k - 1)) % Num]
              /\ cur[k] = guest.used[(guest.uidx + (k - 1)) % Num]
        /\ \A k \in 1..Len(held) :
              held[k].head = guest.ring[(guest.uidx + (Len(cur) + (k - 1))) % Num]

(* The queue goes on after what is in use, and its shadow index is between *)
(* that and what the driver has offered.                                   *)
Resumes ==
    Running => /\ vq.last = Mod(guest.uidx + vq.inuse)
               /\ \E e \in vq.inuse..Cardinality(Lent) :
                     vq.shadow = Mod(guest.uidx + e)

PlaceInv == /\ Recoverable /\ Completed /\ AreaInv /\ IdleInv /\ InFlight /\ Sequential
            /\ Resumes

-----------------------------------------------------------------------------
(* What a step may change of the places a buffer can be in.                *)
LEMMA Moves ==
    ASSUME Types, [Next]_vars
    PROVE  /\ features' = features
           /\ Offer \/ Flush \/ given' = given
           /\ Offer \/ (guest'.ring = guest.ring /\ guest'.idx = guest.idx)
           /\ Flush \/ guest'.uidx = guest.uidx
           /\ (\E k \in 1..Num : Fill(k)) \/ guest'.used = guest.used
           /\ \/ Offer \/ Collect
              \/ driver'.free = driver.free /\ driver'.seen = driver.seen
           /\ \/ CheckFresh \/ RepairMark \/ RepairIndex \/ GetCounter \/ GetMark
              \/ PrePut \/ PostClear \/ PostIndex \/ area' = area
<1>0. guest \in Guests /\ vq \in Queues
      /\ driver \in [pc : {"idle", "decide", "armed", "asleep"}, free : SUBSET Heads, seen : Idx]
  BY DEF Types
<1> USE DEF outside
<1>1. CASE Start \/ RepairMark \/ RepairIndex \/ CheckFresh \/ Check \/ Stop \/ Crash
  BY <1>1 DEF Start, RepairMark, RepairIndex, CheckFresh, Check, Stop, Crash
<1>2. CASE Wake \/ PopResubmitted \/ PopNothing \/ GetCounter \/ GetMark \/ Recheck
  BY <1>2 DEF Wake, PopResubmitted, PopNothing, GetCounter, GetMark, Recheck
<1>3. CASE PopHead
  <2>1. UNCHANGED <<features, area, given, driver>>
    BY <1>3 DEF PopHead
  <2>2. guest' = guest \/ \E x : guest' = [guest EXCEPT !.event = x]
    BY <1>3, Zenon DEF PopHead, SetAvailEvent
  <2>3. /\ guest'.ring = guest.ring /\ guest'.idx = guest.idx
        /\ guest'.used = guest.used /\ guest'.uidx = guest.uidx
    BY <1>0, <2>2 DEF Guests
  <2> QED BY <2>1, <2>3
<1>4. ASSUME NEW k \in 1..Num, Rewind(k) \/ Fill(k)
      PROVE  /\ UNCHANGED <<features, area, given, driver>>
             /\ guest'.ring = guest.ring /\ guest'.idx = guest.idx
             /\ guest'.uidx = guest.uidx
             /\ Fill(k) \/ guest'.used = guest.used
  BY <1>0, <1>4 DEF Rewind, Fill, Guests
<1>5. CASE Disable \/ Enable
  <2>1. UNCHANGED <<features, area, given, driver>>
    BY <1>5 DEF Disable, Enable
  <2>2. PICK enable \in BOOLEAN : SetNotification(enable)
    BY <1>5 DEF Disable, Enable
  <2>3. guest' = guest \/ \E x : \/ guest' = [guest EXCEPT !.event = x]
                                 \/ guest' = [guest EXCEPT !.noNotify = x]
    BY <2>2, Zenon DEF SetNotification, SetAvailEvent
  <2>4. /\ guest'.ring = guest.ring /\ guest'.idx = guest.idx
        /\ guest'.used = guest.used /\ guest'.uidx = guest.uidx
    BY <1>0, <2>3 DEF Guests
  <2> QED BY <2>1, <2>4
<1>6. CASE PrePut \/ PostClear \/ PostIndex \/ Notify
  BY <1>6 DEF PrePut, PostClear, PostIndex, Notify
<1>7. CASE Flush
  <2>1. guest' = [guest EXCEPT !.uidx = Mod(vq.used + Len(cur))]
        /\ UNCHANGED <<features, area, driver>>
    BY <1>7 DEF Flush
  <2> QED BY <1>0, <1>7, <2>1 DEF Guests
<1>8. CASE Offer
  <2>1. UNCHANGED <<features, area>> /\ guest'.uidx = guest.uidx /\ guest'.used = guest.used
    BY <1>0, <1>8 DEF Offer, Guests
  <2> QED BY <1>8, <2>1
<1>9. CASE Collect
  BY <1>9 DEF Collect
<1>10. CASE Decide \/ Arm \/ Nap \/ Interrupt
  <2>1. UNCHANGED <<features, area, given>>
        /\ \/ guest' = guest
           \/ \E x, y : guest' = [guest EXCEPT !.usedEvent = x, !.noInterrupt = y]
           \/ \E x : guest' = [guest EXCEPT !.noInterrupt = x]
        /\ \E x : driver' = [driver EXCEPT !.pc = x]
    BY <1>10, Zenon DEF Decide, Arm, Nap, Interrupt
  <2>2. /\ guest'.ring = guest.ring /\ guest'.idx = guest.idx
        /\ guest'.used = guest.used /\ guest'.uidx = guest.uidx
        /\ driver'.free = driver.free /\ driver'.seen = driver.seen
    BY <1>0, <2>1 DEF Guests
  <2> QED BY <2>1, <2>2
<1>11. CASE UNCHANGED vars
  BY <1>11 DEF vars
<1> QED BY <1>1, <1>2, <1>3, <1>4, <1>5, <1>6, <1>7, <1>8, <1>9, <1>10, <1>11
        DEF Next, Driver, Backend

(* Steps that leave the buffers where they are.                            *)
Calm == {"wait", "run", "disable", "enable", "recheck", "panicked"}

LEMMA CalmSteps ==
    ASSUME Types,
           \/ Wake \/ PopNothing \/ Disable \/ Enable \/ Recheck \/ Notify
           \/ Decide \/ Collect \/ Arm \/ Nap \/ Interrupt \/ UNCHANGED vars
    PROVE  /\ UNCHANGED <<features, area, cur, held, given>>
           /\ vq'.inuse = vq.inuse /\ vq'.last = vq.last /\ vq'.resubmit = vq.resubmit
           /\ vq'.shadow \in {vq.shadow, guest.idx}
           /\ pc' = pc \/ {pc, pc'} \subseteq Calm
           /\ pc \in {"check", "repair"} => UNCHANGED vq
<1>0. guest \in Guests /\ vq \in Queues
  BY DEF Types
<1> USE DEF outside, Calm
<1>1. CASE Wake
  BY <1>1 DEF Wake
<1>2. CASE PopNothing \/ Recheck
  <2>1. /\ UNCHANGED <<features, area, cur, held, given>>
        /\ vq' = [vq EXCEPT !.shadow = ShadowAfter(vq)]
        /\ {pc, pc'} \subseteq Calm /\ pc \in {"run", "recheck"}
    BY <1>2 DEF PopNothing, Recheck
  <2>2. ShadowAfter(vq) \in {vq.shadow, guest.idx}
    BY DEF ShadowAfter
  <2> QED BY <1>0, <2>1, <2>2 DEF Queues
<1>3. CASE Disable \/ Enable
  <2>1. PICK enable \in BOOLEAN : SetNotification(enable)
    BY <1>3 DEF Disable, Enable
  <2>2. /\ UNCHANGED <<features, area, cur, held, given>>
        /\ {pc, pc'} \subseteq Calm /\ pc \in {"disable", "enable"}
    BY <1>3 DEF Disable, Enable
  <2>3. vq'.shadow \in {vq.shadow, guest.idx}
    BY <1>0, <2>1 DEF SetNotification, Queues
  <2> QED BY <2>1, <2>2, <2>3, SetNotificationTypes
<1>4. CASE Notify
  <2>1. /\ UNCHANGED <<features, area, cur, held, given>>
        /\ {pc, pc'} \subseteq Calm /\ pc \in {"run", "wait"}
    BY <1>4 DEF Notify
  <2>2. vq' = VringNotify(vq).v /\ vq'.last = vq.last /\ vq'.resubmit = vq.resubmit
        /\ vq'.inuse = vq.inuse
    BY <1>4, NotifyTypes
  <2>3. VringNotify(vq).v.shadow \in {vq.shadow, guest.idx}
    <3>1. ShadowAfter(vq) \in {vq.shadow, guest.idx}
      BY DEF ShadowAfter
    <3> QED BY <1>0, <3>1 DEF VringNotify, Queues
  <2> QED BY <2>1, <2>2, <2>3
<1>5. CASE Decide \/ Collect \/ Arm \/ Nap \/ Interrupt
  BY <1>5 DEF Decide, Collect, Arm, Nap, Interrupt
<1>6. CASE UNCHANGED vars
  BY <1>6 DEF vars
<1> QED BY <1>1, <1>2, <1>3, <1>4, <1>5, <1>6

-----------------------------------------------------------------------------
LEMMA Basics ==
    ASSUME Types
    PROVE  /\ guest \in Guests /\ vq \in Queues /\ area \in Areas
           /\ driver \in [pc : {"idle", "decide", "armed", "asleep"},
                          free : SUBSET Heads, seen : Idx]
           /\ guest.ring \in [Heads -> Heads] /\ guest.used \in [Heads -> Heads]
           /\ guest.uidx \in Int /\ guest.idx \in Int /\ driver.seen \in Int
           /\ guest.uidx \in Idx /\ guest.idx \in Idx /\ driver.seen \in Idx
           /\ vq.last \in Idx /\ vq.used \in Idx /\ vq.shadow \in Idx
           /\ vq.inuse \in Int /\ vq.last \in Int /\ vq.used \in Int
           /\ vq.resubmit \in Seq(Heads) /\ cur \in Seq(Heads) /\ held \in Seq(Elements)
           /\ Len(cur) \in Nat /\ Len(held) \in Nat /\ Len(vq.resubmit) \in Nat
           /\ Lent \in SUBSET Heads /\ Kept \in SUBSET Heads
           /\ Marked \in SUBSET Heads /\ Done \in SUBSET Heads
           /\ driver.free \in SUBSET Heads
<1>1. Idx \subseteq Int
  BY Sizes DEF Idx
<1>2. Lent \in SUBSET Heads /\ Marked \in SUBSET Heads /\ Done \in SUBSET Heads
  BY DEF Lent, Marked, Done
<1>3. Kept \in SUBSET Heads
  BY <1>2 DEF Kept
<1>4. /\ guest \in Guests /\ vq \in Queues /\ area \in Areas
      /\ driver \in [pc : {"idle", "decide", "armed", "asleep"},
                     free : SUBSET Heads, seen : Idx]
      /\ cur \in Seq(Heads) /\ held \in Seq(Elements)
  BY DEF Types
<1>5. /\ guest.ring \in [Heads -> Heads] /\ guest.used \in [Heads -> Heads]
      /\ guest.uidx \in Idx /\ guest.idx \in Idx
  BY <1>4 DEF Guests
<1>6. /\ vq.last \in Idx /\ vq.used \in Idx /\ vq.shadow \in Idx
      /\ vq.inuse \in Int /\ vq.resubmit \in Seq(Heads)
  BY <1>4 DEF Queues
<1>7. driver.seen \in Idx /\ driver.free \in SUBSET Heads
  BY <1>4
<1>8. Len(cur) \in Nat /\ Len(held) \in Nat /\ Len(vq.resubmit) \in Nat
  BY <1>4, <1>6
<1> QED BY <1>1, <1>2, <1>3, <1>4, <1>5, <1>6, <1>7, <1>8

(* Numbers of heads.                                                       *)
LEMMA Counts ==
    ASSUME NEW S \in SUBSET Heads
    PROVE  /\ Cardinality(S) \in Nat /\ Cardinality(S) \in Int /\ Cardinality(S) <= Num
           /\ Cardinality(S) = 0 <=> S = {}
           /\ \A T \in SUBSET Heads :
                 /\ T \subseteq S => Cardinality(S \ T) = Cardinality(S) - Cardinality(T)
                 /\ S \cap T = {} => /\ Cardinality(S) + Cardinality(T) <= Num
                                     /\ Cardinality(S \cup T) = Cardinality(S) + Cardinality(T)
           /\ \A h \in Heads :
                 /\ h \notin S => /\ Cardinality(S \cup {h}) = Cardinality(S) + 1
                                  /\ Cardinality(S) < Num
                 /\ h \in S => /\ Cardinality(S \ {h}) = Cardinality(S) - 1
                               /\ Cardinality(S) > 0
<1>1. IsFiniteSet(S) /\ Cardinality(S) \in 0..Num /\ Num \in Nat /\ (Cardinality(S) = 0 <=> S = {})
  BY FewHeads, Sizes
<1>2. ASSUME NEW T \in SUBSET Heads
      PROVE  /\ T \subseteq S => Cardinality(S \ T) = Cardinality(S) - Cardinality(T)
             /\ S \cap T = {} => /\ Cardinality(S) + Cardinality(T) <= Num
                                 /\ Cardinality(S \cup T) = Cardinality(S) + Cardinality(T)
  <2>1. IsFiniteSet(T) /\ Cardinality(T) \in 0..Num
    BY FewHeads
  <2>2. CASE T \subseteq S
    <3>1. S \cap T = T
      BY <2>2
    <3>2. Cardinality(S \ T) = Cardinality(S) - Cardinality(S \cap T)
      BY <1>1, FS_Difference, Zenon
    <3>3. Cardinality(S \ T) = Cardinality(S) - Cardinality(T)
      BY <3>1, <3>2
    <3>4. ASSUME S \cap T = {}
          PROVE  /\ Cardinality(S) + Cardinality(T) <= Num
                 /\ Cardinality(S \cup T) = Cardinality(S) + Cardinality(T)
      <4>1. T = {} /\ S \cup T = S
        BY <2>2, <3>4
      <4>2. Cardinality(T) = 0
        BY <4>1, FS_EmptySet, Zenon
      <4> QED BY <1>1, <4>1, <4>2
    <3> QED BY <3>3, <3>4
  <2>3. ASSUME S \cap T = {}
        PROVE  /\ Cardinality(S) + Cardinality(T) <= Num
               /\ Cardinality(S \cup T) = Cardinality(S) + Cardinality(T)
    <3>1. Cardinality(S \cup T) = Cardinality(S) + Cardinality(T) - Cardinality(S \cap T)
      BY <1>1, <2>1, FS_Union, Zenon
    <3>2. Cardinality(S \cap T) = 0
      BY <2>3, FS_EmptySet, Zenon
    <3>3. S \cup T \in SUBSET Heads
      OBVIOUS
    <3>4. Cardinality(S \cup T) \in 0..Num
      BY <3>3, FewHeads, Zenon
    <3> QED BY <1>1, <2>1, <3>1, <3>2, <3>4
  <2> QED BY <2>2, <2>3
<1>3. ASSUME NEW h \in Heads
      PROVE  /\ h \notin S => /\ Cardinality(S \cup {h}) = Cardinality(S) + 1
                              /\ Cardinality(S) < Num
             /\ h \in S => /\ Cardinality(S \ {h}) = Cardinality(S) - 1
                           /\ Cardinality(S) > 0
  <2>1. Cardinality(S \cup {h}) = IF h \in S THEN Cardinality(S) ELSE Cardinality(S) + 1
    BY <1>1, FS_AddElement, Zenon
  <2>2. Cardinality(S \ {h}) = IF h \in S THEN Cardinality(S) - 1 ELSE Cardinality(S)
    BY <1>1, FS_RemoveElement, Zenon
  <2>3. S \cup {h} \in SUBSET Heads /\ S \ {h} \in SUBSET Heads
    OBVIOUS
  <2>4. Cardinality(S \cup {h}) \in 0..Num /\ Cardinality(S \ {h}) \in 0..Num
    BY <2>3, FewHeads, Zenon
  <2> QED BY <1>1, <2>1, <2>2, <2>4
<1>4. Cardinality(S) \in Nat /\ Cardinality(S) \in Int /\ Cardinality(S) <= Num
  BY <1>1
<1> QED BY <1>1, <1>2, <1>3, <1>4

(* What is marked after a mark is set or taken back.                       *)
LEMMA MarkedAfter ==
    ASSUME Types, NEW h \in Heads, NEW b \in BOOLEAN,
           area' = [area EXCEPT !.desc[h].inflight = b]
    PROVE  /\ Marked' = IF b THEN Marked \cup {h} ELSE Marked \ {h}
           /\ area'.used = area.used /\ area'.last = area.last
           /\ area'.version = area.version
<1>1. area.desc \in [Heads -> [inflight : BOOLEAN, counter : Nat]] /\ area \in Areas
  BY DEF Types, Areas
<1>2. /\ area'.used = area.used /\ area'.last = area.last
      /\ area'.version = area.version
  BY <1>1 DEF Areas
<1>3. area'.desc = [area.desc EXCEPT ![h].inflight = b]
  BY <1>1 DEF Areas
<1>4. ASSUME NEW g \in Heads
      PROVE  area'.desc[g].inflight = IF g = h THEN b ELSE area.desc[g].inflight
  BY <1>1, <1>3
<1>5. Marked' = {g \in Heads : IF g = h THEN b ELSE area.desc[g].inflight}
  BY <1>4 DEF Marked
<1>6. Marked' = IF b THEN Marked \cup {h} ELSE Marked \ {h}
  BY <1>5 DEF Marked
<1> QED BY <1>2, <1>6

LEMMA KeptSame ==
    ASSUME IndInv, PlaceInv, [Next]_vars, ~Flush, ~GetMark
    PROVE  Kept' = Kept
<1>0. /\ Types /\ InHand /\ CallInv /\ AreaInv /\ InFlight
      /\ features' = features /\ guest'.uidx = guest.uidx /\ area \in Areas
  BY Moves, Basics DEF IndInv, PlaceInv
<1>1. CASE area' = area
  BY <1>0, <1>1 DEF Kept, Marked, Has
<1>2. CASE CheckFresh \/ GetCounter
  <2>1. area'.used = area.used /\ area'.last = area.last
    BY <1>0, <1>2 DEF CheckFresh, GetCounter, Areas
  <2>2. \A h \in Heads : area'.desc[h].inflight = area.desc[h].inflight
    BY <1>0, <1>2 DEF CheckFresh, GetCounter, Areas
  <2> QED BY <1>0, <2>1, <2>2 DEF Kept, Marked, Has
<1>3. CASE RepairMark \/ PostClear
  <2>1. PICK h \in Heads : h = area.last /\ area' = [area EXCEPT !.desc[h].inflight = FALSE]
    <3>1. CASE RepairMark
      BY <1>0, <3>1 DEF RepairMark, Areas
    <3>2. CASE PostClear
      <4>1. area.last = cur[1] /\ area.last \in Heads
        BY <1>0, <3>2 DEF PostClear, InFlight, InHand, Running, Areas
      <4> QED BY <3>2, <4>1 DEF PostClear
    <3> QED BY <1>3, <3>1, <3>2
  <2>2. /\ Marked' = Marked \ {h}
        /\ area'.used = area.used /\ area'.last = area.last
    BY <1>0, <2>1, MarkedAfter
  <2>3. area.used # guest.uidx
    BY <1>0, <1>3 DEF RepairMark, PostClear, InFlight, InHand, CallInv, Running
  <2> QED BY <1>0, <2>1, <2>2, <2>3 DEF Kept, Has
<1>4. CASE RepairIndex \/ PostIndex
  <2>1. area'.used = vq.used /\ area'.desc = area.desc /\ vq.used = guest.uidx
    BY <1>0, <1>4 DEF RepairIndex, PostIndex, CallInv, Areas
  <2>2. area.last \notin Marked
    BY <1>0, <1>4 DEF RepairIndex, PostIndex, AreaInv, InFlight, InHand, Running, Marked
  <2> QED BY <1>0, <2>1, <2>2 DEF Kept, Marked, Has
<1>5. CASE PrePut
  <2>1. area'.used = area.used /\ area'.desc = area.desc /\ area.used = guest.uidx
    BY <1>0, <1>5 DEF PrePut, Areas, InFlight, InHand, Running
  <2> QED BY <1>0, <2>1 DEF Kept, Marked, Has
<1> QED BY <1>0, <1>1, <1>2, <1>3, <1>4, <1>5, Moves

(* An index that has been reduced may be moved on.                         *)
LEMMA ModSum ==
    ASSUME NEW i \in Int, NEW k \in Int
    PROVE  Mod(Mod(i) + k) = Mod(i + k)
<1>1. IdxMod \in Nat \ {0}
  BY Sizes
<1> QED BY <1>1, ModAdd, Zenon DEF Mod

-----------------------------------------------------------------------------
(***************************************************************************)
(* What a new process finds                                                *)
(***************************************************************************)
LEMMA OfferLent ==
    ASSUME IndInv, PlaceInv, Offer
    PROVE  /\ Min(driver.free) \in driver.free
           /\ Lent' = Lent \cup {Min(driver.free)} /\ Min(driver.free) \notin Lent
           /\ guest'.ring = [guest.ring EXCEPT ![guest.idx % Num] = Min(driver.free)]
           /\ guest'.idx = Mod(guest.idx + 1) /\ guest'.uidx = guest.uidx
           /\ guest'.used = guest.used
           /\ driver'.free = driver.free \ {Min(driver.free)}
           /\ driver'.seen = driver.seen
<1> DEFINE h == Min(driver.free)
<1>0. Types /\ driver.free \cap Lent = {} /\ driver.free # {} /\ driver.free \in SUBSET Nat
  <2>1. Types /\ driver.free \cap Lent = {} /\ driver.free # {}
    BY DEF IndInv, PlaceInv, Completed, Offer
  <2>2. driver.free \in SUBSET Heads
    BY <2>1, Basics
  <2>3. Heads \subseteq Nat
    BY Sizes DEF Heads
  <2> QED BY <2>1, <2>2, <2>3
<1>1. h \in driver.free
  BY <1>0, MinInSet, Zenon
<1>2. h \in Heads /\ h \notin Lent
  BY <1>0, <1>1, Basics
<1>3. guest' = [guest EXCEPT !.ring[guest.idx % Num] = h, !.idx = Mod(@ + 1)]
      /\ driver' = [driver EXCEPT !.pc = "decide", !.free = @ \ {h}]
      /\ given' = [given EXCEPT ![h] = offered + 1]
  BY Zenon DEF Offer
<1>4. given \in [Heads -> Nat] /\ offered \in Nat
  BY <1>0 DEF Types
<1> HIDE DEF h
<1>5. Lent' = Lent \cup {h}
  BY <1>2, <1>3, <1>4 DEF Lent
<1>6. /\ guest'.ring = [guest.ring EXCEPT ![guest.idx % Num] = h]
      /\ guest'.idx = Mod(guest.idx + 1) /\ guest'.uidx = guest.uidx
      /\ guest'.used = guest.used
  BY <1>0, <1>3, Basics DEF Guests
<1>7. driver'.free = driver.free \ {h} /\ driver'.seen = driver.seen
  BY <1>0, <1>3, Basics
<1> QED BY <1>1, <1>2, <1>5, <1>6, <1>7 DEF h

LEMMA FlushLent ==
    ASSUME IndInv, Flush
    PROVE  /\ Lent' = Lent \ {cur[k] : k \in 1..Len(cur)}
           /\ guest'.uidx = Mod(guest.uidx + Len(cur))
           /\ guest'.ring = guest.ring /\ guest'.idx = guest.idx
           /\ guest'.used = guest.used
           /\ area' = area /\ driver' = driver /\ features' = features
           /\ pc = "flush" /\ Len(cur) >= 1 /\ (Has("INFLIGHT") => Len(cur) = 1)
<1>0. Types /\ InHand /\ vq.used = guest.uidx /\ pc = "flush"
  BY DEF IndInv, CallInv, Flush
<1>1. Range(cur) = {cur[k] : k \in 1..Len(cur)}
  BY <1>0, Basics DEF Range
<1>2. given' = [h \in Heads |-> IF h \in Range(cur) THEN 0 ELSE given[h]]
      /\ guest' = [guest EXCEPT !.uidx = Mod(vq.used + Len(cur))]
      /\ area' = area /\ driver' = driver /\ features' = features
  BY Zenon DEF Flush
<1>3. given \in [Heads -> Nat]
  BY <1>0 DEF Types
<1>4. Lent' = Lent \ Range(cur)
  BY <1>2, <1>3 DEF Lent
<1>5. /\ guest'.uidx = Mod(guest.uidx + Len(cur))
      /\ guest'.ring = guest.ring /\ guest'.idx = guest.idx
      /\ guest'.used = guest.used
  BY <1>0, <1>2, Basics DEF Guests
<1>6. Len(cur) >= 1 /\ (Has("INFLIGHT") => Len(cur) = 1)
  BY <1>0 DEF InHand
<1> QED BY <1>0, <1>1, <1>2, <1>4, <1>5, <1>6

LEMMA FlushRecoverable ==
    ASSUME IndInv, PlaceInv, Flush
    PROVE  /\ Recoverable'
           /\ Has("INFLIGHT") =>
                 /\ Kept' = Kept \ {cur[1]} /\ cur[1] \in Kept
                 /\ {cur[k] : k \in 1..Len(cur)} = {cur[1]}
           /\ ~Has("INFLIGHT") =>
                 /\ Kept = {} /\ Kept' = {} /\ Len(cur) \in 0..Cardinality(Lent)
                 /\ Cardinality(Lent') = Cardinality(Lent) - Len(cur)
<1> DEFINE c == Len(cur)
           C == {cur[k] : k \in 1..c}
           L == Cardinality(Lent)
           K == Cardinality(Kept)
           u == guest.uidx
<1>0. /\ Types /\ InFlight /\ Sequential /\ Resumes /\ Running
      /\ vq.used = guest.uidx /\ InHand
  BY DEF IndInv, PlaceInv, Flush, Running, CallInv
<1>1. /\ Kept \subseteq Lent /\ guest.idx = Mod(u + L)
      /\ On(guest.ring, u + K, Cardinality(Lent \ Kept), Lent \ Kept)
  BY Zenon DEF PlaceInv, Recoverable
<1>2. L \in Nat /\ K \in Nat /\ u \in Int /\ c \in Nat /\ Lent \in SUBSET Heads /\ Kept \in SUBSET Heads
  BY <1>0, Basics, Counts
<1>3. /\ Lent' = Lent \ C /\ guest'.uidx = Mod(u + c)
      /\ guest'.ring = guest.ring /\ guest'.idx = guest.idx /\ area' = area
      /\ features' = features /\ pc = "flush"
  BY FlushLent
<1>4. CASE Has("INFLIGHT")
  <2> DEFINE h == cur[1]
  <2>1. c = 1 /\ C = {h}
    <3>1. c = 1
      BY <1>4, FlushLent
    <3> QED BY <3>1
  <2>2. area.last = h /\ area.used = guest.uidx /\ h \in Kept
    BY <1>0, <1>3, <1>4 DEF InFlight, Shared, Putting
  <2>3. guest'.uidx # guest.uidx
    <3>1. guest.uidx \in Idx /\ IdxMod \in Nat /\ 2 <= IdxMod
      BY <1>0, Basics, Sizes
    <3>2. Mod(guest.uidx + 1) =
             IF guest.uidx + 1 = IdxMod THEN 0 ELSE guest.uidx + 1
      BY <3>1, Indices, Zenon
    <3>3. Mod(guest.uidx + 1) # guest.uidx
      BY <3>1, <3>2 DEF Idx
    <3> QED BY <1>3, <2>1, <3>3
  <2> HIDE DEF h
  <2>4. Kept' = Kept \ {h}
    BY <1>3, <1>4, <2>2, <2>3 DEF Kept, Marked, Has
  <2>5. /\ Kept' \subseteq Lent' /\ Lent' \ Kept' = Lent \ Kept
        /\ Cardinality(Kept') = K - 1 /\ Cardinality(Lent') = L - 1
    <3>1. h \in Lent /\ h \in Heads
      BY <1>1, <1>2, <2>2
    <3>2. Cardinality(Kept \ {h}) = K - 1 /\ Cardinality(Lent \ {h}) = L - 1
      BY <1>2, <2>2, <3>1, Counts
    <3>3. Lent' = Lent \ {h}
      BY <1>3, <2>1
    <3> QED BY <1>1, <2>2, <2>4, <3>2, <3>3
  <2>6. guest'.idx = Mod(guest'.uidx + Cardinality(Lent'))
    <3>1. u + c \in Int /\ L - 1 \in Int /\ (u + c) + (L - 1) = u + L
      BY <1>2, <2>1
    <3>2. Mod(Mod(u + c) + (L - 1)) = Mod(u + L)
      BY <3>1, ModSum, Zenon
    <3> QED BY <1>1, <1>3, <2>5, <3>2
  <2>7. On(guest'.ring, guest'.uidx + Cardinality(Kept'), Cardinality(Lent' \ Kept'), Lent' \ Kept')
    <3> DEFINE n == Cardinality(Lent \ Kept)
               S == Lent \ Kept
    <3>1. n \in Nat
      BY <1>2, Counts
    <3>2. u + c \in Int /\ K - 1 \in Int /\ (u + c) + (K - 1) = u + K
      BY <1>2, <2>1
    <3>3. On(guest.ring, Mod(u + c) + (K - 1), n, S) <=> On(guest.ring, (u + c) + (K - 1), n, S)
      BY <3>1, <3>2, OnMod, Zenon
    <3> QED BY <1>1, <1>3, <2>5, <3>2, <3>3, Zenon
  <2>8. Recoverable'
    BY <2>5, <2>6, <2>7, Zenon DEF Recoverable
  <2> QED BY <1>4, <2>1, <2>2, <2>4, <2>8 DEF h
<1>5. CASE ~Has("INFLIGHT")
  <2>1. Kept = {} /\ Kept' = {}
    BY <1>3, <1>5 DEF Kept, Has
  <2>2. K = 0 /\ Cardinality(Kept') = 0 /\ Lent \ Kept = Lent /\ Lent' \ Kept' = Lent'
    BY <2>1, FS_EmptySet
  <2>3. On(guest.ring, u, L, Lent)
    <3>1. u + K = u
      BY <1>2, <2>2
    <3> QED BY <1>1, <2>2, <3>1
  <2>4. c \in 0..L
    BY <1>0, <1>2, <1>5, Basics DEF InHand, Resumes
  <2>5. {guest.ring[(u + j) % Num] : j \in 0..c - 1} = C
    <3>1. \A k \in 1..c : cur[k] = guest.ring[(u + (k - 1)) % Num]
      BY <1>0, <1>5 DEF Sequential
    <3>2. \A j \in 0..c - 1 : j + 1 \in 1..c /\ (j + 1) - 1 = j
      BY <1>2
    <3>3. \A k \in 1..c : k - 1 \in 0..c - 1
      BY <1>2
    <3>4. \A j \in 0..c - 1 : guest.ring[(u + j) % Num] = cur[j + 1]
      BY <3>1, <3>2, Zenon
    <3>5. \A x : x \in C <=> \E k \in 1..c : cur[k] = x
      BY Zenon
    <3>6. \A x : x \in {guest.ring[(u + j) % Num] : j \in 0..c - 1}
                 <=> \E j \in 0..c - 1 : guest.ring[(u + j) % Num] = x
      BY Zenon
    <3> HIDE DEF C, c
    <3>7. \A x : (\E k \in 1..c : cur[k] = x) <=> \E j \in 0..c - 1 : guest.ring[(u + j) % Num] = x
      BY <3>1, <3>2, <3>3, <3>4, Zenon
    <3> QED BY <3>5, <3>6, <3>7, Zenon
  <2>6. On(guest.ring, u + c, L - c, Lent')
    <3>1. On(guest.ring, u + c, L - c,
             Lent \ {guest.ring[(u + j) % Num] : j \in 0..c - 1})
      <4> HIDE DEF c, L, u
      <4> QED BY <1>2, <2>3, <2>4, OnDrop, Zenon
    <3> QED BY <1>3, <2>5, <3>1
  <2>7. Cardinality(Lent') = L - c /\ L - c \in Nat
    <3>1. u + c \in Int /\ Lent' \in SUBSET Heads
      BY <1>2, <1>3
    <3>2. Cardinality(Lent') = L - c
      BY <2>6, <3>1, OnSize, Zenon
    <3> QED BY <1>2, <2>4, <3>2
  <2>8. guest'.idx = Mod(guest'.uidx + Cardinality(Lent'))
    <3>1. u + c \in Int /\ L - c \in Int /\ (u + c) + (L - c) = u + L
      BY <1>2
    <3>2. Mod(Mod(u + c) + (L - c)) = Mod((u + c) + (L - c))
      BY <3>1, ModSum, Zenon
    <3> QED BY <1>1, <1>3, <2>7, <3>1, <3>2, Zenon
  <2>9. On(guest'.ring, guest'.uidx + Cardinality(Kept'), Cardinality(Lent' \ Kept'), Lent' \ Kept')
    <3> DEFINE n == L - c
    <3>1. u + c \in Int /\ 0 \in Int /\ (u + c) + 0 = u + c
      BY <1>2
    <3>2. On(guest.ring, Mod(u + c) + 0, n, Lent') <=> On(guest.ring, (u + c) + 0, n, Lent')
      BY <2>7, <3>1, OnMod, Zenon
    <3> QED BY <1>3, <2>2, <2>6, <2>7, <3>1, <3>2, Zenon
  <2>10. Recoverable'
    <3>1. Kept' \subseteq Lent'
      BY <2>1
    <3> QED BY <2>8, <2>9, <3>1, Zenon DEF Recoverable
  <2> QED BY <1>5, <2>1, <2>4, <2>7, <2>10, Zenon
<1> QED BY <1>4, <1>5

LEMMA OfferRecoverable ==
    ASSUME IndInv, PlaceInv, Offer
    PROVE  Recoverable'
<1> DEFINE h == Min(driver.free)
           L == Cardinality(Lent)
           K == Cardinality(Kept)
           u == guest.uidx
           S == Lent \ Kept
           n == Cardinality(S)
<1>0. Types /\ [Next]_vars /\ ~Flush /\ ~GetMark
  <2>1. Types /\ [Next]_vars
    BY DEF IndInv, Next, Driver
  <2>2. offered \in Nat
    BY <2>1 DEF Types
  <2>3. offered' # offered
    BY <2>2 DEF Offer
  <2>4. ~Flush /\ ~GetMark
    BY <2>3 DEF Flush, GetMark, outside
  <2> QED BY <2>1, <2>4
<1>1. /\ Kept \subseteq Lent /\ guest.idx = Mod(u + L)
      /\ On(guest.ring, u + K, n, S)
  BY Zenon DEF PlaceInv, Recoverable
<1>2. /\ Lent \in SUBSET Heads /\ Kept \in SUBSET Heads /\ u \in Int
      /\ guest.ring \in [Heads -> Heads] /\ driver.free \in SUBSET Heads
  BY <1>0, Basics
<1>3. /\ h \in driver.free /\ Lent' = Lent \cup {h} /\ h \notin Lent
      /\ guest'.ring = [guest.ring EXCEPT ![guest.idx % Num] = h]
      /\ guest'.idx = Mod(guest.idx + 1) /\ guest'.uidx = guest.uidx
  BY OfferLent
<1>4. Kept' = Kept
  BY <1>0, KeptSame
<1>5. h \in Heads /\ h \notin S /\ Lent' \ Kept = S \cup {h} /\ S \in SUBSET Heads
  BY <1>1, <1>2, <1>3
<1>6. /\ L \in Nat /\ K \in Nat /\ n \in Nat /\ n = L - K
      /\ Cardinality(S \cup {h}) = n + 1 /\ n < Num /\ Cardinality(Lent \cup {h}) = L + 1
  BY <1>1, <1>2, <1>3, <1>5, Counts
<1> HIDE DEF h, L, K, n, S, u
<1>7. guest.idx % Num = ((u + K) + n) % Num
  <2>1. u + L \in Int /\ u + L = (u + K) + n
    BY <1>2, <1>6
  <2>2. Mod(u + L) % Num = (u + L) % Num
    BY <2>1, SameSlot, Zenon
  <2> QED BY <1>1, <2>1, <2>2, Zenon
<1>8. On(guest'.ring, u + K, n + 1, S \cup {h})
  <2>1. u + K \in Int
    BY <1>2, <1>6
  <2>2. On([guest.ring EXCEPT ![((u + K) + n) % Num] = h], u + K, n + 1, S \cup {h})
    BY <1>1, <1>2, <1>5, <1>6, <2>1, OnAppend, Zenon
  <2> QED BY <1>3, <1>7, <2>2, Zenon
<1>9. guest'.idx = Mod(guest'.uidx + Cardinality(Lent'))
  <2>1. u + L \in Int /\ 1 \in Int /\ (u + L) + 1 = u + (L + 1)
    BY <1>2, <1>6
  <2>2. Mod(Mod(u + L) + 1) = Mod((u + L) + 1)
    BY <2>1, ModSum, Zenon
  <2> QED BY <1>1, <1>3, <1>6, <2>1, <2>2, Zenon DEF u
<1>10. Kept' \subseteq Lent'
  BY <1>1, <1>3, <1>4
<1>11. On(guest'.ring, guest'.uidx + Cardinality(Kept'), Cardinality(Lent' \ Kept'), Lent' \ Kept')
  BY <1>3, <1>4, <1>5, <1>6, <1>8, Zenon DEF u, K
<1> QED BY <1>9, <1>10, <1>11, Zenon DEF Recoverable

LEMMA MarkRecoverable ==
    ASSUME IndInv, PlaceInv, GetMark
    PROVE  /\ Recoverable' /\ Kept' = Kept \cup {cur[1]} /\ cur[1] \in Lent \ Kept
           /\ Marked' = Marked \cup {cur[1]} /\ area'.used = area.used
           /\ area'.version = area.version
<1> DEFINE h == cur[1]
           K == Cardinality(Kept)
           u == guest.uidx
           S == Lent \ Kept
           n == Cardinality(S)
<1>0. Types /\ InHand /\ InFlight /\ Has("INFLIGHT") /\ pc = "mark" /\ Running /\ Taking
  BY DEF IndInv, PlaceInv, InHand, GetMark, Running, Taking
<1>1. /\ Kept \subseteq Lent /\ guest.idx = Mod(u + Cardinality(Lent))
      /\ On(guest.ring, u + K, n, S)
  BY Zenon DEF PlaceInv, Recoverable
<1>2. Lent \in SUBSET Heads /\ Kept \in SUBSET Heads /\ u \in Int /\ h \in Heads
  BY <1>0, Basics, HeadInHand
<1>3. /\ Lent # Kept /\ h = guest.ring[(u + K) % Num] /\ area.used = guest.uidx
  BY <1>0 DEF InFlight
<1>4. /\ Marked' = Marked \cup {h} /\ area'.used = area.used /\ area'.last = area.last
      /\ area'.version = area.version
      /\ guest' = guest /\ features' = features /\ given' = given
  <2>1. area' = [area EXCEPT !.desc[h].inflight = TRUE]
    BY Zenon DEF GetMark
  <2>2. /\ Marked' = Marked \cup {h} /\ area'.used = area.used /\ area'.last = area.last
        /\ area'.version = area.version
    BY <1>0, <1>2, <2>1, MarkedAfter
  <2> QED BY <2>2 DEF GetMark, outside
<1>5. Kept' = Kept \cup {h} /\ Lent' = Lent
  BY <1>0, <1>3, <1>4 DEF Kept, Has, Lent
<1>6. S \in SUBSET Heads /\ S # {} /\ n \in Nat \ {0} /\ K \in Nat
  <2>1. S \in SUBSET Heads /\ S # {}
    BY <1>1, <1>2, <1>3
  <2>2. K \in Nat
    BY <1>2, Counts
  <2> HIDE DEF S
  <2>3. n \in Nat /\ n # 0
    BY <2>1, Counts
  <2> QED BY <2>1, <2>2, <2>3
<1> HIDE DEF h, K, u, S, n
<1>7. u + K \in Int
  BY <1>2, <1>6
<1>8. h \in S /\ On(guest.ring, (u + K) + 1, n - 1, S \ {h})
  BY <1>1, <1>3, <1>6, <1>7, OnFirst, Zenon
<1>9. /\ Cardinality(Kept') = K + 1 /\ Lent' \ Kept' = S \ {h}
      /\ Cardinality(S \ {h}) = n - 1 /\ Kept' \subseteq Lent'
  <2>1. h \notin Kept /\ h \in Lent
    BY <1>8 DEF S
  <2>2. Cardinality(Kept \cup {h}) = K + 1
    BY <1>2, <2>1, Counts DEF K
  <2>3. Cardinality(S \ {h}) = n - 1
    BY <1>2, <1>6, <1>8, Counts DEF n
  <2>4. Lent' \ Kept' = S \ {h} /\ Kept' \subseteq Lent'
    BY <1>1, <1>5, <2>1 DEF S
  <2> QED BY <1>5, <2>2, <2>3, <2>4
<1>10. guest'.idx = Mod(guest'.uidx + Cardinality(Lent'))
  BY <1>1, <1>4, <1>5 DEF u
<1>11. On(guest'.ring, guest'.uidx + Cardinality(Kept'), Cardinality(Lent' \ Kept'), Lent' \ Kept')
  <2>1. (u + K) + 1 = guest'.uidx + Cardinality(Kept')
    BY <1>2, <1>4, <1>6, <1>9 DEF u
  <2> QED BY <1>4, <1>8, <1>9, <2>1, Zenon
<1>12. Recoverable'
  BY <1>9, <1>10, <1>11, Zenon DEF Recoverable
<1> QED BY <1>4, <1>5, <1>8, <1>12 DEF h, S

LEMMA RecoverableStep ==
    ASSUME IndInv, PlaceInv, [Next]_vars
    PROVE  Recoverable'
<1>1. CASE Offer
  BY <1>1, OfferRecoverable
<1>2. CASE Flush
  BY <1>2, FlushRecoverable
<1>3. CASE GetMark
  BY <1>3, MarkRecoverable
<1>4. CASE ~Offer /\ ~Flush /\ ~GetMark
  <2>1. Kept' = Kept /\ given' = given /\ guest'.ring = guest.ring
        /\ guest'.idx = guest.idx /\ guest'.uidx = guest.uidx
    BY <1>4, Moves, KeptSame DEF IndInv
  <2>2. Lent' = Lent
    BY <2>1 DEF Lent
  <2>3. Recoverable
    BY DEF PlaceInv
  <2> QED BY <2>1, <2>2, <2>3, Zenon DEF Recoverable
<1> QED BY <1>1, <1>2, <1>3, <1>4

-----------------------------------------------------------------------------
(***************************************************************************)
(* What the driver gets back                                               *)
(***************************************************************************)
(* The used ring has room for what is lent.                                *)
LEMMA Room ==
    ASSUME IndInv, PlaceInv
    PROVE  /\ Cardinality(Lent) \in Nat /\ Cardinality(Done) \in Nat
           /\ Cardinality(Lent) + Cardinality(Done) <= Num
           /\ Kept \subseteq Lent
           /\ Cardinality(Kept) \in Nat /\ Cardinality(Kept) <= Cardinality(Lent)
           /\ Lent # Kept => Cardinality(Kept) < Cardinality(Lent)
           /\ guest.idx = Mod(guest.uidx + Cardinality(Lent))
           /\ guest.uidx = Mod(driver.seen + Cardinality(Done))
<1>1. Lent \in SUBSET Heads /\ Done \in SUBSET Heads /\ Kept \in SUBSET Heads
  BY Basics DEF IndInv
<1>2. Lent \cap Done = {}
  BY DEF Done
<1>3. Cardinality(Lent) \in Nat /\ Cardinality(Done) \in Nat /\ Cardinality(Kept) \in Nat
      /\ Cardinality(Lent) + Cardinality(Done) <= Num
  BY <1>1, <1>2, Counts
<1>4. Kept \subseteq Lent /\ guest.idx = Mod(guest.uidx + Cardinality(Lent))
      /\ guest.uidx = Mod(driver.seen + Cardinality(Done))
  BY DEF PlaceInv, Recoverable, Completed
<1>5. Cardinality(Lent \ Kept) = Cardinality(Lent) - Cardinality(Kept)
      /\ Cardinality(Lent \ Kept) \in Nat
      /\ (Cardinality(Lent \ Kept) = 0 <=> Lent \ Kept = {})
  BY <1>1, <1>4, Counts
<1> QED BY <1>3, <1>4, <1>5

(* Entries that follow others.                                             *)
LEMMA OnConcat ==
    ASSUME NEW ring, NEW i \in Int, NEW n \in Nat, NEW c \in Nat, NEW S, NEW T,
           On(ring, i, n, S), On(ring, i + n, c, T), S \cap T = {}
    PROVE  On(ring, i, n + c, S \cup T)
<1> DEFINE f == [j \in 0..(n + c) - 1 |-> ring[(i + j) % Num]]
           g == [j \in 0..c - 1 |-> f[n + j]]
<1>1. \A j \in 0..(n + c) - 1 : ring[(i + j) % Num] = f[j]
  OBVIOUS
<1>2. \A j \in 0..c - 1 : g[j] = f[n + j] /\ n + j \in 0..(n + c) - 1 /\ (i + n) + j = i + (n + j)
  OBVIOUS
<1>3. \A j \in 0..n - 1 : j \in 0..(n + c) - 1
  OBVIOUS
<1>4. \A j \in 0..(n + c) - 1 : j \in 0..n - 1 \/ (j - n \in 0..c - 1 /\ j = n + (j - n))
  OBVIOUS
<1> HIDE DEF f, g
<1>5. Row(f, n, S)
  <2>1. \A j \in 0..n - 1 : ring[(i + j) % Num] = f[j]
    BY <1>1, <1>3, Zenon
  <2> QED BY <2>1, OnRow, Zenon
<1>6. Row(g, c, T)
  <2>1. ASSUME NEW j \in 0..c - 1
        PROVE  ring[((i + n) + j) % Num] = g[j]
    <3>1. ring[(i + (n + j)) % Num] = f[n + j]
      BY <1>1, <1>2, Zenon
    <3> QED BY <1>2, <3>1, Zenon
  <2> QED BY <2>1, OnRow, Zenon
<1>7. \A j \in 0..(n + c) - 1 : f[j] \in S \cup T
  <2>1. ASSUME NEW j \in 0..(n + c) - 1, j \notin 0..n - 1
        PROVE  f[j] \in T
    <3>1. j - n \in 0..c - 1 /\ j = n + (j - n)
      BY <1>4, <2>1
    <3>2. g[j - n] = f[n + (j - n)] /\ g[j - n] \in T
      BY <1>2, <1>6, <3>1, Zenon DEF Row
    <3> QED BY <3>1, <3>2, Zenon
  <2>2. \A j \in 0..n - 1 : f[j] \in S
    BY <1>5, Zenon DEF Row
  <2> QED BY <2>1, <2>2
<1>8. \A x \in S \cup T : \E j \in 0..(n + c) - 1 : f[j] = x
  BY <1>2, <1>3, <1>5, <1>6 DEF Row
<1>9. \A j, k \in 0..(n + c) - 1 : f[j] = f[k] => j = k
  <2>1. ASSUME NEW j \in 0..(n + c) - 1, NEW k \in 0..(n + c) - 1, f[j] = f[k]
        PROVE  j = k
    <3>1. CASE j \in 0..n - 1 /\ k \in 0..n - 1
      BY <1>5, <2>1, <3>1, Zenon DEF Row
    <3>2. CASE j - n \in 0..c - 1 /\ k - n \in 0..c - 1
      <4>1. g[j - n] = g[k - n]
        BY <1>2, <1>4, <2>1, <3>2
      <4>2. j - n = k - n
        BY <1>6, <3>2, <4>1, Zenon DEF Row
      <4> QED BY <4>2
    <3>3. ASSUME NEW a \in 0..n - 1, NEW b \in 0..c - 1, f[a] = f[n + b]
          PROVE  FALSE
      <4>1. f[a] \in S /\ g[b] \in T /\ g[b] = f[n + b]
        BY <1>2, <1>5, <1>6 DEF Row
      <4> QED BY <3>3, <4>1
    <3>4. \/ j \in 0..n - 1 /\ k \in 0..n - 1
          \/ j - n \in 0..c - 1 /\ k - n \in 0..c - 1
          \/ j \in 0..n - 1 /\ k - n \in 0..c - 1 /\ k = n + (k - n)
          \/ k \in 0..n - 1 /\ j - n \in 0..c - 1 /\ j = n + (j - n)
      BY <1>4
    <3> QED BY <2>1, <3>1, <3>2, <3>3, <3>4
  <2> QED BY <2>1, Zenon
<1>10. Row(f, n + c, S \cup T)
  BY <1>7, <1>8, <1>9, Zenon DEF Row
<1>11. n + c \in Nat
  OBVIOUS
<1> QED BY <1>1, <1>10, <1>11, OnRow, Zenon

(* What is being given back is lent, and on the used ring already.         *)
LEMMA CurOnUsed ==
    ASSUME IndInv, PlaceInv, pc = "flush"
    PROVE  /\ On(guest.used, guest.uidx, Len(cur), {cur[k] : k \in 1..Len(cur)})
           /\ {cur[k] : k \in 1..Len(cur)} \subseteq Lent
<1> DEFINE c == Len(cur)
           C == {cur[k] : k \in 1..c}
           u == guest.uidx
           L == Cardinality(Lent)
           f == [j \in 0..c - 1 |-> cur[j + 1]]
<1>0. /\ Types /\ InHand /\ InFlight /\ Sequential /\ Resumes /\ Running
      /\ u \in Int /\ c \in Nat /\ Kept \subseteq Lent
  BY Basics DEF IndInv, PlaceInv, Running, Recoverable
<1>1. (\A j \in 0..c - 1 : f[j] \in C) /\ (\A x \in C : \E j \in 0..c - 1 : f[j] = x)
  <2>1. \A k \in 1..c : k - 1 \in 0..c - 1 /\ cur[k] = f[k - 1]
    BY <1>0
  <2>2. \A j \in 0..c - 1 : j + 1 \in 1..c /\ f[j] = cur[j + 1]
    BY <1>0
  <2> HIDE DEF f, c
  <2> QED BY <2>1, <2>2
<1>2. CASE Has("INFLIGHT")
  <2>1. /\ c = 1 /\ cur[1] \in Kept
        /\ guest.used[u % Num] = cur[1]
    BY <1>0, <1>2 DEF InHand, InFlight, Shared, Putting
  <2>2. C = {cur[1]} /\ 0..1 - 1 = {0} /\ u + 0 = u
    BY <1>0, <2>1
  <2>3. On(guest.used, u, 1, {cur[1]})
    <3>1. \A j \in 0..1 - 1 : j = 0 /\ guest.used[(u + j) % Num] = cur[1]
      BY <2>1, <2>2
    <3>2. 0 \in 0..1 - 1 /\ 1 \in Nat
      OBVIOUS
    <3> QED BY <3>1, <3>2, Zenon DEF On
  <2> QED BY <1>0, <2>1, <2>2, <2>3
<1>3. CASE ~Has("INFLIGHT")
  <2>1. Kept = {}
    BY <1>3 DEF Kept
  <2>2. On(guest.ring, u, Cardinality(Lent), Lent)
    <3>1. Cardinality(Kept) = 0 /\ Lent \ Kept = Lent /\ u + 0 = u
      BY <1>0, <2>1, FS_EmptySet
    <3> QED BY <3>1 DEF PlaceInv, Recoverable
  <2>3. c \in 0..Cardinality(Lent) /\ Cardinality(Lent) \in Nat
    <3>1. Cardinality(Lent) \in Nat
      BY <1>0, Basics, Counts
    <3> QED BY <1>0, <1>3, <3>1, Basics DEF InHand, Resumes
  <2>4. \A k \in 1..c : cur[k] = guest.ring[(u + (k - 1)) % Num]
                        /\ cur[k] = guest.used[(u + (k - 1)) % Num]
    BY <1>0, <1>3 DEF Sequential
  <2>5. /\ \A j \in 0..c - 1 : guest.ring[(u + j) % Num] = f[j]
        /\ \A j \in 0..c - 1 : guest.used[(u + j) % Num] = f[j]
    <3>1. ASSUME NEW j \in 0..c - 1
          PROVE  guest.ring[(u + j) % Num] = f[j] /\ guest.used[(u + j) % Num] = f[j]
      <4>1. j + 1 \in 1..c /\ (j + 1) - 1 = j /\ f[j] = cur[j + 1]
        BY <1>0
      <4> QED BY <2>4, <4>1, Zenon
    <3> QED BY <3>1, Zenon
  <2> HIDE DEF f, c, C, u, L
  <2>6. 0..c - 1 \subseteq 0..L - 1
    BY <2>3 DEF L
  <2>a. On(guest.ring, u, L, Lent)
    BY <2>2 DEF L
  <2>b. \A j \in 0..c - 1 : f[j] \in Lent
    BY <2>5, <2>6, <2>a, Zenon DEF On
  <2>c. ASSUME NEW j \in 0..c - 1, NEW k \in 0..c - 1, f[j] = f[k]
        PROVE  j = k
    <3>1. guest.ring[(u + j) % Num] = guest.ring[(u + k) % Num] /\ j \in 0..L - 1 /\ k \in 0..L - 1
      BY <2>5, <2>6, <2>c
    <3> QED BY <2>a, <3>1, Zenon DEF On
  <2>7. Row(f, c, C)
    BY <1>1, <2>c, Zenon DEF Row
  <2>8. On(guest.used, u, c, C)
    BY <1>0, <2>5, <2>7, OnRow, Zenon
  <2>9. C \subseteq Lent
    BY <1>1, <2>b
  <2> QED BY <2>8, <2>9 DEF u, c, C
<1> QED BY <1>2, <1>3

LEMMA FlushCompleted ==
    ASSUME IndInv, PlaceInv, Flush
    PROVE  Completed'
<1> DEFINE c == Len(cur)
           C == {cur[k] : k \in 1..c}
           u == guest.uidx
           s == driver.seen
           D == Cardinality(Done)
<1>0. /\ Types /\ u \in Int /\ s \in Int /\ c \in Nat /\ Done \in SUBSET Heads
      /\ D \in Nat /\ Lent \in SUBSET Heads
  BY Basics, Counts DEF IndInv
<1>1. /\ driver.free \cap Lent = {} /\ u = Mod(s + D)
      /\ On(guest.used, s, D, Done)
  BY Zenon DEF PlaceInv, Completed
<1>2. /\ Lent' = Lent \ C /\ guest'.uidx = Mod(u + c)
      /\ guest'.used = guest.used /\ driver' = driver /\ pc = "flush"
  BY FlushLent
<1>3. On(guest.used, u, c, C) /\ C \subseteq Lent
  BY <1>2, CurOnUsed
<1>4. Done' = Done \cup C /\ Done \cap C = {} /\ Done' \in SUBSET Heads
  BY <1>0, <1>1, <1>2, <1>3 DEF Done
<1> HIDE DEF c, C, u, s, D
<1>5. On(guest.used, s + D, c, C)
  <2>1. s + D \in Int /\ 0 \in Int /\ Mod(s + D) + 0 = u /\ (s + D) + 0 = s + D
    BY <1>0, <1>1
  <2>2. On(guest.used, Mod(s + D) + 0, c, C) <=> On(guest.used, (s + D) + 0, c, C)
    BY <1>0, <2>1, OnMod, Zenon
  <2> QED BY <1>3, <2>1, <2>2, Zenon
<1>6. On(guest.used, s, D + c, Done')
  BY <1>0, <1>1, <1>4, <1>5, OnConcat, Zenon
<1>7. Cardinality(Done') = D + c
  BY <1>0, <1>4, <1>6, OnSize, Zenon
<1>8. guest'.uidx = Mod(s + (D + c))
  <2>1. s + D \in Int /\ c \in Int /\ (s + D) + c = s + (D + c)
    BY <1>0
  <2>2. Mod(Mod(s + D) + c) = Mod((s + D) + c)
    BY <2>1, ModSum, Zenon
  <2> QED BY <1>1, <1>2, <2>1, <2>2, Zenon
<1>9. driver'.free \cap Lent' = {}
  BY <1>1, <1>2
<1> QED BY <1>2, <1>6, <1>7, <1>8, <1>9, Zenon DEF Completed, s

LEMMA CollectCompleted ==
    ASSUME IndInv, PlaceInv, Collect
    PROVE  Completed'
<1> DEFINE s == driver.seen
           D == Cardinality(Done)
           h == guest.used[s % Num]
<1>0. /\ Types /\ guest.uidx \in Int /\ s \in Int /\ s \in Idx /\ Done \in SUBSET Heads
      /\ D \in Nat /\ Lent \in SUBSET Heads /\ driver.free \in SUBSET Heads
  BY Basics, Counts DEF IndInv
<1>1. /\ driver.free \cap Lent = {} /\ guest.uidx = Mod(s + D)
      /\ On(guest.used, s, D, Done)
  BY Zenon DEF PlaceInv, Completed
<1>2. /\ driver' = [driver EXCEPT !.free = @ \cup {h}, !.seen = Mod(@ + 1)]
      /\ guest' = guest /\ given' = given /\ s # guest.uidx
  BY Zenon DEF Collect
<1>3. driver'.free = driver.free \cup {h} /\ driver'.seen = Mod(s + 1) /\ Lent' = Lent
  BY <1>0, <1>2, Basics DEF Lent
<1>4. D \in Nat \ {0}
  <2>1. CASE D = 0
    <3>1. Mod(s) = s
      BY <1>0, ModSmall, Sizes, Zenon DEF Mod, Idx
    <3> QED BY <1>0, <1>1, <1>2, <2>1, <3>1
  <2> QED BY <1>0, <2>1
<1> HIDE DEF s, D, h
<1>5. h \in Done /\ On(guest.used, s + 1, D - 1, Done \ {h})
  BY <1>0, <1>1, <1>4, OnFirst, Zenon DEF h
<1>6. Done' = Done \ {h} /\ driver'.free \cap Lent' = {}
  BY <1>1, <1>3, <1>5 DEF Done
<1>7. Cardinality(Done') = D - 1 /\ D - 1 \in Nat
  <2>1. h \in Heads
    BY <1>0, <1>5
  <2> QED BY <1>0, <1>4, <1>5, <1>6, <2>1, Counts DEF D
<1>8. guest'.uidx = Mod(driver'.seen + Cardinality(Done'))
  <2>1. s + 1 \in Int /\ D - 1 \in Int /\ (s + 1) + (D - 1) = s + D
    BY <1>0, <1>4
  <2>2. Mod(Mod(s + 1) + (D - 1)) = Mod((s + 1) + (D - 1))
    BY <2>1, ModSum, Zenon
  <2> QED BY <1>1, <1>2, <1>3, <1>7, <2>1, <2>2, Zenon
<1>9. On(guest'.used, driver'.seen, Cardinality(Done'), Done')
  <2>1. s + 1 \in Int /\ 0 \in Int /\ (s + 1) + 0 = s + 1 /\ Mod(s + 1) + 0 = Mod(s + 1)
    <3>1. s + 1 \in Int
      BY <1>0
    <3>2. Mod(s + 1) \in Int
      BY <3>1, ModInt
    <3> QED BY <1>0, <3>1, <3>2
  <2>2. On(guest.used, Mod(s + 1) + 0, D - 1, Done') <=> On(guest.used, (s + 1) + 0, D - 1, Done')
    BY <1>7, <2>1, OnMod, Zenon
  <2> QED BY <1>2, <1>3, <1>5, <1>6, <1>7, <2>1, <2>2, Zenon
<1> QED BY <1>6, <1>8, <1>9, Zenon DEF Completed

LEMMA FillPlace ==
    ASSUME IndInv, PlaceInv, NEW k \in 1..Num, Fill(k)
    PROVE  /\ pc \in {"run", "wait", "flush"} /\ k \in 1..Len(held)
           /\ held[k] \in Elements /\ held[k].head \in Heads
           /\ Len(cur) + Len(held) <= vq.inuse /\ vq.inuse <= Cardinality(Lent)
           /\ Has("INFLIGHT") => cur = << >> /\ pc \in {"run", "wait"}
           /\ Len(cur) < Num
           /\ guest'.used = [guest.used EXCEPT
                                ![(guest.uidx + Len(cur)) % Num] = held[k].head]
<1>0. /\ Types /\ InHand /\ InFlight /\ Resumes /\ vq.used = guest.uidx /\ Running
      /\ pc \in {"run", "wait", "flush"} /\ k \in 1..Len(held)
      /\ (Has("INFLIGHT") => pc \in {"run", "wait"})
  BY DEF IndInv, PlaceInv, CallInv, Fill, Running
<1>1. held[k] \in Elements /\ held[k].head \in Heads
  <2>1. held[k] \in Elements
    BY <1>0, Basics, ElementOfSeq, Zenon
  <2> QED BY <2>1 DEF Elements
<1>2. /\ Len(cur) \in Nat /\ Len(held) \in Nat /\ Len(vq.resubmit) \in Nat
      /\ vq.inuse \in Int /\ guest.uidx \in Int /\ Cardinality(Lent) \in Nat
      /\ Cardinality(Lent) <= Num
  BY <1>0, Basics, Counts
<1>3. vq.inuse <= Cardinality(Lent)
  BY <1>0, <1>2 DEF Resumes
<1>4. Has("INFLIGHT") => cur = << >>
  BY <1>0 DEF InHand
<1>5. Len(cur) + Len(held) <= vq.inuse
  <2>1. CASE Has("INFLIGHT")
    <3>1. vq.inuse = Len(held) + Len(vq.resubmit) + Len(Unused)
      BY <1>0, <2>1 DEF InFlight
    <3>2. Unused = << >> /\ Len(cur) = 0 /\ Len(<< >>) = 0
      BY <1>0, <1>4, <2>1 DEF Unused
    <3> QED BY <1>2, <3>1, <3>2
  <2>2. CASE ~Has("INFLIGHT")
    BY <1>0, <1>2, <2>2 DEF InHand
  <2> QED BY <2>1, <2>2
<1>6. guest'.used = [guest.used EXCEPT ![(guest.uidx + Len(cur)) % Num] = held[k].head]
  <2>1. guest' = [guest EXCEPT !.used[Mod(vq.used + Len(cur)) % Num] = held[k].head]
    BY Zenon DEF Fill
  <2>2. guest'.used = [guest.used EXCEPT ![Mod(vq.used + Len(cur)) % Num] = held[k].head]
    BY <1>0, <2>1, Basics DEF Guests
  <2>3. guest.uidx + Len(cur) \in Int
    BY <1>2
  <2>4. Mod(guest.uidx + Len(cur)) % Num = (guest.uidx + Len(cur)) % Num
    BY <2>3, SameSlot, Zenon
  <2> QED BY <1>0, <2>2, <2>4, Zenon
<1>7. Len(cur) < Num
  BY <1>0, <1>2, <1>3, <1>5, Sizes
<1> QED BY <1>0, <1>1, <1>3, <1>4, <1>5, <1>6, <1>7

LEMMA FillCompleted ==
    ASSUME IndInv, PlaceInv, NEW k \in 1..Num, Fill(k)
    PROVE  Completed'
<1> DEFINE c == Len(cur)
           u == guest.uidx
           s == driver.seen
           D == Cardinality(Done)
           h == held[k].head
<1>0. /\ Types /\ u \in Int /\ s \in Int /\ c \in Nat /\ guest.used \in [Heads -> Heads]
      /\ D \in Nat /\ D + Cardinality(Lent) <= Num /\ Cardinality(Lent) \in Nat
      /\ Len(held) \in Nat /\ vq.inuse \in Int
  <2>1. /\ Types /\ u \in Int /\ s \in Int /\ c \in Nat /\ guest.used \in [Heads -> Heads]
        /\ Len(held) \in Nat /\ vq.inuse \in Int
    BY Basics DEF IndInv
  <2>2. /\ Cardinality(Lent) \in Nat /\ Cardinality(Done) \in Nat
        /\ Cardinality(Lent) + Cardinality(Done) <= Num
    BY Room
  <2>3. D + Cardinality(Lent) <= Num
    BY <2>2, Sizes
  <2> QED BY <2>1, <2>2, <2>3
<1>1. /\ driver.free \cap Lent = {} /\ u = Mod(s + D)
      /\ On(guest.used, s, D, Done)
  BY Zenon DEF PlaceInv, Completed
<1>2. /\ given' = given /\ driver' = driver /\ guest'.uidx = guest.uidx
  <2>1. given' = given /\ driver' = driver
    BY DEF Fill, outside
  <2>2. [Next]_vars /\ ~Flush
    <3>1. [Next]_vars
      BY DEF Next, Backend
    <3>2. k \in 1..Len(held) /\ held' = RemoveAt(held, k) /\ held \in Seq(Elements)
      BY <1>0, Basics DEF Fill
    <3>3. Len(held') = Len(held) - 1
      BY <3>2, RemoveOne, Zenon
    <3>4. held' # held
      BY <1>0, <3>3
    <3> QED BY <3>1, <3>4 DEF Flush
  <2>3. guest'.uidx = guest.uidx
    BY <1>0, <2>2, Moves
  <2> QED BY <2>1, <2>3
<1>3. /\ k \in 1..Len(held) /\ c + Len(held) <= vq.inuse /\ vq.inuse <= Cardinality(Lent)
      /\ guest'.used = [guest.used EXCEPT ![(u + c) % Num] = h]
  BY FillPlace, Zenon
<1>4. Lent' = Lent /\ Done' = Done
  BY <1>2 DEF Lent, Done
<1> HIDE DEF c, u, s, D, h
<1>5. D + c \in D..Num - 1
  BY <1>0, <1>3, Sizes
<1>6. (u + c) % Num = (s + (D + c)) % Num
  <2>1. s + D \in Int /\ c \in Int /\ (s + D) + c = s + (D + c)
    BY <1>0
  <2>2. (Mod(s + D) + c) % Num = ((s + D) + c) % Num
    BY <2>1, SlotOfMod, Zenon
  <2> QED BY <1>1, <2>1, <2>2, Zenon
<1>7. On([guest.used EXCEPT ![(s + (D + c)) % Num] = h], s, D, Done)
  BY <1>0, <1>1, <1>5, OnWrite, Zenon
<1>8. On(guest'.used, s, D, Done)
  BY <1>3, <1>6, <1>7, Zenon
<1> QED BY <1>1, <1>2, <1>4, <1>8, Zenon DEF Completed, s, D, u

LEMMA CompletedStep ==
    ASSUME IndInv, PlaceInv, [Next]_vars
    PROVE  Completed'
<1>0. Completed /\ Types
  BY DEF PlaceInv, IndInv
<1>1. CASE Offer
  <2>1. /\ Min(driver.free) \in driver.free /\ Lent' = Lent \cup {Min(driver.free)}
        /\ Min(driver.free) \notin Lent /\ driver'.free = driver.free \ {Min(driver.free)}
        /\ driver'.seen = driver.seen /\ guest'.used = guest.used /\ guest'.uidx = guest.uidx
    BY <1>1, OfferLent
  <2>2. Done' = Done /\ driver'.free \cap Lent' = {}
    BY <1>0, <2>1 DEF Completed, Done
  <2> QED BY <1>0, <2>1, <2>2, Zenon DEF Completed
<1>2. CASE Flush
  BY <1>2, FlushCompleted
<1>3. CASE Collect
  BY <1>3, CollectCompleted
<1>4. ASSUME NEW k \in 1..Num, Fill(k)
      PROVE  Completed'
  BY <1>4, FillCompleted
<1>5. CASE ~Offer /\ ~Flush /\ ~Collect /\ ~(\E k \in 1..Num : Fill(k))
  <2>1. given' = given /\ guest'.used = guest.used /\ guest'.uidx = guest.uidx
        /\ driver'.free = driver.free /\ driver'.seen = driver.seen
    BY <1>0, <1>5, Moves
  <2>2. Lent' = Lent
    BY <2>1 DEF Lent
  <2>3. Done' = Done
    BY <2>1, <2>2 DEF Done
  <2> QED BY <1>0, <2>1, <2>2, <2>3, Zenon DEF Completed
<1> QED BY <1>1, <1>2, <1>3, <1>4, <1>5

-----------------------------------------------------------------------------
(***************************************************************************)
(* Starting, stopping and recovering                                       *)
(***************************************************************************)
LEMMA AreaStep ==
    ASSUME IndInv, PlaceInv, [Next]_vars
    PROVE  AreaInv'
<1>0. /\ Types /\ InHand /\ AreaInv /\ InFlight /\ KickInv /\ CallInv /\ area \in Areas
      /\ features' = features
  BY Basics, Moves DEF IndInv, PlaceInv
<1>1. ASSUME area' = area, ~Flush
      PROVE  /\ Marked' = Marked /\ guest'.uidx = guest.uidx
             /\ pc' = "repair" => pc = "repair" \/ RepairMark
  <2>1. Marked' = Marked /\ guest'.uidx = guest.uidx
    BY <1>0, <1>1, Moves DEF Marked
  <2>2. pc' = "repair" => pc = "repair" \/ RepairMark
    <3>1. CASE Driver \/ UNCHANGED vars
      BY <3>1 DEF Driver, Offer, Decide, Collect, Arm, Nap, Interrupt, vars
    <3>2. CASE Start \/ CheckFresh \/ RepairMark \/ RepairIndex \/ Check \/ Wake \/ Stop \/ Crash
      BY <3>2 DEF Start, CheckFresh, RepairIndex, Check, Wake, Stop, Crash
    <3>3. CASE PopResubmitted \/ PopNothing \/ PopHead \/ GetCounter \/ GetMark
      BY <3>3 DEF PopResubmitted, PopNothing, PopHead, GetCounter, GetMark
    <3>4. CASE Disable \/ Enable \/ Recheck \/ (\E k \in 1..Num : Fill(k) \/ Rewind(k))
      BY <3>4 DEF Disable, Enable, Recheck, Fill, Rewind
    <3>5. CASE PrePut \/ PostClear \/ PostIndex \/ Notify
      BY <1>0, <3>5 DEF PrePut, PostClear, PostIndex, Notify, Types
    <3> QED BY <1>1, <3>1, <3>2, <3>3, <3>4, <3>5 DEF Next, Backend
  <2> QED BY <2>1, <2>2
<1>2. CASE area' = area /\ ~Flush
  <2>1. CASE RepairMark
    <3>1. area.last \in Heads
      BY <1>0 DEF Areas
    <3>2. PICK h \in Heads : h = area.last /\ area' = [area EXCEPT !.desc[h].inflight = FALSE]
      BY <2>1, <3>1 DEF RepairMark
    <3>3. Marked' = Marked \ {h} /\ area'.last = area.last
      BY <1>0, <3>2, MarkedAfter
    <3>4. ~area'.desc[area'.last].inflight
      BY <3>2, <3>3 DEF Marked
    <3> QED BY <1>0, <1>1, <1>2, <3>4 DEF AreaInv, Has
  <2> QED BY <1>0, <1>1, <1>2, <2>1 DEF AreaInv, Has
<1>3. CASE RepairMark
  <2>1. area.last \in Heads /\ area.version = 1 /\ pc' = "repair"
    BY <1>0, <1>3 DEF Areas, RepairMark
  <2>2. PICK h \in Heads : h = area.last /\ area' = [area EXCEPT !.desc[h].inflight = FALSE]
    BY <1>3, <2>1 DEF RepairMark
  <2>3. Marked' = Marked \ {h} /\ area'.last = area.last /\ area'.version = area.version
    BY <1>0, <2>2, MarkedAfter
  <2>4. ~area'.desc[area'.last].inflight
    BY <2>2, <2>3 DEF Marked
  <2> QED BY <2>1, <2>3, <2>4 DEF AreaInv
<1>4. CASE CheckFresh
  <2>1. pc' = "wait" /\ (Has("INFLIGHT") => area'.version = 1)
    BY <1>0, <1>4 DEF CheckFresh, Areas
  <2> QED BY <1>0, <2>1 DEF AreaInv, Has
<1>5. CASE RepairIndex \/ GetCounter \/ GetMark \/ PrePut \/ PostClear \/ PostIndex
  <2>1. area.version = 1
    <3>1. CASE RepairIndex
      BY <1>0, <3>1 DEF RepairIndex, KickInv, Areas
    <3>2. CASE GetCounter \/ GetMark \/ PrePut \/ PostClear \/ PostIndex
      BY <1>0, <3>2 DEF GetCounter, GetMark, PrePut, PostClear, PostIndex, InHand, InFlight, Running
    <3> QED BY <1>5, <3>1, <3>2
  <2>2. area'.version = 1
    BY <1>0, <1>5, <2>1 DEF RepairIndex, GetCounter, GetMark, PrePut, PostClear, PostIndex, Areas
  <2>3. pc' # "repair"
    BY <1>0, <1>5 DEF RepairIndex, GetCounter, GetMark, PrePut, PostClear, PostIndex, Types
  <2> QED BY <2>2, <2>3 DEF AreaInv
<1>6. CASE Flush
  <2>1. pc = "flush" /\ area' = area /\ pc' # "repair"
    BY <1>0, <1>6 DEF Flush, Types
  <2>2. Has("INFLIGHT") => area'.version = 1
    BY <1>0, <2>1 DEF InFlight, Running
  <2> QED BY <1>0, <2>1, <2>2 DEF AreaInv, Has
<1> QED BY <1>2, <1>3, <1>4, <1>5, <1>6, Moves DEF IndInv

(* What is to be popped again after a new process has started.             *)
LEMMA CheckPlace ==
    ASSUME IndInv, PlaceInv, Check
    PROVE  /\ vq'.inuse = Cardinality(Kept) /\ vq'.last = Mod(guest.uidx + Cardinality(Kept))
           /\ vq'.shadow = vq'.last
           /\ Lists(vq'.resubmit, Len(vq'.resubmit), Kept)
           /\ Len(vq'.resubmit) = Cardinality(Kept)
           /\ Has("INFLIGHT") /\ area.version = 1 /\ area.used = guest.uidx
           /\ held = << >> /\ cur = << >> /\ pc' = "wait"
<1> DEFINE marked == {h \in Heads : area.desc[h].inflight}
           n == vq.inuse + Cardinality(marked)
<1>0. /\ Types /\ IdleInv /\ CallInv /\ InHand
      /\ pc = "check" /\ Has("INFLIGHT") /\ area.version = 1 /\ area.used = vq.used
      /\ vq' \in CheckQueueInflights(vq) /\ UNCHANGED <<area, held, cur, features>>
      /\ pc' = "wait"
  BY DEF IndInv, PlaceInv, Check
<1>1. /\ vq.used = guest.uidx /\ vq.inuse = 0 /\ held = << >> /\ cur = << >>
      /\ guest.uidx \in Int /\ vq \in Queues
  BY <1>0, Basics DEF CallInv, IdleInv, Running, InHand
<1>2. Kept = marked /\ marked \in SUBSET Heads
  BY <1>0, <1>1 DEF Kept, Marked
<1>3. PICK s \in Resubmits(marked, area.desc) :
         vq' = [vq EXCEPT !.inuse = n, !.last = Mod(n + vq.used), !.shadow = Mod(n + vq.used),
                          !.resubmit = s,
                          !.counter = IF s = << >> THEN 0 ELSE area.desc[s[1]].counter + 1]
  BY <1>0, Zenon DEF CheckQueueInflights
<1> HIDE DEF marked, n
<1>4. vq'.inuse = n /\ vq'.last = Mod(n + vq.used) /\ vq'.shadow = vq'.last /\ vq'.resubmit = s
  BY <1>1, <1>3 DEF Queues
<1>5. Cardinality(marked) \in Nat /\ IsFiniteSet(marked)
  BY <1>2, Counts, FewHeads
<1>6. n = Cardinality(Kept) /\ n + vq.used = guest.uidx + Cardinality(Kept)
  BY <1>1, <1>2, <1>5 DEF n
<1>7. s \in SetToSeqs(marked)
  BY <1>3, Zenon DEF Resubmits
<1>8. Lists(s, Cardinality(marked), marked)
  BY <1>5, <1>7, ListsOfSet, Zenon
<1>9. Len(s) = Cardinality(marked)
  <2>1. s \in [1..Cardinality(marked) -> marked]
    BY <1>7, Zenon DEF SetToSeqs
  <2>2. s \in Seq(Heads)
    BY <1>0, <1>4, CheckTypes DEF Queues
  <2>3. DOMAIN s = 1..Len(s) /\ Len(s) \in Nat
    BY <2>2
  <2>4. 1..Len(s) = 1..Cardinality(marked)
    BY <2>1, <2>3
  <2> QED BY <1>5, <2>3, <2>4
<1> QED BY <1>0, <1>1, <1>2, <1>4, <1>6, <1>8, <1>9

LEMMA IdleStep ==
    ASSUME IndInv, PlaceInv, [Next]_vars, ~StopBusy
    PROVE  IdleInv'
<1>0. /\ Types /\ InHand /\ IdleInv /\ InFlight /\ vq \in Queues /\ guest \in Guests
      /\ Len(held) \in Nat /\ Len(vq.resubmit) \in Nat /\ vq.resubmit \in Seq(Heads)
  BY Basics DEF IndInv, PlaceInv
<1>1. CASE Start
  <2>1. /\ held' = held /\ vq'.inuse = vq.inuse /\ vq'.resubmit = vq.resubmit
        /\ ~Running /\ vq'.shadow = vq'.last /\ features' = features /\ guest' = guest
        /\ ~Has("INFLIGHT") => vq'.last = guest.uidx
    BY <1>0, <1>1 DEF Start, Running, Queues
  <2> QED BY <1>0, <2>1 DEF IdleInv, Has
<1>2. CASE RepairMark \/ RepairIndex
  <2>1. /\ held' = held /\ vq' = vq /\ ~Running /\ pc \in {"check", "repair"}
        /\ guest' = guest /\ features' = features
        /\ (pc' = "check" => pc = "repair")
    BY <1>2 DEF RepairMark, RepairIndex, Running, outside
  <2>2. pc' = "check" => Has("INFLIGHT")
    BY <1>2, <2>1 DEF IndInv, KickInv
  <2> QED BY <1>0, <2>1, <2>2 DEF IdleInv, Has
<1>3. CASE Stop
  <2>1. pc = "wait" /\ vq.inuse = 0 /\ held' = << >> /\ vq' = vq /\ pc' = "stopped"
    BY <1>3 DEF Stop
  <2>2. vq.resubmit = << >>
    <3>1. CASE Has("INFLIGHT")
      <4>1. 0 = Len(held) + Len(vq.resubmit) + Len(Unused) /\ Unused = << >>
        BY <1>0, <2>1, <3>1 DEF InFlight, Running, Unused
      <4>2. Len(vq.resubmit) = 0
        <5>1. Len(Unused) = 0
          BY <4>1, EmptySeq
        <5> QED BY <1>0, <4>1, <5>1
      <4> QED BY <1>0, <4>2
    <3>2. CASE ~Has("INFLIGHT")
      BY <1>0, <3>2 DEF InHand
    <3> QED BY <3>1, <3>2
  <2> QED BY <2>1, <2>2 DEF IdleInv
<1>4. CASE Crash
  <2>1. vq'.inuse = 0 /\ vq'.resubmit = << >> /\ held' = << >> /\ pc' = "down"
    BY <1>4 DEF Crash, NewVq
  <2> QED BY <2>1 DEF IdleInv
<1>5. CASE Offer
  <2>1. UNCHANGED <<vq, held, pc, features>> /\ guest'.uidx = guest.uidx
    BY <1>0, <1>5 DEF Offer, Guests
  <2> QED BY <1>0, <2>1 DEF IdleInv, Running, Has
<1>6. CASE \/ Wake \/ PopNothing \/ Disable \/ Enable \/ Recheck \/ Notify
           \/ Decide \/ Collect \/ Arm \/ Nap \/ Interrupt \/ UNCHANGED vars
  <2>1. /\ UNCHANGED <<features, held>>
        /\ vq'.inuse = vq.inuse /\ vq'.resubmit = vq.resubmit
        /\ pc' = pc \/ {pc, pc'} \subseteq Calm
        /\ pc \in {"check", "repair"} => vq' = vq
    BY <1>0, <1>6, CalmSteps
  <2>2. guest'.uidx = guest.uidx
    <3>1. pc = "flush" => ~Flush
      <4>1. CASE UNCHANGED vars
        BY <4>1, <1>0 DEF Flush, vars, outside, Types
      <4>2. CASE Wake \/ PopNothing \/ Disable \/ Enable \/ Recheck \/ Notify
        BY <4>2 DEF Wake, PopNothing, Disable, Enable, Recheck, Notify
      <4>3. CASE Decide \/ Collect \/ Arm \/ Nap \/ Interrupt
        BY <1>0, <4>3 DEF Decide, Collect, Arm, Nap, Interrupt, Flush, Types
      <4> QED BY <1>6, <4>1, <4>2, <4>3
    <3> QED BY <1>0, <3>1, Moves DEF Flush
  <2> QED BY <1>0, <2>1, <2>2 DEF IdleInv, Running, Has, Calm
<1>7. CASE \/ CheckFresh \/ Check \/ PopResubmitted \/ PopHead \/ GetCounter \/ GetMark
           \/ PrePut \/ Flush \/ PostClear \/ PostIndex
           \/ \E k \in 1..Num : Fill(k) \/ Rewind(k)
  <2>1. Running'
    <3>1. CASE CheckFresh \/ Check \/ PopResubmitted \/ PopHead \/ GetCounter \/ GetMark
      BY <1>0, <3>1 DEF CheckFresh, Check, PopResubmitted, PopHead, GetCounter, GetMark, Running
    <3>2. CASE PrePut \/ Flush \/ PostClear \/ PostIndex
      BY <1>0, <3>2 DEF PrePut, Flush, PostClear, PostIndex, Running, Types
    <3>3. CASE \E k \in 1..Num : Fill(k) \/ Rewind(k)
      BY <1>0, <3>3 DEF Fill, Rewind, Running
    <3> QED BY <1>7, <3>1, <3>2, <3>3
  <2> QED BY <2>1 DEF IdleInv
<1> QED BY <1>1, <1>2, <1>3, <1>4, <1>5, <1>6, <1>7 DEF Next, Driver, Backend

-----------------------------------------------------------------------------
(***************************************************************************)
(* Where the queue goes on                                                 *)
(***************************************************************************)
(* There is a buffer to pop when the ring is not empty, and it is the one  *)
(* after those in use: vu_queue_pop does not take the queue for overfull.  *)
LEMMA PopPlace ==
    ASSUME IndInv, PlaceInv, PopHead
    PROVE  /\ pc = "run" /\ pc' # "panicked" /\ cur = << >> /\ vq.resubmit = << >>
           /\ vq.inuse < Cardinality(Lent)
           /\ vq'.inuse = vq.inuse + 1 /\ vq'.resubmit = vq.resubmit
           /\ vq'.last = Mod(guest.uidx + (vq.inuse + 1))
           /\ \E e \in vq.inuse + 1..Cardinality(Lent) : vq'.shadow = Mod(guest.uidx + e)
           /\ \E h \in Heads :
                 /\ h = guest.ring[(guest.uidx + vq.inuse) % Num]
                 /\ Has("INFLIGHT") => pc' = "counter" /\ cur' = <<h>> /\ held' = held
                 /\ ~Has("INFLIGHT") =>
                       /\ pc' = pc /\ cur' = cur
                       /\ held' = Append(held, [head |-> h, fetched |-> TRUE])
<1> DEFINE u == guest.uidx
           n == vq.inuse
           L == Cardinality(Lent)
           h == guest.ring[vq.last % Num]
<1>0. /\ Types /\ InHand /\ Resumes /\ pc = "run" /\ Running /\ vq.resubmit = << >>
      /\ ShadowAfter(vq) # vq.last /\ cur = << >>
  BY DEF IndInv, PlaceInv, PopHead, Running, Empty, InHand
<1>1. /\ u \in Int /\ n \in Int /\ L \in Nat /\ L <= Num /\ Num \in Nat
      /\ guest.idx = Mod(u + L) /\ guest.ring \in [Heads -> Heads] /\ vq.last \in Int
      /\ vq \in Queues
  BY <1>0, Basics, Counts, Room, Sizes
<1>2. vq.last = Mod(u + n)
  BY <1>0 DEF Resumes
<1>3. PICK e \in n..L : vq.shadow = Mod(u + e)
  BY <1>0 DEF Resumes
<1> HIDE DEF u, n, L
<1>4. PICK d \in n..L : d # n /\ ShadowAfter(vq) = Mod(u + d)
  <2>1. CASE vq.shadow # vq.last
    BY <1>2, <1>3, <2>1 DEF ShadowAfter
  <2>2. CASE vq.shadow = vq.last
    <3>1. ShadowAfter(vq) = guest.idx /\ L \in n..L
      BY <1>1, <1>3, <2>2 DEF ShadowAfter
    <3> QED BY <1>0, <1>1, <1>2, <3>1
  <2> QED BY <2>1, <2>2
<1>5. n < L /\ ~(n >= Num) /\ d \in n + 1..L
  BY <1>1, <1>4
<1> DEFINE w == [vq EXCEPT !.shadow = ShadowAfter(vq), !.last = Mod(vq.last + 1),
                           !.inuse = n + 1]
<1>6. vq' = w
  BY <1>5, Zenon DEF PopHead, n
<1>7. /\ vq'.inuse = n + 1 /\ vq'.resubmit = vq.resubmit /\ vq'.shadow = Mod(u + d)
      /\ vq'.last = Mod(vq.last + 1)
  BY <1>1, <1>4, <1>6 DEF Queues
<1>8. vq'.last = Mod(u + (n + 1))
  <2>1. u + n \in Int /\ 1 \in Int /\ (u + n) + 1 = u + (n + 1)
    BY <1>1
  <2>2. Mod(Mod(u + n) + 1) = Mod((u + n) + 1)
    BY <2>1, ModSum, Zenon
  <2> QED BY <1>2, <1>7, <2>1, <2>2, Zenon
<1>9. h = guest.ring[(u + n) % Num] /\ h \in Heads
  <2>1. u + n \in Int
    BY <1>1
  <2>2. Mod(u + n) % Num = (u + n) % Num
    BY <2>1, SameSlot, Zenon
  <2>3. (u + n) % Num \in Heads
    BY <2>1, SlotIn
  <2> QED BY <1>1, <1>2, <2>2, <2>3
<1>10. /\ Has("INFLIGHT") => pc' = "counter" /\ cur' = <<h>> /\ held' = held
       /\ ~Has("INFLIGHT") => /\ pc' = pc /\ cur' = cur
                              /\ held' = Append(held, [head |-> h, fetched |-> TRUE])
  BY <1>5, Zenon DEF PopHead, n
<1>11. pc' # "panicked"
  BY <1>0, <1>10
<1> HIDE DEF h
<1> QED BY <1>0, <1>5, <1>7, <1>8, <1>9, <1>10, <1>11 DEF u, n, L

(* Steps that take no buffer from the ring and give none back.             *)
LEMMA Quiet ==
    ASSUME IndInv, [Next]_vars, ~Flush, ~Offer
    PROVE  /\ UNCHANGED <<features, given, Lent>>
           /\ guest'.uidx = guest.uidx /\ guest'.idx = guest.idx /\ guest'.ring = guest.ring
<1>1. /\ UNCHANGED <<features, given>>
      /\ guest'.uidx = guest.uidx /\ guest'.idx = guest.idx /\ guest'.ring = guest.ring
  BY Moves DEF IndInv
<1> QED BY <1>1 DEF Lent

LEMMA FlushPlace ==
    ASSUME IndInv, PlaceInv, Flush
    PROVE  /\ vq'.inuse = vq.inuse - Len(cur) /\ vq'.last = vq.last
           /\ vq'.shadow = vq.shadow /\ vq'.resubmit = vq.resubmit
           /\ Cardinality(Lent') = Cardinality(Lent) - Len(cur)
           /\ held' = held
           /\ pc' = IF Has("INFLIGHT") THEN "clear" ELSE back
           /\ cur' = IF Has("INFLIGHT") THEN cur ELSE << >>
<1> DEFINE C == {cur[k] : k \in 1..Len(cur)}
           new == Mod(vq.used + Len(cur))
           v == [vq EXCEPT !.used = new, !.inuse = vq.inuse - Len(cur)]
<1>0. /\ Types /\ pc = "flush" /\ Lent \in SUBSET Heads /\ Len(cur) \in Nat
      /\ guest.uidx \in Int /\ vq \in Queues
  BY Basics DEF IndInv, Flush
<1>1. vq' = Signalled(v, new, Len(cur))
  BY Zenon DEF Flush
<1>2. vq' = v \/ vq' = [v EXCEPT !.valid = FALSE]
  BY <1>1, Zenon DEF Signalled
<1>3. /\ vq'.inuse = vq.inuse - Len(cur) /\ vq'.last = vq.last
      /\ vq'.shadow = vq.shadow /\ vq'.resubmit = vq.resubmit
  BY <1>0, <1>2 DEF Queues
<1>4. Lent' = Lent \ C
  BY FlushLent
<1>5. On(guest.used, guest.uidx, Len(cur), C) /\ C \subseteq Lent
  BY <1>0, CurOnUsed
<1> HIDE DEF C
<1>6. C \in SUBSET Heads
  BY <1>0, <1>5
<1>7. Cardinality(C) = Len(cur)
  BY <1>0, <1>5, <1>6, OnSize, Zenon
<1>8. Cardinality(Lent') = Cardinality(Lent) - Len(cur)
  BY <1>0, <1>4, <1>5, <1>6, <1>7, Counts
<1>9. /\ held' = held
      /\ pc' = IF Has("INFLIGHT") THEN "clear" ELSE back
      /\ cur' = IF Has("INFLIGHT") THEN cur ELSE << >>
  BY DEF Flush
<1> QED BY <1>3, <1>8, <1>9

LEMMA RewindPlace ==
    ASSUME IndInv, PlaceInv, NEW n \in 1..Num, Rewind(n)
    PROVE  /\ pc = "run" /\ pc' = pc /\ cur = << >> /\ cur' = cur /\ n <= Len(held)
           /\ vq'.inuse = vq.inuse - n /\ vq'.last = Mod(vq.last - n)
           /\ vq'.shadow = vq.shadow /\ vq'.resubmit = vq.resubmit
           /\ held' = SubSeq(held, 1, Len(held) - n)
           /\ Has("INFLIGHT") => RewindMarked
<1>0. Types /\ InHand /\ vq \in Queues
  BY Basics DEF IndInv
<1>1. vq' = [vq EXCEPT !.last = Mod(vq.last - n), !.inuse = vq.inuse - n]
  BY Zenon DEF Rewind
<1>2. /\ vq'.inuse = vq.inuse - n /\ vq'.last = Mod(vq.last - n)
      /\ vq'.shadow = vq.shadow /\ vq'.resubmit = vq.resubmit
  BY <1>0, <1>1 DEF Queues
<1>3. /\ pc = "run" /\ pc' = pc /\ cur = << >> /\ cur' = cur /\ n <= Len(held)
      /\ held' = SubSeq(held, 1, Len(held) - n)
      /\ (Has("INFLIGHT") => RewindMarked)
  <2>1. n \in 1..Len(held)
    BY DEF Rewind
  <2>2. Len(held) \in Nat
    BY <1>0, Basics
  <2>3. n <= Len(held)
    BY <2>1, <2>2
  <2> QED BY <1>0, <2>3 DEF Rewind, InHand
<1> QED BY <1>2, <1>3

LEMMA ResumesStep ==
    ASSUME IndInv, PlaceInv, [Next]_vars
    PROVE  Resumes'
<1> DEFINE u == guest.uidx
           n == vq.inuse
           L == Cardinality(Lent)
<1>0. /\ Types /\ InHand /\ IdleInv /\ KickInv /\ Resumes /\ u \in Int /\ u \in Idx
      /\ n \in Int /\ L \in Nat /\ L <= Num /\ guest.idx = Mod(u + L) /\ vq \in Queues
      /\ vq.last \in Int /\ Len(cur) \in Nat
  BY Basics, Counts, Room DEF IndInv, PlaceInv
<1>1. ASSUME Running
      PROVE  vq.last = Mod(u + n) /\ \E e \in n..L : vq.shadow = Mod(u + e)
  BY <1>0, <1>1 DEF Resumes
<1>2. CASE ~Running'
  BY <1>2 DEF Resumes
<1>3. CASE CheckFresh
  <2>1. /\ n = 0 /\ vq.shadow = vq.last /\ vq.last = u /\ vq' = vq
        /\ ~Flush /\ ~Offer
    <3>1. pc = "check" /\ vq' = vq /\ pc' = "wait" /\ given' = given /\ offered' = offered
          /\ (~Has("INFLIGHT") \/ area.version = 0)
      BY <1>3 DEF CheckFresh, outside
    <3>2. n = 0 /\ vq.shadow = vq.last
      BY <1>0, <3>1 DEF IdleInv, Running
    <3>3. vq.last = u
      BY <1>0, <3>1 DEF IdleInv, Running, KickInv
    <3> QED BY <3>1, <3>2, <3>3 DEF Flush, Offer
  <2>2. guest'.uidx = u /\ Lent' = Lent
    BY <2>1, Quiet
  <2>3. Mod(u + 0) = u
    <3>1. Mod(u) = u
      BY <1>0, ModSmall, Sizes, Zenon DEF Mod, Idx
    <3>2. u + 0 = u
      BY <1>0
    <3> QED BY <3>1, <3>2, Zenon
  <2>4. 0 \in 0..L
    BY <1>0
  <2> HIDE DEF u, n, L
  <2> QED BY <2>1, <2>2, <2>3, <2>4 DEF Resumes, u, n, L
<1>4. CASE Check
  <2> DEFINE K == Cardinality(Kept)
  <2>1. vq'.inuse = K /\ vq'.last = Mod(u + K) /\ vq'.shadow = vq'.last
    BY <1>4, CheckPlace
  <2>2. K \in K..L
    BY <1>0, Room
  <2>3. guest' = guest /\ given' = given
    BY <1>4 DEF Check
  <2>4. guest'.uidx = u /\ Lent' = Lent
    BY <2>3 DEF Lent
  <2> HIDE DEF K, u, n, L
  <2> QED BY <2>1, <2>2, <2>4 DEF Resumes, u, L
<1>5. CASE PopHead
  <2>1. /\ pc = "run" /\ vq'.inuse = n + 1 /\ vq'.last = Mod(u + (n + 1))
        /\ \E e \in n + 1..L : vq'.shadow = Mod(u + e)
    BY <1>5, PopPlace
  <2>2. given' = given /\ offered' = offered /\ ~Flush
    BY <1>5 DEF PopHead, outside, Flush
  <2>3. guest'.uidx = u /\ Lent' = Lent
    <3>1. ~Offer
      BY <1>0, <2>2 DEF Offer, Types
    <3> QED BY <2>2, <3>1, Quiet
  <2> HIDE DEF u, n, L
  <2> QED BY <2>1, <2>3 DEF Resumes, u, L
<1>6. ASSUME NEW m \in 1..Num, Rewind(m)
      PROVE  Resumes'
  <2>1. /\ pc = "run" /\ vq'.inuse = n - m /\ vq'.last = Mod(vq.last - m)
        /\ vq'.shadow = vq.shadow
    BY <1>6, RewindPlace
  <2>2. given' = given /\ guest' = guest
    BY <1>6 DEF Rewind, outside
  <2>3. guest'.uidx = u /\ Lent' = Lent
    BY <2>2 DEF Lent
  <2>4. vq.last = Mod(u + n) /\ \E e \in n..L : vq.shadow = Mod(u + e)
    BY <1>1, <2>1 DEF Running
  <2> HIDE DEF u, n, L
  <2>5. Mod(vq.last - m) = Mod(u + (n - m))
    <3>1. u + n \in Int /\ -m \in Int /\ (u + n) + (-m) = u + (n - m)
      BY <1>0
    <3>2. Mod(Mod(u + n) + (-m)) = Mod((u + n) + (-m))
      BY <3>1, ModSum, Zenon
    <3>3. vq.last + (-m) = vq.last - m
      BY <1>0
    <3> QED BY <2>4, <3>1, <3>2, <3>3, Zenon
  <2>6. \A e \in n..L : e \in n - m..L
    BY <1>0
  <2> QED BY <2>1, <2>3, <2>4, <2>5, <2>6 DEF Resumes, u, L
<1>7. CASE Flush
  <2> DEFINE c == Len(cur)
  <2>1. /\ vq'.inuse = n - c /\ vq'.last = vq.last /\ vq'.shadow = vq.shadow
        /\ Cardinality(Lent') = L - c
    BY <1>7, FlushPlace
  <2>2. guest'.uidx = Mod(u + c) /\ pc = "flush"
    BY <1>7, FlushLent
  <2>3. vq.last = Mod(u + n) /\ \E e \in n..L : vq.shadow = Mod(u + e)
    BY <1>1, <2>2 DEF Running
  <2> HIDE DEF u, n, L, c
  <2>4. ASSUME NEW e \in Int
        PROVE  Mod(u + e) = Mod(guest'.uidx + (e - c))
    <3>1. u + c \in Int /\ e - c \in Int /\ (u + c) + (e - c) = u + e
      BY <1>0 DEF c
    <3>2. Mod(Mod(u + c) + (e - c)) = Mod((u + c) + (e - c))
      BY <3>1, ModSum, Zenon
    <3> QED BY <2>2, <3>1, <3>2, Zenon
  <2>5. PICK e \in n..L : vq.shadow = Mod(u + e)
    BY <2>3
  <2>6. e - c \in n - c..L - c /\ e \in Int
    BY <1>0, <2>5 DEF c
  <2>7. vq'.last = Mod(guest'.uidx + vq'.inuse)
    BY <1>0, <2>1, <2>3, <2>4, Zenon
  <2>8. vq'.shadow = Mod(guest'.uidx + (e - c))
    BY <2>1, <2>4, <2>5, <2>6, Zenon
  <2> QED BY <2>1, <2>6, <2>7, <2>8, Zenon DEF Resumes
<1>8. CASE Offer
  <2>1. /\ Lent' = Lent \cup {Min(driver.free)} /\ Min(driver.free) \notin Lent
        /\ Min(driver.free) \in driver.free /\ guest'.uidx = u
    BY <1>8, OfferLent
  <2>2. Cardinality(Lent') = L + 1
    <3>1. Lent \in SUBSET Heads /\ Min(driver.free) \in Heads
      BY <1>0, <2>1, Basics
    <3> QED BY <2>1, <3>1, Counts
  <2>3. vq' = vq /\ pc' = pc
    BY <1>8 DEF Offer
  <2>4. Running' => Running
    BY <2>3 DEF Running
  <2> HIDE DEF u, n, L
  <2>5. \A e \in n..L : e \in n..L + 1
    BY <1>0
  <2> QED BY <1>1, <2>1, <2>2, <2>3, <2>4, <2>5 DEF Resumes, u, n
<1>9. ASSUME ~Flush, ~Offer, Running' => Running, vq'.inuse = n, vq'.last = vq.last,
             vq'.shadow \in {vq.shadow, guest.idx}
      PROVE  Resumes'
  <2>1. guest'.uidx = u /\ Lent' = Lent
    BY <1>9, Quiet
  <2> HIDE DEF u, n, L
  <2>2. ASSUME Running
        PROVE  \E e \in n..L : vq'.shadow = Mod(u + e)
    <3>1. PICK e \in n..L : vq.shadow = Mod(u + e)
      BY <1>1, <2>2
    <3>2. L \in n..L
      BY <1>0, <3>1
    <3> QED BY <1>0, <1>9, <3>1, <3>2
  <2> QED BY <1>1, <1>9, <2>1, <2>2 DEF Resumes, u, L
<1>10. CASE \/ Wake \/ PopNothing \/ Disable \/ Enable \/ Recheck \/ Notify
            \/ Decide \/ Collect \/ Arm \/ Nap \/ Interrupt \/ UNCHANGED vars
  <2>1. /\ vq'.inuse = n /\ vq'.last = vq.last /\ vq'.shadow \in {vq.shadow, guest.idx}
        /\ (pc' = pc \/ {pc, pc'} \subseteq Calm)
    BY <1>0, <1>10, CalmSteps
  <2>2. Running' => Running
    BY <2>1 DEF Running, Calm
  <2> QED BY <1>7, <1>8, <1>9, <2>1, <2>2
<1>11. CASE \/ PopResubmitted \/ GetCounter \/ GetMark \/ PrePut \/ PostClear \/ PostIndex
            \/ \E k \in 1..Num : Fill(k)
  <2>1. /\ vq'.inuse = n /\ vq'.last = vq.last /\ vq'.shadow = vq.shadow
        /\ Running
    <3>1. CASE PopResubmitted
      BY <1>0, <3>1 DEF PopResubmitted, Queues, Running
    <3>2. CASE GetCounter \/ GetMark
      BY <1>0, <3>2 DEF GetCounter, GetMark, Queues, Running
    <3>3. CASE PrePut \/ PostClear \/ PostIndex
      BY <1>0, <3>3 DEF PrePut, PostClear, PostIndex, Queues, Running
    <3>4. CASE \E k \in 1..Num : Fill(k)
      BY <1>0, <3>4 DEF Fill, Queues, Running
    <3> QED BY <1>11, <3>1, <3>2, <3>3, <3>4
  <2> QED BY <1>7, <1>8, <1>9, <2>1
<1>12. CASE Start \/ RepairMark \/ RepairIndex \/ Stop \/ Crash
  <2>1. ~Running'
    BY <1>12 DEF Start, RepairMark, RepairIndex, Stop, Crash, Running
  <2> QED BY <1>2, <2>1
<1> QED BY <1>3, <1>4, <1>5, <1>6, <1>7, <1>8, <1>10, <1>11, <1>12
        DEF Next, Driver, Backend

-----------------------------------------------------------------------------
(***************************************************************************)
(* Without inflight records                                                *)
(***************************************************************************)
LEMMA SequentialStep ==
    ASSUME IndInv, PlaceInv, [Next]_vars
    PROVE  Sequential'
<1> SUFFICES ASSUME Running', ~Has("INFLIGHT")
             PROVE  Sequential'
  BY Moves DEF Sequential, Has, IndInv
<1> DEFINE u == guest.uidx
           c == Len(cur)
           m == Len(held)
           ring == guest.ring
           used == guest.used
<1>0. /\ Types /\ InHand /\ IdleInv /\ features' = features
      /\ u \in Int /\ c \in Nat /\ m \in Nat /\ cur \in Seq(Heads) /\ held \in Seq(Elements)
      /\ ring \in [Heads -> Heads] /\ used \in [Heads -> Heads] /\ vq \in Queues
      /\ vq.inuse \in Int
  BY Basics, Moves DEF IndInv, PlaceInv
<1>1. ASSUME Running
      PROVE  /\ vq.inuse = c + m
             /\ \A k \in 1..c : cur[k] = ring[(u + (k - 1)) % Num]
             /\ \A k \in 1..c : cur[k] = used[(u + (k - 1)) % Num]
             /\ \A k \in 1..m : held[k].head = ring[(u + (c + (k - 1))) % Num]
             /\ c + m <= Cardinality(Lent) /\ Cardinality(Lent) \in Nat
  <2>1. /\ vq.inuse = c + m
        /\ \A k \in 1..c : cur[k] = ring[(u + (k - 1)) % Num]
        /\ \A k \in 1..c : cur[k] = used[(u + (k - 1)) % Num]
        /\ \A k \in 1..m : held[k].head = ring[(u + (c + (k - 1))) % Num]
    BY <1>1 DEF PlaceInv, Sequential
  <2>2. vq.inuse <= Cardinality(Lent) /\ Cardinality(Lent) \in Nat
    <3>1. Cardinality(Lent) \in Nat
      BY Room
    <3>2. PICK e \in vq.inuse..Cardinality(Lent) : vq.shadow = Mod(guest.uidx + e)
      BY <1>1 DEF PlaceInv, Resumes
    <3> QED BY <1>0, <3>1, <3>2
  <2> QED BY <2>1, <2>2
<1>2. ASSUME Running, UNCHANGED <<cur, held>>, vq'.inuse = vq.inuse, guest'.uidx = u,
             guest'.ring = ring, guest'.used = used
      PROVE  Sequential'
  <2> HIDE DEF u, c, m, ring, used
  <2> QED BY <1>1, <1>2, Zenon DEF Sequential, c, m
<1>3. CASE Offer
  <2> DEFINE h == Min(driver.free)
             L == Cardinality(Lent)
  <2>1. /\ h \in driver.free /\ h \notin Lent /\ guest'.uidx = u
        /\ guest'.ring = [ring EXCEPT ![guest.idx % Num] = h] /\ guest'.used = used
    BY <1>3, OfferLent
  <2>2. UNCHANGED <<cur, held, vq, pc>> /\ Running
    BY <1>3 DEF Offer, Running
  <2>3. L < Num /\ L \in Nat /\ guest.idx = Mod(u + L)
    <3>1. Lent \in SUBSET Heads /\ h \in Heads
      BY <1>0, <2>1, Basics
    <3> QED BY <2>1, <3>1, Counts, Room
  <2> HIDE DEF u, c, m, ring, used, h, L
  <2>4. guest.idx % Num = (u + L) % Num
    <3>1. u + L \in Int
      BY <1>0, <2>3
    <3> QED BY <2>3, <3>1, SameSlot, Zenon
  <2>5. ASSUME NEW j \in 0..L - 1
        PROVE  guest'.ring[(u + j) % Num] = ring[(u + j) % Num]
    <3>1. j \in 0..Num - 1 /\ L \in 0..Num - 1 /\ j # L /\ u + j \in Int
      BY <1>0, <2>3, Sizes
    <3>2. (u + j) % Num # (u + L) % Num
      BY <1>0, <3>1, SlotsApart, Zenon
    <3>3. (u + j) % Num \in Heads
      BY <3>1, SlotIn
    <3> QED BY <1>0, <2>1, <2>4, <3>2, <3>3
  <2>6. ASSUME NEW k \in 1..c
        PROVE  cur[k] = guest'.ring[(u + (k - 1)) % Num]
    <3>1. k - 1 \in 0..L - 1
      BY <1>0, <1>1, <2>2, <2>3 DEF L
    <3> QED BY <1>1, <2>2, <2>5, <3>1, Zenon
  <2>7. ASSUME NEW k \in 1..m
        PROVE  held[k].head = guest'.ring[(u + (c + (k - 1))) % Num]
    <3>1. c + (k - 1) \in 0..L - 1
      BY <1>0, <1>1, <2>2, <2>3 DEF L
    <3> QED BY <1>1, <2>2, <2>5, <3>1, Zenon
  <2> QED BY <1>1, <2>1, <2>2, <2>6, <2>7, Zenon DEF Sequential, c, m
<1>4. CASE CheckFresh \/ Check
  <2>1. CASE CheckFresh
    <3>1. pc = "check" /\ UNCHANGED <<vq, cur, held>>
      BY <2>1 DEF CheckFresh
    <3>2. vq.inuse = 0 /\ held = << >> /\ cur = << >>
      BY <1>0, <3>1 DEF IdleInv, Running, InHand
    <3>3. vq'.inuse = 0 /\ Len(held') = 0 /\ Len(cur') = 0
      BY <3>1, <3>2
    <3> QED BY <3>3 DEF Sequential
  <2>2. CASE Check
    BY <2>2 DEF Check
  <2> QED BY <1>4, <2>1, <2>2
<1>5. CASE PopHead
  <2>1. /\ cur = << >> /\ vq'.inuse = vq.inuse + 1 /\ pc = "run"
        /\ \E x \in Heads :
              /\ x = ring[(u + vq.inuse) % Num]
              /\ cur' = cur /\ held' = Append(held, [head |-> x, fetched |-> TRUE])
    BY <1>5, PopPlace
  <2>2. PICK x \in Heads :
           /\ x = ring[(u + vq.inuse) % Num]
           /\ cur' = cur /\ held' = Append(held, [head |-> x, fetched |-> TRUE])
    BY <2>1
  <2>3. guest'.uidx = u /\ guest'.ring = ring /\ guest'.used = used
    <3>1. guest' = guest \/ \E y : guest' = [guest EXCEPT !.event = y]
      BY <1>5, Zenon DEF PopHead, SetAvailEvent
    <3> QED BY <1>0, <3>1, Basics DEF Guests
  <2>4. Running /\ c = 0
    BY <2>1 DEF Running
  <2> DEFINE a == [head |-> x, fetched |-> TRUE]
  <2>5. a \in Elements /\ a.head = x
    BY DEF Elements
  <2> HIDE DEF a
  <2>6. /\ Len(held') = m + 1 /\ \A k \in 1..m : held'[k] = held[k]
        /\ held'[m + 1] = a
    BY <1>0, <2>2, <2>5, AppendProperties DEF a
  <2> HIDE DEF u, m, ring, used
  <2>7. vq.inuse = m /\ vq'.inuse = m + 1
    BY <1>0, <1>1, <2>1, <2>4
  <2>8. ASSUME NEW k \in 1..m + 1
        PROVE  held'[k].head = ring[(u + (0 + (k - 1))) % Num]
    <3>1. CASE k \in 1..m
      BY <1>1, <2>4, <2>6, <3>1
    <3>2. CASE k = m + 1
      <4>1. u + (0 + (k - 1)) = u + vq.inuse
        BY <1>0, <2>7, <3>2
      <4> QED BY <2>2, <2>5, <2>6, <3>2, <4>1
    <3> QED BY <1>0, <3>1, <3>2
  <2>9. Len(cur') = 0 /\ vq'.inuse = Len(cur') + Len(held')
    BY <1>0, <2>2, <2>4, <2>6, <2>7
  <2> HIDE DEF c
  <2> QED BY <2>3, <2>6, <2>8, <2>9 DEF Sequential
<1>6. ASSUME NEW n \in 1..Num, Rewind(n)
      PROVE  Sequential'
  <2>1. /\ pc = "run" /\ cur' = cur /\ n <= m /\ vq'.inuse = vq.inuse - n
        /\ held' = SubSeq(held, 1, m - n)
    BY <1>6, RewindPlace
  <2>2. guest' = guest /\ Running
    BY <1>6 DEF Rewind, Running
  <2>3. Len(held') = m - n /\ \A k \in 1..m - n : held'[k] = held[k]
    BY <1>0, <2>1
  <2> HIDE DEF u, m, ring, used, c
  <2>4. \A k \in 1..m - n : k \in 1..m
    BY <1>0
  <2>5. vq'.inuse = c + (m - n)
    BY <1>0, <1>1, <2>1, <2>2
  <2>6. \A k \in 1..m - n : held'[k].head = ring[(u + (c + (k - 1))) % Num]
    BY <1>1, <2>2, <2>3, <2>4, Zenon
  <2>7. guest'.ring = ring /\ guest'.used = used /\ guest'.uidx = u
    BY <2>2 DEF ring, used, u
  <2>8. /\ \A k \in 1..c : cur[k] = ring[(u + (k - 1)) % Num]
        /\ \A k \in 1..c : cur[k] = used[(u + (k - 1)) % Num]
    BY <1>1, <2>2, Zenon
  <2>9. Len(cur') = c
    BY <2>1 DEF c
  <2> QED BY <2>1, <2>3, <2>5, <2>6, <2>7, <2>8, <2>9, Zenon DEF Sequential
<1>7. ASSUME NEW k \in 1..Num, Fill(k)
      PROVE  Sequential'
  <2> DEFINE x == held[k].head
  <2>1. /\ k = 1 /\ k \in 1..m /\ cur' = Append(cur, x) /\ held' = RemoveAt(held, k)
        /\ vq' = vq /\ Running
    BY <1>7 DEF Fill, Running
  <2>2. /\ x \in Heads /\ c < Num
        /\ guest'.used = [used EXCEPT ![(u + c) % Num] = x]
    BY <1>7, FillPlace
  <2>3. guest'.uidx = u /\ guest'.ring = ring
    <3>1. guest' = [guest EXCEPT !.used[Mod(vq.used + Len(cur)) % Num] = x]
      BY <1>7, Zenon DEF Fill
    <3> QED BY <1>0, <3>1, Basics DEF Guests
  <2> HIDE DEF x
  <2>4. Len(cur') = c + 1 /\ (\A j \in 1..c : cur'[j] = cur[j]) /\ cur'[c + 1] = x
    BY <1>0, <2>1, <2>2, AppendProperties
  <2>5. Len(held') = m - 1 /\ \A j \in 1..m - 1 : held'[j] = held[j + 1]
    <3>1. Len(held') = m - 1
      BY <1>0, <2>1, RemoveOne, Zenon
    <3>2. \A j \in 1..Len(held) - 1 :
             RemoveAt(held, k)[j] = IF j < k THEN held[j] ELSE held[j + 1]
      BY <1>0, <2>1, Removed, Zenon
    <3>3. \A j \in 1..m - 1 : ~(j < k)
      BY <1>0, <2>1
    <3> HIDE DEF m
    <3>4. \A j \in 1..m - 1 : held'[j] = held[j + 1]
      BY <2>1, <3>2, <3>3 DEF m
    <3> QED BY <3>1, <3>4
  <2> HIDE DEF u, m, ring, used, c
  <2>6. x = ring[(u + c) % Num]
    <3>1. c + (k - 1) = c
      BY <1>0, <2>1
    <3> QED BY <1>1, <2>1, <3>1 DEF x
  <2>7. ASSUME NEW j \in 1..c
        PROVE  /\ guest'.used[(u + (j - 1)) % Num] = used[(u + (j - 1)) % Num]
    <3>1. j - 1 \in 0..Num - 1 /\ c \in 0..Num - 1 /\ j - 1 # c /\ u + (j - 1) \in Int
      BY <1>0, <2>2, Sizes
    <3>2. (u + (j - 1)) % Num # (u + c) % Num
      BY <1>0, <3>1, SlotsApart, Zenon
    <3>3. (u + (j - 1)) % Num \in Heads
      BY <3>1, SlotIn
    <3> QED BY <1>0, <2>2, <3>2, <3>3
  <2>8. guest'.used[(u + c) % Num] = x
    <3>1. (u + c) % Num \in Heads
      BY <1>0, SlotIn
    <3> QED BY <1>0, <2>2, <3>1
  <2>9. ASSUME NEW j \in 1..c + 1
        PROVE  /\ cur'[j] = ring[(u + (j - 1)) % Num]
               /\ cur'[j] = guest'.used[(u + (j - 1)) % Num]
    <3>1. CASE j \in 1..c
      BY <1>1, <2>1, <2>4, <2>7, <3>1
    <3>2. CASE j = c + 1
      <4>1. j - 1 = c
        BY <1>0, <3>2
      <4> QED BY <2>4, <2>6, <2>8, <3>2, <4>1
    <3> QED BY <1>0, <3>1, <3>2
  <2>10. ASSUME NEW j \in 1..m - 1
         PROVE  held'[j].head = ring[(u + ((c + 1) + (j - 1))) % Num]
    <3>1. j + 1 \in 1..m /\ c + ((j + 1) - 1) = (c + 1) + (j - 1)
      BY <1>0
    <3>2. held[j + 1].head = ring[(u + (c + ((j + 1) - 1))) % Num]
      BY <1>1, <2>1, <3>1, Zenon
    <3> QED BY <2>5, <3>1, <3>2, Zenon
  <2>11. vq'.inuse = (c + 1) + (m - 1)
    BY <1>0, <1>1, <2>1
  <2> QED BY <2>3, <2>4, <2>5, <2>9, <2>10, <2>11, Zenon DEF Sequential
<1>8. CASE Flush
  <2>1. /\ vq'.inuse = vq.inuse - c /\ held' = held /\ cur' = << >>
    BY <1>8, FlushPlace
  <2>2. guest'.uidx = Mod(u + c) /\ guest'.ring = ring /\ guest'.used = used /\ pc = "flush"
    BY <1>8, FlushLent
  <2>3. Running /\ Len(cur') = 0
    BY <2>1, <2>2 DEF Running
  <2> HIDE DEF u, m, ring, used, c
  <2>4. ASSUME NEW k \in 1..m
        PROVE  held[k].head = ring[(guest'.uidx + (0 + (k - 1))) % Num]
    <3>0. held[k].head = ring[(u + (c + (k - 1))) % Num]
      BY <1>1, <2>3, Zenon
    <3>1. /\ u + c \in Int /\ 0 + (k - 1) \in Int
          /\ (u + c) + (0 + (k - 1)) = u + (c + (k - 1))
      BY <1>0
    <3>2. (Mod(u + c) + (0 + (k - 1))) % Num = ((u + c) + (0 + (k - 1))) % Num
      BY <3>1, SlotOfMod, Zenon
    <3>3. guest'.uidx = Mod(u + c)
      BY <2>2
    <3> QED BY <3>0, <3>1, <3>2, <3>3, Zenon
  <2>5. vq'.inuse = 0 + m
    BY <1>0, <1>1, <2>1, <2>3
  <2>6. \A k \in 1..0 : FALSE
    OBVIOUS
  <2> QED BY <2>1, <2>2, <2>3, <2>4, <2>5, <2>6, Zenon DEF Sequential, m
<1>9. CASE \/ Wake \/ PopNothing \/ Disable \/ Enable \/ Recheck \/ Notify
           \/ Decide \/ Collect \/ Arm \/ Nap \/ Interrupt \/ UNCHANGED vars
  <2>1. /\ UNCHANGED <<cur, held>> /\ vq'.inuse = vq.inuse
        /\ (pc' = pc \/ {pc, pc'} \subseteq Calm)
    BY <1>0, <1>9, CalmSteps
  <2>2. Running
    BY <2>1 DEF Running, Calm
  <2>3. ASSUME NEW k \in 1..Num, Fill(k)
        PROVE  Sequential'
    BY <1>7, <2>3
  <2>4. ~Offer /\ ~Flush /\ ~(\E k \in 1..Num : Fill(k)) =>
           guest'.uidx = u /\ guest'.ring = ring /\ guest'.used = used
    BY <1>0, Moves
  <2> QED BY <1>2, <1>3, <1>8, <2>1, <2>2, <2>3, <2>4
<1>10. CASE \/ Start \/ RepairMark \/ RepairIndex \/ Stop \/ Crash \/ PopResubmitted
            \/ GetCounter \/ GetMark \/ PrePut \/ PostClear \/ PostIndex
  <2>1. CASE Start \/ RepairMark \/ RepairIndex \/ Stop \/ Crash
    BY <2>1 DEF Start, RepairMark, RepairIndex, Stop, Crash, Running
  <2>2. CASE PopResubmitted \/ GetCounter \/ GetMark \/ PrePut \/ PostClear \/ PostIndex
    BY <1>0, <2>2 DEF PopResubmitted, GetCounter, GetMark, PrePut, PostClear, PostIndex, InHand
  <2> QED BY <1>10, <2>1, <2>2
<1> QED BY <1>3, <1>4, <1>5, <1>6, <1>7, <1>8, <1>9, <1>10 DEF Next, Driver, Backend

-----------------------------------------------------------------------------
(***************************************************************************)
(* With inflight records                                                   *)
(***************************************************************************)
LEMMA HeldMore ==
    ASSUME Types, NEW H, Lists(HeldHeads, Len(held), H), NEW x \in Heads, x \notin H,
           NEW b \in BOOLEAN, held' = Append(held, [head |-> x, fetched |-> b])
    PROVE  /\ Len(held') = Len(held) + 1
           /\ Lists(HeldHeads', Len(held'), H \cup {x})
<1> DEFINE e == [head |-> x, fetched |-> b]
           m == Len(held)
<1>1. held \in Seq(Elements) /\ m \in Nat /\ e \in Elements /\ e.head = x
  BY Basics DEF Elements
<1> HIDE DEF e
<1>2. /\ Len(held') = m + 1 /\ \A k \in 1..m : held'[k] = held[k]
      /\ held'[m + 1] = e
  BY <1>1, AppendProperties DEF e
<1> HIDE DEF m
<1>3. \A k \in 1..m : k \in 1..m + 1
  BY <1>1
<1>4. \A k \in 1..m : HeldHeads'[k] = HeldHeads[k]
  <2>1. \A k \in 1..m : HeldHeads[k] = held[k].head
    BY DEF HeldHeads, m
  <2>2. \A k \in 1..m + 1 : HeldHeads'[k] = held'[k].head
    BY <1>2 DEF HeldHeads
  <2> QED BY <1>2, <1>3, <2>1, <2>2
<1>5. HeldHeads'[m + 1] = x
  <2>1. m + 1 \in 1..m + 1
    BY <1>1
  <2> QED BY <1>1, <1>2, <2>1 DEF HeldHeads
<1>6. Lists(HeldHeads, m, H)
  BY DEF m
<1>7. Lists(HeldHeads', m + 1, H \cup {x})
  BY <1>1, <1>4, <1>5, <1>6, ListsMore, Zenon
<1> QED BY <1>2, <1>7 DEF m

LEMMA HeldLess ==
    ASSUME Types, NEW H, Lists(HeldHeads, Len(held), H), NEW k \in 1..Len(held),
           held' = RemoveAt(held, k)
    PROVE  /\ Len(held') = Len(held) - 1 /\ held[k].head \in H
           /\ Lists(HeldHeads', Len(held'), H \ {held[k].head})
<1> DEFINE m == Len(held)
<1>1. held \in Seq(Elements) /\ m \in Nat
  BY Basics
<1>2. Len(held') = m - 1
  BY <1>1, RemoveOne, Zenon
<1>3. \A j \in 1..m - 1 : held'[j] = IF j < k THEN held[j] ELSE held[j + 1]
  BY <1>1, Removed, Zenon
<1>4. \A j \in 1..m : HeldHeads[j] = held[j].head
  BY DEF HeldHeads
<1>5. \A j \in 1..m - 1 : HeldHeads'[j] = held'[j].head
  BY <1>2 DEF HeldHeads
<1>6. Lists(HeldHeads, m, H) /\ k \in 1..m
  OBVIOUS
<1> HIDE DEF m
<1>7. \A j \in 1..m - 1 : HeldHeads'[j] = IF j < k THEN HeldHeads[j] ELSE HeldHeads[j + 1]
  <2>1. ASSUME NEW j \in 1..m - 1
        PROVE  j \in 1..m /\ j + 1 \in 1..m
    BY <1>1
  <2> QED BY <1>3, <1>4, <1>5, <2>1
<1>8. Lists(HeldHeads', m - 1, H \ {HeldHeads[k]}) /\ HeldHeads[k] \in H
  BY <1>1, <1>6, <1>7, ListsLess, Zenon
<1> QED BY <1>2, <1>4, <1>6, <1>8 DEF m

(* A set that a list of no entries holds.                                  *)
LEMMA ListsNone == ASSUME NEW s PROVE Lists(s, 0, {})
BY DEF Lists

(* What the invariant says of a queue with inflight records.               *)
LEMMA Records ==
    ASSUME IndInv, PlaceInv, Running, Has("INFLIGHT")
    PROVE  /\ area.version = 1 /\ Shared
           /\ vq.inuse = Cardinality(Kept) + IF Taking THEN 1 ELSE 0
           /\ vq.inuse = Len(held) + Len(vq.resubmit) + Len(Unused)
           /\ Taking => /\ Lent # Kept
                        /\ cur[1] = guest.ring[(guest.uidx + Cardinality(Kept)) % Num]
           /\ area.used # guest.uidx <=> pc \in {"clear", "post"}
           /\ pc \in {"flush", "clear", "post"} => area.last = cur[1]
           /\ pc = "post" => cur[1] \notin Marked
           /\ pc \in {"pre", "flush"} => guest.used[guest.uidx % Num] = cur[1]
BY DEF PlaceInv, InFlight

(* Steps that change nothing of it.                                        *)
LEMMA InFlightKeeps ==
    ASSUME IndInv, PlaceInv, [Next]_vars,
           ~Flush, ~Offer, ~GetMark, ~(\E k \in 1..Num : Fill(k)),
           UNCHANGED <<area, cur, held>>,
           vq'.inuse = vq.inuse, vq'.resubmit = vq.resubmit,
           pc' = pc \/ {pc, pc'} \subseteq Calm
    PROVE  InFlight'
<1> SUFFICES ASSUME Running', Has("INFLIGHT")'
             PROVE  InFlight'
  BY DEF InFlight
<1>0. /\ features' = features /\ guest'.uidx = guest.uidx /\ guest'.ring = guest.ring
      /\ guest'.used = guest.used /\ Lent' = Lent
  BY Moves, Quiet DEF IndInv
<1>1. Kept' = Kept /\ Marked' = Marked
  BY KeptSame DEF Marked
<1>2. Running /\ Has("INFLIGHT")
  BY <1>0 DEF Running, Calm, Has
<1>3. Taking' = Taking /\ Unused' = Unused /\ Putting' = Putting
  BY DEF Taking, Unused, Putting, Calm
<1>4. HeldHeads' = HeldHeads
  BY DEF HeldHeads
<1>5. Shared'
  BY <1>1, <1>2, <1>3, <1>4, Records DEF Shared
<1>6. /\ pc' \in {"clear", "post"} <=> pc \in {"clear", "post"}
      /\ pc' \in {"flush", "clear", "post"} => pc \in {"flush", "clear", "post"}
      /\ pc' = "post" => pc = "post"
      /\ pc' \in {"pre", "flush"} => pc \in {"pre", "flush"}
  BY DEF Calm
<1>7. /\ vq'.inuse = Cardinality(Kept') + IF Taking' THEN 1 ELSE 0
      /\ vq'.inuse = Len(held') + Len(vq'.resubmit) + Len(Unused')
      /\ area'.version = 1
  BY <1>1, <1>2, <1>3, Records
<1>8. Taking' => /\ Lent' # Kept'
                 /\ cur'[1] = guest'.ring[(guest'.uidx + Cardinality(Kept')) % Num]
  BY <1>0, <1>1, <1>2, <1>3, Records
<1>9. /\ area'.used # guest'.uidx <=> pc' \in {"clear", "post"}
      /\ pc' \in {"flush", "clear", "post"} => area'.last = cur'[1]
      /\ pc' = "post" => cur'[1] \notin Marked'
      /\ pc' \in {"pre", "flush"} => guest'.used[guest'.uidx % Num] = cur'[1]
  BY <1>0, <1>1, <1>2, <1>6, Records
<1> QED BY <1>5, <1>7, <1>8, <1>9, Zenon DEF InFlight

(* The first buffers a new process has: none, or those the area marks.     *)
LEMMA InFlightStart ==
    ASSUME IndInv, PlaceInv, CheckFresh \/ Check, Has("INFLIGHT")
    PROVE  InFlight'
<1>0. /\ Types /\ InHand /\ IdleInv /\ AreaInv /\ CallInv /\ [Next]_vars
      /\ area \in Areas /\ vq \in Queues
  BY Basics DEF IndInv, PlaceInv, Next, Backend
<1>1. /\ pc = "check" /\ pc' = "wait" /\ cur = << >> /\ UNCHANGED <<cur, held, given, guest>>
      /\ held = << >> /\ vq.inuse = 0 /\ vq.resubmit = << >>
      /\ vq.used = guest.uidx
  BY <1>0 DEF CheckFresh, Check, InHand, IdleInv, Running, CallInv, outside
<1>2. ~Flush /\ ~GetMark
  BY <1>1 DEF Flush, GetMark
<1>3. Kept' = Kept
  BY <1>0, <1>2, KeptSame
<1>4. /\ area'.version = 1 /\ area'.used = guest.uidx
      /\ vq'.inuse = Cardinality(Kept) /\ Len(vq'.resubmit) = Cardinality(Kept)
      /\ Lists(vq'.resubmit, Len(vq'.resubmit), Kept)
  <2>1. CASE Check
    <3>1. area' = area
      BY <2>1 DEF Check
    <3> QED BY <2>1, <3>1, CheckPlace
  <2>2. CASE CheckFresh
    <3>1. area.version = 0 /\ vq' = vq /\ area' = [area EXCEPT !.version = 1]
      BY <1>0, <2>2 DEF CheckFresh
    <3>2. area'.version = 1 /\ area'.used = area.used
      BY <1>0, <3>1 DEF Areas
    <3>3. Marked = {} /\ area.used = guest.uidx
      BY <1>0, <3>1 DEF AreaInv
    <3>4. Kept = {}
      BY <3>3 DEF Kept
    <3>5. Cardinality(Kept) = 0
      BY <3>4, FS_EmptySet, Zenon
    <3>6. Len(vq'.resubmit) = 0 /\ vq'.inuse = 0
      BY <1>1, <3>1
    <3>7. Lists(vq'.resubmit, 0, {})
      BY ListsNone
    <3> QED BY <3>2, <3>3, <3>4, <3>5, <3>6, <3>7
  <2> QED BY <2>1, <2>2
<1>5. /\ Len(held') = 0 /\ Unused' = << >> /\ Len(Unused') = 0 /\ ~Taking' /\ Putting' = {}
      /\ Cardinality(Kept) \in Nat /\ Kept \in SUBSET Heads
  <2>1. Kept \in SUBSET Heads
    BY <1>0, Basics
  <2>2. Cardinality(Kept) \in Nat
    BY <2>1, Counts
  <2> QED BY <1>1, <2>1, <2>2 DEF Unused, Taking, Putting
<1>6. Shared'
  <2>1. Lists(HeldHeads', Len(held'), {})
    BY <1>5, ListsNone
  <2>2. {} \in SUBSET Heads /\ {} \cap Kept = {} /\ Putting' \cap ({} \cup Kept) = {}
        /\ {} \cup Kept \cup Putting' = Kept
    BY <1>5
  <2> QED BY <1>3, <1>4, <1>5, <2>1, <2>2, Zenon DEF Shared
<1>7. vq'.inuse = Len(held') + Len(vq'.resubmit) + Len(Unused')
  BY <1>4, <1>5
<1> QED BY <1>1, <1>3, <1>4, <1>5, <1>6, <1>7 DEF InFlight

(* A buffer popped again goes from one list to the other.                  *)
LEMMA InFlightAgain ==
    ASSUME IndInv, PlaceInv, PopResubmitted, Has("INFLIGHT")
    PROVE  InFlight'
<1> DEFINE r == vq.resubmit
           x == Last(r)
<1>0. /\ Types /\ InHand /\ [Next]_vars /\ Running /\ vq \in Queues
      /\ r \in Seq(Heads) /\ r # << >> /\ Len(r) \in Nat /\ Len(held) \in Nat
      /\ vq.inuse \in Int
  BY Basics DEF IndInv, Next, Backend, PopResubmitted, Running
<1>1. /\ pc = "run" /\ pc' = pc /\ vq' = [vq EXCEPT !.resubmit = Front(r)]
      /\ held' = Append(held, [head |-> x, fetched |-> FALSE])
      /\ cur = << >> /\ UNCHANGED <<features, guest, area, cur, given>>
  BY <1>0 DEF PopResubmitted, outside, InHand
<1>2. vq'.resubmit = Front(r) /\ vq'.inuse = vq.inuse
  BY <1>0, <1>1 DEF Queues
<1>3. Kept' = Kept /\ Marked' = Marked /\ Lent' = Lent
  <2>1. ~Flush /\ ~GetMark
    BY <1>1 DEF Flush, GetMark
  <2> QED BY <1>0, <1>1, <2>1, KeptSame DEF Marked, Lent
<1>4. PICK H \in SUBSET Heads, A \in SUBSET Heads :
         /\ Lists(HeldHeads, Len(held), H) /\ Lists(r, Len(r), A)
         /\ H \cap A = {} /\ H \cup A = Kept
  BY <1>0, <1>1, Records DEF Shared, Putting
<1> HIDE DEF r, x
<1>5. /\ Lists(Front(r), Len(Front(r)), A \ {x}) /\ x \in A
      /\ Len(Front(r)) = Len(r) - 1
  BY <1>0, <1>4, ListsFront, Zenon DEF x
<1>6. x \in Heads /\ x \notin H
  BY <1>4, <1>5
<1>7. Len(held') = Len(held) + 1 /\ Lists(HeldHeads', Len(held'), H \cup {x})
  BY <1>0, <1>1, <1>4, <1>6, HeldMore
<1>8. Shared'
  <2>1. /\ H \cup {x} \in SUBSET Heads /\ A \ {x} \in SUBSET Heads
        /\ (H \cup {x}) \cap (A \ {x}) = {}
        /\ (H \cup {x}) \cup (A \ {x}) \cup Putting' = Kept'
        /\ Putting' \cap ((H \cup {x}) \cup (A \ {x})) = {}
    BY <1>1, <1>3, <1>4, <1>5, <1>6 DEF Putting
  <2>2. Lists(vq'.resubmit, Len(vq'.resubmit), A \ {x})
    BY <1>2, <1>5
  <2> QED BY <1>7, <2>1, <2>2, Zenon DEF Shared
<1>9. ~Taking /\ ~Taking' /\ Unused = << >> /\ Unused' = << >>
  BY <1>1 DEF Taking, Unused
<1>10. /\ area.version = 1 /\ vq.inuse = Cardinality(Kept) + 0
       /\ vq.inuse = Len(held) + Len(r) + 0 /\ area.used = guest.uidx
  <2>1. Len(Unused) = 0
    BY <1>9
  <2> QED BY <1>0, <1>1, <1>9, <2>1, Records DEF r
<1>11. vq'.inuse = Len(held') + Len(vq'.resubmit) + Len(Unused')
  <2>1. Len(Unused') = 0
    BY <1>9
  <2> QED BY <1>0, <1>2, <1>5, <1>7, <1>10, <2>1
<1> QED BY <1>1, <1>2, <1>3, <1>8, <1>9, <1>10, <1>11 DEF InFlight

(* A head is taken from the ring, and then recorded.                       *)
LEMMA InFlightPop ==
    ASSUME IndInv, PlaceInv, PopHead, Has("INFLIGHT")
    PROVE  InFlight'
<1> DEFINE K == Cardinality(Kept)
           u == guest.uidx
<1>0. /\ Types /\ InHand /\ [Next]_vars /\ Running /\ vq \in Queues /\ Kept \in SUBSET Heads
      /\ Lent \in SUBSET Heads /\ K \in Nat
      /\ vq.inuse \in Int /\ Len(held) \in Nat /\ Len(vq.resubmit) \in Nat /\ pc = "run"
  BY Basics, Counts DEF IndInv, Next, Backend, PopHead, Running
<1>1. /\ cur = << >> /\ vq.inuse < Cardinality(Lent)
      /\ vq'.inuse = vq.inuse + 1 /\ vq'.resubmit = vq.resubmit
      /\ pc' = "counter" /\ held' = held
  BY PopPlace
<1>2. PICK h \in Heads : h = guest.ring[(u + vq.inuse) % Num] /\ cur' = <<h>>
  BY PopPlace
<1>3. UNCHANGED <<features, area, given, offered>>
  BY DEF PopHead, outside
<1>4. ~Flush /\ ~Offer /\ ~GetMark
  <2>1. ~Offer
    BY <1>0, <1>3 DEF Offer, Types
  <2> QED BY <1>0, <2>1 DEF Flush, GetMark
<1>5. Kept' = Kept /\ Lent' = Lent /\ guest'.uidx = u /\ guest'.ring = guest.ring
  BY <1>0, <1>4, KeptSame, Quiet
<1>6. /\ area.version = 1 /\ Shared /\ vq.inuse = K
      /\ vq.inuse = Len(held) + Len(vq.resubmit) /\ area.used = u
  <2>1. ~Taking /\ Unused = << >> /\ Len(<< >>) = 0
    BY <1>0 DEF Taking, Unused
  <2>2. vq.inuse = K + 0 /\ vq.inuse = Len(held) + Len(vq.resubmit) + 0
    BY <1>0, <2>1, Records
  <2> QED BY <1>0, <2>2, Records
<1>7. Shared'
  <2>1. Putting' = Putting /\ HeldHeads' = HeldHeads
    BY <1>0, <1>1 DEF Putting, HeldHeads
  <2> QED BY <1>1, <1>5, <1>6, <2>1 DEF Shared
<1>8. Unused' = <<h>> /\ Taking' /\ Len(Unused') = 1 /\ cur'[1] = h
  BY <1>1, <1>2 DEF Unused, Taking
<1>9. Lent' # Kept'
  <2>1. Cardinality(Kept) # Cardinality(Lent)
    BY <1>0, <1>1, <1>6
  <2> QED BY <1>5, <2>1, Zenon
<1>10. /\ vq'.inuse = Cardinality(Kept') + 1
       /\ vq'.inuse = Len(held') + Len(vq'.resubmit) + Len(Unused')
  BY <1>0, <1>1, <1>5, <1>6, <1>8
<1>11. cur'[1] = guest'.ring[(guest'.uidx + Cardinality(Kept')) % Num]
  BY <1>2, <1>5, <1>6, <1>8
<1>12. area'.version = 1 /\ area'.used = guest'.uidx
  BY <1>3, <1>5, <1>6
<1> QED BY <1>1, <1>7, <1>8, <1>9, <1>10, <1>11, <1>12 DEF InFlight

LEMMA InFlightCounter ==
    ASSUME IndInv, PlaceInv, GetCounter
    PROVE  InFlight'
<1>0. /\ Types /\ InHand /\ [Next]_vars /\ Running /\ vq \in Queues /\ area \in Areas
      /\ Has("INFLIGHT") /\ cur[1] \in Heads /\ pc = "counter" /\ pc' = "mark"
  BY Basics, HeadInHand DEF IndInv, Next, Backend, GetCounter, Running, InHand
<1>1. /\ UNCHANGED <<features, guest, cur, held, given>>
      /\ vq' = [vq EXCEPT !.counter = vq.counter + 1]
      /\ area' = [area EXCEPT !.desc[cur[1]].counter = vq.counter]
  BY Zenon DEF GetCounter, outside
<1>2. /\ vq'.inuse = vq.inuse /\ vq'.resubmit = vq.resubmit
      /\ area'.version = area.version /\ area'.used = area.used
  BY <1>0, <1>1 DEF Queues, Areas
<1>3. Kept' = Kept /\ Lent' = Lent
  <2>1. ~Flush /\ ~GetMark
    BY <1>0 DEF Flush, GetMark
  <2> QED BY <1>0, <1>1, <2>1, KeptSame DEF Lent
<1>4. /\ Taking /\ Taking' /\ Unused' = Unused /\ Putting' = Putting /\ HeldHeads' = HeldHeads
  BY <1>0, <1>1 DEF Taking, Unused, Putting, HeldHeads
<1>5. Shared'
  BY <1>0, <1>1, <1>2, <1>3, <1>4, Records DEF Shared
<1>6. /\ area'.version = 1 /\ area'.used = guest'.uidx
      /\ vq'.inuse = Cardinality(Kept') + 1
      /\ vq'.inuse = Len(held') + Len(vq'.resubmit) + Len(Unused')
      /\ Lent' # Kept'
      /\ cur'[1] = guest'.ring[(guest'.uidx + Cardinality(Kept')) % Num]
  BY <1>0, <1>1, <1>2, <1>3, <1>4, Records
<1> QED BY <1>0, <1>4, <1>5, <1>6 DEF InFlight

LEMMA InFlightMark ==
    ASSUME IndInv, PlaceInv, GetMark
    PROVE  InFlight'
<1> DEFINE h == cur[1]
           K == Cardinality(Kept)
<1>0. /\ Types /\ InHand /\ Running /\ vq \in Queues /\ Len(cur) = 1 /\ Len(held) \in Nat
      /\ Has("INFLIGHT") /\ h \in Heads /\ pc = "mark" /\ pc' = "run"
      /\ Len(vq.resubmit) \in Nat /\ K \in Nat /\ Kept \in SUBSET Heads
  BY Basics, Counts, HeadInHand DEF IndInv, GetMark, Running, InHand
<1>1. /\ UNCHANGED <<features, guest, vq>> /\ cur' = << >>
      /\ held' = Append(held, [head |-> h, fetched |-> TRUE])
  BY Zenon DEF GetMark, outside
<1>2. /\ Kept' = Kept \cup {h} /\ h \notin Kept /\ area'.used = area.used
      /\ area'.version = area.version
  BY MarkRecoverable
<1>3. /\ Taking /\ ~Taking' /\ Unused = cur /\ Unused' = << >>
      /\ Putting = {} /\ Putting' = {}
  BY <1>0 DEF Taking, Unused, Putting
<1>4. PICK H \in SUBSET Heads, A \in SUBSET Heads :
         /\ Lists(HeldHeads, Len(held), H)
         /\ Lists(vq.resubmit, Len(vq.resubmit), A)
         /\ H \cap A = {} /\ H \cup A = Kept
  BY <1>0, <1>3, Records DEF Shared
<1> HIDE DEF h, K
<1>5. Len(held') = Len(held) + 1 /\ Lists(HeldHeads', Len(held'), H \cup {h})
  BY <1>0, <1>1, <1>2, <1>4, HeldMore
<1>6. Shared'
  <2>1. /\ H \cup {h} \in SUBSET Heads /\ (H \cup {h}) \cap A = {}
        /\ Putting' \cap ((H \cup {h}) \cup A) = {}
        /\ (H \cup {h}) \cup A \cup Putting' = Kept'
    BY <1>0, <1>2, <1>3, <1>4
  <2> QED BY <1>1, <1>4, <1>5, <2>1 DEF Shared
<1>7. Cardinality(Kept') = K + 1
  BY <1>0, <1>2, Counts DEF K
<1>8. vq.inuse = K + 1 /\ vq.inuse = Len(held) + Len(vq.resubmit) + 1
      /\ area.version = 1 /\ area.used = guest.uidx
  BY <1>0, <1>3, Records DEF K
<1>9. Len(Unused') = 0
  BY <1>3
<1>10. /\ vq'.inuse = Cardinality(Kept') + 0
       /\ vq'.inuse = Len(held') + Len(vq'.resubmit) + Len(Unused')
  <2>1. vq'.inuse = vq.inuse /\ vq'.resubmit = vq.resubmit
    BY <1>1
  <2>2. K + 1 = (K + 1) + 0
        /\ Len(held) + Len(vq.resubmit) + 1 = (Len(held) + 1) + Len(vq.resubmit) + 0
    <3>1. \A a, b, k \in Nat : k + 1 = (k + 1) + 0 /\ a + b + 1 = (a + 1) + b + 0
      OBVIOUS
    <3> QED BY <1>0, <3>1, Zenon
  <2> QED BY <1>5, <1>7, <1>8, <1>9, <2>1, <2>2
<1> QED BY <1>0, <1>1, <1>2, <1>3, <1>6, <1>8, <1>10 DEF InFlight

(* An element given back is on the used ring before it is recorded.        *)
LEMMA InFlightFill ==
    ASSUME IndInv, PlaceInv, NEW k \in 1..Num, Fill(k), Has("INFLIGHT")
    PROVE  InFlight'
<1> DEFINE x == held[k].head
           u == guest.uidx
<1>0. /\ Types /\ InHand /\ Running /\ vq \in Queues /\ Len(held) \in Nat
      /\ Len(vq.resubmit) \in Nat /\ u \in Int /\ guest.used \in [Heads -> Heads]
      /\ guest \in Guests
  BY Basics DEF IndInv, Fill, Running
<1>1. /\ pc \in {"run", "wait"} /\ k \in 1..Len(held) /\ x \in Heads /\ cur = << >>
      /\ guest'.used = [guest.used EXCEPT ![(u + Len(cur)) % Num] = x]
  BY FillPlace
<1>2. /\ UNCHANGED <<features, area, vq, given>> /\ cur' = Append(cur, x)
      /\ held' = RemoveAt(held, k) /\ pc' = "pre"
  BY DEF Fill, outside
<1>3. guest'.uidx = u
  <2>1. guest' = [guest EXCEPT !.used[Mod(vq.used + Len(cur)) % Num] = x]
    BY Zenon DEF Fill
  <2> QED BY <1>0, <2>1 DEF Guests
<1>4. cur' = <<x>> /\ cur'[1] = x /\ guest'.used[u % Num] = x
  <2>1. cur' = <<x>> /\ cur'[1] = x
    BY <1>1, <1>2
  <2>2. u + Len(cur) = u /\ u % Num \in Heads
    <3>1. Len(cur) = 0
      BY <1>1
    <3>2. u % Num \in Heads
      BY <1>0, SlotIn
    <3> QED BY <1>0, <3>1, <3>2
  <2> QED BY <1>0, <1>1, <2>1, <2>2
<1>5. Kept' = Kept /\ Marked' = Marked
  BY <1>2, <1>3 DEF Kept, Marked, Has
<1>6. /\ ~Taking /\ ~Taking' /\ Unused = << >> /\ Unused' = <<x>>
      /\ Putting = {} /\ Putting' = {x} /\ Len(Unused) = 0 /\ Len(Unused') = 1
  <2>1. Unused = << >> /\ Unused' = <<x>>
    BY <1>1, <1>2, <1>4 DEF Unused
  <2>2. ~Taking /\ ~Taking' /\ Putting = {} /\ Putting' = {x}
    BY <1>1, <1>2, <1>4 DEF Taking, Putting
  <2> QED BY <2>1, <2>2
<1>7. PICK H \in SUBSET Heads, A \in SUBSET Heads :
         /\ Lists(HeldHeads, Len(held), H)
         /\ Lists(vq.resubmit, Len(vq.resubmit), A)
         /\ H \cap A = {} /\ H \cup A = Kept
  BY <1>0, <1>6, Records DEF Shared
<1> HIDE DEF x, u
<1>8. /\ Len(held') = Len(held) - 1 /\ x \in H
      /\ Lists(HeldHeads', Len(held'), H \ {x})
  BY <1>0, <1>1, <1>2, <1>7, HeldLess DEF x
<1>9. Shared'
  <2>1. /\ H \ {x} \in SUBSET Heads /\ (H \ {x}) \cap A = {}
        /\ Putting' \cap ((H \ {x}) \cup A) = {}
        /\ (H \ {x}) \cup A \cup Putting' = Kept'
    BY <1>1, <1>5, <1>6, <1>7, <1>8
  <2> QED BY <1>2, <1>7, <1>8, <2>1 DEF Shared
<1>10. /\ vq.inuse = Cardinality(Kept) + 0
       /\ vq.inuse = Len(held) + Len(vq.resubmit) + 0
       /\ area.version = 1 /\ area.used = guest.uidx
  BY <1>0, <1>1, <1>6, Records
<1>11. vq'.inuse = Len(held') + Len(vq'.resubmit) + Len(Unused')
  <2>1. \A a, b \in Nat : a + b + 0 = (a - 1) + b + 1
    OBVIOUS
  <2>2. vq'.inuse = vq.inuse /\ vq'.resubmit = vq.resubmit
    BY <1>2
  <2>3. Len(held) + Len(vq.resubmit) + 0 = (Len(held) - 1) + Len(vq.resubmit) + 1
    BY <1>0, <2>1, Zenon
  <2> QED BY <1>6, <1>8, <1>10, <2>2, <2>3, Zenon
<1> QED BY <1>2, <1>3, <1>4, <1>5, <1>6, <1>9, <1>10, <1>11 DEF InFlight, u

LEMMA InFlightPrePut ==
    ASSUME IndInv, PlaceInv, PrePut
    PROVE  InFlight'
<1>0. /\ Types /\ InHand /\ [Next]_vars /\ Running /\ area \in Areas /\ Has("INFLIGHT")
      /\ pc = "pre" /\ pc' = "flush" /\ cur[1] \in Heads
  BY Basics, HeadInHand DEF IndInv, Next, Backend, PrePut, Running, InHand
<1>1. /\ UNCHANGED <<features, guest, vq, cur, held, given>>
      /\ area' = [area EXCEPT !.last = cur[1]]
  BY DEF PrePut, outside
<1>2. /\ area'.version = area.version /\ area'.used = area.used /\ area'.last = cur[1]
  BY <1>0, <1>1 DEF Areas
<1>3. Kept' = Kept
  BY <1>0, KeptSame DEF Flush, GetMark
<1>4. /\ ~Taking /\ ~Taking' /\ Unused' = Unused /\ Putting' = Putting
      /\ HeldHeads' = HeldHeads
  BY <1>0, <1>1 DEF Taking, Unused, Putting, HeldHeads
<1>5. Shared'
  BY <1>0, <1>1, <1>3, <1>4, Records DEF Shared
<1>6. /\ area'.version = 1 /\ area'.used = guest'.uidx
      /\ vq'.inuse = Cardinality(Kept') + 0
      /\ vq'.inuse = Len(held') + Len(vq'.resubmit) + Len(Unused')
      /\ guest'.used[guest'.uidx % Num] = cur'[1]
  BY <1>0, <1>1, <1>2, <1>3, <1>4, Records
<1> QED BY <1>0, <1>1, <1>2, <1>4, <1>5, <1>6 DEF InFlight

LEMMA InFlightFlush ==
    ASSUME IndInv, PlaceInv, Flush, Has("INFLIGHT")
    PROVE  InFlight'
<1> DEFINE x == cur[1]
           K == Cardinality(Kept)
           u == guest.uidx
<1>0. /\ Types /\ InHand /\ Running /\ vq \in Queues /\ Len(held) \in Nat /\ pc = "flush"
      /\ Len(vq.resubmit) \in Nat /\ u \in Idx /\ Len(cur) = 1
      /\ Kept \in SUBSET Heads /\ K \in Nat
  BY Basics, Counts DEF IndInv, Flush, Running, InHand
<1>1. /\ vq'.inuse = vq.inuse - 1 /\ vq'.resubmit = vq.resubmit /\ held' = held
      /\ pc' = "clear" /\ cur' = cur
  BY <1>0, FlushPlace
<1>2. /\ guest'.uidx = Mod(u + 1) /\ area' = area
  BY <1>0, FlushLent
<1>3. Kept' = Kept \ {x} /\ x \in Kept
  BY FlushRecoverable
<1>4. /\ ~Taking /\ ~Taking' /\ Unused = cur /\ Len(Unused) = 1 /\ Unused' = << >>
      /\ Len(Unused') = 0 /\ Putting = {x} /\ Putting' = {}
  <2>1. Unused = cur /\ Unused' = << >> /\ Len(<< >>) = 0
    BY <1>0, <1>1 DEF Unused
  <2>2. ~Taking /\ ~Taking' /\ Putting = {x} /\ Putting' = {}
    BY <1>0, <1>1 DEF Taking, Putting
  <2> QED BY <1>0, <2>1, <2>2
<1>5. PICK H \in SUBSET Heads, A \in SUBSET Heads :
         /\ Lists(HeldHeads, Len(held), H)
         /\ Lists(vq.resubmit, Len(vq.resubmit), A)
         /\ H \cap A = {} /\ {x} \cap (H \cup A) = {} /\ H \cup A \cup {x} = Kept
  BY <1>0, <1>4, Records DEF Shared
<1> HIDE DEF x, K, u
<1>6. Shared'
  <2>1. HeldHeads' = HeldHeads
    BY <1>1 DEF HeldHeads
  <2>2. H \cup A \cup Putting' = Kept' /\ Putting' \cap (H \cup A) = {}
    BY <1>3, <1>4, <1>5
  <2> QED BY <1>1, <1>5, <2>1, <2>2 DEF Shared
<1>7. Cardinality(Kept') = K - 1
  <2>1. x \in Heads
    BY <1>0, <1>3
  <2> QED BY <1>0, <1>3, <2>1, Counts DEF K
<1>8. /\ vq.inuse = K + 0 /\ vq.inuse = Len(held) + Len(vq.resubmit) + 1
      /\ area.version = 1 /\ area.used = u /\ area.last = x
  BY <1>0, <1>4, Records DEF K, u, x
<1>9. /\ vq'.inuse = Cardinality(Kept') + 0
      /\ vq'.inuse = Len(held') + Len(vq'.resubmit) + Len(Unused')
  <2>1. \A a, b, c \in Nat : (c + 0) - 1 = (c - 1) + 0 /\ (a + b + 1) - 1 = a + b + 0
    OBVIOUS
  <2>2. (K + 0) - 1 = (K - 1) + 0
        /\ (Len(held) + Len(vq.resubmit) + 1) - 1 = Len(held) + Len(vq.resubmit) + 0
    BY <1>0, <2>1, Zenon
  <2>3. vq'.inuse = (K + 0) - 1 /\ vq'.inuse = (Len(held) + Len(vq.resubmit) + 1) - 1
    BY <1>1, <1>8
  <2> QED BY <1>1, <1>4, <1>7, <2>2, <2>3
<1>10. guest'.uidx # u
  <2>1. Mod(u + 1) = IF u + 1 = IdxMod THEN 0 ELSE u + 1
    BY <1>0, Indices, Zenon
  <2> QED BY <1>0, <1>2, <2>1, Sizes DEF Idx
<1> QED BY <1>1, <1>2, <1>4, <1>6, <1>8, <1>9, <1>10 DEF InFlight, x

(* What was used is unmarked, and then the area has the new index.         *)
LEMMA InFlightPost ==
    ASSUME IndInv, PlaceInv, PostClear \/ PostIndex
    PROVE  InFlight'
<1>0. /\ Types /\ InHand /\ CallInv /\ [Next]_vars /\ Running /\ area \in Areas
      /\ Has("INFLIGHT") /\ pc \in {"clear", "post"} /\ cur[1] \in Heads
  BY Basics, HeadInHand DEF IndInv, Next, Backend, PostClear, PostIndex, Running, InHand
<1>1. UNCHANGED <<features, guest, vq, held, given>> /\ vq.used = guest.uidx
  BY <1>0 DEF PostClear, PostIndex, outside, CallInv
<1>2. Kept' = Kept
  <2>1. ~Flush /\ ~GetMark
    BY <1>0 DEF Flush, GetMark
  <2> QED BY <1>0, <2>1, KeptSame
<1>3. pc' \in {"post", "run", "wait"}
  BY <1>0 DEF PostClear, PostIndex, Types
<1>4. /\ ~Taking /\ ~Taking' /\ Unused = << >> /\ Unused' = << >>
      /\ Putting = {} /\ Putting' = {} /\ HeldHeads' = HeldHeads
  BY <1>0, <1>1, <1>3 DEF Taking, Unused, Putting, HeldHeads
<1>5. Shared'
  BY <1>0, <1>1, <1>2, <1>4, Records DEF Shared
<1>6. /\ vq'.inuse = Cardinality(Kept') + 0
      /\ vq'.inuse = Len(held') + Len(vq'.resubmit) + Len(Unused')
  BY <1>0, <1>1, <1>2, <1>4, Records
<1>7. CASE PostClear
  <2>1. PICK h \in Heads : h = cur[1] /\ area' = [area EXCEPT !.desc[h].inflight = FALSE]
    BY <1>0, <1>7 DEF PostClear
  <2>2. /\ Marked' = Marked \ {h} /\ area'.used = area.used /\ area'.last = area.last
        /\ area'.version = area.version
    BY <1>0, <2>1, MarkedAfter
  <2>3. pc = "clear" /\ pc' = "post" /\ cur' = cur
    BY <1>7 DEF PostClear
  <2>4. /\ area'.version = 1 /\ area'.used # guest'.uidx /\ area'.last = cur'[1]
        /\ cur'[1] \notin Marked'
    BY <1>0, <1>1, <2>1, <2>2, <2>3, Records
  <2> QED BY <1>4, <1>5, <1>6, <2>3, <2>4 DEF InFlight
<1>8. CASE PostIndex
  <2>1. /\ area' = [area EXCEPT !.used = vq.used] /\ pc' = back /\ back \in {"run", "wait"}
    BY <1>0, <1>8 DEF PostIndex, Types
  <2>2. area'.version = 1 /\ area'.used = guest'.uidx
    BY <1>0, <1>1, <2>1, Records DEF Areas
  <2> QED BY <1>4, <1>5, <1>6, <2>1, <2>2 DEF InFlight
<1> QED BY <1>7, <1>8

(* The driver puts one more on the ring, behind what is there.             *)
LEMMA InFlightOffer ==
    ASSUME IndInv, PlaceInv, Offer, Running, Has("INFLIGHT")
    PROVE  InFlight'
<1> DEFINE h == Min(driver.free)
           L == Cardinality(Lent)
           K == Cardinality(Kept)
           u == guest.uidx
<1>0. /\ Types /\ InHand /\ [Next]_vars /\ u \in Int /\ guest.ring \in [Heads -> Heads]
      /\ L \in Nat /\ K \in Nat /\ Kept \subseteq Lent /\ guest.idx = Mod(u + L)
      /\ (Lent # Kept => K < L)
  BY Basics, Room DEF IndInv, Next, Driver
<1>1. /\ h \in driver.free /\ Lent' = Lent \cup {h} /\ h \notin Lent
      /\ guest'.ring = [guest.ring EXCEPT ![guest.idx % Num] = h]
      /\ guest'.uidx = u /\ guest'.used = guest.used
  BY OfferLent
<1>2. UNCHANGED <<features, area, vq, pc, cur, held>>
  BY DEF Offer
<1>3. Kept' = Kept /\ Marked' = Marked
  BY <1>1, <1>2 DEF Kept, Marked, Has
<1>4. /\ Taking' = Taking /\ Unused' = Unused /\ Putting' = Putting
      /\ HeldHeads' = HeldHeads
  BY <1>2 DEF Taking, Unused, Putting, HeldHeads
<1>5. Shared'
  BY <1>2, <1>3, <1>4, Records DEF Shared
<1>6. L < Num
  <2>1. Lent \in SUBSET Heads /\ h \in Heads
    BY <1>0, <1>1, Basics
  <2> QED BY <1>1, <2>1, Counts
<1>7. ASSUME Taking
      PROVE  /\ Lent' # Kept'
             /\ cur'[1] = guest'.ring[(guest'.uidx + Cardinality(Kept')) % Num]
  <2>1. /\ Lent # Kept /\ cur[1] = guest.ring[(u + K) % Num]
    BY <1>7, Records
  <2>2. Lent' # Kept'
    BY <1>0, <1>1, <1>3
  <2> HIDE DEF h, L, K, u
  <2>3. K \in 0..Num - 1 /\ L \in 0..Num - 1 /\ K # L /\ u + K \in Int /\ u + L \in Int
    BY <1>0, <1>6, <2>1, Sizes
  <2>4. guest.idx % Num = (u + L) % Num
    BY <1>0, <2>3, SameSlot, Zenon
  <2>5. (u + K) % Num # (u + L) % Num
    BY <1>0, <2>3, SlotsApart, Zenon
  <2>6. (u + K) % Num \in Heads
    BY <2>3, SlotIn
  <2>7. guest'.ring[(u + K) % Num] = guest.ring[(u + K) % Num]
    BY <1>0, <1>1, <2>4, <2>5, <2>6
  <2> QED BY <1>1, <1>2, <1>3, <2>1, <2>2, <2>7 DEF K
<1>8. /\ area'.version = 1
      /\ vq'.inuse = Cardinality(Kept') + IF Taking' THEN 1 ELSE 0
      /\ vq'.inuse = Len(held') + Len(vq'.resubmit) + Len(Unused')
  BY <1>2, <1>3, <1>4, Records
<1>9. /\ area'.used # guest'.uidx <=> pc' \in {"clear", "post"}
      /\ pc' \in {"flush", "clear", "post"} => area'.last = cur'[1]
      /\ pc' = "post" => cur'[1] \notin Marked'
      /\ pc' \in {"pre", "flush"} => guest'.used[guest'.uidx % Num] = cur'[1]
  BY <1>1, <1>2, <1>3, Records
<1> QED BY <1>4, <1>5, <1>7, <1>8, <1>9, Zenon DEF InFlight

LEMMA InFlightStep ==
    ASSUME IndInv, PlaceInv, [Next]_vars, ~RewindMarked
    PROVE  InFlight'
<1> SUFFICES ASSUME Running', Has("INFLIGHT")
             PROVE  InFlight'
  BY Moves DEF InFlight, Has, IndInv
<1>0. Types /\ InHand
  BY DEF IndInv
<1>1. CASE CheckFresh \/ Check \/ PopResubmitted \/ PopHead \/ GetCounter \/ GetMark
  BY <1>1, InFlightStart, InFlightAgain, InFlightPop, InFlightCounter, InFlightMark
<1>2. CASE PrePut \/ Flush \/ PostClear \/ PostIndex
  BY <1>2, InFlightPrePut, InFlightFlush, InFlightPost
<1>3. ASSUME NEW k \in 1..Num, Fill(k) \/ Rewind(k)
      PROVE  InFlight'
  BY <1>3, InFlightFill, RewindPlace
<1>4. CASE Offer
  <2>1. Running
    BY <1>4 DEF Offer, Running
  <2> QED BY <1>4, <2>1, InFlightOffer
<1>5. CASE \/ Wake \/ PopNothing \/ Disable \/ Enable \/ Recheck \/ Notify
           \/ Decide \/ Collect \/ Arm \/ Nap \/ Interrupt \/ UNCHANGED vars
  <2>1. /\ UNCHANGED <<area, cur, held>> /\ vq'.inuse = vq.inuse /\ vq'.resubmit = vq.resubmit
        /\ (pc' = pc \/ {pc, pc'} \subseteq Calm)
    BY <1>0, <1>5, CalmSteps
  <2>2. CASE Flush \/ Offer \/ GetMark \/ \E k \in 1..Num : Fill(k)
    BY <1>1, <1>2, <1>3, <1>4, <2>2
  <2> QED BY <2>1, <2>2, InFlightKeeps
<1>6. CASE Start \/ RepairMark \/ RepairIndex \/ Stop \/ Crash
  BY <1>6 DEF Start, RepairMark, RepairIndex, Stop, Crash, Running
<1> QED BY <1>1, <1>2, <1>3, <1>4, <1>5, <1>6 DEF Next, Driver, Backend

-----------------------------------------------------------------------------
(***************************************************************************)
(* Every buffer has its place                                              *)
(***************************************************************************)
LEMMA PlaceInit == Init => PlaceInv
<1> SUFFICES ASSUME Init PROVE PlaceInv
  OBVIOUS
<1>0. Types /\ base \in Idx /\ base \in Int
  BY Initially, Sizes DEF IndInv, Types, Idx
<1>1. /\ guest.idx = base /\ guest.uidx = base /\ driver.seen = base
      /\ driver.free = Heads /\ area.used = base /\ pc = "stopped"
      /\ vq.inuse = 0 /\ vq.resubmit = << >> /\ held = << >>
  BY DEF Init, NewVq
<1>2. Lent = {} /\ Marked = {}
  BY DEF Init, Lent, Marked
<1>3. Kept = {} /\ Done = {}
  BY <1>1, <1>2 DEF Kept, Done
<1>4. Cardinality({}) = 0
  BY FS_EmptySet, Zenon
<1>5. ASSUME NEW ring, NEW i
      PROVE  On(ring, i, 0, {})
  BY DEF On
<1>6. base = Mod(base + 0)
  <2>1. Mod(base) = base
    BY <1>0, ModSmall, Sizes, Zenon DEF Mod, Idx
  <2>2. base + 0 = base
    BY <1>0
  <2> QED BY <2>1, <2>2, Zenon
<1>7. Recoverable
  <2>1. {} \ {} = {} /\ {} \subseteq {}
    OBVIOUS
  <2> QED BY <1>1, <1>2, <1>3, <1>4, <1>5, <1>6, <2>1, Zenon DEF Recoverable
<1>8. Completed
  <2>1. Heads \cap {} = {}
    OBVIOUS
  <2> QED BY <1>1, <1>2, <1>3, <1>4, <1>5, <1>6, <2>1, Zenon DEF Completed
<1>9. AreaInv /\ IdleInv
  BY <1>1, <1>2 DEF AreaInv, IdleInv
<1>10. InFlight /\ Sequential /\ Resumes
  BY <1>1 DEF InFlight, Sequential, Resumes, Running
<1> QED BY <1>7, <1>8, <1>9, <1>10 DEF PlaceInv

(* The library panics only where it has nothing to call with.              *)
NoPanic == callMode # "none" => pc # "panicked"

LEMMA NoPanicStep ==
    ASSUME IndInv, PlaceInv, NoPanic, [Next]_vars
    PROVE  NoPanic'
<1>0. Types
  BY DEF IndInv
<1>1. CASE PopHead
  BY <1>1, PopPlace DEF NoPanic
<1>2. CASE Notify
  BY <1>2 DEF Notify, NoPanic
<1>3. CASE Start \/ CheckFresh \/ RepairMark \/ RepairIndex \/ Check \/ Wake \/ Stop \/ Crash
  BY <1>3 DEF Start, CheckFresh, RepairMark, RepairIndex, Check, Wake, Stop, Crash, NoPanic
<1>4. CASE PopResubmitted \/ PopNothing \/ GetCounter \/ GetMark \/ Disable \/ Enable \/ Recheck
  BY <1>4 DEF PopResubmitted, PopNothing, GetCounter, GetMark, Disable, Enable, Recheck, NoPanic
<1>5. ASSUME NEW k \in 1..Num, Fill(k) \/ Rewind(k)
      PROVE  NoPanic'
  BY <1>5 DEF Fill, Rewind, NoPanic
<1>6. CASE PrePut \/ Flush \/ PostClear \/ PostIndex
  BY <1>0, <1>6 DEF PrePut, Flush, PostClear, PostIndex, NoPanic, Types
<1>7. CASE Driver \/ UNCHANGED vars
  BY <1>7 DEF Driver, Offer, Decide, Collect, Arm, Nap, Interrupt, vars, NoPanic
<1> QED BY <1>1, <1>2, <1>3, <1>4, <1>5, <1>6, <1>7 DEF Next, Backend

(* The entries from one index to another are those that On speaks of.      *)
LEMMA EntriesList ==
    ASSUME NEW ring, NEW i \in Int, NEW n \in 0..Num, NEW S, On(ring, i, n, S)
    PROVE  /\ DOMAIN Entries(ring, Mod(i), Mod(i + n)) = 1..n
           /\ Lists(Entries(ring, Mod(i), Mod(i + n)), n, S)
           /\ \A k \in 1..n : Entries(ring, Mod(i), Mod(i + n))[k]
                                = ring[(i + (k - 1)) % Num]
<1> DEFINE from == Mod(i)
           to == Mod(i + n)
           E == Entries(ring, from, to)
<1>0. /\ from \in Idx /\ to \in Idx /\ n \in Nat /\ i + n \in Int
  <2>1. n \in Nat /\ i + n \in Int
    BY Sizes
  <2> QED BY <2>1, ModIdx, Zenon
<1>1. Mod(to - from) = n
  <2>1. to = Mod(from + n)
    BY <1>0, ModSum, Sizes
  <2> HIDE DEF from, to
  <2>2. /\ from \in Nat /\ from < IdxMod /\ IdxMod \in Nat /\ n < IdxMod
        /\ to \in Int
    BY <1>0, Sizes DEF Idx
  <2>3. from + n \in Int /\ -IdxMod <= from + n /\ from + n < 2 * IdxMod
    BY <1>0, <2>2
  <2> DEFINE s == from + n
  <2>4. s \in Int /\ -IdxMod <= s /\ s < 2 * IdxMod
    BY <2>3
  <2> HIDE DEF s
  <2>5. Mod(s) = IF s < 0 THEN s + IdxMod ELSE IF s < IdxMod THEN s ELSE s - IdxMod
    BY <2>4, ModIs
  <2>6. to - from = n \/ to - from = n - IdxMod
    BY <1>0, <2>1, <2>2, <2>5 DEF s
  <2> DEFINE d == to - from
  <2>7. d \in Int /\ -IdxMod <= d /\ d < 2 * IdxMod /\ (d = n \/ d = n - IdxMod)
    BY <1>0, <2>2, <2>6
  <2> HIDE DEF d
  <2>8. Mod(d) = IF d < 0 THEN d + IdxMod ELSE IF d < IdxMod THEN d ELSE d - IdxMod
    BY <2>7, ModIs
  <2>9. Mod(d) = n
    BY <1>0, <2>2, <2>7, <2>8
  <2> QED BY <2>9 DEF d
<1>2. E = [k \in 1..n |-> ring[Mod(from + k - 1) % Num]]
  BY <1>1 DEF Entries
<1>3. ASSUME NEW k \in 1..n
      PROVE  E[k] = ring[(i + (k - 1)) % Num]
  <2>1. k - 1 \in Int /\ from + k - 1 \in Int /\ from + k - 1 = from + (k - 1)
    BY <1>0, Sizes DEF Idx
  <2>2. Mod(from + k - 1) % Num = (from + k - 1) % Num
    BY <2>1, SameSlot, Zenon
  <2>3. (from + (k - 1)) % Num = (i + (k - 1)) % Num
    BY <2>1, SlotOfMod, Zenon
  <2>4. E[k] = ring[Mod(from + k - 1) % Num]
    BY <1>2
  <2> QED BY <2>1, <2>2, <2>3, <2>4, Zenon
<1> DEFINE f == [j \in 0..n - 1 |-> ring[(i + j) % Num]]
<1>4. \A j \in 0..n - 1 : ring[(i + j) % Num] = f[j]
  OBVIOUS
<1>5. DOMAIN E = 1..n
  BY <1>2
<1> HIDE DEF f, E
<1>6. Row(f, n, S)
  BY <1>0, <1>4, OnRow, Zenon
<1>7. \A k \in 1..n : k - 1 \in 0..n - 1
  BY <1>0
<1>8. \A k \in 1..n : E[k] = f[k - 1]
  BY <1>3, <1>4, <1>7, Zenon
<1>9. \A j \in 0..n - 1 : j + 1 \in 1..n /\ (j + 1) - 1 = j
  BY <1>0
<1>10. \A k \in 1..n : E[k] \in S
  BY <1>6, <1>7, <1>8, Zenon DEF Row
<1>11. \A x \in S : \E k \in 1..n : E[k] = x
  <2>1. ASSUME NEW x \in S
        PROVE  \E k \in 1..n : E[k] = x
    <3>1. PICK j \in 0..n - 1 : f[j] = x
      BY <1>6, Zenon DEF Row
    <3>2. E[j + 1] = x /\ j + 1 \in 1..n
      BY <1>8, <1>9, <3>1
    <3> QED BY <3>2, Zenon
  <2> QED BY <2>1, Zenon
<1>12. \A j, k \in 1..n : E[j] = E[k] => j = k
  <2>1. ASSUME NEW j \in 1..n, NEW k \in 1..n, E[j] = E[k]
        PROVE  j = k
    <3>1. f[j - 1] = f[k - 1]
      BY <1>8, <2>1, Zenon
    <3>2. j - 1 = k - 1
      BY <1>6, <1>7, <3>1, Zenon DEF Row
    <3> QED BY <1>0, <3>2
  <2> QED BY <2>1, Zenon
<1>13. Lists(E, n, S)
  BY <1>10, <1>11, <1>12, Zenon DEF Lists
<1>14. \A k \in 1..n : E[k] = ring[(i + (k - 1)) % Num]
  BY <1>3
<1> QED BY <1>5, <1>13, <1>14 DEF E

(* A list on its domain.                                                   *)
All(s, S) == /\ Range(s) = S
             /\ \A j, k \in DOMAIN s : s[j] = s[k] => j = k

LEMMA ListsAll ==
    ASSUME NEW s, NEW n, NEW S, DOMAIN s = 1..n, Lists(s, n, S)
    PROVE  All(s, S)
BY DEF Lists, All, Range

(* Lists that hold sets which have nothing in common, and W together.      *)
Apart(W, parts, sets) ==
    /\ DOMAIN sets = DOMAIN parts
    /\ \A n \in DOMAIN parts : All(parts[n], sets[n])
    /\ \A m, n \in DOMAIN parts : \A x : x \in sets[m] /\ x \in sets[n] => m = n
    /\ \A x : x \in W <=> \E n \in DOMAIN parts : x \in sets[n]

LEMMA SplitAll ==
    ASSUME NEW W, NEW parts, NEW sets, Apart(W, parts, sets)
    PROVE  Split(W, parts)
<1> USE DEF Apart
<1>1. \A n \in DOMAIN parts : Range(parts[n]) = sets[n]
  BY Zenon DEF All
<1>2. W = UNION {Range(parts[n]) : n \in DOMAIN parts}
  BY <1>1
<1>3. ASSUME NEW m \in DOMAIN parts, NEW n \in DOMAIN parts,
             NEW j \in DOMAIN parts[m], NEW k \in DOMAIN parts[n],
             parts[m][j] = parts[n][k]
      PROVE  m = n /\ j = k
  <2>1. parts[m][j] \in Range(parts[m]) /\ parts[n][k] \in Range(parts[n])
    BY Zenon DEF Range
  <2>2. m = n
    <3>1. parts[m][j] \in sets[m] /\ parts[m][j] \in sets[n]
      BY <1>1, <1>3, <2>1
    <3> QED BY <3>1, Zenon
  <2>3. j \in DOMAIN parts[n] /\ parts[n][j] = parts[n][k]
    BY <1>3, <2>2
  <2>4. j = k
    BY <2>3, Zenon DEF All
  <2> QED BY <2>2, <2>4
<1> QED BY <1>2, <1>3, Zenon DEF Split

LEMMA SplitFour ==
    ASSUME NEW W, NEW a, NEW b, NEW c, NEW d, NEW A, NEW B, NEW C, NEW D,
           All(a, A), All(b, B), All(c, C), All(d, D),
           W = A \cup B \cup C \cup D, A \cap B = {}, A \cap C = {}, A \cap D = {},
           B \cap C = {}, B \cap D = {}, C \cap D = {}
    PROVE  Split(W, <<a, b, c, d>>)
<1> DEFINE parts == <<a, b, c, d>>
           sets == <<A, B, C, D>>
<1>1. /\ DOMAIN parts = {1, 2, 3, 4} /\ DOMAIN sets = {1, 2, 3, 4}
      /\ parts[1] = a /\ parts[2] = b /\ parts[3] = c /\ parts[4] = d
      /\ sets[1] = A /\ sets[2] = B /\ sets[3] = C /\ sets[4] = D
  OBVIOUS
<1> HIDE DEF parts, sets
<1>2. \A n \in DOMAIN parts : All(parts[n], sets[n])
  BY <1>1
<1>3. \A m, n \in DOMAIN parts : \A x : x \in sets[m] /\ x \in sets[n] => m = n
  BY <1>1
<1>4. \A x : x \in W <=> \E n \in DOMAIN parts : x \in sets[n]
  BY <1>1
<1>5. DOMAIN sets = DOMAIN parts
  BY <1>1
<1>6. Apart(W, parts, sets)
  BY <1>2, <1>3, <1>4, <1>5, Zenon DEF Apart
<1>7. Split(W, parts)
  BY <1>6, SplitAll, Zenon
<1> QED BY <1>7 DEF parts

(* The used ring has what the driver gets back.                            *)
LEMMA PlacesUsed == IndInv /\ PlaceInv => CompletedOnce
<1> SUFFICES ASSUME IndInv, PlaceInv PROVE CompletedOnce
  OBVIOUS
<1> DEFINE s == driver.seen
           n == Cardinality(Done)
<1>0. s \in Int /\ s \in Idx /\ Done \in SUBSET Heads
  BY Basics DEF IndInv
<1>1. /\ driver.free \cap Lent = {} /\ guest.uidx = Mod(s + n)
      /\ On(guest.used, s, n, Done)
  BY DEF PlaceInv, Completed
<1>2. n \in 0..Num
  BY <1>0, FewHeads
<1>3. Mod(s) = s
  BY <1>0, ModSmall, Sizes, Zenon DEF Mod, Idx
<1>a. On(guest.used, s, n, Done) /\ s \in Int
  BY <1>0, <1>1
<1> HIDE DEF s, n
<1>4. /\ DOMAIN Entries(guest.used, Mod(s), Mod(s + n)) = 1..n
      /\ Lists(Entries(guest.used, Mod(s), Mod(s + n)), n, Done)
      /\ \A k \in 1..n : Entries(guest.used, Mod(s), Mod(s + n))[k]
                         = guest.used[(s + (k - 1)) % Num]
  BY <1>a, <1>2, EntriesList, Zenon
<1>5. Unseen = Entries(guest.used, Mod(s), Mod(s + n))
  BY <1>1, <1>3 DEF Unseen, s
<1>6. All(Unseen, Done)
  BY <1>4, <1>5, ListsAll, Zenon
<1> DEFINE parts == <<Unseen>>
           sets == <<Done>>
<1>7. /\ DOMAIN parts = {1} /\ DOMAIN sets = {1} /\ parts[1] = Unseen /\ sets[1] = Done
  OBVIOUS
<1> HIDE DEF parts, sets
<1>8. Apart(Done, parts, sets)
  BY <1>6, <1>7 DEF Apart
<1>9. Split(Done, parts)
  BY <1>8, SplitAll, Zenon
<1> QED BY <1>1, <1>9 DEF CompletedOnce, Done, parts

(* The ring has what is to be popped.                                      *)
LEMMA PlacesAvailable ==
    ASSUME IndInv, PlaceInv, Running, vq.inuse \in 0..Cardinality(Lent),
           NEW S \in SUBSET Heads,
           On(guest.ring, guest.uidx + vq.inuse, Cardinality(Lent) - vq.inuse, S)
    PROVE  /\ All(Available, S)
           /\ DOMAIN Available = 1..Cardinality(Lent) - vq.inuse
           /\ \A k \in DOMAIN Available :
                 Available[k] = guest.ring[((guest.uidx + vq.inuse) + (k - 1)) % Num]
<1> DEFINE i == guest.uidx + vq.inuse
           n == Cardinality(Lent) - vq.inuse
<1>0. guest.uidx \in Int /\ vq.inuse \in Int /\ Cardinality(Lent) \in Nat
      /\ Cardinality(Lent) <= Num
  BY Basics, Room, Counts DEF IndInv
<1>1. i \in Int /\ n \in 0..Num /\ i + n = guest.uidx + Cardinality(Lent)
  BY <1>0, Sizes
<1>2. vq.last = Mod(i) /\ guest.idx = Mod(i + n)
  BY <1>1, Room DEF PlaceInv, Resumes
<1>3. On(guest.ring, i, n, S)
  OBVIOUS
<1> HIDE DEF i, n
<1>4. /\ DOMAIN Entries(guest.ring, Mod(i), Mod(i + n)) = 1..n
      /\ Lists(Entries(guest.ring, Mod(i), Mod(i + n)), n, S)
      /\ \A k \in 1..n : Entries(guest.ring, Mod(i), Mod(i + n))[k]
                         = guest.ring[(i + (k - 1)) % Num]
  BY <1>1, <1>3, EntriesList, Zenon
<1>5. Available = Entries(guest.ring, Mod(i), Mod(i + n))
  BY <1>2 DEF Available
<1>6. All(Available, S)
  BY <1>4, <1>5, ListsAll, Zenon
<1>7. /\ DOMAIN Available = 1..n
      /\ \A k \in DOMAIN Available : Available[k] = guest.ring[(i + (k - 1)) % Num]
  BY <1>4, <1>5, Zenon
<1> QED BY <1>6, <1>7 DEF i, n

(* With inflight records: held, to be popped again, being put, on the ring. *)
LEMMA PlacesRecorded ==
    ASSUME IndInv, PlaceInv, Running, Has("INFLIGHT")
    PROVE  /\ Split(Lent, <<Available, HeldHeads, vq.resubmit, Unused>>)
           /\ vq.inuse = Len(held) + Len(vq.resubmit) + Len(Unused)
<1> DEFINE u == guest.uidx
           K == Cardinality(Kept)
           L == Cardinality(Lent)
           R == Lent \ Kept
           n == Cardinality(R)
           h == cur[1]
<1>0. /\ Types /\ InHand /\ u \in Int /\ Lent \in SUBSET Heads /\ Kept \in SUBSET Heads
      /\ K \in Nat /\ L \in Nat /\ R \in SUBSET Heads /\ n = L - K /\ K <= L
      /\ Kept \subseteq Lent /\ (Lent # Kept => K < L)
      /\ cur \in Seq(Heads) /\ vq.resubmit \in Seq(Heads)
      /\ guest.ring \in [Heads -> Heads]
  <2>1. /\ Types /\ InHand /\ u \in Int /\ Lent \in SUBSET Heads /\ Kept \in SUBSET Heads
        /\ cur \in Seq(Heads) /\ vq.resubmit \in Seq(Heads)
        /\ guest.ring \in [Heads -> Heads]
    BY Basics DEF IndInv
  <2>2. K \in Nat /\ L \in Nat /\ K <= L /\ Kept \subseteq Lent /\ (Lent # Kept => K < L)
    BY Room
  <2>3. n = L - K
    BY <2>1, <2>2, Counts
  <2> QED BY <2>1, <2>2, <2>3
<1>1. On(guest.ring, u + K, n, R)
  BY Zenon DEF PlaceInv, Recoverable
<1>2. PICK H \in SUBSET Heads, A \in SUBSET Heads :
         /\ Lists(HeldHeads, Len(held), H)
         /\ Lists(vq.resubmit, Len(vq.resubmit), A)
         /\ H \cap A = {} /\ Putting \cap (H \cup A) = {}
         /\ H \cup A \cup Putting = Kept
  BY Records DEF Shared
<1>3. All(HeldHeads, H)
  <2>1. DOMAIN HeldHeads = 1..Len(held)
    BY DEF HeldHeads
  <2> QED BY <1>2, <2>1, ListsAll, Zenon
<1>4. All(vq.resubmit, A)
  <2>1. DOMAIN vq.resubmit = 1..Len(vq.resubmit)
    BY <1>0
  <2> QED BY <1>2, <2>1, ListsAll, Zenon
<1>5. /\ vq.inuse = K + IF Taking THEN 1 ELSE 0
      /\ Taking => Lent # Kept /\ h = guest.ring[(u + K) % Num]
  BY Records
<1>6. ASSUME pc \in {"counter", "mark", "pre", "flush"}
      PROVE  Unused = <<h>> /\ All(Unused, {h})
  <2>1. Len(cur) = 1
    BY <1>0, <1>6 DEF InHand
  <2>2. Unused = cur /\ DOMAIN cur = {1} /\ cur = <<h>>
    BY <1>0, <1>6, <2>1 DEF Unused
  <2> QED BY <2>2 DEF All, Range
<1>7. ASSUME pc \notin {"counter", "mark", "pre", "flush"}
      PROVE  All(Unused, {})
  <2>1. Unused = << >>
    BY <1>7 DEF Unused
  <2> QED BY <2>1 DEF All, Range
<1>8. ASSUME NEW a \in SUBSET Heads, NEW b \in SUBSET Heads, All(Available, a), All(Unused, b),
             Lent = a \cup H \cup A \cup b, a \cap b = {}, a \cap Kept = {},
             b \cap (H \cup A) = {}
      PROVE  Split(Lent, <<Available, HeldHeads, vq.resubmit, Unused>>)
  <2>1. /\ a \cap H = {} /\ a \cap A = {} /\ H \cap b = {} /\ A \cap b = {}
    BY <1>2, <1>8
  <2> QED BY <1>2, <1>3, <1>4, <1>8, <2>1, SplitFour, Zenon
<1> HIDE DEF u, K, L, R, n, h
<1>9. CASE Taking
  <2>1. /\ h \in R /\ On(guest.ring, (u + K) + 1, n - 1, R \ {h})
    <3>1. n \in Nat \ {0} /\ u + K \in Int
      BY <1>0, <1>5, <1>9
    <3> QED BY <1>1, <1>5, <1>9, <3>1, OnFirst, Zenon
  <2>2. /\ vq.inuse = K + 1 /\ vq.inuse \in 0..L /\ (u + K) + 1 = u + vq.inuse
        /\ n - 1 = L - vq.inuse
    BY <1>0, <1>5, <1>9
  <2>3. All(Available, R \ {h})
    <3>1. R \ {h} \in SUBSET Heads
      BY <1>0
    <3>2. On(guest.ring, u + vq.inuse, L - vq.inuse, R \ {h})
      BY <2>1, <2>2
    <3> QED BY <2>2, <3>1, <3>2, PlacesAvailable DEF u, L
  <2>4. All(Unused, {h}) /\ Putting = {}
    BY <1>6, <1>9 DEF Taking, Putting
  <2>5. /\ Lent = (R \ {h}) \cup H \cup A \cup {h} /\ (R \ {h}) \cap {h} = {}
        /\ (R \ {h}) \cap Kept = {} /\ {h} \cap (H \cup A) = {}
        /\ R \ {h} \in SUBSET Heads /\ {h} \in SUBSET Heads
    BY <1>0, <1>2, <2>1, <2>4 DEF R
  <2> QED BY <1>8, <2>3, <2>4, <2>5, Records
<1>10. CASE ~Taking
  <2>1. vq.inuse = K /\ vq.inuse \in 0..L
    BY <1>0, <1>5, <1>10
  <2>2. All(Available, R)
    <3>1. On(guest.ring, u + vq.inuse, L - vq.inuse, R)
      BY <1>0, <1>1, <2>1
    <3> QED BY <1>0, <2>1, <3>1, PlacesAvailable DEF u, L
  <2>3. All(Unused, Putting)
    BY <1>6, <1>7, <1>10 DEF Putting, Taking, h
  <2>4. /\ Lent = R \cup H \cup A \cup Putting /\ R \cap Putting = {}
        /\ R \cap Kept = {} /\ Putting \cap (H \cup A) = {} /\ Putting \in SUBSET Heads
    BY <1>0, <1>2 DEF R
  <2> QED BY <1>0, <1>8, <2>2, <2>3, <2>4, Records
<1> QED BY <1>9, <1>10

(* Without them: given back, held and on the ring, in this order.          *)
LEMMA PlacesInOrder ==
    ASSUME IndInv, PlaceInv, Running, ~Has("INFLIGHT")
    PROVE  /\ Split(Lent, <<Available, HeldHeads, vq.resubmit, Unused>>)
           /\ vq.inuse = Len(held) + Len(vq.resubmit) + Len(Unused)
<1> DEFINE u == guest.uidx
           c == Len(cur)
           m == Len(held)
           L == Cardinality(Lent)
           f == [j \in 0..L - 1 |-> guest.ring[(u + j) % Num]]
           C == {f[j] : j \in 0..c - 1}
           H == {f[j] : j \in c..(c + m) - 1}
           D == {guest.ring[(u + j) % Num] : j \in 0..(c + m) - 1}
<1>0. /\ Types /\ InHand /\ u \in Int /\ Lent \in SUBSET Heads /\ c \in Nat /\ m \in Nat
      /\ L \in Nat /\ cur \in Seq(Heads) /\ vq.inuse \in Int
  BY Basics, Room DEF IndInv
<1>1. /\ vq.inuse = c + m
      /\ \A k \in 1..c : cur[k] = guest.ring[(u + (k - 1)) % Num]
      /\ \A k \in 1..m : held[k].head = guest.ring[(u + (c + (k - 1))) % Num]
  BY DEF PlaceInv, Sequential
<1>2. c + m <= L /\ vq.inuse \in 0..L
  <2>1. PICK e \in vq.inuse..L : vq.shadow = Mod(u + e)
    BY DEF PlaceInv, Resumes
  <2> QED BY <1>0, <1>1, <2>1
<1>3. On(guest.ring, u, L, Lent)
  <2>1. Kept = {}
    BY DEF Kept
  <2>2. Cardinality(Kept) = 0
    BY <2>1, FS_EmptySet, Zenon
  <2>3. Lent \ Kept = Lent /\ u + Cardinality(Kept) = u
    BY <1>0, <2>1, <2>2
  <2>4. On(guest.ring, u + Cardinality(Kept), Cardinality(Lent \ Kept), Lent \ Kept)
    BY DEF PlaceInv, Recoverable
  <2> QED BY <2>3, <2>4
<1>4. \A j \in 0..L - 1 : guest.ring[(u + j) % Num] = f[j]
  OBVIOUS
<1>5. vq.resubmit = << >> /\ Unused = cur
  <2>1. pc \notin {"counter", "mark", "pre", "flush"} => cur = << >>
    BY <1>0 DEF InHand
  <2> QED BY <1>0, <2>1 DEF InHand, Unused
<1>6. \A x : x \in C <=> \E j \in 0..c - 1 : f[j] = x
  BY Zenon
<1>7. \A x : x \in H <=> \E j \in c..(c + m) - 1 : f[j] = x
  BY Zenon
<1>8. On(guest.ring, u + (c + m), L - (c + m), Lent \ D)
  <2>1. c + m \in 0..L
    BY <1>0, <1>2
  <2> QED BY <1>0, <1>3, <2>1, OnDrop, Zenon
<1>9. \A x : x \in D <=> \E j \in 0..(c + m) - 1 : guest.ring[(u + j) % Num] = x
  BY Zenon
<1> HIDE DEF u, c, m, L, f, C, H, D
<1>10. Row(f, L, Lent)
  BY <1>0, <1>3, <1>4, OnRow, Zenon
<1>11. /\ \A j \in 0..(c + m) - 1 : j \in 0..L - 1
       /\ \A j \in 0..c - 1 : j \in 0..(c + m) - 1
       /\ \A j \in c..(c + m) - 1 : j \in 0..(c + m) - 1
       /\ \A j \in 0..(c + m) - 1 : j \in 0..c - 1 \/ j \in c..(c + m) - 1
       /\ \A j \in 0..c - 1, k \in c..(c + m) - 1 : j # k
  BY <1>0, <1>2
<1>12. \A x : x \in D <=> \E j \in 0..(c + m) - 1 : f[j] = x
  BY <1>4, <1>9, <1>11, Zenon
<1>13. D = C \cup H
  <2>1. \A x : x \in D <=> x \in C \/ x \in H
    BY <1>6, <1>7, <1>11, <1>12
  <2> QED BY <2>1
<1>14. C \cap H = {}
  <2>1. ASSUME NEW x, x \in C, x \in H
        PROVE  FALSE
    <3>1. PICK j \in 0..c - 1 : f[j] = x
      BY <1>6, <2>1
    <3>2. PICK k \in c..(c + m) - 1 : f[k] = x
      BY <1>7, <2>1
    <3>3. j \in 0..L - 1 /\ k \in 0..L - 1 /\ j # k
      BY <1>11
    <3>4. f[j] = f[k]
      BY <3>1, <3>2
    <3> QED BY <1>10, <3>3, <3>4, Zenon DEF Row
  <2> QED BY <2>1
<1>15. D \subseteq Lent
  <2>1. \A j \in 0..L - 1 : f[j] \in Lent
    BY <1>10, Zenon DEF Row
  <2> QED BY <1>11, <1>12, <2>1
<1>16. All(Available, Lent \ D)
  <2>1. On(guest.ring, u + vq.inuse, L - vq.inuse, Lent \ D)
    BY <1>1, <1>8
  <2>2. Lent \ D \in SUBSET Heads
    BY <1>0
  <2> QED BY <1>2, <2>1, <2>2, PlacesAvailable DEF u, L
<1>17. All(cur, C)
  <2>1. DOMAIN cur = 1..c
    BY <1>0 DEF c
  <2>2. ASSUME NEW k \in 1..c
        PROVE  cur[k] = f[k - 1] /\ k - 1 \in 0..c - 1 /\ k - 1 \in 0..L - 1
    <3>1. k - 1 \in 0..c - 1 /\ k - 1 \in 0..L - 1
      BY <1>0, <1>2
    <3> QED BY <1>1, <1>4, <3>1
  <2>3. \A j \in 0..c - 1 : j + 1 \in 1..c /\ (j + 1) - 1 = j
    BY <1>0
  <2>4. \A x \in C : \E k \in 1..c : cur[k] = x
    <3>1. ASSUME NEW x \in C
          PROVE  \E k \in 1..c : cur[k] = x
      <4>1. PICK j \in 0..c - 1 : f[j] = x
        BY <1>6
      <4>2. cur[j + 1] = x /\ j + 1 \in 1..c
        BY <2>2, <2>3, <4>1
      <4> QED BY <4>2, Zenon
    <3> QED BY <3>1, Zenon
  <2>5. \A k \in 1..c : cur[k] \in C
    BY <1>6, <2>2
  <2>6. \A j, k \in 1..c : cur[j] = cur[k] => j = k
    <3>1. ASSUME NEW j \in 1..c, NEW k \in 1..c, cur[j] = cur[k]
          PROVE  j = k
      <4>1. f[j - 1] = f[k - 1] /\ j - 1 \in 0..L - 1 /\ k - 1 \in 0..L - 1
        BY <2>2, <3>1
      <4>2. j - 1 = k - 1
        BY <1>10, <4>1, Zenon DEF Row
      <4> QED BY <1>0, <4>2
    <3> QED BY <3>1, Zenon
  <2>7. Lists(cur, c, C)
    BY <2>4, <2>5, <2>6, Zenon DEF Lists
  <2> QED BY <2>1, <2>7, ListsAll, Zenon
<1>18. All(HeldHeads, H)
  <2>1. DOMAIN HeldHeads = 1..m
    BY DEF HeldHeads, m
  <2>2. ASSUME NEW k \in 1..m
        PROVE  /\ HeldHeads[k] = f[c + (k - 1)] /\ c + (k - 1) \in c..(c + m) - 1
               /\ c + (k - 1) \in 0..L - 1
    <3>1. c + (k - 1) \in c..(c + m) - 1 /\ c + (k - 1) \in 0..L - 1
      BY <1>0, <1>2
    <3>2. HeldHeads[k] = held[k].head
      BY DEF HeldHeads, m
    <3> QED BY <1>1, <1>4, <3>1, <3>2
  <2>3. \A j \in c..(c + m) - 1 : (j - c) + 1 \in 1..m /\ c + (((j - c) + 1) - 1) = j
    BY <1>0
  <2>4. \A x \in H : \E k \in 1..m : HeldHeads[k] = x
    <3>1. ASSUME NEW x \in H
          PROVE  \E k \in 1..m : HeldHeads[k] = x
      <4>1. PICK j \in c..(c + m) - 1 : f[j] = x
        BY <1>7
      <4>2. HeldHeads[(j - c) + 1] = x /\ (j - c) + 1 \in 1..m
        BY <2>2, <2>3, <4>1
      <4> QED BY <4>2, Zenon
    <3> QED BY <3>1, Zenon
  <2>5. \A k \in 1..m : HeldHeads[k] \in H
    BY <1>7, <2>2
  <2>6. \A j, k \in 1..m : HeldHeads[j] = HeldHeads[k] => j = k
    <3>1. ASSUME NEW j \in 1..m, NEW k \in 1..m, HeldHeads[j] = HeldHeads[k]
          PROVE  j = k
      <4>1. f[c + (j - 1)] = f[c + (k - 1)] /\ c + (j - 1) \in 0..L - 1 /\ c + (k - 1) \in 0..L - 1
        BY <2>2, <3>1
      <4>2. c + (j - 1) = c + (k - 1)
        BY <1>10, <4>1, Zenon DEF Row
      <4> QED BY <1>0, <4>2
    <3> QED BY <3>1, Zenon
  <2>7. Lists(HeldHeads, m, H)
    BY <2>4, <2>5, <2>6, Zenon DEF Lists
  <2> QED BY <2>1, <2>7, ListsAll, Zenon
<1>19. All(vq.resubmit, {})
  BY <1>5 DEF All, Range
<1>20. Split(Lent, <<Available, HeldHeads, vq.resubmit, cur>>)
  <2>1. /\ Lent = (Lent \ D) \cup H \cup {} \cup C
        /\ (Lent \ D) \cap H = {} /\ (Lent \ D) \cap {} = {} /\ (Lent \ D) \cap C = {}
        /\ H \cap {} = {} /\ H \cap C = {} /\ {} \cap C = {}
    BY <1>13, <1>14, <1>15
  <2> QED BY <1>16, <1>17, <1>18, <1>19, <2>1, SplitFour, Zenon
<1>21. vq.inuse = Len(held) + Len(vq.resubmit) + Len(Unused)
  <2>1. Len(vq.resubmit) = 0
    BY <1>5
  <2> QED BY <1>0, <1>1, <1>5, <2>1 DEF c, m
<1> QED BY <1>5, <1>20, <1>21

(* The invariant of the places, for every step of the library, the driver  *)
(* and the frontend, and for crashes.                                      *)
LEMMA PlaceStep ==
    ASSUME IndInv, PlaceInv, NoPanic, [Next]_vars, ~StopBusy, ~RewindMarked
    PROVE  PlaceInv' /\ NoPanic'
BY RecoverableStep, CompletedStep, AreaStep, IdleStep, InFlightStep, SequentialStep,
   ResumesStep, NoPanicStep DEF PlaceInv

-----------------------------------------------------------------------------
(***************************************************************************)
(* The order in which buffers are taken                                    *)
(***************************************************************************)
Counter(h) == area.desc[h].counter

(* The n entries of a ring from index i on were lent by the offers up to o. *)
LastOffers(g, ring, i, n, o) ==
    \A j \in 0..n - 1 : g[ring[(i + j) % Num]] = (o - n) + (j + 1)

(* What is to be taken from the ring was offered last, in the order of the *)
(* ring; what is kept was offered before.                                  *)
Numbered ==
    /\ LastOffers(given, guest.ring, guest.uidx + Cardinality(Kept),
                  Cardinality(Lent \ Kept), offered)
    /\ \A h \in Kept : given[h] <= offered - Cardinality(Lent \ Kept)
    /\ \A g, h \in Kept : given[g] = given[h] => g = h

(* The elements of a, then the heads of b from the back, by their offers.  *)
InOrder(g, a, b) ==
    /\ \A k \in 1..Len(a) : \A j \in 1..k - 1 : g[a[j].head] < g[a[k].head]
    /\ \A j \in 1..Len(a) : \A k \in 1..Len(b) : g[a[j].head] < g[b[k]]
    /\ \A k \in 1..Len(b) : \A j \in 1..k - 1 : g[b[k]] < g[b[j]]

Queued ==
    Running /\ Has("INFLIGHT") =>
        /\ InOrder(given, held, vq.resubmit)
        /\ Taking => vq.resubmit = << >>

(* The counters of what is kept grow with the offers, and the next counter *)
(* is greater than all of them.                                            *)
Counted ==
    Has("INFLIGHT") =>
        /\ \A g, h \in Kept : /\ given[g] < given[h] => Counter(g) < Counter(h)
                              /\ Counter(g) - Counter(h) < Window
        /\ Running => \A h \in Kept : Counter(h) < vq.counter
        /\ pc = "counter" => \A h \in Kept : vq.counter - Counter(h) < Window
        /\ pc = "mark" =>
              /\ Counter(cur[1]) < vq.counter
              /\ \A h \in Kept : /\ Counter(h) < Counter(cur[1])
                                  /\ Counter(cur[1]) - Counter(h) < Window

OrderInv == Numbered /\ Queued /\ Counted

(* Only an offer has a number.                                             *)
LEMMA OfferedSame ==
    ASSUME [Next]_vars, ~Offer
    PROVE  offered' = offered
<1> USE DEF outside
<1>1. CASE Start \/ CheckFresh \/ RepairMark \/ RepairIndex \/ Check \/ Wake \/ Stop \/ Crash
  BY <1>1 DEF Start, CheckFresh, RepairMark, RepairIndex, Check, Wake, Stop, Crash
<1>2. CASE PopResubmitted \/ PopNothing \/ PopHead \/ GetCounter \/ GetMark
  BY <1>2 DEF PopResubmitted, PopNothing, PopHead, GetCounter, GetMark
<1>3. CASE Disable \/ Enable \/ Recheck
  BY <1>3 DEF Disable, Enable, Recheck
<1>4. ASSUME NEW k \in 1..Num, Fill(k) \/ Rewind(k)
      PROVE  offered' = offered
  BY <1>4 DEF Fill, Rewind
<1>5. CASE PrePut \/ Flush \/ PostClear \/ PostIndex \/ Notify
  BY <1>5 DEF PrePut, Flush, PostClear, PostIndex, Notify
<1>6. CASE Decide \/ Collect \/ Arm \/ Nap \/ Interrupt \/ UNCHANGED vars
  BY <1>6 DEF Decide, Collect, Arm, Nap, Interrupt, vars
<1> QED BY <1>1, <1>2, <1>3, <1>4, <1>5, <1>6 DEF Next, Driver, Backend

(* Seen from an index that has been reduced.                               *)
LEMMA OffersMod ==
    ASSUME NEW g, NEW ring, NEW i \in Int, NEW k \in Int, NEW n \in Nat, NEW o
    PROVE  LastOffers(g, ring, Mod(i) + k, n, o) <=> LastOffers(g, ring, i + k, n, o)
<1>1. ASSUME NEW j \in 0..n - 1
      PROVE  ((Mod(i) + k) + j) % Num = ((i + k) + j) % Num
  <2>1. k + j \in Int /\ (Mod(i) + k) + j = Mod(i) + (k + j) /\ (i + k) + j = i + (k + j)
    BY ModInt
  <2>2. (Mod(i) + (k + j)) % Num = (i + (k + j)) % Num
    BY <2>1, SlotOfMod, Zenon
  <2> QED BY <2>1, <2>2, Zenon
<1> DEFINE f == [j \in 0..n - 1 |-> g[ring[((i + k) + j) % Num]]]
<1>2. \A j \in 0..n - 1 : g[ring[((i + k) + j) % Num]] = f[j]
  OBVIOUS
<1> HIDE DEF f
<1>3. \A j \in 0..n - 1 : g[ring[((Mod(i) + k) + j) % Num]] = f[j]
  BY <1>1, <1>2, Zenon
<1>4. LastOffers(g, ring, i + k, n, o) <=> \A j \in 0..n - 1 : f[j] = (o - n) + (j + 1)
  BY <1>2, Zenon DEF LastOffers
<1>5. LastOffers(g, ring, Mod(i) + k, n, o) <=> \A j \in 0..n - 1 : f[j] = (o - n) + (j + 1)
  BY <1>3, Zenon DEF LastOffers
<1> QED BY <1>4, <1>5, Zenon

(* Without its first c entries.                                            *)
LEMMA OffersDrop ==
    ASSUME NEW g, NEW ring, NEW i \in Int, NEW n \in Nat, NEW o \in Int, NEW c \in 0..n,
           LastOffers(g, ring, i, n, o)
    PROVE  LastOffers(g, ring, i + c, n - c, o)
<1> SUFFICES ASSUME NEW j \in 0..(n - c) - 1
             PROVE  g[ring[((i + c) + j) % Num]] = (o - (n - c)) + (j + 1)
  BY Zenon DEF LastOffers
<1>1. c + j \in 0..n - 1 /\ (i + c) + j = i + (c + j)
      /\ (o - n) + ((c + j) + 1) = (o - (n - c)) + (j + 1)
  OBVIOUS
<1>2. g[ring[(i + (c + j)) % Num]] = (o - n) + ((c + j) + 1)
  BY <1>1, Zenon DEF LastOffers
<1> QED BY <1>1, <1>2, Zenon

(* One more entry, which is offered now.                                   *)
LEMMA OffersMore ==
    ASSUME NEW g, NEW ring \in [Heads -> Heads], NEW i \in Int, NEW n \in Nat, n < Num,
           NEW o \in Int, NEW S, On(ring, i, n, S), LastOffers(g, ring, i, n, o),
           NEW h, NEW f, f[h] = o + 1, \A x \in S : f[x] = g[x]
    PROVE  LastOffers(f, [ring EXCEPT ![(i + n) % Num] = h], i, n + 1, o + 1)
<1> DEFINE r == [ring EXCEPT ![(i + n) % Num] = h]
<1>1. n \in n..Num - 1 /\ i + n \in Int
  BY Sizes
<1>2. r[(i + n) % Num] = h
  BY <1>1, SlotIn
<1>3. ASSUME NEW j \in 0..n - 1
      PROVE  r[(i + j) % Num] = ring[(i + j) % Num]
  <2>1. j \in 0..Num - 1 /\ n \in 0..Num - 1 /\ j # n /\ i + j \in Int
    BY Sizes
  <2>2. (i + j) % Num # (i + n) % Num
    BY <2>1, SlotsApart, Zenon
  <2>3. (i + j) % Num \in Heads
    BY <2>1, SlotIn
  <2> QED BY <2>2, <2>3
<1> HIDE DEF r
<1>4. ASSUME NEW j \in 0..(n + 1) - 1
      PROVE  f[r[(i + j) % Num]] = ((o + 1) - (n + 1)) + (j + 1)
  <2>1. (o + 1) - (n + 1) = o - n
    OBVIOUS
  <2>2. CASE j = n
    <3>1. (o - n) + (n + 1) = o + 1
      OBVIOUS
    <3> QED BY <1>2, <2>1, <2>2, <3>1, Zenon
  <2>3. CASE j # n
    <3>1. j \in 0..n - 1
      BY <2>3
    <3>2. ring[(i + j) % Num] \in S
      BY <3>1, Zenon DEF On
    <3>3. g[ring[(i + j) % Num]] = (o - n) + (j + 1)
      BY <3>1, Zenon DEF LastOffers
    <3> QED BY <1>3, <2>1, <3>1, <3>2, <3>3, Zenon
  <2> QED BY <2>2, <2>3
<1>5. LastOffers(f, r, i, n + 1, o + 1)
  BY <1>4, Zenon DEF LastOffers
<1> QED BY <1>5 DEF r

(* Heads whose number stays.                                               *)
LEMMA OffersKeep ==
    ASSUME NEW g, NEW f, NEW ring, NEW i, NEW n, NEW S, On(ring, i, n, S), NEW o,
           LastOffers(g, ring, i, n, o), \A x \in S : f[x] = g[x]
    PROVE  LastOffers(f, ring, i, n, o)
BY Zenon DEF On, LastOffers

(* The sizes and types that the following lemmas need.                     *)
LEMMA OrderBasics ==
    ASSUME IndInv, PlaceInv
    PROVE  /\ given \in [Heads -> Nat] /\ offered \in Nat
           /\ Lent \in SUBSET Heads /\ Kept \in SUBSET Heads /\ Kept \subseteq Lent
           /\ Lent \ Kept \in SUBSET Heads
           /\ Cardinality(Lent) \in Nat /\ Cardinality(Kept) \in Nat
           /\ Cardinality(Lent \ Kept) \in Nat
           /\ guest.uidx \in Int /\ guest.uidx + Cardinality(Kept) \in Int
           /\ guest.ring \in [Heads -> Heads]
           /\ guest.idx = Mod(guest.uidx + Cardinality(Lent))
           /\ Cardinality(Lent \ Kept) = Cardinality(Lent) - Cardinality(Kept)
           /\ On(guest.ring, guest.uidx + Cardinality(Kept),
                 Cardinality(Lent \ Kept), Lent \ Kept)
<1>1. /\ Lent \in SUBSET Heads /\ Kept \in SUBSET Heads /\ guest.uidx \in Int
      /\ guest.ring \in [Heads -> Heads]
  BY Basics DEF IndInv
<1>2. given \in [Heads -> Nat] /\ offered \in Nat
  BY DEF IndInv, Types
<1>3. /\ Kept \subseteq Lent /\ guest.idx = Mod(guest.uidx + Cardinality(Lent))
      /\ On(guest.ring, guest.uidx + Cardinality(Kept),
            Cardinality(Lent \ Kept), Lent \ Kept)
  BY Zenon DEF PlaceInv, Recoverable
<1>4. Lent \ Kept \in SUBSET Heads
  BY <1>1
<1>5. /\ Cardinality(Lent) \in Nat /\ Cardinality(Kept) \in Nat
      /\ Cardinality(Lent \ Kept) = Cardinality(Lent) - Cardinality(Kept)
      /\ Cardinality(Lent \ Kept) \in Nat
  BY <1>1, <1>3, <1>4, Counts
<1>6. guest.uidx + Cardinality(Kept) \in Int
  BY <1>1, <1>5
<1> QED BY <1>1, <1>2, <1>3, <1>4, <1>5, <1>6

LEMMA NumberedOffer ==
    ASSUME IndInv, PlaceInv, Numbered, Offer
    PROVE  Numbered' /\ Kept' = Kept /\ \A x \in Lent : given'[x] = given[x]
<1> DEFINE h == Min(driver.free)
           K == Cardinality(Kept)
           L == Cardinality(Lent)
           u == guest.uidx
           S == Lent \ Kept
           n == Cardinality(S)
<1>0. [Next]_vars /\ ~Flush /\ ~GetMark
  <2>1. [Next]_vars /\ offered \in Nat
    BY OrderBasics DEF Next, Driver
  <2>2. offered' # offered
    BY <2>1 DEF Offer
  <2> QED BY <2>1, <2>2 DEF Flush, GetMark, outside
<1>1. /\ given \in [Heads -> Nat] /\ offered \in Nat /\ offered \in Int
      /\ S \in SUBSET Heads /\ Kept \subseteq Lent /\ Lent \in SUBSET Heads
      /\ n \in Nat /\ K \in Nat /\ L \in Nat /\ u \in Int /\ u + K \in Int
      /\ guest.ring \in [Heads -> Heads] /\ n = L - K /\ guest.idx = Mod(u + L)
      /\ On(guest.ring, u + K, n, S)
  BY OrderBasics
<1>2. /\ h \in driver.free /\ Lent' = Lent \cup {h} /\ h \notin Lent
      /\ guest'.ring = [guest.ring EXCEPT ![guest.idx % Num] = h]
      /\ guest'.uidx = guest.uidx
  BY OfferLent
<1>3. Kept' = Kept
  BY <1>0, KeptSame
<1>4. h \in Heads
  <2>1. driver.free \in SUBSET Heads
    BY Basics DEF IndInv
  <2> QED BY <1>2, <2>1
<1>5. given' = [given EXCEPT ![h] = offered + 1] /\ offered' = offered + 1
  BY Zenon DEF Offer
<1> HIDE DEF h
<1>6. given'[h] = offered + 1 /\ \A x \in Lent : given'[x] = given[x]
  BY <1>1, <1>2, <1>4, <1>5
<1>7. /\ Lent' \ Kept' = S \cup {h} /\ Cardinality(S \cup {h}) = n + 1 /\ n < Num
      /\ h \notin S
  <2>1. h \notin S /\ Lent' \ Kept' = S \cup {h}
    BY <1>1, <1>2, <1>3
  <2> HIDE DEF S
  <2> QED BY <1>1, <1>4, <2>1, Counts
<1>8. \A x \in S : given'[x] = given[x]
  BY <1>6
<1>9. LastOffers(given, guest.ring, u + K, n, offered)
  BY DEF Numbered
<1> HIDE DEF K, L, u, S, n
<1>10. guest.idx % Num = ((u + K) + n) % Num
  <2>1. u + L \in Int /\ u + L = (u + K) + n
    BY <1>1
  <2>2. Mod(u + L) % Num = (u + L) % Num
    BY <2>1, SameSlot, Zenon
  <2> QED BY <1>1, <2>1, <2>2, Zenon
<1>11. LastOffers(given', guest'.ring, u + K, n + 1, offered + 1)
  <2> DEFINE f == given'
  <2>0. f[h] = offered + 1 /\ \A x \in S : f[x] = given[x]
    BY <1>6, <1>8
  <2> HIDE DEF f
  <2>1. LastOffers(f, [guest.ring EXCEPT ![((u + K) + n) % Num] = h], u + K, n + 1, offered + 1)
    BY <1>1, <1>7, <1>9, <2>0, OffersMore, Zenon
  <2> QED BY <1>2, <1>10, <2>1, Zenon DEF f
<1>12. LastOffers(given', guest'.ring, guest'.uidx + Cardinality(Kept'),
                  Cardinality(Lent' \ Kept'), offered')
  BY <1>2, <1>3, <1>5, <1>7, <1>11, Zenon DEF u, K
<1>13. \A x \in Kept' : given'[x] <= offered' - Cardinality(Lent' \ Kept')
  <2>1. \A x \in Kept : given[x] <= offered - n
    BY DEF Numbered, n, S
  <2>2. (offered + 1) - (n + 1) = offered - n
    BY <1>1
  <2>3. \A x \in Kept : given'[x] = given[x]
    BY <1>1, <1>6
  <2> QED BY <1>3, <1>5, <1>7, <2>1, <2>2, <2>3
<1>14. \A g, x \in Kept' : given'[g] = given'[x] => g = x
  <2>1. \A g, x \in Kept : given[g] = given[x] => g = x
    BY DEF Numbered
  <2> QED BY <1>1, <1>3, <1>6, <2>1
<1> QED BY <1>3, <1>6, <1>12, <1>13, <1>14 DEF Numbered

LEMMA NumberedFlush ==
    ASSUME IndInv, PlaceInv, PlaceInv', Numbered, Flush
    PROVE  Numbered' /\ Kept' \subseteq Kept /\ \A x \in Lent' : given'[x] = given[x]
<1> DEFINE K == Cardinality(Kept)
           L == Cardinality(Lent)
           u == guest.uidx
           c == Len(cur)
           S == Lent \ Kept
           n == Cardinality(S)
<1>0. [Next]_vars /\ ~Offer
  <2>1. [Next]_vars /\ offered \in Nat
    BY OrderBasics DEF Next, Backend
  <2>2. offered' = offered
    BY DEF Flush
  <2> QED BY <2>1, <2>2 DEF Offer
<1>1. /\ given \in [Heads -> Nat] /\ offered \in Nat /\ offered \in Int
      /\ S \in SUBSET Heads /\ Kept \subseteq Lent /\ Lent \in SUBSET Heads
      /\ Kept \in SUBSET Heads
      /\ n \in Nat /\ K \in Nat /\ L \in Nat /\ u \in Int /\ u + K \in Int
      /\ n = L - K /\ On(guest.ring, u + K, n, S)
  BY OrderBasics
<1>2. /\ Lent' = Lent \ {cur[k] : k \in 1..c} /\ guest'.uidx = Mod(u + c)
      /\ guest'.ring = guest.ring /\ features' = features
      /\ c \in Nat
  BY FlushLent, Basics DEF IndInv
<1>3. offered' = offered
  BY <1>0, OfferedSame
<1>4. ASSUME NEW x \in Lent'
      PROVE  given'[x] = given[x]
  <2>1. given' = [h \in Heads |-> IF h \in Range(cur) THEN 0 ELSE given[h]]
    BY DEF Flush
  <2>2. Range(cur) = {cur[k] : k \in 1..c}
    BY Basics DEF Range, IndInv
  <2> QED BY <1>1, <1>2, <2>1, <2>2
<1>5. LastOffers(given, guest.ring, u + K, n, offered)
  BY DEF Numbered
<1>6. /\ Recoverable' /\ On(guest.ring, guest'.uidx + Cardinality(Kept'),
                            Cardinality(Lent' \ Kept'), Lent' \ Kept')
      /\ Kept' \subseteq Lent'
  BY <1>2, Zenon DEF PlaceInv, Recoverable
<1>7. ASSUME Has("INFLIGHT")
      PROVE  /\ LastOffers(given, guest.ring, guest'.uidx + Cardinality(Kept'),
                           Cardinality(Lent' \ Kept'), offered)
             /\ \A x \in Kept' : given[x] <= offered - Cardinality(Lent' \ Kept')
             /\ Kept' \subseteq Kept
  <2>1. /\ Kept' = Kept \ {cur[1]} /\ cur[1] \in Kept
        /\ {cur[k] : k \in 1..c} = {cur[1]} /\ c = 1
    <3>1. c = 1
      BY <1>7, FlushLent
    <3>2. /\ Kept' = Kept \ {cur[1]} /\ cur[1] \in Kept
          /\ {cur[k] : k \in 1..Len(cur)} = {cur[1]}
      BY <1>7, FlushRecoverable, Zenon
    <3> QED BY <3>1, <3>2
  <2>2. Cardinality(Kept') = K - 1 /\ Lent' \ Kept' = S
    <3>1. Lent' \ Kept' = S
      BY <1>1, <1>2, <2>1
    <3> QED BY <1>1, <2>1, <3>1, Counts
  <2> HIDE DEF K, L, u, c, S, n
  <2>3. LastOffers(given, guest.ring, Mod(u + c) + (K - 1), n, offered)
    <3>1. u + c \in Int /\ K - 1 \in Int /\ (u + c) + (K - 1) = u + K
      BY <1>1, <1>2, <2>1
    <3>2. LastOffers(given, guest.ring, Mod(u + c) + (K - 1), n, offered)
          <=> LastOffers(given, guest.ring, (u + c) + (K - 1), n, offered)
      BY <1>1, <3>1, OffersMod, Zenon
    <3> QED BY <1>5, <3>1, <3>2, Zenon
  <2>4. LastOffers(given, guest.ring, guest'.uidx + Cardinality(Kept'),
                   Cardinality(Lent' \ Kept'), offered)
    BY <1>2, <2>2, <2>3, Zenon DEF n
  <2>5. \A x \in Kept' : given[x] <= offered - Cardinality(Lent' \ Kept')
    BY <2>1, <2>2 DEF Numbered, S, n
  <2> QED BY <2>1, <2>4, <2>5
<1>8. ASSUME ~Has("INFLIGHT")
      PROVE  /\ LastOffers(given, guest.ring, guest'.uidx + Cardinality(Kept'),
                           Cardinality(Lent' \ Kept'), offered)
             /\ \A x \in Kept' : given[x] <= offered - Cardinality(Lent' \ Kept')
             /\ Kept' \subseteq Kept
  <2>1. Kept = {} /\ Kept' = {}
    BY <1>2, <1>8 DEF Kept, Has
  <2>2. K = 0 /\ Cardinality(Kept') = 0 /\ Lent' \ Kept' = Lent' /\ S = Lent
    BY <2>1, FS_EmptySet
  <2>3. c \in 0..L /\ n = L /\ Cardinality(Lent') = n - c /\ n - c \in Nat /\ c \in 0..n
    <3>1. c \in 0..L /\ Cardinality(Lent') = L - c
      BY <1>8, FlushRecoverable, Zenon
    <3> QED BY <1>1, <2>2, <3>1
  <2> HIDE DEF K, L, u, c, S, n
  <2>4. LastOffers(given, guest.ring, (u + K) + c, n - c, offered)
    BY <1>1, <1>5, <2>3, OffersDrop, Zenon
  <2>5. LastOffers(given, guest.ring, Mod(u + c) + 0, n - c, offered)
    <3>1. u + c \in Int /\ 0 \in Int /\ (u + c) + 0 = (u + K) + c
      BY <1>1, <1>2, <2>2
    <3>2. LastOffers(given, guest.ring, Mod(u + c) + 0, n - c, offered)
          <=> LastOffers(given, guest.ring, (u + c) + 0, n - c, offered)
      BY <2>3, <3>1, OffersMod, Zenon
    <3> QED BY <2>4, <3>1, <3>2, Zenon
  <2>6. LastOffers(given, guest.ring, guest'.uidx + Cardinality(Kept'),
                   Cardinality(Lent' \ Kept'), offered)
    BY <1>2, <2>2, <2>3, <2>5, Zenon
  <2> QED BY <2>1, <2>6
<1>9. /\ LastOffers(given, guest.ring, guest'.uidx + Cardinality(Kept'),
                    Cardinality(Lent' \ Kept'), offered)
      /\ \A x \in Kept' : given[x] <= offered - Cardinality(Lent' \ Kept')
      /\ Kept' \subseteq Kept
  BY <1>7, <1>8
<1>10. LastOffers(given', guest'.ring, guest'.uidx + Cardinality(Kept'),
                  Cardinality(Lent' \ Kept'), offered')
  <2> DEFINE f == given'
             i == guest'.uidx + Cardinality(Kept')
             m == Cardinality(Lent' \ Kept')
             T == Lent' \ Kept'
  <2>1. /\ \A x \in T : f[x] = given[x]
        /\ On(guest.ring, i, m, T)
        /\ LastOffers(given, guest.ring, i, m, offered)
    BY <1>2, <1>4, <1>6, <1>9
  <2> HIDE DEF f, i, m, T
  <2>2. LastOffers(f, guest.ring, i, m, offered)
    BY <2>1, OffersKeep, Zenon
  <2> QED BY <1>2, <1>3, <2>2, Zenon DEF f, i, m
<1>11. /\ \A x \in Kept' : given'[x] <= offered' - Cardinality(Lent' \ Kept')
       /\ \A g, h \in Kept' : given'[g] = given'[h] => g = h
  <2>1. \A g, h \in Kept : given[g] = given[h] => g = h
    BY DEF Numbered
  <2>2. \A x \in Kept' : given'[x] = given[x]
    BY <1>4, <1>6
  <2> QED BY <1>3, <1>9, <2>1, <2>2
<1> QED BY <1>4, <1>9, <1>10, <1>11 DEF Numbered

LEMMA NumberedMark ==
    ASSUME IndInv, PlaceInv, Numbered, GetMark
    PROVE  /\ Numbered' /\ Kept' = Kept \cup {cur[1]} /\ cur[1] \in Lent \ Kept
           /\ given' = given /\ \A x \in Kept : given[x] < given[cur[1]]
<1> DEFINE h == cur[1]
           K == Cardinality(Kept)
           u == guest.uidx
           S == Lent \ Kept
           n == Cardinality(S)
<1>1. /\ given \in [Heads -> Nat] /\ offered \in Nat /\ offered \in Int
      /\ S \in SUBSET Heads /\ Kept \subseteq Lent /\ Lent \in SUBSET Heads
      /\ Kept \in SUBSET Heads
      /\ n \in Nat /\ K \in Nat /\ u \in Int /\ u + K \in Int
      /\ On(guest.ring, u + K, n, S)
  BY OrderBasics
<1>2. Kept' = Kept \cup {h} /\ h \in S
  BY MarkRecoverable
<1>3. UNCHANGED <<guest, given, offered>> /\ Lent' = Lent
  BY DEF GetMark, outside, Lent
<1>4. h = guest.ring[(u + K) % Num]
  <2>1. Running /\ Taking /\ Has("INFLIGHT")
    BY DEF GetMark, Running, Taking, IndInv, InHand
  <2> QED BY <2>1, Records
<1>5. /\ Cardinality(Kept') = K + 1 /\ Lent' \ Kept' = S \ {h} /\ h \notin Kept
      /\ Cardinality(Lent' \ Kept') = n - 1 /\ n - 1 \in Nat /\ h \in Heads
  <2>1. Lent' \ Kept' = S \ {h} /\ h \notin Kept /\ h \in Heads
    BY <1>1, <1>2, <1>3
  <2>2. Cardinality(Kept \cup {h}) = K + 1
    BY <1>1, <2>1, Counts
  <2> HIDE DEF S
  <2>3. Cardinality(S \ {h}) = n - 1 /\ n > 0
    BY <1>1, <1>2, <2>1, Counts
  <2>4. n - 1 \in Nat
    BY <1>1, <2>3
  <2>5. Cardinality(Kept') = K + 1 /\ Cardinality(Lent' \ Kept') = n - 1
    BY <1>2, <2>1, <2>2, <2>3, Zenon
  <2> QED BY <2>1, <2>4, <2>5, Zenon
<1>6. /\ LastOffers(given, guest.ring, u + K, n, offered)
      /\ \A x \in Kept : given[x] <= offered - n
      /\ \A g, x \in Kept : given[g] = given[x] => g = x
  BY DEF Numbered
<1> HIDE DEF h, K, u, S, n
<1>7. given[h] = offered - n + 1
  <2>1. 0 \in 0..n - 1 /\ (u + K) + 0 = u + K /\ (offered - n) + (0 + 1) = offered - n + 1
    BY <1>1, <1>5
  <2>2. given[guest.ring[((u + K) + 0) % Num]] = (offered - n) + (0 + 1)
    BY <1>6, <2>1, Zenon DEF LastOffers
  <2> QED BY <1>4, <2>1, <2>2, Zenon
<1>8. \A x \in Kept : given[x] < given[h]
  BY <1>1, <1>6, <1>7
<1>9. LastOffers(given', guest'.ring, guest'.uidx + Cardinality(Kept'),
                 Cardinality(Lent' \ Kept'), offered')
  <2>1. 1 \in 0..n /\ (u + K) + 1 = u + (K + 1)
    BY <1>1, <1>5
  <2>2. LastOffers(given, guest.ring, (u + K) + 1, n - 1, offered)
    BY <1>1, <1>6, <2>1, OffersDrop, Zenon
  <2> QED BY <1>3, <1>5, <2>1, <2>2, Zenon DEF u
<1>10. \A x \in Kept' : given'[x] <= offered' - Cardinality(Lent' \ Kept')
  BY <1>1, <1>2, <1>3, <1>5, <1>6, <1>7
<1>11. \A g, x \in Kept' : given'[g] = given'[x] => g = x
  BY <1>1, <1>2, <1>3, <1>6, <1>8
<1> QED BY <1>2, <1>3, <1>8, <1>9, <1>10, <1>11 DEF Numbered, h, S

LEMMA NumberedStep ==
    ASSUME IndInv, PlaceInv, PlaceInv', Numbered, [Next]_vars
    PROVE  Numbered'
<1>1. CASE Offer
  BY <1>1, NumberedOffer
<1>2. CASE Flush
  BY <1>2, NumberedFlush
<1>3. CASE GetMark
  BY <1>3, NumberedMark
<1>4. CASE ~Offer /\ ~Flush /\ ~GetMark
  <2>1. Kept' = Kept /\ given' = given /\ guest'.ring = guest.ring
        /\ guest'.uidx = guest.uidx /\ offered' = offered
    BY <1>4, Moves, KeptSame, OfferedSame DEF IndInv
  <2>2. Lent' = Lent
    BY <2>1 DEF Lent
  <2> QED BY <2>1, <2>2, Zenon DEF Numbered
<1> QED BY <1>1, <1>2, <1>3, <1>4

-----------------------------------------------------------------------------
(* Who writes counters.                                                    *)
LEMMA CountersSame ==
    ASSUME Types, [Next]_vars, ~GetCounter
    PROVE  \A h \in Heads : area'.desc[h].counter = area.desc[h].counter
<1>1. area.desc \in [Heads -> [inflight : BOOLEAN, counter : Nat]] /\ area \in Areas
  BY DEF Types, Areas
<1>2. CASE area' = area
  BY <1>2
<1>3. CASE CheckFresh
  <2>1. area'.desc = area.desc
    BY <1>1, <1>3 DEF CheckFresh, Areas
  <2> QED BY <2>1
<1>4. CASE RepairIndex \/ PrePut \/ PostIndex
  <2>1. area'.desc = area.desc
    BY <1>1, <1>4 DEF RepairIndex, PrePut, PostIndex, Areas
  <2> QED BY <2>1
<1>5. CASE RepairMark \/ PostClear \/ GetMark
  <2>1. PICK x, b : area' = [area EXCEPT !.desc[x].inflight = b]
    BY <1>5 DEF RepairMark, PostClear, GetMark
  <2>2. area'.desc = [area.desc EXCEPT ![x].inflight = b]
    BY <1>1, <2>1 DEF Areas
  <2> QED BY <1>1, <2>2
<1> QED BY <1>2, <1>3, <1>4, <1>5, Moves

LEMMA CounterMoves ==
    ASSUME Types, [Next]_vars, ~Check, ~GetCounter, ~Crash
    PROVE  vq'.counter = vq.counter
<1>0. vq \in Queues
  BY DEF Types
<1> USE DEF outside
<1>1. CASE Start \/ CheckFresh \/ RepairMark \/ RepairIndex \/ Wake \/ Stop
  BY <1>0, <1>1 DEF Start, CheckFresh, RepairMark, RepairIndex, Wake, Stop, Queues
<1>2. CASE PopResubmitted \/ PopNothing \/ GetMark \/ Recheck
  BY <1>0, <1>2 DEF PopResubmitted, PopNothing, GetMark, Recheck, Queues
<1>3. CASE PopHead
  <2>1. \/ vq' = vq
        \/ \E s, l, n : vq' = [vq EXCEPT !.shadow = s, !.last = l, !.inuse = n]
    BY <1>3, Zenon DEF PopHead
  <2>2. CASE vq' = vq
    BY <2>2
  <2>3. ASSUME NEW s, NEW l, NEW n, vq' = [vq EXCEPT !.shadow = s, !.last = l, !.inuse = n]
        PROVE  vq'.counter = vq.counter
    BY <1>0, <2>3 DEF Queues
  <2> QED BY <2>1, <2>2, <2>3, Zenon
<1>4. CASE Disable \/ Enable
  <2>1. PICK enable \in BOOLEAN : SetNotification(enable)
    BY <1>4 DEF Disable, Enable
  <2>2. \E b, s : \/ vq' = [vq EXCEPT !.notification = b]
                  \/ vq' = [[vq EXCEPT !.notification = b] EXCEPT !.shadow = s]
    BY <2>1, Zenon DEF SetNotification
  <2> QED BY <1>0, <2>2 DEF Queues
<1>5. ASSUME NEW k \in 1..Num, Fill(k) \/ Rewind(k)
      PROVE  vq'.counter = vq.counter
  BY <1>0, <1>5 DEF Fill, Rewind, Queues
<1>6. CASE PrePut \/ PostClear \/ PostIndex
  BY <1>6 DEF PrePut, PostClear, PostIndex
<1>7. CASE Flush
  <2>1. \E u, n : vq' = Signalled([vq EXCEPT !.used = u, !.inuse = n], u, Len(cur))
    BY <1>7, Zenon DEF Flush
  <2> QED BY <1>0, <2>1 DEF Signalled, Queues
<1>8. CASE Notify
  BY <1>8, NotifyTypes
<1>9. CASE Driver \/ UNCHANGED vars
  BY <1>9 DEF Driver, Offer, Decide, Collect, Arm, Nap, Interrupt, vars
<1> QED BY <1>1, <1>2, <1>3, <1>4, <1>5, <1>6, <1>7, <1>8, <1>9 DEF Next, Backend

(* Who takes a head from the ring.                                         *)
LEMMA TakingMoves ==
    ASSUME Types, [Next]_vars, Taking', ~PopHead, ~GetCounter
    PROVE  pc' = pc /\ UNCHANGED <<cur, area, vq, held, features>>
<1>0. back \in {"run", "wait"}
  BY DEF Types
<1> USE DEF outside, Taking
<1>1. ~(Start \/ CheckFresh \/ RepairMark \/ RepairIndex \/ Check \/ Wake \/ Stop \/ Crash)
  BY DEF Start, CheckFresh, RepairMark, RepairIndex, Check, Wake, Stop, Crash
<1>2. ~(PopResubmitted \/ PopNothing \/ GetMark \/ Disable \/ Enable \/ Recheck)
  BY DEF PopResubmitted, PopNothing, GetMark, Disable, Enable, Recheck
<1>3. ASSUME NEW k \in 1..Num
      PROVE  ~(Fill(k) \/ Rewind(k))
  BY DEF Fill, Rewind
<1>4. ~(PrePut \/ Flush \/ PostClear \/ PostIndex \/ Notify)
  BY <1>0 DEF PrePut, Flush, PostClear, PostIndex, Notify
<1>5. CASE Driver \/ UNCHANGED vars
  BY <1>5 DEF Driver, Offer, Decide, Collect, Arm, Nap, Interrupt, vars
<1> QED BY <1>1, <1>2, <1>3, <1>4, <1>5 DEF Next, Backend

(* Who starts to run.                                                      *)
LEMMA RunningMoves ==
    ASSUME Types, [Next]_vars, Running', ~CheckFresh, ~Check
    PROVE  Running
<1> SUFFICES ASSUME ~Running PROVE FALSE
  OBVIOUS
<1> USE DEF Running, outside
<1>1. ~(Start \/ RepairMark \/ RepairIndex \/ Wake \/ Stop \/ Crash)
  BY DEF Start, RepairMark, RepairIndex, Wake, Stop, Crash
<1>2. ~(PopResubmitted \/ PopNothing \/ PopHead \/ GetCounter \/ GetMark)
  BY DEF PopResubmitted, PopNothing, PopHead, GetCounter, GetMark
<1>3. ASSUME NEW k \in 1..Num
      PROVE  ~(Fill(k) \/ Rewind(k))
  BY DEF Fill, Rewind
<1>4. ~(Disable \/ Enable \/ Recheck \/ PrePut \/ Flush \/ PostClear \/ PostIndex \/ Notify)
  BY DEF Disable, Enable, Recheck, PrePut, Flush, PostClear, PostIndex, Notify
<1>5. ~(Driver \/ UNCHANGED vars)
  BY DEF Driver, Offer, Decide, Collect, Arm, Nap, Interrupt, vars
<1> QED BY <1>1, <1>2, <1>3, <1>4, <1>5 DEF Next, Backend

LEMMA CountedKeeps ==
    ASSUME Counted, features' = features, Kept' \subseteq Kept,
           \A x \in Kept' : given'[x] = given[x] /\ area'.desc[x].counter = Counter(x),
           Running' => Running /\ vq'.counter = vq.counter,
           Taking' => /\ pc' = pc /\ cur' = cur
                      /\ area'.desc[cur[1]].counter = Counter(cur[1])
    PROVE  Counted'
<1> SUFFICES ASSUME Has("INFLIGHT")
             PROVE  Counted'
  BY DEF Counted, Has
<1>1. \A g, h \in Kept : /\ given[g] < given[h] => Counter(g) < Counter(h)
                         /\ Counter(g) - Counter(h) < Window
  BY DEF Counted
<1>2. \A g, h \in Kept' : /\ given'[g] < given'[h] => Counter(g)' < Counter(h)'
                          /\ Counter(g)' - Counter(h)' < Window
  BY <1>1 DEF Counter
<1>3. Running' => \A h \in Kept' : Counter(h)' < vq'.counter
  BY DEF Counted, Counter
<1>4. pc' = "counter" => \A h \in Kept' : vq'.counter - Counter(h)' < Window
  BY DEF Counted, Counter, Taking, Running
<1>5. pc' = "mark" =>
         /\ Counter(cur[1])' < vq'.counter
         /\ \A h \in Kept' : /\ Counter(h)' < Counter(cur[1])'
                             /\ Counter(cur[1])' - Counter(h)' < Window
  <2> SUFFICES ASSUME pc' = "mark"
               PROVE  /\ Counter(cur[1])' < vq'.counter
                      /\ \A h \in Kept' : /\ Counter(h)' < Counter(cur[1])'
                                          /\ Counter(cur[1])' - Counter(h)' < Window
    OBVIOUS
  <2>1. pc = "mark" /\ cur' = cur /\ Counter(cur[1])' = Counter(cur[1]) /\ vq'.counter = vq.counter
    BY DEF Taking, Running, Counter
  <2>2. \A x \in Kept' : Counter(x)' = Counter(x)
    BY DEF Counter
  <2>3. /\ Counter(cur[1]) < vq.counter
        /\ \A h \in Kept : /\ Counter(h) < Counter(cur[1])
                           /\ Counter(cur[1]) - Counter(h) < Window
    BY <2>1 DEF Counted
  <2> QED BY <2>1, <2>2, <2>3
<1> QED BY <1>2, <1>3, <1>4, <1>5, Zenon DEF Counted

(* Counters are numbers.                                                   *)
LEMMA CounterTypes ==
    ASSUME Types
    PROVE  /\ vq.counter \in Nat /\ \A h \in Heads : Counter(h) \in Nat
           /\ Window \in Nat \ {0}
<1>1. vq.counter \in Nat /\ \A h \in Heads : Counter(h) \in Nat
  BY DEF Types, Queues, Areas, Counter
<1> QED BY <1>1, VuQueueConstants

(* The device takes a head when nothing in flight is a window older.       *)
LEMMA CountedPop ==
    ASSUME IndInv, PlaceInv, Counted, PopHead, ~Overtaking
    PROVE  Counted'
<1> SUFFICES ASSUME Has("INFLIGHT")
             PROVE  Counted'
  BY DEF Counted, Has, PopHead
<1>0. /\ Types /\ [Next]_vars /\ pc = "run" /\ Running
      /\ UNCHANGED <<features, area, given, offered>>
  BY DEF IndInv, Next, Backend, PopHead, Running, outside
<1>1. Kept' = Kept /\ Kept \subseteq Marked /\ vq'.counter = vq.counter
  <2>1. ~Flush /\ ~GetMark /\ ~Check /\ ~GetCounter /\ ~Crash
    <3>1. pc' = "counter"
      BY PopPlace
    <3> QED BY <1>0, <3>1 DEF Flush, GetMark, Check, GetCounter, Crash
  <2>2. Kept' = Kept
    BY <1>0, <2>1, KeptSame
  <2>3. vq'.counter = vq.counter
    BY <1>0, <2>1, CounterMoves
  <2>4. Kept \subseteq Marked
    BY DEF Kept
  <2> QED BY <2>2, <2>3, <2>4
<1>2. \A h \in Kept : vq.counter - Counter(h) < Window
  <2>1. InWindow
    BY DEF PopHead
  <2> QED BY <1>1, <2>1 DEF InWindow, Marked, Counter
<1>3. pc' = "counter"
  BY PopPlace
<1>4. /\ \A g, h \in Kept : /\ given[g] < given[h] => Counter(g) < Counter(h)
                            /\ Counter(g) - Counter(h) < Window
      /\ \A h \in Kept : Counter(h) < vq.counter
  BY <1>0 DEF Counted
<1> QED BY <1>0, <1>1, <1>2, <1>3, <1>4 DEF Counted, Counter, Running

(* It gets the next counter.                                               *)
LEMMA CountedCounter ==
    ASSUME IndInv, PlaceInv, Counted, GetCounter
    PROVE  Counted'
<1> DEFINE c == cur[1]
<1>0. /\ Types /\ InHand /\ [Next]_vars /\ pc = "counter" /\ Running /\ Taking
      /\ Has("INFLIGHT") /\ Has("INFLIGHT")' /\ c \in Heads
      /\ UNCHANGED <<guest, cur, given>> /\ pc' = "mark"
      /\ vq \in Queues /\ area \in Areas
  BY HeadInHand, Basics
     DEF IndInv, InHand, Next, Backend, GetCounter, Running, Taking, outside, Has
<1>1. Kept' = Kept /\ Kept \in SUBSET Heads
  <2>1. ~Flush /\ ~GetMark
    BY <1>0 DEF Flush, GetMark
  <2> QED BY <1>0, <2>1, KeptSame, Basics
<1>2. c \notin Kept
  <2>1. /\ guest.uidx + Cardinality(Kept) \in Int /\ Cardinality(Lent \ Kept) \in Nat
        /\ Lent \ Kept \in SUBSET Heads /\ Kept \subseteq Lent
        /\ On(guest.ring, guest.uidx + Cardinality(Kept),
              Cardinality(Lent \ Kept), Lent \ Kept)
    BY OrderBasics
  <2>2. Lent # Kept /\ c = guest.ring[(guest.uidx + Cardinality(Kept)) % Num]
    BY <1>0, Records
  <2>3. Lent \ Kept # {}
    BY <2>1, <2>2
  <2> DEFINE S == Lent \ Kept
             n == Cardinality(S)
             i == guest.uidx + Cardinality(Kept)
  <2>4. n \in Nat \ {0}
    <3> HIDE DEF S
    <3>1. S \in SUBSET Heads /\ S # {}
      BY <2>1, <2>3 DEF S
    <3> QED BY <3>1, Counts
  <2>5. i \in Int /\ On(guest.ring, i, n, S)
    BY <2>1
  <2> HIDE DEF S, n, i
  <2>6. guest.ring[i % Num] \in S
    BY <2>4, <2>5, OnFirst, Zenon
  <2> QED BY <2>2, <2>6 DEF S, i
<1>3. /\ vq' = [vq EXCEPT !.counter = vq.counter + 1]
      /\ area' = [area EXCEPT !.desc[c].counter = vq.counter]
  BY Zenon DEF GetCounter
<1> HIDE DEF c
<1>4. /\ vq'.counter = vq.counter + 1 /\ area'.desc[c].counter = vq.counter
      /\ \A h \in Kept : Counter(h)' = Counter(h)
  <2>1. area.desc \in [Heads -> [inflight : BOOLEAN, counter : Nat]]
    BY <1>0 DEF Areas
  <2>2. area'.desc = [area.desc EXCEPT ![c].counter = vq.counter]
    BY <1>0, <1>3 DEF Areas
  <2>3. vq'.counter = vq.counter + 1
    BY <1>0, <1>3 DEF Queues
  <2> QED BY <1>0, <1>1, <1>2, <2>1, <2>2, <2>3 DEF Counter
<1>5. /\ \A g, h \in Kept : /\ given[g] < given[h] => Counter(g) < Counter(h)
                            /\ Counter(g) - Counter(h) < Window
      /\ \A h \in Kept : Counter(h) < vq.counter /\ vq.counter - Counter(h) < Window
  BY <1>0 DEF Counted
<1>6. vq.counter \in Nat /\ \A h \in Kept : Counter(h) \in Nat
  BY <1>0, <1>1, CounterTypes
<1>7. \A g, h \in Kept' : /\ given'[g] < given'[h] => Counter(g)' < Counter(h)'
                          /\ Counter(g)' - Counter(h)' < Window
  BY <1>0, <1>1, <1>4, <1>5
<1>8. \A h \in Kept' : Counter(h)' < vq'.counter
  BY <1>1, <1>4, <1>5, <1>6
<1>9. Counter(cur[1])' = vq.counter
  BY <1>0, <1>4 DEF Counter, c
<1>10. /\ Counter(cur[1])' < vq'.counter
       /\ \A h \in Kept' : /\ Counter(h)' < Counter(cur[1])'
                           /\ Counter(cur[1])' - Counter(h)' < Window
  BY <1>1, <1>4, <1>5, <1>6, <1>9
<1>11. pc' # "counter"
  BY <1>0
<1> QED BY <1>7, <1>8, <1>10, <1>11, Zenon DEF Counted

(* Induction over the natural numbers, by the least counterexample.        *)
LEMMA Least ==
    ASSUME NEW T, T \subseteq Nat, T # {}
    PROVE  \E k \in T : \A m \in T : k <= m
<1> DEFINE R == OpToRel(<, Nat)
<1>1. IsWellFoundedOn(R, Nat)
  BY NatLessThanWellFounded, Zenon
<1>2. \A x, y \in Nat : <<x, y>> \in R <=> x < y
  BY DEF OpToRel
<1> HIDE DEF R
<1>3. \E x \in T : \A y \in T : ~ (<<y, x>> \in R)
  BY <1>1, WFMin, Zenon
<1>4. PICK x \in T : \A y \in T : ~ (<<y, x>> \in R)
  BY <1>3
<1>5. ASSUME NEW y \in T
      PROVE  x <= y
  <2>1. ~ (<<y, x>> \in R) /\ x \in Nat /\ y \in Nat
    BY <1>4
  <2>2. ~(y < x)
    BY <1>2, <2>1, Zenon
  <2> QED BY <2>1, <2>2
<1> QED BY <1>5

(* What does not grow from one entry to the next does not grow at all.     *)
LEMMA SortedAll ==
    ASSUME NEW n \in Nat, NEW f \in [1..n -> Int],
           \A k \in 1..n - 1 : f[k + 1] <= f[k]
    PROVE  \A k \in 1..n : \A j \in 1..k - 1 : f[k] <= f[j]
<1> DEFINE T == {k \in 1..n : \E j \in 1..k - 1 : ~(f[k] <= f[j])}
<1>1. T \subseteq Nat
  OBVIOUS
<1>2. ASSUME T # {} PROVE FALSE
  <2>1. PICK k \in T : \A m \in T : k <= m
    BY <1>1, <1>2, Least, Zenon
  <2>2. PICK j \in 1..k - 1 : ~(f[k] <= f[j])
    OBVIOUS
  <2>3. k - 1 \in 1..n - 1 /\ (k - 1) + 1 = k
    BY <2>2
  <2>4. f[k] <= f[k - 1]
    BY <2>3
  <2>5. k - 1 \notin T
    BY <1>1, <2>1
  <2>6. j = k - 1 \/ f[k - 1] <= f[j]
    BY <2>2, <2>3, <2>5
  <2>7. f[k] \in Int /\ f[k - 1] \in Int /\ f[j] \in Int
    BY <2>2, <2>3
  <2>8. \A a, b, c \in Int : a <= b /\ b <= c => a <= c
    OBVIOUS
  <2>9. f[k] <= f[j]
    BY <2>4, <2>6, <2>7, <2>8, Zenon
  <2> QED BY <2>2, <2>9, Zenon
<1> QED BY <1>2

(* The list that vu_check_queue_inflights makes is in the order of the     *)
(* counters, as none of them are a window apart.                           *)
LEMMA CheckSorted ==
    ASSUME IndInv, PlaceInv, Counted, Check
    PROVE  /\ \A k \in 1..Len(vq'.resubmit) : \A j \in 1..k - 1 :
                 Counter(vq'.resubmit[k]) <= Counter(vq'.resubmit[j])
           /\ vq'.counter = IF vq'.resubmit = << >> THEN 0
                            ELSE Counter(vq'.resubmit[1]) + 1
           /\ Lists(vq'.resubmit, Len(vq'.resubmit), Kept)
           /\ vq'.resubmit \in Seq(Heads)
           /\ Kept' = Kept /\ UNCHANGED <<features, area, held, given>>
           /\ held = << >> /\ pc' = "wait" /\ Has("INFLIGHT")
<1> DEFINE marked == {h \in Heads : area.desc[h].inflight}
           n == vq.inuse + Cardinality(marked)
<1>0. /\ Types /\ vq \in Queues /\ [Next]_vars /\ pc = "check"
      /\ vq' \in CheckQueueInflights(vq) /\ UNCHANGED <<features, area, held, given>>
  BY Basics DEF IndInv, Check, Next, Backend
<1>1. /\ Lists(vq'.resubmit, Len(vq'.resubmit), Kept) /\ Has("INFLIGHT")
      /\ held = << >> /\ pc' = "wait"
  BY CheckPlace
<1>2. Kept' = Kept /\ Kept \in SUBSET Heads
  <2>1. ~Flush /\ ~GetMark
    BY <1>0 DEF Flush, GetMark
  <2> QED BY <1>0, <2>1, KeptSame, Basics
<1>3. PICK s \in Resubmits(marked, area.desc) :
         vq' = [vq EXCEPT !.inuse = n, !.last = Mod(n + vq.used), !.shadow = Mod(n + vq.used),
                          !.resubmit = s,
                          !.counter = IF s = << >> THEN 0 ELSE area.desc[s[1]].counter + 1]
  BY <1>0, Zenon DEF CheckQueueInflights
<1>4. \A k \in 1..Len(s) - 1 : SortsBefore(area.desc[s[k]], area.desc[s[k + 1]])
  BY <1>3, Zenon DEF Resubmits
<1> HIDE DEF marked, n
<1>5. /\ vq'.resubmit = s
      /\ vq'.counter = IF s = << >> THEN 0 ELSE Counter(s[1]) + 1
  BY <1>0, <1>3 DEF Queues, Counter
<1>6. s \in Seq(Heads) /\ Len(s) \in Nat
  BY <1>0, <1>5, CheckTypes DEF Queues
<1>7. \A k \in 1..Len(s) : s[k] \in Kept
  BY <1>1, <1>5 DEF Lists
<1>8. \A h \in Kept : Counter(h) \in Nat
  BY <1>0, <1>2, CounterTypes
<1> DEFINE f == [k \in 1..Len(s) |-> Counter(s[k])]
<1>9. f \in [1..Len(s) -> Int]
  BY <1>7, <1>8
<1>10. ASSUME NEW k \in 1..Len(s) - 1
       PROVE  f[k + 1] <= f[k]
  <2>1. k \in 1..Len(s) /\ k + 1 \in 1..Len(s)
    BY <1>6
  <2>2. s[k] \in Kept /\ s[k + 1] \in Kept
    BY <1>7, <2>1
  <2>3. Counter(s[k + 1]) - Counter(s[k]) < Window
    BY <1>1, <2>2 DEF Counted
  <2>4. ~(Counter(s[k + 1]) > Counter(s[k]) /\ Counter(s[k + 1]) - Counter(s[k]) < Window)
    BY <1>4 DEF SortsBefore, Counter
  <2>5. Counter(s[k]) \in Nat /\ Counter(s[k + 1]) \in Nat
    BY <1>8, <2>2
  <2>6. Counter(s[k + 1]) <= Counter(s[k])
    BY <2>3, <2>4, <2>5
  <2> QED BY <2>1, <2>6
<1>11. \A k \in 1..Len(s) : f[k] = Counter(s[k])
  OBVIOUS
<1> HIDE DEF f
<1>12. \A k \in 1..Len(s) : \A j \in 1..k - 1 : f[k] <= f[j]
  BY <1>6, <1>9, <1>10, SortedAll, Zenon
<1>13. ASSUME NEW k \in 1..Len(s), NEW j \in 1..k - 1
       PROVE  Counter(s[k]) <= Counter(s[j])
  <2>1. j \in 1..Len(s)
    BY <1>6
  <2> QED BY <1>11, <1>12, <2>1
<1> QED BY <1>0, <1>1, <1>2, <1>5, <1>6, <1>13

LEMMA CountedCheck ==
    ASSUME IndInv, PlaceInv, Counted, Check
    PROVE  Counted'
<1>1. /\ \A k \in 1..Len(vq'.resubmit) : \A j \in 1..k - 1 :
            Counter(vq'.resubmit[k]) <= Counter(vq'.resubmit[j])
      /\ vq'.counter = IF vq'.resubmit = << >> THEN 0
                       ELSE Counter(vq'.resubmit[1]) + 1
      /\ Lists(vq'.resubmit, Len(vq'.resubmit), Kept)
      /\ vq'.resubmit \in Seq(Heads)
      /\ Kept' = Kept /\ UNCHANGED <<features, area, held, given>>
      /\ pc' = "wait" /\ Has("INFLIGHT")
  BY CheckSorted
<1>2. Kept \in SUBSET Heads /\ \A h \in Kept : Counter(h) \in Nat
  BY Basics, CounterTypes DEF IndInv
<1>3. ASSUME NEW h \in Kept
      PROVE  Counter(h) < vq'.counter
  <2> DEFINE s == vq'.resubmit
  <2>1. PICK k \in 1..Len(s) : s[k] = h
    BY <1>1 DEF Lists
  <2>2. Len(s) \in Nat /\ s # << >> /\ 1 \in 1..Len(s)
    BY <1>1, <2>1
  <2>3. s[1] \in Kept
    BY <1>1, <2>2 DEF Lists
  <2>4. Counter(h) <= Counter(s[1])
    <3>1. CASE k = 1
      BY <1>2, <2>1, <3>1
    <3>2. CASE k # 1
      BY <1>1, <2>1, <2>2, <3>2
    <3> QED BY <3>1, <3>2
  <2>5. vq'.counter = Counter(s[1]) + 1
    BY <1>1, <2>2
  <2> QED BY <1>2, <2>3, <2>4, <2>5
<1>4. \A g, h \in Kept : /\ given[g] < given[h] => Counter(g) < Counter(h)
                         /\ Counter(g) - Counter(h) < Window
  BY <1>1 DEF Counted
<1>5. \A h \in Heads : Counter(h)' = Counter(h)
  BY <1>1 DEF Counter
<1> QED BY <1>1, <1>2, <1>3, <1>4, <1>5 DEF Counted

(* Nothing is kept in an area that is new.                                 *)
LEMMA CountedFresh ==
    ASSUME IndInv, PlaceInv, Counted, CheckFresh
    PROVE  Counted'
<1> SUFFICES ASSUME Has("INFLIGHT")
             PROVE  Counted'
  BY DEF Counted, Has, CheckFresh
<1>1. [Next]_vars /\ pc' = "wait" /\ pc = "check" /\ area.version = 0
  BY DEF Next, Backend, CheckFresh
<1>2. Kept' = Kept /\ Kept = {}
  <2>1. ~Flush /\ ~GetMark
    BY <1>1 DEF Flush, GetMark
  <2>2. Kept = {}
    BY <1>1 DEF PlaceInv, AreaInv, Kept
  <2> QED BY <1>1, <2>1, <2>2, KeptSame
<1> QED BY <1>1, <1>2 DEF Counted

(* A crash leaves the area as it is.                                       *)
LEMMA CountedCrash ==
    ASSUME IndInv, PlaceInv, Counted, Crash
    PROVE  Counted'
<1>0. /\ Types /\ [Next]_vars /\ pc' = "down" /\ ~Running'
      /\ UNCHANGED <<features, area, given, guest>>
  BY DEF IndInv, Next, Crash, Running
<1>1. Kept' = Kept
  BY <1>0 DEF Kept, Marked, Has
<1>2. Has("INFLIGHT") =>
         \A g, h \in Kept : /\ given[g] < given[h] => Counter(g) < Counter(h)
                            /\ Counter(g) - Counter(h) < Window
  BY DEF Counted
<1> QED BY <1>0, <1>1, <1>2 DEF Counted, Counter, Has

LEMMA CountedStep ==
    ASSUME IndInv, PlaceInv, PlaceInv', Numbered, Counted, [Next]_vars, ~Overtaking
    PROVE  Counted'
<1>0. /\ Types /\ features' = features /\ Kept \in SUBSET Heads
  BY Basics, Moves DEF IndInv
<1>1. CASE Check
  BY <1>1, CountedCheck
<1>2. CASE CheckFresh
  BY <1>2, CountedFresh
<1>3. CASE PopHead
  BY <1>3, CountedPop
<1>4. CASE GetCounter
  BY <1>4, CountedCounter
<1>5. CASE GetMark
  <2>1. /\ Kept' = Kept \cup {cur[1]} /\ cur[1] \in Lent \ Kept /\ given' = given
        /\ \A x \in Kept : given[x] < given[cur[1]]
    BY <1>5, NumberedMark
  <2>2. /\ pc = "mark" /\ Running /\ Has("INFLIGHT") /\ pc' = "run" /\ vq' = vq
    BY <1>0, <1>5 DEF GetMark, Running, IndInv, InHand
  <2>3. \A h \in Heads : Counter(h)' = Counter(h)
    <3>1. ~GetCounter
      BY <2>2 DEF GetCounter
    <3> QED BY <1>0, <3>1, CountersSame DEF Counter
  <2>4. cur[1] \in Heads /\ given \in [Heads -> Nat]
    BY <2>1, OrderBasics
  <2>5. /\ Counter(cur[1]) < vq.counter /\ vq.counter \in Nat
        /\ \A h \in Kept : /\ Counter(h) < Counter(cur[1])
                           /\ Counter(cur[1]) - Counter(h) < Window
        /\ \A g, h \in Kept : /\ given[g] < given[h] => Counter(g) < Counter(h)
                              /\ Counter(g) - Counter(h) < Window
        /\ \A h \in Kept : Counter(h) < vq.counter
        /\ \A h \in Heads : Counter(h) \in Nat /\ given[h] \in Nat
        /\ Window \in Nat \ {0}
    BY <1>0, <2>2, <2>4, CounterTypes DEF Counted
  <2> DEFINE x == cur[1]
  <2>6. x \in Heads /\ Kept' = Kept \cup {x} /\ \A h \in Kept : given[h] < given[x]
    BY <2>1, <2>4
  <2> HIDE DEF x
  <2>7. \A g, h \in Kept \cup {x} : /\ given[g] < given[h] => Counter(g) < Counter(h)
                                    /\ Counter(g) - Counter(h) < Window
    <3>1. \A h \in Kept : /\ Counter(h) < Counter(x) /\ Counter(x) - Counter(h) < Window
      BY <2>5 DEF x
    <3> QED BY <1>0, <2>5, <2>6, <3>1
  <2>8. \A h \in Kept \cup {x} : Counter(h) < vq.counter
    BY <2>5 DEF x
  <2> QED BY <1>0, <2>1, <2>2, <2>3, <2>6, <2>7, <2>8 DEF Counted
<1>6. CASE Crash
  BY <1>0, <1>6, CountedCrash
<1>7. CASE ~Check /\ ~CheckFresh /\ ~PopHead /\ ~GetCounter /\ ~GetMark /\ ~Crash
  <2>1. Kept' \subseteq Kept /\ \A x \in Kept' : given'[x] = given[x]
    <3>1. CASE Flush
      BY <3>1, NumberedFlush, OrderBasics DEF PlaceInv, Recoverable
    <3>2. CASE Offer
      BY <3>2, NumberedOffer, OrderBasics
    <3>3. CASE ~Flush /\ ~Offer
      BY <1>0, <1>7, <3>3, KeptSame, Moves
    <3> QED BY <3>1, <3>2, <3>3
  <2>2. \A x \in Heads : area'.desc[x].counter = Counter(x)
    BY <1>0, <1>7, CountersSame DEF Counter
  <2>3. Running' => Running /\ vq'.counter = vq.counter
    BY <1>0, <1>7, RunningMoves, CounterMoves
  <2>4. Taking' => /\ pc' = pc /\ cur' = cur
                   /\ area'.desc[cur[1]].counter = Counter(cur[1])
    BY <1>0, <1>7, TakingMoves DEF Counter
  <2>5. \A x \in Kept' : given'[x] = given[x] /\ area'.desc[x].counter = Counter(x)
    BY <1>0, <2>1, <2>2
  <2> QED BY <1>0, <2>1, <2>3, <2>4, <2>5, CountedKeeps
<1> QED BY <1>1, <1>2, <1>3, <1>4, <1>5, <1>6, <1>7

-----------------------------------------------------------------------------
(* Who changes the list of the device and the list of a crash.             *)
LEMMA ListsMove ==
    ASSUME IndInv, PlaceInv, [Next]_vars, Has("INFLIGHT"), ~RewindMarked, Running',
           ~Check, ~PopResubmitted, ~GetMark, ~(\E k \in 1..Num : Fill(k))
    PROVE  held' = held /\ vq'.resubmit = vq.resubmit
<1>0. Types /\ vq \in Queues
  BY Basics DEF IndInv
<1>1. ~(Start \/ RepairMark \/ RepairIndex \/ Stop \/ Crash)
  BY DEF Start, RepairMark, RepairIndex, Stop, Crash, Running, outside
<1>2. CASE CheckFresh \/ PrePut \/ PostClear \/ PostIndex
  BY <1>2 DEF CheckFresh, PrePut, PostClear, PostIndex, outside
<1>3. CASE PopHead
  BY <1>3, PopPlace
<1>4. CASE GetCounter
  BY <1>0, <1>4 DEF GetCounter, Queues, outside
<1>5. ~(\E k \in 1..Num : Rewind(k))
  BY DEF Rewind
<1>6. CASE Flush
  BY <1>6, FlushPlace DEF Flush
<1>7. CASE \/ Wake \/ PopNothing \/ Disable \/ Enable \/ Recheck \/ Notify
           \/ Decide \/ Collect \/ Arm \/ Nap \/ Interrupt \/ UNCHANGED vars
  BY <1>0, <1>7, CalmSteps, Zenon
<1>8. CASE Offer
  BY <1>8 DEF Offer
<1> QED BY <1>1, <1>2, <1>3, <1>4, <1>5, <1>6, <1>7, <1>8 DEF Next, Driver, Backend

(* A step that leaves both lists, and the numbers of what is kept.         *)
LEMMA QueuedKeeps ==
    ASSUME Queued, PlaceInv', features' = features, Running' => Running,
           held' = held, vq'.resubmit = vq.resubmit,
           \A x \in Kept' : given'[x] = given[x],
           Taking' => Taking \/ vq.resubmit = << >>
    PROVE  Queued'
<1> SUFFICES ASSUME Running', Has("INFLIGHT")'
             PROVE  /\ InOrder(given', held', vq'.resubmit)
                    /\ Taking' => vq'.resubmit = << >>
  BY DEF Queued
<1>1. InOrder(given, held, vq.resubmit) /\ (Taking => vq.resubmit = << >>)
  BY DEF Queued, Has
<1>2. Shared'
  BY DEF PlaceInv, InFlight
<1>3. PICK H \in SUBSET Heads, A \in SUBSET Heads :
         /\ Lists(HeldHeads', Len(held'), H)
         /\ Lists(vq'.resubmit, Len(vq'.resubmit), A)
         /\ H \subseteq Kept' /\ A \subseteq Kept'
  BY <1>2 DEF Shared
<1>4. \A k \in 1..Len(held) : given'[held[k].head] = given[held[k].head]
  <2>1. \A k \in 1..Len(held') : HeldHeads'[k] = held'[k].head
    BY DEF HeldHeads
  <2>2. \A k \in 1..Len(held') : HeldHeads'[k] \in Kept'
    BY <1>3 DEF Lists
  <2> QED BY <2>1, <2>2
<1>5. \A k \in 1..Len(vq.resubmit) : given'[vq.resubmit[k]] = given[vq.resubmit[k]]
  BY <1>3 DEF Lists
<1>6. InOrder(given', held, vq.resubmit)
  <2>1. /\ \A k \in 1..Len(held) : \A j \in 1..k - 1 :
              given[held[j].head] < given[held[k].head]
        /\ \A j \in 1..Len(held) : \A k \in 1..Len(vq.resubmit) :
              given[held[j].head] < given[vq.resubmit[k]]
        /\ \A k \in 1..Len(vq.resubmit) : \A j \in 1..k - 1 :
              given[vq.resubmit[k]] < given[vq.resubmit[j]]
    BY <1>1 DEF InOrder
  <2>2. \A k \in 1..Len(held) : \A j \in 1..k - 1 : j \in 1..Len(held)
    OBVIOUS
  <2>3. \A k \in 1..Len(vq.resubmit) : \A j \in 1..k - 1 : j \in 1..Len(vq.resubmit)
    OBVIOUS
  <2>4. \A k \in 1..Len(held) : \A j \in 1..k - 1 :
           given'[held[j].head] < given'[held[k].head]
    BY <1>4, <2>1, <2>2
  <2>5. \A j \in 1..Len(held) : \A k \in 1..Len(vq.resubmit) :
           given'[held[j].head] < given'[vq.resubmit[k]]
    BY <1>4, <1>5, <2>1
  <2>6. \A k \in 1..Len(vq.resubmit) : \A j \in 1..k - 1 :
           given'[vq.resubmit[k]] < given'[vq.resubmit[j]]
    BY <1>5, <2>1, <2>3
  <2> QED BY <2>4, <2>5, <2>6 DEF InOrder
<1> QED BY <1>1, <1>6

(* The list of a crash is made with the newest first.                      *)
LEMMA QueuedCheck ==
    ASSUME IndInv, PlaceInv, Numbered, Counted, Check
    PROVE  Queued'
<1> DEFINE s == vq'.resubmit
<1>1. /\ \A k \in 1..Len(s) : \A j \in 1..k - 1 : Counter(s[k]) <= Counter(s[j])
      /\ Lists(s, Len(s), Kept) /\ s \in Seq(Heads)
      /\ UNCHANGED <<given, held>> /\ held = << >> /\ pc' = "wait" /\ Has("INFLIGHT")
  BY CheckSorted
<1>2. Kept \in SUBSET Heads /\ given \in [Heads -> Nat]
      /\ \A h \in Kept : Counter(h) \in Nat
  BY OrderBasics, CounterTypes DEF IndInv
<1> HIDE DEF s
<1>3. ASSUME NEW k \in 1..Len(s), NEW j \in 1..k - 1
      PROVE  given[s[k]] < given[s[j]]
  <2>1. j \in 1..Len(s) /\ j # k
    BY <1>1
  <2>2. s[k] \in Kept /\ s[j] \in Kept /\ s[j] # s[k]
    BY <1>1, <2>1 DEF Lists
  <2>3. given[s[k]] \in Nat /\ given[s[j]] \in Nat /\ given[s[k]] # given[s[j]]
    BY <1>2, <2>2 DEF Numbered
  <2>4. ~(given[s[j]] < given[s[k]])
    <3>1. given[s[j]] < given[s[k]] => Counter(s[j]) < Counter(s[k])
      BY <1>1, <2>2 DEF Counted
    <3>2. Counter(s[k]) <= Counter(s[j])
      BY <1>1
    <3>3. Counter(s[k]) \in Nat /\ Counter(s[j]) \in Nat
      BY <1>2, <2>2
    <3> QED BY <3>1, <3>2, <3>3
  <2> QED BY <2>3, <2>4
<1>4. Len(held') = 0 /\ held' = << >>
  BY <1>1
<1>5. InOrder(given', held', s)
  BY <1>1, <1>3, <1>4 DEF InOrder
<1> QED BY <1>1, <1>5 DEF Queued, Taking, s

(* The list of the device with one more element.                           *)
LEMMA OneMore ==
    ASSUME Types, NEW e \in Elements, held' = Append(held, e)
    PROVE  /\ Len(held') = Len(held) + 1 /\ Len(held) \in Nat
           /\ \A k \in 1..Len(held) : held'[k] = held[k]
           /\ held'[Len(held) + 1] = e
<1>1. held \in Seq(Elements) /\ Len(held) \in Nat
  BY Basics
<1> QED BY <1>1, AppendProperties

(* The oldest of the list of a crash comes after all that the device has.  *)
LEMMA QueuedAgain ==
    ASSUME IndInv, PlaceInv, Queued, PopResubmitted
    PROVE  Queued'
<1> SUFFICES ASSUME Running', Has("INFLIGHT")'
             PROVE  /\ InOrder(given', held', vq'.resubmit)
                    /\ Taking' => vq'.resubmit = << >>
  BY DEF Queued
<1> DEFINE r == vq.resubmit
           n == Len(r)
           m == Len(held)
           x == Last(r)
           e == [head |-> x, fetched |-> FALSE]
<1>0. /\ Types /\ vq \in Queues /\ r \in Seq(Heads) /\ r # << >> /\ n \in Nat \ {0}
      /\ m \in Nat
  BY Basics DEF IndInv, PopResubmitted
<1>1. /\ pc = "run" /\ pc' = "run" /\ vq' = [vq EXCEPT !.resubmit = Front(r)]
      /\ held' = Append(held, e) /\ UNCHANGED <<features, given>>
  BY DEF PopResubmitted, outside
<1>2. InOrder(given, held, r)
  BY <1>1 DEF Queued, Running, Has
<1>3. vq'.resubmit = Front(r)
  BY <1>0, <1>1 DEF Queues
<1>4. x = r[n] /\ x \in Heads /\ e \in Elements /\ e.head = x
  BY <1>0 DEF Last, Elements
<1>5. Len(Front(r)) = n - 1 /\ \A k \in 1..n - 1 : Front(r)[k] = r[k]
  BY <1>0 DEF Front
<1> HIDE DEF e
<1>6. /\ Len(held') = m + 1 /\ \A k \in 1..m : held'[k] = held[k]
      /\ held'[m + 1] = e
  BY <1>0, <1>1, <1>4, OneMore
<1> HIDE DEF r, n, m, x
<1>7. /\ \A k \in 1..m : \A j \in 1..k - 1 : given[held[j].head] < given[held[k].head]
      /\ \A j \in 1..m : \A k \in 1..n : given[held[j].head] < given[r[k]]
      /\ \A k \in 1..n : \A j \in 1..k - 1 : given[r[k]] < given[r[j]]
  BY <1>2 DEF InOrder, n, m
<1>8. ASSUME NEW k \in 1..m + 1, NEW j \in 1..k - 1
      PROVE  given[held'[j].head] < given[held'[k].head]
  <2>1. j \in 1..m
    BY <1>0
  <2>2. CASE k = m + 1
    <3>1. n \in 1..n
      BY <1>0
    <3> QED BY <1>4, <1>6, <1>7, <2>1, <2>2, <3>1
  <2>3. CASE k # m + 1
    <3>1. k \in 1..m
      BY <1>0, <2>3
    <3> QED BY <1>6, <1>7, <2>1, <3>1
  <2> QED BY <2>2, <2>3
<1>9. ASSUME NEW j \in 1..m + 1, NEW k \in 1..n - 1
      PROVE  given[held'[j].head] < given[Front(r)[k]]
  <2>1. k \in 1..n /\ n \in 1..n
    BY <1>0
  <2>2. CASE j = m + 1
    BY <1>4, <1>5, <1>6, <1>7, <2>1, <2>2
  <2>3. CASE j # m + 1
    <3>1. j \in 1..m
      BY <1>0, <2>3
    <3> QED BY <1>5, <1>6, <1>7, <2>1, <3>1
  <2> QED BY <2>2, <2>3
<1>10. ASSUME NEW k \in 1..n - 1, NEW j \in 1..k - 1
       PROVE  given[Front(r)[k]] < given[Front(r)[j]]
  <2>1. k \in 1..n /\ j \in 1..n - 1
    BY <1>0
  <2> QED BY <1>5, <1>7, <2>1
<1>11. InOrder(given', held', vq'.resubmit)
  BY <1>1, <1>3, <1>5, <1>6, <1>8, <1>9, <1>10, Zenon DEF InOrder
<1> QED BY <1>1, <1>11 DEF Taking

(* What is taken from the ring was offered after all that is kept.         *)
LEMMA QueuedMark ==
    ASSUME IndInv, PlaceInv, Numbered, Queued, GetMark
    PROVE  Queued'
<1> DEFINE m == Len(held)
           x == cur[1]
           e == [head |-> x, fetched |-> TRUE]
<1>0. /\ Types /\ m \in Nat /\ x \in Heads /\ pc = "mark" /\ Running /\ Has("INFLIGHT")
      /\ vq' = vq /\ held' = Append(held, e) /\ given' = given /\ pc' = "run"
  BY Basics, HeadInHand DEF IndInv, InHand, GetMark, Running, outside
<1>1. InOrder(given, held, vq.resubmit) /\ vq.resubmit = << >>
  BY <1>0 DEF Queued, Taking
<1>2. \A h \in Kept : given[h] < given[x]
  BY NumberedMark
<1>3. \A k \in 1..m : held[k].head \in Kept
  <2>1. Shared
    BY <1>0, Records
  <2>2. PICK H \in SUBSET Heads : Lists(HeldHeads, Len(held), H) /\ H \subseteq Kept
    BY <2>1 DEF Shared
  <2>3. \A k \in 1..m : HeldHeads[k] = held[k].head
    BY DEF HeldHeads
  <2> QED BY <2>2, <2>3 DEF Lists
<1>4. e \in Elements /\ e.head = x
  BY <1>0 DEF Elements
<1> HIDE DEF e
<1>5. /\ Len(held') = m + 1 /\ \A k \in 1..m : held'[k] = held[k]
      /\ held'[m + 1] = e
  BY <1>0, <1>4, OneMore
<1> HIDE DEF m, x
<1>6. \A k \in 1..m : \A j \in 1..k - 1 : given[held[j].head] < given[held[k].head]
  BY <1>1 DEF InOrder, m
<1>7. ASSUME NEW k \in 1..m + 1, NEW j \in 1..k - 1
      PROVE  given[held'[j].head] < given[held'[k].head]
  <2>1. j \in 1..m
    BY <1>0
  <2>2. CASE k = m + 1
    BY <1>2, <1>3, <1>4, <1>5, <2>1, <2>2
  <2>3. CASE k # m + 1
    <3>1. k \in 1..m
      BY <1>0, <2>3
    <3> QED BY <1>5, <1>6, <2>1, <3>1
  <2> QED BY <2>2, <2>3
<1>8. Len(vq.resubmit) = 0 /\ vq'.resubmit = vq.resubmit
  BY <1>0, <1>1
<1>9. InOrder(given', held', vq'.resubmit)
  <2>1. 1..0 = {}
    OBVIOUS
  <2> QED BY <1>0, <1>5, <1>7, <1>8, <2>1, Zenon DEF InOrder
<1> QED BY <1>0, <1>1, <1>8, <1>9 DEF Queued

(* An element that is taken out leaves the others in their order.          *)
LEMMA QueuedFill ==
    ASSUME IndInv, PlaceInv, Queued, NEW i \in 1..Num, Fill(i)
    PROVE  Queued'
<1> SUFFICES ASSUME Running', Has("INFLIGHT")'
             PROVE  /\ InOrder(given', held', vq'.resubmit)
                    /\ Taking' => vq'.resubmit = << >>
  BY DEF Queued
<1> DEFINE m == Len(held)
           r == vq.resubmit
           n == Len(r)
<1>0. /\ Types /\ m \in Nat /\ held \in Seq(Elements) /\ i \in 1..m
      /\ held' = RemoveAt(held, i) /\ UNCHANGED <<features, given, vq>>
      /\ Running /\ Has("INFLIGHT") /\ pc' = "pre"
  BY Basics DEF IndInv, Fill, Running, Has, outside
<1>1. InOrder(given, held, r)
  BY <1>0 DEF Queued
<1>2. Len(held') = m - 1
  BY <1>0, RemoveOne, Zenon
<1>3. \A j \in 1..m - 1 : held'[j] = IF j < i THEN held[j] ELSE held[j + 1]
  BY <1>0, Removed, Zenon
<1> HIDE DEF m, r, n
<1>4. /\ \A k \in 1..m : \A j \in 1..k - 1 : given[held[j].head] < given[held[k].head]
      /\ \A j \in 1..m : \A k \in 1..n : given[held[j].head] < given[r[k]]
      /\ \A k \in 1..n : \A j \in 1..k - 1 : given[r[k]] < given[r[j]]
  BY <1>1 DEF InOrder, n, m
<1>5. ASSUME NEW k \in 1..m - 1, NEW j \in 1..k - 1
      PROVE  given[held'[j].head] < given[held'[k].head]
  <2>1. j \in 1..m - 1
    BY <1>0
  <2>2. PICK a \in 1..m : held'[k] = held[a] /\ a = IF k < i THEN k ELSE k + 1
    <3>1. (IF k < i THEN k ELSE k + 1) \in 1..m
      BY <1>0
    <3> QED BY <1>3, <3>1
  <2>3. PICK b \in 1..m : held'[j] = held[b] /\ b = IF j < i THEN j ELSE j + 1
    <3>1. (IF j < i THEN j ELSE j + 1) \in 1..m
      BY <1>0, <2>1
    <3> QED BY <1>3, <2>1, <3>1
  <2>4. b \in 1..a - 1
    BY <1>0, <2>2, <2>3
  <2> QED BY <1>4, <2>2, <2>3, <2>4
<1>6. ASSUME NEW j \in 1..m - 1, NEW k \in 1..n
      PROVE  given[held'[j].head] < given[r[k]]
  <2>1. PICK b \in 1..m : held'[j] = held[b]
    <3>1. j \in 1..m /\ j + 1 \in 1..m
      BY <1>0
    <3> QED BY <1>3, <3>1
  <2> QED BY <1>4, <2>1
<1>7. InOrder(given', held', vq'.resubmit)
  BY <1>0, <1>2, <1>4, <1>5, <1>6, Zenon DEF InOrder, r, n
<1> QED BY <1>0, <1>7 DEF Taking

LEMMA QueuedStep ==
    ASSUME IndInv, PlaceInv, PlaceInv', Numbered, Counted, Queued, [Next]_vars, ~RewindMarked
    PROVE  Queued'
<1> SUFFICES ASSUME Running', Has("INFLIGHT")'
             PROVE  Queued'
  BY DEF Queued
<1>0. Types /\ features' = features /\ Has("INFLIGHT") /\ Kept \in SUBSET Heads
  BY Basics, Moves DEF IndInv, Has
<1>1. CASE Check
  BY <1>1, QueuedCheck
<1>2. CASE CheckFresh
  <2>1. /\ held = << >> /\ vq.resubmit = << >> /\ UNCHANGED <<held, vq>> /\ pc' = "wait"
    BY <1>2 DEF CheckFresh, PlaceInv, IdleInv, Running
  <2>2. Len(held') = 0 /\ Len(vq'.resubmit) = 0
    BY <2>1
  <2> QED BY <2>1, <2>2 DEF Queued, InOrder, Taking
<1>3. CASE PopResubmitted
  BY <1>3, QueuedAgain
<1>4. CASE GetMark
  BY <1>4, QueuedMark
<1>5. ASSUME NEW k \in 1..Num, Fill(k)
      PROVE  Queued'
  BY <1>5, QueuedFill
<1>6. CASE ~Check /\ ~CheckFresh /\ ~PopResubmitted /\ ~GetMark /\ ~(\E k \in 1..Num : Fill(k))
  <2>1. held' = held /\ vq'.resubmit = vq.resubmit
    BY <1>0, <1>6, ListsMove
  <2>2. Running
    BY <1>0, <1>6, RunningMoves
  <2>3. \A x \in Kept' : given'[x] = given[x]
    <3>1. CASE Flush
      BY <3>1, NumberedFlush DEF PlaceInv, Recoverable
    <3>2. CASE Offer
      BY <3>2, NumberedOffer, OrderBasics
    <3>3. CASE ~Flush /\ ~Offer
      BY <1>0, <3>3, Moves
    <3> QED BY <3>1, <3>2, <3>3
  <2>4. Taking' => Taking \/ vq.resubmit = << >>
    <3>1. CASE PopHead
      BY <3>1, PopPlace
    <3>2. CASE GetCounter
      BY <3>2 DEF GetCounter, Taking
    <3>3. CASE ~PopHead /\ ~GetCounter
      BY <1>0, <3>3, TakingMoves DEF Taking
    <3> QED BY <3>1, <3>2, <3>3
  <2> QED BY <1>0, <2>1, <2>2, <2>3, <2>4, QueuedKeeps
<1> QED BY <1>1, <1>2, <1>3, <1>4, <1>5, <1>6

(* The invariant of the order.                                             *)
LEMMA OrderStep ==
    ASSUME IndInv, PlaceInv, PlaceInv', OrderInv, [Next]_vars, ~RewindMarked, ~Overtaking
    PROVE  OrderInv'
BY NumberedStep, CountedStep, QueuedStep DEF OrderInv

LEMMA OrderInit == Init => OrderInv
<1> SUFFICES ASSUME Init PROVE OrderInv
  OBVIOUS
<1>1. Lent = {} /\ Kept = {} /\ offered = 0
  BY DEF Init, Lent, Kept, Marked
<1>2. Cardinality({}) = 0 /\ Lent \ Kept = {}
  BY <1>1, FS_EmptySet
<1>3. Numbered
  BY <1>1, <1>2 DEF Numbered, LastOffers
<1>4. ~Running /\ pc = "stopped"
  BY DEF Init, Running
<1>5. Queued /\ Counted
  BY <1>1, <1>4 DEF Queued, Counted
<1> QED BY <1>3, <1>5 DEF OrderInv

-----------------------------------------------------------------------------
Ascends(g, s) == \A k \in 1..Len(s) : \A j \in 1..k - 1 : g[s[j]] < g[s[k]]

LEMMA AscendsConcat ==
    ASSUME NEW g, NEW a \in Seq(Heads), NEW b \in Seq(Heads), Ascends(g, a), Ascends(g, b),
           \A j \in 1..Len(a), k \in 1..Len(b) : g[a[j]] < g[b[k]]
    PROVE  a \o b \in Seq(Heads) /\ Ascends(g, a \o b)
<1> DEFINE m == Len(a)
           n == Len(b)
           c == a \o b
<1>1. /\ m \in Nat /\ n \in Nat /\ c \in Seq(Heads) /\ Len(c) = m + n
      /\ \A k \in 1..m + n : c[k] = IF k <= m THEN a[k] ELSE b[k - m]
  BY ConcatProperties
<1>2. /\ \A k \in 1..m : \A j \in 1..k - 1 : g[a[j]] < g[a[k]]
      /\ \A k \in 1..n : \A j \in 1..k - 1 : g[b[j]] < g[b[k]]
      /\ \A j \in 1..m, k \in 1..n : g[a[j]] < g[b[k]]
  BY DEF Ascends
<1> HIDE DEF m, n, c
<1>3. ASSUME NEW k \in 1..m + n, NEW j \in 1..k - 1
      PROVE  g[c[j]] < g[c[k]]
  <2>0. j \in 1..m + n
    BY <1>1
  <2>1. CASE k <= m
    <3>1. k \in 1..m /\ j <= m
      BY <1>1, <2>1
    <3> QED BY <1>1, <1>2, <2>0, <2>1, <3>1
  <2>2. CASE ~(k <= m) /\ j <= m
    <3>1. k - m \in 1..n /\ j \in 1..m
      BY <1>1, <2>2
    <3>2. c[j] = a[j] /\ c[k] = b[k - m]
      BY <1>1, <2>0, <2>2
    <3> QED BY <1>2, <3>1, <3>2
  <2>3. CASE ~(k <= m) /\ ~(j <= m)
    <3>1. k - m \in 1..n /\ j - m \in 1..(k - m) - 1
      BY <1>1, <2>3
    <3>2. c[j] = b[j - m] /\ c[k] = b[k - m]
      BY <1>1, <2>0, <2>3
    <3> QED BY <1>2, <3>1, <3>2
  <2> QED BY <2>1, <2>2, <2>3
<1> QED BY <1>1, <1>3 DEF Ascends, c

(* What is on the ring was offered last.                                   *)
LEMMA AvailableNumbered ==
    ASSUME IndInv, PlaceInv, Numbered, Running,
           vq.inuse \in Cardinality(Kept)..Cardinality(Lent)
    PROVE  /\ Available \in Seq(Heads)
           /\ Len(Available) = Cardinality(Lent) - vq.inuse
           /\ \A k \in 1..Len(Available) :
                 given[Available[k]] = offered - (Cardinality(Lent) - vq.inuse) + k
<1> DEFINE K == Cardinality(Kept)
           L == Cardinality(Lent)
           u == guest.uidx
           q == vq.inuse
           S == Lent \ Kept
           i == u + K
           n == Cardinality(S)
           d == q - K
           D == S \ {guest.ring[(i + j) % Num] : j \in 0..d - 1}
<1>1. /\ offered \in Int /\ L \in Nat /\ K \in Nat /\ n \in Nat /\ n = L - K
      /\ u \in Int /\ i \in Int /\ S \in SUBSET Heads /\ D \in SUBSET Heads
      /\ guest.ring \in [Heads -> Heads] /\ On(guest.ring, i, n, S)
      /\ LastOffers(given, guest.ring, i, n, offered)
  <2>1. D \in SUBSET Heads
    BY OrderBasics
  <2> QED BY <2>1, OrderBasics DEF Numbered
<1>2. q \in K..L
  OBVIOUS
<1> HIDE DEF K, L, u, q, S, n
<1>3. /\ d \in 0..n /\ n - d = L - q /\ i + d = u + q /\ q \in 0..L
  BY <1>1, <1>2
<1> HIDE DEF i, d
<1>4. On(guest.ring, i + d, n - d, D) /\ LastOffers(given, guest.ring, i + d, n - d, offered)
  <2>1. On(guest.ring, i + d, n - d, D)
    <3>1. On(guest.ring, i + d, n - d,
             S \ {guest.ring[(i + j) % Num] : j \in 0..d - 1})
      <4>1. i \in Int /\ n \in Nat /\ d \in 0..n /\ On(guest.ring, i, n, S)
        BY <1>1, <1>3
      <4> QED BY <4>1, OnDrop, Zenon
    <3>2. D = S \ {guest.ring[(i + j) % Num] : j \in 0..d - 1}
      BY DEF D
    <3> QED BY <3>1, <3>2, Zenon
  <2>2. LastOffers(given, guest.ring, i + d, n - d, offered)
    BY <1>1, <1>3, OffersDrop, Zenon
  <2> QED BY <2>1, <2>2
<1> HIDE DEF D
<1>5. /\ DOMAIN Available = 1..L - q
      /\ \A k \in DOMAIN Available : Available[k] = guest.ring[((u + q) + (k - 1)) % Num]
  <2>1. On(guest.ring, u + q, L - q, D) /\ D \in SUBSET Heads /\ q \in 0..L
    BY <1>1, <1>3, <1>4
  <2>2. /\ On(guest.ring, guest.uidx + vq.inuse, Cardinality(Lent) - vq.inuse, D)
        /\ D \in SUBSET Heads /\ vq.inuse \in 0..Cardinality(Lent)
    BY <2>1 DEF u, q, L
  <2>3. /\ DOMAIN Available = 1..Cardinality(Lent) - vq.inuse
        /\ \A k \in DOMAIN Available :
              Available[k] = guest.ring[((guest.uidx + vq.inuse) + (k - 1)) % Num]
    BY <2>2, PlacesAvailable, Zenon
  <2> QED BY <2>3 DEF u, q, L
<1>6. Available \in Seq(Heads) /\ Len(Available) = L - q
  <2>1. \E f : Available = [k \in 1..Mod(guest.idx - vq.last) |-> f[k]]
    <3> DEFINE f == [k \in 1..Mod(guest.idx - vq.last) |->
                        guest.ring[Mod(vq.last + k - 1) % Num]]
    <3>1. Available = f
      BY DEF Available, Entries
    <3>2. f = [k \in 1..Mod(guest.idx - vq.last) |-> f[k]]
      OBVIOUS
    <3> QED BY <3>1, <3>2, Zenon
  <2>2. Available = [k \in 1..L - q |-> Available[k]]
    BY <1>5, <2>1
  <2>3. ASSUME NEW k \in 1..L - q
        PROVE  Available[k] \in Heads
    <3>1. (u + q) + (k - 1) \in Int
      BY <1>1, <1>3
    <3>2. ((u + q) + (k - 1)) % Num \in Heads
      BY <3>1, SlotIn, Zenon
    <3> QED BY <1>1, <1>5, <3>2
  <2>4. L - q \in Nat
    BY <1>1, <1>3
  <2> HIDE DEF L
  <2>5. Available \in [1..L - q -> Heads]
    BY <2>2, <2>3
  <2> QED BY <2>4, <2>5
<1>7. ASSUME NEW k \in 1..L - q
      PROVE  given[Available[k]] = offered - (L - q) + k
  <2>1. k - 1 \in 0..(n - d) - 1 /\ (offered - (n - d)) + ((k - 1) + 1) = offered - (L - q) + k
    BY <1>1, <1>3
  <2>2. given[guest.ring[((i + d) + (k - 1)) % Num]] = (offered - (n - d)) + ((k - 1) + 1)
    BY <1>4, <2>1, Zenon DEF LastOffers
  <2>3. Available[k] = guest.ring[((u + q) + (k - 1)) % Num]
    BY <1>5
  <2> QED BY <1>3, <2>1, <2>2, <2>3, Zenon
<1> QED BY <1>6, <1>7 DEF L, q

LEMMA HeldHeadsSeq ==
    ASSUME Types
    PROVE  /\ HeldHeads \in Seq(Heads) /\ Len(HeldHeads) = Len(held)
           /\ \A k \in 1..Len(held) : HeldHeads[k] = held[k].head
<1> DEFINE m == Len(held)
           a == HeldHeads
<1>1. m \in Nat /\ held \in Seq(Elements)
  BY Basics
<1>2. a = [k \in 1..m |-> held[k].head]
  BY DEF HeldHeads
<1>3. \A k \in 1..m : held[k] \in Elements
  BY <1>1
<1>4. \A k \in 1..m : held[k].head \in Heads
  BY <1>3 DEF Elements
<1> HIDE DEF m, a
<1>5. a \in [1..m -> Heads]
  BY <1>2, <1>4
<1>6. a \in Seq(Heads) /\ Len(a) = m /\ \A k \in 1..m : a[k] = held[k].head
  BY <1>1, <1>2, <1>5
<1> QED BY <1>6 DEF a, m

(* What the device has and what a crash left was offered before that, and  *)
(* is taken by its number.                                                 *)
LEMMA FrontRecorded ==
    ASSUME IndInv, PlaceInv, OrderInv, Running, Has("INFLIGHT")
    PROVE  /\ vq.inuse \in Cardinality(Kept)..Cardinality(Lent)
           /\ HeldHeads \o Reverse(vq.resubmit) \in Seq(Heads)
           /\ Ascends(given, HeldHeads \o Reverse(vq.resubmit))
           /\ \A k \in 1..Len(HeldHeads \o Reverse(vq.resubmit)) :
                 given[(HeldHeads \o Reverse(vq.resubmit))[k]]
                    <= offered - (Cardinality(Lent) - vq.inuse)
<1> DEFINE r == vq.resubmit
           m == Len(held)
           n == Len(r)
           a == HeldHeads
           b == Reverse(r)
<1>0. /\ r \in Seq(Heads) /\ m \in Nat /\ n \in Nat /\ held \in Seq(Elements)
      /\ Kept \in SUBSET Heads /\ given \in [Heads -> Nat] /\ offered \in Nat
      /\ Cardinality(Lent) \in Nat /\ Cardinality(Kept) \in Nat
      /\ Cardinality(Lent \ Kept) = Cardinality(Lent) - Cardinality(Kept)
  BY Basics, OrderBasics DEF IndInv
<1>1. PICK H \in SUBSET Heads, A \in SUBSET Heads :
         Lists(a, m, H) /\ Lists(r, n, A) /\ H \subseteq Kept /\ A \subseteq Kept
  BY Records DEF Shared
<1>2. vq.inuse \in Cardinality(Kept)..Cardinality(Lent)
  <2>1. /\ vq.inuse = Cardinality(Kept) + IF Taking THEN 1 ELSE 0
        /\ Taking => Lent # Kept
    BY Records
  <2>2. /\ Cardinality(Kept) <= Cardinality(Lent)
        /\ Lent # Kept => Cardinality(Kept) < Cardinality(Lent)
    BY Room
  <2> QED BY <1>0, <2>1, <2>2
<1>3. /\ b = [k \in 1..n |-> r[(n - k) + 1]]
      /\ a \in Seq(Heads) /\ Len(a) = m /\ \A k \in 1..m : a[k] = held[k].head
  BY HeldHeadsSeq DEF Reverse, IndInv
<1> HIDE DEF a, b
<1>4. a \in Seq(Heads) /\ Len(a) = m /\ b \in Seq(Heads) /\ Len(b) = n
  <2>1. \A k \in 1..n : r[(n - k) + 1] \in Heads
    BY <1>0
  <2> HIDE DEF m, n, r
  <2>2. b \in [1..n -> Heads]
    BY <1>3, <2>1
  <2> QED BY <1>0, <1>3, <2>2
<1>5. InOrder(given, held, r)
  BY DEF OrderInv, Queued
<1> HIDE DEF r, m, n
<1>6. /\ \A k \in 1..m : \A j \in 1..k - 1 : given[held[j].head] < given[held[k].head]
      /\ \A j \in 1..m : \A k \in 1..n : given[held[j].head] < given[r[k]]
      /\ \A k \in 1..n : \A j \in 1..k - 1 : given[r[k]] < given[r[j]]
  BY <1>5 DEF InOrder, m, n
<1>7. Ascends(given, a)
  <2>1. ASSUME NEW k \in 1..m, NEW j \in 1..k - 1
        PROVE  given[a[j]] < given[a[k]]
    <3>1. j \in 1..m
      BY <1>0
    <3> QED BY <1>3, <1>6, <3>1
  <2> QED BY <1>4, <2>1 DEF Ascends
<1>8. Ascends(given, b)
  <2>1. ASSUME NEW k \in 1..n, NEW j \in 1..k - 1
        PROVE  given[b[j]] < given[b[k]]
    <3>1. /\ j \in 1..n /\ (n - j) + 1 \in 1..n
          /\ (n - k) + 1 \in 1..((n - j) + 1) - 1
      BY <1>0
    <3>2. given[r[(n - j) + 1]] < given[r[(n - k) + 1]]
      BY <1>6, <3>1
    <3> QED BY <1>3, <3>1, <3>2
  <2> QED BY <1>4, <2>1 DEF Ascends
<1>9. ASSUME NEW j \in 1..m, NEW k \in 1..n
      PROVE  given[a[j]] < given[b[k]]
  <2>1. (n - k) + 1 \in 1..n
    BY <1>0
  <2> QED BY <1>3, <1>6, <2>1
<1>10. a \o b \in Seq(Heads) /\ Ascends(given, a \o b)
  <2>1. \A j \in 1..Len(a), k \in 1..Len(b) : given[a[j]] < given[b[k]]
    BY <1>4, <1>9
  <2>2. a \in Seq(Heads) /\ b \in Seq(Heads)
    BY <1>4
  <2> QED BY <1>7, <1>8, <2>1, <2>2, AscendsConcat, Zenon
<1>11. ASSUME NEW k \in 1..Len(a \o b)
       PROVE  given[(a \o b)[k]] <= offered - (Cardinality(Lent) - vq.inuse)
  <2>1. (a \o b)[k] \in Kept
    <3>1. /\ Len(a \o b) = m + n
          /\ \A x \in 1..m + n : (a \o b)[x] = IF x <= m THEN a[x] ELSE b[x - m]
      BY <1>4, ConcatProperties
    <3>2. CASE k <= m
      <4>1. k \in 1..m /\ k \in 1..m + n
        BY <1>0, <3>1, <3>2
      <4> QED BY <1>1, <3>1, <3>2, <4>1 DEF Lists
    <3>3. CASE ~(k <= m)
      <4>1. k - m \in 1..n /\ (n - (k - m)) + 1 \in 1..n /\ k \in 1..m + n
        BY <1>0, <3>1, <3>3
      <4>2. (a \o b)[k] = r[(n - (k - m)) + 1]
        BY <1>3, <3>1, <3>3, <4>1
      <4>3. r[(n - (k - m)) + 1] \in A
        BY <1>1, <4>1 DEF Lists
      <4> QED BY <1>1, <4>2, <4>3
    <3> QED BY <3>2, <3>3
  <2>2. given[(a \o b)[k]] <= offered - (Cardinality(Lent) - Cardinality(Kept))
    BY <1>0, <2>1 DEF OrderInv, Numbered
  <2>3. given[(a \o b)[k]] \in Int
    BY <1>0, <2>1
  <2>4. \A g \in Int : g <= offered - (Cardinality(Lent) - Cardinality(Kept))
                       => g <= offered - (Cardinality(Lent) - vq.inuse)
    BY <1>0, <1>2
  <2> QED BY <2>2, <2>3, <2>4, Zenon
<1> QED BY <1>2, <1>10, <1>11 DEF a, b, r

LEMMA FrontInOrder ==
    ASSUME IndInv, PlaceInv, OrderInv, Running, ~Has("INFLIGHT")
    PROVE  /\ vq.inuse \in Cardinality(Kept)..Cardinality(Lent)
           /\ HeldHeads \o Reverse(vq.resubmit) \in Seq(Heads)
           /\ Ascends(given, HeldHeads \o Reverse(vq.resubmit))
           /\ \A k \in 1..Len(HeldHeads \o Reverse(vq.resubmit)) :
                 given[(HeldHeads \o Reverse(vq.resubmit))[k]]
                    <= offered - (Cardinality(Lent) - vq.inuse)
<1> DEFINE u == guest.uidx
           c == Len(cur)
           m == Len(held)
           L == Cardinality(Lent)
           a == HeldHeads
<1>0. /\ u \in Int /\ c \in Nat /\ m \in Nat /\ held \in Seq(Elements)
      /\ given \in [Heads -> Nat] /\ offered \in Int /\ L \in Nat /\ vq.inuse \in Int
  BY Basics, OrderBasics DEF IndInv
<1>1. /\ vq.inuse = c + m
      /\ \A k \in 1..m : held[k].head = guest.ring[(u + (c + (k - 1))) % Num]
  BY DEF PlaceInv, Sequential
<1>2. Kept = {} /\ Cardinality(Kept) = 0 /\ Lent \ Kept = Lent
  BY FS_EmptySet DEF Kept
<1>3. vq.inuse \in 0..L
  <2>1. PICK e \in vq.inuse..L : vq.shadow = Mod(u + e)
    BY DEF PlaceInv, Resumes
  <2> QED BY <1>0, <1>1, <2>1
<1>4. LastOffers(given, guest.ring, u, L, offered)
  <2>1. u + Cardinality(Kept) = u
    BY <1>0, <1>2
  <2>2. LastOffers(given, guest.ring, u + Cardinality(Kept), Cardinality(Lent \ Kept), offered)
    BY DEF OrderInv, Numbered
  <2> QED BY <1>2, <2>1, <2>2
<1>5. a \o Reverse(vq.resubmit) = a /\ a \in Seq(Heads) /\ Len(a) = m
      /\ \A k \in 1..m : a[k] = held[k].head
  <2>1. a \in Seq(Heads) /\ Len(a) = m /\ \A k \in 1..m : a[k] = held[k].head
    BY HeldHeadsSeq DEF IndInv
  <2>2. vq.resubmit = << >>
    BY DEF IndInv, InHand
  <2>3. Reverse(<< >>) = << >>
    <3>1. Len(<< >>) = 0 /\ 1..0 = {}
      OBVIOUS
    <3> QED BY <3>1 DEF Reverse
  <2> HIDE DEF a
  <2> QED BY <2>1, <2>2, <2>3
<1> HIDE DEF u, c, m, L, a
<1>6. ASSUME NEW k \in 1..m
      PROVE  given[a[k]] = (offered - L) + (c + k)
  <2>1. c + (k - 1) \in 0..L - 1 /\ (c + (k - 1)) + 1 = c + k
    BY <1>0, <1>1, <1>3
  <2>2. given[guest.ring[(u + (c + (k - 1))) % Num]] = (offered - L) + ((c + (k - 1)) + 1)
    BY <1>4, <2>1, Zenon DEF LastOffers
  <2> QED BY <1>1, <1>5, <2>1, <2>2
<1>7. Ascends(given, a)
  <2>1. ASSUME NEW k \in 1..m, NEW j \in 1..k - 1
        PROVE  given[a[j]] < given[a[k]]
    <3>1. j \in 1..m
      BY <1>0
    <3>2. (offered - L) + (c + j) < (offered - L) + (c + k)
      BY <1>0
    <3> QED BY <1>6, <3>1, <3>2
  <2> QED BY <1>5, <2>1 DEF Ascends
<1>8. ASSUME NEW k \in 1..m
      PROVE  given[a[k]] <= offered - (L - vq.inuse)
  BY <1>0, <1>1, <1>6
<1>9. vq.inuse \in Cardinality(Kept)..L
  BY <1>2, <1>3
<1> QED BY <1>5, <1>7, <1>8, <1>9 DEF a, L

LEMMA PopsOrdered == IndInv /\ PlaceInv /\ OrderInv => PoppedInOrder
<1> SUFFICES ASSUME IndInv, PlaceInv, OrderInv, Running
             PROVE  \A k \in DOMAIN Pops : \A j \in 1..k - 1 : given[Pops[j]] < given[Pops[k]]
  BY DEF PoppedInOrder
<1> DEFINE a == HeldHeads \o Reverse(vq.resubmit)
           b == Available
           top == offered - (Cardinality(Lent) - vq.inuse)
<1>1. /\ vq.inuse \in Cardinality(Kept)..Cardinality(Lent)
      /\ a \in Seq(Heads) /\ Ascends(given, a) /\ \A k \in 1..Len(a) : given[a[k]] <= top
  BY FrontRecorded, FrontInOrder
<1>2. b \in Seq(Heads) /\ \A k \in 1..Len(b) : given[b[k]] = top + k
  BY <1>1, AvailableNumbered DEF OrderInv
<1>3. given \in [Heads -> Nat] /\ top \in Int
  <2>1. given \in [Heads -> Nat] /\ offered \in Nat /\ Cardinality(Lent) \in Nat
        /\ Cardinality(Kept) \in Nat
    BY OrderBasics
  <2> QED BY <1>1, <2>1
<1>4. Pops = a \o b
  BY DEF Pops
<1> HIDE DEF a, b, top
<1>5. Ascends(given, b)
  <2>1. ASSUME NEW k \in 1..Len(b), NEW j \in 1..k - 1
        PROVE  given[b[j]] < given[b[k]]
    <3>1. Len(b) \in Nat
      BY <1>2
    <3>2. j \in 1..Len(b) /\ top + j < top + k
      BY <1>3, <3>1
    <3> QED BY <1>2, <3>2
  <2> QED BY <2>1 DEF Ascends
<1>6. \A j \in 1..Len(a), k \in 1..Len(b) : given[a[j]] < given[b[k]]
  <2>1. ASSUME NEW j \in 1..Len(a), NEW k \in 1..Len(b)
        PROVE  given[a[j]] < given[b[k]]
    <3>0. a[j] \in Heads
      BY <1>1
    <3>1. given[a[j]] \in Int /\ given[a[j]] <= top /\ given[b[k]] = top + k
      <4>1. given[a[j]] \in Int
        BY <1>3, <3>0
      <4> QED BY <1>1, <1>2, <4>1, Zenon
    <3>2. k \in Nat \ {0}
      BY <1>2
    <3> QED BY <1>3, <3>1, <3>2
  <2> QED BY <2>1
<1>7. a \o b \in Seq(Heads) /\ Ascends(given, a \o b)
  BY <1>1, <1>2, <1>5, <1>6, AscendsConcat, Zenon
<1>8. DOMAIN (a \o b) = 1..Len(a \o b)
  BY <1>7
<1> QED BY <1>4, <1>7, <1>8 DEF Ascends

-----------------------------------------------------------------------------
(***************************************************************************)
(* The theorems                                                            *)
(***************************************************************************)
(* The library, the driver and crashes keep the inductive invariant.       *)
THEOREM Inductive == Spec => []IndInv
<1>1. IndInv /\ [Next]_vars => IndInv'
  BY TypesStep, InHandStep, KickStep, CallStep DEF IndInv
<1> QED BY <1>1, Initially, PTL DEF Spec

(* vu_queue_set_notification and vu_queue_empty, in this order: a device   *)
(* that went to wait with a buffer to take has a kick, or the driver is    *)
(* about to send one, also after any number of crashes.                    *)
THEOREM KicksArrive == Spec => []KickNotLost
<1>1. IndInv => KickNotLost
  <2> SUFFICES ASSUME IndInv, pc = "wait", guest.idx # vq.last \/ vq.resubmit # << >>
               PROVE  kick \/ driver.pc = "decide"
    BY DEF KickNotLost
  <2> QED BY DEF IndInv, KickInv, Waits, Told
<1> QED BY <1>1, Inductive, PTL

(* vring_notify: a driver that sleeps with used buffers has a call under   *)
(* way or coming, unless the frontend gave the queue nothing to call with  *)
(* (then the library ends in a panic instead).                             *)
THEOREM CallsArrive == Spec => [](callMode # "none" => CallNotLost)
<1>1. IndInv => (callMode # "none" => CallNotLost)
  BY DEF IndInv, CallInv, CallNotLost
<1> QED BY <1>1, Inductive, PTL

(* What a crash leaves, on the rings and in the inflight records, is what  *)
(* vu_check_queue_inflights needs to find every buffer again, when the     *)
(* frontend stops idle queues and the device rewinds no recorded buffer.   *)
THEOREM PlacesKept == ~StopBusy /\ ~RewindMarked => (Spec => [](PlaceInv /\ NoPanic))
<1> SUFFICES ASSUME ~StopBusy, ~RewindMarked PROVE Spec => [](PlaceInv /\ NoPanic)
  OBVIOUS
<1>1. Init => PlaceInv /\ NoPanic
  BY PlaceInit DEF Init, NoPanic
<1>2. IndInv /\ (PlaceInv /\ NoPanic) /\ [Next]_vars => (PlaceInv /\ NoPanic)'
  BY PlaceStep
<1> QED BY <1>1, <1>2, Inductive, PTL DEF Spec

(* Every buffer that is lent is in one place, inuse counts those that the  *)
(* device has, and vu_queue_pop never takes the queue for overfull, also   *)
(* after any number of crashes.                                            *)
THEOREM NothingIsForgotten ==
    ~StopBusy /\ ~RewindMarked => (Spec => [](callMode # "none" => NothingForgotten))
<1> SUFFICES ASSUME ~StopBusy, ~RewindMarked
             PROVE  Spec => [](callMode # "none" => NothingForgotten)
  OBVIOUS
<1>1. IndInv /\ (PlaceInv /\ NoPanic) => (callMode # "none" => NothingForgotten)
  BY PlacesRecorded, PlacesInOrder DEF NothingForgotten, NoPanic
<1>2. Spec => [](PlaceInv /\ NoPanic)
  BY PlacesKept
<1> QED BY <1>1, <1>2, Inductive, PTL

(* The driver gets every buffer back once, also when the backend dies      *)
(* between vu_queue_flush and vu_queue_inflight_post_put.                  *)
THEOREM EachIsCompletedOnce ==
    ~StopBusy /\ ~RewindMarked => (Spec => []CompletedOnce)
<1> SUFFICES ASSUME ~StopBusy, ~RewindMarked PROVE Spec => []CompletedOnce
  OBVIOUS
<1>1. Spec => [](PlaceInv /\ NoPanic)
  BY PlacesKept
<1> QED BY <1>1, PlacesUsed, Inductive, PTL

(* vu_queue_inflight_get and inflight_desc_compare: the device takes the   *)
(* buffers in the order in which they were offered, also when it takes     *)
(* those that any number of processes left marked, if it keeps no buffer   *)
(* in flight while VIRTQUEUE_MAX_SIZE * 2 others are taken.                *)
THEOREM TakenInOrder ==
    ~StopBusy /\ ~RewindMarked /\ ~Overtaking => (Spec => []PoppedInOrder)
<1> SUFFICES ASSUME ~StopBusy, ~RewindMarked, ~Overtaking PROVE Spec => []PoppedInOrder
  OBVIOUS
<1>1. IndInv /\ PlaceInv /\ NoPanic /\ OrderInv /\ [Next]_vars => OrderInv'
  BY PlaceStep, OrderStep
<1>2. Spec => []OrderInv
  BY <1>1, OrderInit, PlacesKept, Inductive, PTL DEF Spec
<1>3. IndInv /\ (PlaceInv /\ NoPanic) /\ OrderInv => PoppedInOrder
  BY PopsOrdered
<1> QED BY <1>2, <1>3, PlacesKept, Inductive, PTL
=============================================================================
