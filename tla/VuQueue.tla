------------------------------ MODULE VuQueue -------------------------------
(***************************************************************************)
(* The queue interface of libvhost-user.c: vu_queue_pop, _push, _fill,     *)
(* _flush, _rewind, _notify and _set_notification on a split ring, with    *)
(* the inflight records that let a new backend process take over where a   *)
(* crashed one stopped.  A chain is its head; module VuDescriptors walks   *)
(* the chains.  The guest's driver, the frontend and the device that calls *)
(* the interface are not part of the library.                              *)
(***************************************************************************)
EXTENDS Integers, Sequences, SequencesExt, FiniteSetsExt

CONSTANTS Num,          \* vring.num
          IdxMod,       \* ring indices are modulo this, 2^16 in the code
          Window,       \* VIRTQUEUE_MAX_SIZE * 2
          Setups,       \* features negotiated, and how many buffers the queue
                        \* has seen: records [features, first]
          CallModes,    \* how the frontend takes calls: "eventfd", "message"
                        \* (in band) or "none"
          StopBusy,     \* may the frontend stop a queue with buffers in flight?
          RewindMarked, \* may the device rewind buffers that have a record?
          Overtaking,   \* may it keep a buffer while Window others are popped?
          MaxOffered,   \* bound: buffers the driver offers
          MaxEnds       \* bound: crashes of the backend, and times the frontend
                        \* stops the queue

ASSUME VuQueueConstants ==
    /\ {Num, IdxMod} \subseteq Nat \ {0}
    /\ IdxMod % (2 * Num) = 0
    /\ Window \in Nat \ {0}
    /\ Setups \subseteq
          [features : SUBSET {"EVENT_IDX", "NOTIFY_ON_EMPTY", "INFLIGHT"},
           first : 0..IdxMod - 1]
    /\ CallModes \subseteq {"eventfd", "message", "none"}
    /\ {StopBusy, RewindMarked, Overtaking} \subseteq BOOLEAN
    /\ {MaxOffered, MaxEnds} \subseteq Nat

Heads == 0..Num - 1
Mod(n) == n % IdxMod
Signed(n) == IF Mod(n) < IdxMod \div 2 THEN Mod(n) ELSE Mod(n) - IdxMod

(***************************************************************************)
(* Definitions named Bug_... are deliberate mistakes that no specification *)
(* uses; each could replace the definition after it.                       *)
(***************************************************************************)

VARIABLES
    features,  \* dev->features and dev->protocol_features
    callMode,  \* what vq->call_fd is
    \* memory that outlives the backend
    guest,     \* the rings: avail ring and idx, used ring and uidx,
               \* avail_event and NO_NOTIFY, used_event and NO_INTERRUPT
    area,      \* VuVirtqInflight
    \* the backend process
    vq,        \* VuVirtq
    pc,        \* where it stands
    back,      \* where the device goes on after a push
    cur,       \* heads that are being popped, or filled and not yet flushed
    held,      \* elements the device has popped and not pushed, in that order
    \* the eventfds
    kick, call,
    \* the driver
    driver,    \* its steps, the heads it owns, the used index it has seen
    given,     \* given[h]: the number of the offer that lent head h to the
               \* device, 0 when it is not lent
    owed,      \* buffers were used and vu_queue_notify has not run since:
               \* "no", "yes", or "lost" when a crash came in between
    base,      \* the index the frontend restarts the queue from
    offered, ends

outside == <<kick, call, driver, given, owed, base, offered, ends>>
vars == <<features, callMode, guest, area, vq, pc, back, cur, held, outside>>

Has(f) == f \in features

(* Heads offered and not yet used.                                         *)
Lent == {h \in Heads : given[h] > 0}

(* The queue of a new process: vu_init.                                    *)
NewVq == [last |-> 0, shadow |-> 0, used |-> 0, inuse |-> 0, counter |-> 0,
          resubmit |-> << >>, signalled |-> 0, valid |-> FALSE,
          notification |-> TRUE]

(* A queue that is idle and stopped.  GET_INFLIGHT_FD hands out an area of *)
(* zeros; when the queue has been in use, the area has been too.           *)
Init ==
    /\ \E s \in Setups : features = s.features /\ base = s.first
    /\ callMode \in CallModes
    /\ guest = [ring |-> [k \in Heads |-> 0], idx |-> base,
                used |-> [k \in Heads |-> 0], uidx |-> base,
                event |-> base, noNotify |-> FALSE,
                usedEvent |-> base, noInterrupt |-> FALSE]
    /\ area = [version |-> IF base = 0 THEN 0 ELSE 1, used |-> base, last |-> 0,
               desc |-> [h \in Heads |-> [inflight |-> FALSE, counter |-> 0]]]
    /\ vq = NewVq
    /\ pc = "stopped" /\ back = "wait"
    /\ cur = << >> /\ held = << >>
    /\ kick = FALSE /\ call = FALSE
    /\ driver = [pc |-> "idle", free |-> Heads, seen |-> base]
    /\ given = [h \in Heads |-> 0] /\ owed = "no"
    /\ offered = 0 /\ ends = 0

-----------------------------------------------------------------------------
(***************************************************************************)
(* Starting, stopping and recovering                                       *)
(***************************************************************************)
(* inflight_desc_compare(a, b) is -1.                                      *)
SortsBefore(a, b) == ~(b.counter > a.counter /\ b.counter - a.counter < Window)

(* The lists that qsort may leave.  The comparison is not an order when    *)
(* counters are a window apart, and then there may be several.             *)
Resubmits(marked, desc) ==
    {s \in SetToSeqs(marked) :
        \A k \in 1..Len(s) - 1 : SortsBefore(desc[s[k]], desc[s[k + 1]])}

(* vu_check_queue_inflights after the repair of the area: what is marked   *)
(* counts as in use and will be popped again, the newest first in the      *)
(* list.  inuse is not set to 0 before.                                    *)
CheckQueueInflights(v) ==
    LET marked == {h \in Heads : area.desc[h].inflight}
        n == v.inuse + Cardinality(marked)
    IN  {[v EXCEPT !.inuse = n,
                   !.last = Mod(n + v.used), !.shadow = Mod(n + v.used),
                   !.resubmit = s,
                   !.counter = IF s = << >> THEN 0
                               ELSE area.desc[s[1]].counter + 1] :
            s \in Resubmits(marked, area.desc)}

(* SET_INFLIGHT_FD, SET_VRING_BASE and SET_VRING_ADDR.  Without inflight   *)
(* records the device must say that it works in order, and the queue       *)
(* resumes from the used index; and the frontend kicks.                    *)
Start ==
    /\ pc \in {"down", "stopped"}
    /\ LET from == IF Has("INFLIGHT") THEN base ELSE guest.uidx
       IN  vq' = [vq EXCEPT !.last = from, !.shadow = from, !.used = guest.uidx]
    /\ pc' = "check"
    /\ kick' = (kick \/ ~Has("INFLIGHT"))
    /\ UNCHANGED <<features, callMode, guest, area, back, cur, held, call, driver,
                   given, owed, base, offered, ends>>

(* SET_VRING_KICK with an area that is new, or without one.                *)
CheckFresh ==
    /\ pc = "check"
    /\ ~Has("INFLIGHT") \/ area.version = 0
    /\ area' = [area EXCEPT !.version = IF Has("INFLIGHT") THEN 1 ELSE @]
    /\ pc' = "wait"
    /\ UNCHANGED <<features, callMode, guest, vq, back, cur, held, outside>>

Bug_RepairMark ==   \* the head of the last batch keeps its mark
    /\ pc = "check"
    /\ Has("INFLIGHT") /\ area.version = 1 /\ area.used # vq.used
    /\ pc' = "repair"
    /\ UNCHANGED <<features, callMode, guest, area, vq, back, cur, held, outside>>

(* The previous process used a buffer and did not get to say so in the     *)
(* area: its mark is taken back, then the index is brought up to date.     *)
RepairMark ==
    /\ pc = "check"
    /\ Has("INFLIGHT") /\ area.version = 1 /\ area.used # vq.used
    /\ area' = [area EXCEPT !.desc[area.last].inflight = FALSE]
    /\ pc' = "repair"
    /\ UNCHANGED <<features, callMode, guest, vq, back, cur, held, outside>>

RepairIndex ==
    /\ pc = "repair"
    /\ area' = [area EXCEPT !.used = vq.used]
    /\ pc' = "check"
    /\ UNCHANGED <<features, callMode, guest, vq, back, cur, held, outside>>

Bug_Check ==   \* the queue is not kicked
    /\ pc = "check"
    /\ Has("INFLIGHT") /\ area.version = 1 /\ area.used = vq.used
    /\ vq' \in CheckQueueInflights(vq)
    /\ pc' = "wait"
    /\ UNCHANGED <<features, callMode, guest, area, back, cur, held, outside>>

(* The rest of vu_check_queue_inflights, with its kick "in case of I/O     *)
(* hang after reconnecting".                                               *)
Check ==
    /\ pc = "check"
    /\ Has("INFLIGHT") /\ area.version = 1 /\ area.used = vq.used
    /\ vq' \in CheckQueueInflights(vq)
    /\ kick' = TRUE
    /\ pc' = "wait"
    /\ UNCHANGED <<features, callMode, guest, area, back, cur, held, call, driver,
                   given, owed, base, offered, ends>>

(* GET_VRING_BASE.  The device has completed its buffers, unless StopBusy. *)
Stop ==
    /\ pc = "wait" /\ ends < MaxEnds
    /\ StopBusy \/ vq.inuse = 0
    /\ base' = vq.last
    /\ pc' = "stopped"
    /\ held' = << >>
    /\ ends' = ends + 1
    /\ UNCHANGED <<features, callMode, guest, area, vq, back, cur, kick, call,
                   driver, given, owed, offered>>

(* The process dies at any point, and the frontend goes back to the used   *)
(* index.                                                                  *)
Crash ==
    /\ pc \notin {"down", "stopped"} /\ ends < MaxEnds
    /\ pc' = "down"
    /\ vq' = NewVq
    /\ back' = "wait" /\ cur' = << >> /\ held' = << >>
    /\ base' = guest.uidx
    /\ owed' = IF owed = "no" THEN "no" ELSE "lost"
    /\ ends' = ends + 1
    /\ UNCHANGED <<features, callMode, guest, area, kick, call, driver, given,
                   offered>>

-----------------------------------------------------------------------------
(***************************************************************************)
(* Taking buffers                                                          *)
(***************************************************************************)

(* vu_kick_cb and the device's handler, which may do without kicks while   *)
(* it works.                                                               *)
Wake ==
    /\ pc = "wait" /\ kick
    /\ kick' = FALSE
    /\ pc' \in {"run", "disable"}
    /\ UNCHANGED <<features, callMode, guest, area, vq, back, cur, held, call,
                   driver, given, owed, base, offered, ends>>

(* vu_queue_empty, and the shadow index it leaves.                         *)
ShadowAfter(v) == IF v.shadow # v.last THEN v.shadow ELSE guest.idx
Empty(v) == ShadowAfter(v) = v.last

SetAvailEvent(g, v, idx) ==
    IF v.notification THEN [g EXCEPT !.event = idx] ELSE g

Bug_PopResubmitted ==   \* from the front of the list
    /\ pc = "run" /\ vq.resubmit # << >>
    /\ held' = Append(held, [head |-> Head(vq.resubmit), fetched |-> FALSE])
    /\ vq' = [vq EXCEPT !.resubmit = Tail(@)]
    /\ UNCHANGED <<features, callMode, guest, area, pc, back, cur, outside>>

(* vu_queue_pop: what a crashed process left comes first.                  *)
PopResubmitted ==
    /\ pc = "run" /\ vq.resubmit # << >>
    /\ held' = Append(held, [head |-> Last(vq.resubmit), fetched |-> FALSE])
    /\ vq' = [vq EXCEPT !.resubmit = Front(@)]
    /\ UNCHANGED <<features, callMode, guest, area, pc, back, cur, outside>>

(* It returns NULL, and the device turns to waiting.                       *)
PopNothing ==
    /\ pc = "run" /\ vq.resubmit = << >>
    /\ Empty(vq)
    /\ vq' = [vq EXCEPT !.shadow = ShadowAfter(vq)]
    /\ pc' = "enable"
    /\ UNCHANGED <<features, callMode, guest, area, back, cur, held, outside>>

(* The device has pushed every buffer that is Window older than the next.  *)
InWindow ==
    \A h \in Heads : area.desc[h].inflight => vq.counter - area.desc[h].counter < Window

(* With inuse at the size of the queue it panics.                          *)
PopHead ==
    /\ pc = "run" /\ vq.resubmit = << >>
    /\ ~Empty(vq) /\ (Overtaking \/ InWindow)
    /\ LET head == guest.ring[vq.last % Num]
           v == [vq EXCEPT !.shadow = ShadowAfter(vq), !.last = Mod(@ + 1),
                           !.inuse = @ + 1]
       IN  IF vq.inuse >= Num
           THEN pc' = "panicked" /\ UNCHANGED <<guest, vq, cur, held>>
           ELSE /\ vq' = v
                /\ guest' = IF Has("EVENT_IDX") THEN SetAvailEvent(guest, v, v.last)
                                                ELSE guest
                /\ IF Has("INFLIGHT")
                   THEN pc' = "counter" /\ cur' = <<head>> /\ UNCHANGED held
                   ELSE /\ held' = Append(held, [head |-> head, fetched |-> TRUE])
                        /\ UNCHANGED <<pc, cur>>
    /\ UNCHANGED <<features, callMode, area, back, outside>>

(* vu_queue_inflight_get, one store at a time, in program order.           *)
GetCounter ==
    /\ pc = "counter"
    /\ area' = [area EXCEPT !.desc[cur[1]].counter = vq.counter]
    /\ vq' = [vq EXCEPT !.counter = @ + 1]
    /\ pc' = "mark"
    /\ UNCHANGED <<features, callMode, guest, back, cur, held, outside>>

GetMark ==
    /\ pc = "mark"
    /\ area' = [area EXCEPT !.desc[cur[1]].inflight = TRUE]
    /\ held' = Append(held, [head |-> cur[1], fetched |-> TRUE])
    /\ cur' = << >>
    /\ pc' = "run"
    /\ UNCHANGED <<features, callMode, guest, vq, back, outside>>

(* vu_queue_rewind, and vu_queue_unpop when n = 1: the device gives back   *)
(* the n elements that it popped last.                                     *)
Rewind(n) ==
    /\ pc = "run" /\ (Has("INFLIGHT") => RewindMarked)
    /\ n \in 1..Len(held) /\ n <= vq.inuse
    /\ \A k \in 1..n : LET e == held[Len(held) - n + k]
                       IN  /\ e.fetched
                           /\ e.head = guest.ring[Mod(vq.last - n + k - 1) % Num]
    /\ vq' = [vq EXCEPT !.last = Mod(@ - n), !.inuse = @ - n]
    /\ held' = SubSeq(held, 1, Len(held) - n)
    /\ UNCHANGED <<features, callMode, guest, area, pc, back, cur, outside>>

(* vu_queue_set_notification.  With the event index, disabling leaves the  *)
(* event where it is.                                                      *)
SetNotification(enable) ==
    LET v == [vq EXCEPT !.notification = enable]
    IN  IF Has("EVENT_IDX")
        THEN /\ vq' = [v EXCEPT !.shadow = guest.idx]
             /\ guest' = SetAvailEvent(guest, v, guest.idx)
        ELSE /\ vq' = v
             /\ guest' = [guest EXCEPT !.noNotify = ~enable]

Disable ==
    /\ pc = "disable"
    /\ SetNotification(FALSE)
    /\ pc' = "run"
    /\ UNCHANGED <<features, callMode, area, back, cur, held, outside>>

(* Before it waits it asks for them again, and then looks at the ring.     *)
Enable ==
    /\ pc = "enable"
    /\ SetNotification(TRUE)
    /\ pc' = "recheck"
    /\ UNCHANGED <<features, callMode, area, back, cur, held, outside>>

Recheck ==
    /\ pc = "recheck"
    /\ vq' = [vq EXCEPT !.shadow = ShadowAfter(vq)]
    /\ pc' = IF Empty(vq) THEN "wait" ELSE "run"
    /\ UNCHANGED <<features, callMode, guest, area, back, cur, held, outside>>

-----------------------------------------------------------------------------
(***************************************************************************)
(* Giving buffers back                                                     *)
(***************************************************************************)

(* vu_queue_fill of the element at k of held.  vu_queue_push is for one    *)
(* element, and the only way with inflight records; without them several   *)
(* may be filled before vu_queue_flush, and the device works in order.     *)
Fill(k) ==
    /\ \/ pc \in {"run", "wait"} /\ back' = pc
       \/ pc = "flush" /\ ~Has("INFLIGHT") /\ UNCHANGED back
    /\ k \in 1..Len(held)
    /\ k = 1 \/ Has("INFLIGHT")
    /\ guest' = [guest EXCEPT !.used[Mod(vq.used + Len(cur)) % Num] = held[k].head]
    /\ cur' = Append(cur, held[k].head)
    /\ held' = RemoveAt(held, k)
    /\ pc' = IF Has("INFLIGHT") THEN "pre" ELSE "flush"
    /\ UNCHANGED <<features, callMode, area, vq, outside>>

Bug_PrePut ==   \* the head is recorded by a later step only
    /\ pc = "pre"
    /\ pc' = "flush"
    /\ UNCHANGED <<features, callMode, guest, area, vq, back, cur, held, outside>>

PrePut ==
    /\ pc = "pre"
    /\ area' = [area EXCEPT !.last = cur[1]]
    /\ pc' = "flush"
    /\ UNCHANGED <<features, callMode, guest, vq, back, cur, held, outside>>

(* When the used index has gone round past signalled_used, the latter says *)
(* nothing any more.                                                       *)
Signalled(v, new, count) ==
    IF Signed(new - v.signalled) < count THEN [v EXCEPT !.valid = FALSE] ELSE v

(* vu_queue_flush.                                                         *)
Flush ==
    /\ pc = "flush"
    /\ LET count == Len(cur)
           new == Mod(vq.used + count)
       IN  /\ guest' = [guest EXCEPT !.uidx = new]
           /\ vq' = Signalled([vq EXCEPT !.used = new, !.inuse = @ - count],
                              new, count)
    /\ given' = [h \in Heads |-> IF h \in Range(cur) THEN 0 ELSE given[h]]
    /\ owed' = "yes"
    /\ IF Has("INFLIGHT") THEN pc' = "clear" /\ UNCHANGED cur
                          ELSE pc' = back /\ cur' = << >>
    /\ UNCHANGED <<features, callMode, area, back, held, kick, call, driver, base,
                   offered, ends>>

(* vu_queue_inflight_post_put.                                             *)
PostClear ==
    /\ pc = "clear"
    /\ area' = [area EXCEPT !.desc[cur[1]].inflight = FALSE]
    /\ pc' = "post"
    /\ UNCHANGED <<features, callMode, guest, vq, back, cur, held, outside>>

PostIndex ==
    /\ pc = "post"
    /\ area' = [area EXCEPT !.used = vq.used]
    /\ cur' = << >>
    /\ pc' = back
    /\ UNCHANGED <<features, callMode, guest, vq, back, held, outside>>

(* vring_need_event.                                                       *)
NeedEvent(event, new, old) == Mod(new - event - 1) < Mod(new - old)

Bug_VringNotify(v) ==   \* signalled_used is trusted from the start
    [v |-> [v EXCEPT !.valid = TRUE, !.signalled = v.used],
     yes |-> IF Has("EVENT_IDX")
             THEN NeedEvent(guest.usedEvent, v.used, v.signalled)
             ELSE ~guest.noInterrupt]

(* vring_notify: whether to call, and what it leaves in the queue.         *)
VringNotify(v) ==
    LET asks == Has("NOTIFY_ON_EMPTY") /\ v.inuse = 0
        w == [v EXCEPT !.shadow = IF asks THEN ShadowAfter(v) ELSE @]
    IN  IF asks /\ Empty(v) THEN [v |-> w, yes |-> TRUE]
        ELSE IF ~Has("EVENT_IDX") THEN [v |-> w, yes |-> ~guest.noInterrupt]
        ELSE [v |-> [w EXCEPT !.valid = TRUE, !.signalled = v.used],
              yes |-> ~v.valid \/ NeedEvent(guest.usedEvent, v.used, v.signalled)]

(* _vu_queue_notify, after one push or several.  Without a descriptor and  *)
(* without messages in band the write to it fails, which is a panic.       *)
Notify ==
    /\ pc \in {"run", "wait"} /\ owed = "yes"
    /\ LET n == VringNotify(vq)
       IN  /\ vq' = n.v
           /\ call' = (call \/ (n.yes /\ callMode # "none"))
           /\ pc' = IF n.yes /\ callMode = "none" THEN "panicked" ELSE pc
    /\ owed' = "no"
    /\ UNCHANGED <<features, callMode, guest, area, back, cur, held, kick, driver,
                   given, base, offered, ends>>

-----------------------------------------------------------------------------
(***************************************************************************)
(* The driver, not part of the source                                      *)
(***************************************************************************)
(* It offers the first of its free heads.                                  *)
Offer ==
    /\ driver.pc = "idle" /\ driver.free # {} /\ offered < MaxOffered
    /\ LET h == Min(driver.free)
       IN  /\ guest' = [guest EXCEPT !.ring[guest.idx % Num] = h, !.idx = Mod(@ + 1)]
           /\ driver' = [driver EXCEPT !.pc = "decide", !.free = @ \ {h}]
           /\ given' = [given EXCEPT ![h] = offered + 1]
    /\ offered' = offered + 1
    /\ UNCHANGED <<features, callMode, area, vq, pc, back, cur, held, kick, call,
                   owed, base, ends>>

(* It kicks if the device asked to be told of this buffer.                 *)
Decide ==
    /\ driver.pc = "decide"
    /\ kick' = (kick \/ IF Has("EVENT_IDX")
                        THEN NeedEvent(guest.event, guest.idx, guest.idx - 1)
                        ELSE ~guest.noNotify)
    /\ driver' = [driver EXCEPT !.pc = "idle"]
    /\ UNCHANGED <<features, callMode, guest, area, vq, pc, back, cur, held, call,
                   given, owed, base, offered, ends>>

(* It takes what was used.                                                 *)
Collect ==
    /\ driver.pc = "idle" /\ driver.seen # guest.uidx
    /\ driver' = [driver EXCEPT
                    !.free = @ \cup {guest.used[driver.seen % Num]},
                    !.seen = Mod(@ + 1)]
    /\ UNCHANGED <<features, callMode, guest, area, vq, pc, back, cur, held, kick,
                   call, given, owed, base, offered, ends>>

(* Before it sleeps it asks to be called for the next one, and looks again. *)
Arm ==
    /\ driver.pc = "idle" /\ driver.seen = guest.uidx /\ Lent # {}
    /\ guest' = [guest EXCEPT !.usedEvent = driver.seen, !.noInterrupt = FALSE]
    /\ driver' = [driver EXCEPT !.pc = "armed"]
    /\ UNCHANGED <<features, callMode, area, vq, pc, back, cur, held, kick, call,
                   given, owed, base, offered, ends>>

Nap ==
    /\ driver.pc = "armed"
    /\ driver' = [driver EXCEPT
                    !.pc = IF driver.seen = guest.uidx THEN "asleep" ELSE "idle"]
    /\ UNCHANGED <<features, callMode, guest, area, vq, pc, back, cur, held, kick,
                   call, given, owed, base, offered, ends>>

(* The interrupt ends the sleep; from here it needs no further calls.      *)
Interrupt ==
    /\ call
    /\ call' = FALSE
    /\ driver' = [driver EXCEPT !.pc = IF @ = "decide" THEN @ ELSE "idle"]
    /\ guest' = [guest EXCEPT !.noInterrupt = ~Has("EVENT_IDX")]
    /\ UNCHANGED <<features, callMode, area, vq, pc, back, cur, held, kick, given,
                   owed, base, offered, ends>>

Driver == Offer \/ Decide \/ Collect \/ Arm \/ Nap \/ Interrupt

Backend ==
    \/ Start \/ CheckFresh \/ RepairMark \/ RepairIndex \/ Check \/ Wake
    \/ PopResubmitted \/ PopNothing \/ PopHead \/ GetCounter \/ GetMark
    \/ Disable \/ Enable \/ Recheck
    \/ (\E k \in 1..Num : Fill(k) \/ Rewind(k))
    \/ PrePut \/ Flush \/ PostClear \/ PostIndex \/ Notify

Next == Driver \/ Backend \/ Stop \/ Crash

Spec == Init /\ [][Next]_vars

-----------------------------------------------------------------------------
(***************************************************************************)
(* Properties                                                              *)
(***************************************************************************)
Running == pc \notin {"down", "stopped", "check", "repair"}

(* The entries of a ring from one index up to another.                     *)
Entries(ring, from, to) ==
    [k \in 1..Mod(to - from) |-> ring[Mod(from + k - 1) % Num]]

Available == Entries(guest.ring, vq.last, guest.idx)
HeldHeads == [k \in 1..Len(held) |-> held[k].head]
Unused == IF pc \in {"counter", "mark", "pre", "flush"} THEN cur ELSE << >>
Unseen == Entries(guest.used, driver.seen, guest.uidx)

Split(whole, parts) ==   \* each head of whole is in one place of the parts
    /\ whole = UNION {Range(parts[n]) : n \in DOMAIN parts}
    /\ \A m, n \in DOMAIN parts :
          \A j \in DOMAIN parts[m], k \in DOMAIN parts[n] :
              parts[m][j] = parts[n][k] => m = n /\ j = k

(* Every buffer the driver has offered and not had back is in exactly one  *)
(* place: still to be popped, held by the device, or to be popped again    *)
(* after a crash; inuse counts the last two, so that vu_queue_pop never    *)
(* takes a queue for overfull.  This holds again after                     *)
(* vu_check_queue_inflights, wherever the previous process stopped.        *)
NothingForgotten ==
    /\ pc # "panicked"
    /\ Running => /\ Split(Lent, <<Available, HeldHeads, vq.resubmit, Unused>>)
                  /\ vq.inuse = Len(held) + Len(vq.resubmit) + Len(Unused)

(* The driver gets every buffer back once: a head is free, in the hands of *)
(* the backend, or one entry of the used ring, and never two of them, also *)
(* when a process dies between vu_queue_flush and its inflight record.     *)
CompletedOnce ==
    /\ driver.free \cap Lent = {}
    /\ Split(Heads \ (driver.free \cup Lent), <<Unseen>>)

(* What vu_queue_pop returned and was not pushed yet, then what a crash    *)
(* left for it, then the ring.                                             *)
Pops == HeldHeads \o Reverse(vq.resubmit) \o Available

(* libvhost-user.h on the counter: "Used to preserve the order of fetching *)
(* available descriptors".  The device gets the buffers in the order in    *)
(* which the driver offered them, also when it gets them from a list that  *)
(* vu_check_queue_inflights made of the marks of several processes.        *)
PoppedInOrder ==
    Running => \A k \in DOMAIN Pops : \A j \in 1..k - 1 :
                  given[Pops[j]] < given[Pops[k]]

(* A device that has re-enabled notifications, looked again and gone to    *)
(* wait is woken for every buffer: with vu_queue_set_notification and      *)
(* vu_queue_empty in this order no kick is lost, whether the driver goes   *)
(* by NO_NOTIFY or by the event index, and also when a crash left either   *)
(* of them as it was.                                                      *)
KickNotLost ==
    pc = "wait" /\ (guest.idx # vq.last \/ vq.resubmit # << >>)
        => kick \/ driver.pc = "decide"

(* A driver that sleeps with used buffers has a call under way or coming:  *)
(* vring_notify leaves out none that is needed, with signalled_used wrong  *)
(* in a new process or overtaken by the used index.  A crash between       *)
(* vu_queue_push and vu_queue_notify loses one; the next call makes up for *)
(* it.                                                                     *)
CallNotLost ==
    driver.pc = "asleep" /\ driver.seen # guest.uidx
        => call \/ owed # "no"
=============================================================================
