------------------------------ MODULE VirtioTx ------------------------------
(***************************************************************************)
(* The transmit queue of vhost/backend.c: tx_kick against a driver that    *)
(* publishes buffers at any moment and, with VIRTIO_RING_F_EVENT_IDX, only *)
(* kicks at the index the device asked for.  Ring indices wrap, and the    *)
(* device's store to avail_event may reach memory late unless it fences.   *)
(***************************************************************************)
EXTENDS Naturals, Sequences

CONSTANTS QNum,       \* vring.num
          IdxMod,     \* ring indices count modulo this (2^16 in the code)
          MaxBufs,    \* bound: buffers the driver publishes
          EventIdxs,  \* may VIRTIO_RING_F_EVENT_IDX be negotiated or not?
          Handlers    \* vlog_virtq_handle: "complete" as virtq_test.c wants
                      \* it, or the "stub" in virtio.c, which returns 0

NoStore == IdxMod   \* not an index

ASSUME VirtioTxConstants ==
    /\ QNum \in Nat \ {0}
    /\ IdxMod \in Nat /\ IdxMod % QNum = 0 /\ IdxMod > QNum
    /\ MaxBufs \in Nat
    /\ EventIdxs \subseteq BOOLEAN
    /\ Handlers \subseteq {"complete", "stub"}

(***************************************************************************)
(* Definitions named Bug_... are deliberate mistakes that no specification *)
(* uses; each could replace the definition after it.                       *)
(***************************************************************************)

VARIABLES
    \* shared memory
    ring,        \* avail->ring: the buffer in each slot
    avail,       \* avail->idx
    used,        \* used->idx
    availEvent,  \* avail_event, behind the used ring
    \* the driver
    drv,         \* "idle", or "check" after it published buffers
    old,         \* avail->idx before those buffers
    published,   \* number of buffers published so far
    \* notifications
    kick,        \* the kick eventfd is readable
    called,      \* used->idx when the driver was last interrupted
    \* the device
    event_idx,   \* VIRTIO_RING_F_EVENT_IDX is among the negotiated features
    handler,     \* the vlog_virtq_handle it was linked with
    dev,         \* where the backend stands: "poll", or a point of tx_kick
    lastAvail,   \* vq.last_avail, saved in vuq->last_avail_idx
    n, total,    \* chains completed by the last call, and in this kick
    storeBuf,    \* a store to avail_event that is not yet visible
    emitted      \* what vlog_sink_emit was given, in order

setup == <<event_idx, handler>>
device == <<setup, dev, lastAvail, n, total, storeBuf, emitted, used, called>>
driver == <<drv, old, published, ring, avail>>
vars == <<ring, avail, used, availEvent, drv, old, published, kick, called,
          setup, dev, lastAvail, n, total, storeBuf, emitted>>

(* Indices are uint16_t.                                                   *)
Mod(k) == k % IdxMod
Minus(a, b) == (a + IdxMod - b) % IdxMod

Init ==
    /\ event_idx \in EventIdxs /\ handler \in Handlers
    /\ ring = [s \in 0..QNum - 1 |-> 0]
    /\ avail = 0 /\ used = 0 /\ availEvent = 0
    /\ drv = "idle" /\ old = 0 /\ published = 0
    /\ kick = FALSE /\ called = 0
    /\ dev = "poll" /\ lastAvail = 0 /\ n = 0 /\ total = 0
    /\ storeBuf = NoStore
    /\ emitted = << >>

-----------------------------------------------------------------------------
(***************************************************************************)
(* The driver: Linux virtio_console behind QEMU, not part of the source    *)
(***************************************************************************)

(* It owns at most QNum buffers at a time, and adds fewer than 2^16 of     *)
(* them before it considers a kick.                                        *)
Publish ==
    /\ published < MaxBufs
    /\ Minus(avail, used) < QNum
    /\ drv = "check" => Minus(avail, old) < IdxMod - 1
    /\ drv' = "check"
    /\ old' = IF drv = "idle" THEN avail ELSE old
    /\ ring' = [ring EXCEPT ![avail % QNum] = published + 1]
    /\ avail' = Mod(avail + 1)
    /\ published' = published + 1
    /\ UNCHANGED <<availEvent, kick, device>>

(* vring_need_event: did the new index pass the event index?               *)
NeedEvent(event, new, before) ==
    Minus(Minus(new, event), 1) < Minus(new, before)

Check ==
    /\ drv = "check"
    /\ drv' = "idle"
    /\ kick' = (kick \/ ~event_idx \/ NeedEvent(availEvent, avail, old))
    /\ UNCHANGED <<old, published, ring, avail, availEvent, device>>

-----------------------------------------------------------------------------
(***************************************************************************)
(* The device: vu_kick_cb and tx_kick                                      *)
(***************************************************************************)

Bug_KickCb ==   \* progress is not kept from one kick to the next
    /\ dev = "poll"
    /\ kick
    /\ kick' = FALSE
    /\ dev' = "handle"
    /\ total' = 0
    /\ lastAvail' = 0
    /\ UNCHANGED <<setup, availEvent, driver, n, storeBuf, emitted, used,
                   called>>

(* The event loop sees the eventfd; vu_kick_cb empties it and calls        *)
(* tx_kick.                                                                *)
KickCb ==
    /\ dev = "poll"
    /\ kick
    /\ kick' = FALSE
    /\ dev' = "handle"
    /\ total' = 0
    /\ UNCHANGED <<setup, availEvent, driver, lastAvail, n, storeBuf,
                   emitted, used, called>>

Bug_Handle ==   \* one chain per call
    /\ dev = "handle"
    /\ LET done == IF handler = "stub" \/ avail = lastAvail THEN 0 ELSE 1
       IN  /\ n' = done
           /\ total' = total + done
           /\ lastAvail' = Mod(lastAvail + done)
           /\ used' = Mod(used + done)
           /\ emitted' = emitted \o
                 [k \in 1..done |-> ring[(lastAvail + k - 1) % QNum]]
    /\ dev' = IF event_idx THEN "publish" ELSE "call"
    /\ UNCHANGED <<setup, availEvent, kick, driver, storeBuf, called>>

(* vlog_virtq_handle: every chain that is available when it looks is       *)
(* emitted and completed.  Then last_avail_idx is saved.                   *)
Handle ==
    /\ dev = "handle"
    /\ LET done == IF handler = "stub" THEN 0 ELSE Minus(avail, lastAvail)
       IN  /\ n' = done
           /\ total' = total + done
           /\ lastAvail' = Mod(lastAvail + done)
           /\ used' = Mod(used + done)
           /\ emitted' = emitted \o
                 [k \in 1..done |-> ring[(lastAvail + k - 1) % QNum]]
    /\ dev' = IF event_idx THEN "publish" ELSE "call"
    /\ UNCHANGED <<setup, availEvent, kick, driver, storeBuf, called>>

Bug_PublishEvent ==   \* the index after the next one is asked for
    /\ dev = "publish"
    /\ storeBuf' = Mod(lastAvail + 1)
    /\ dev' = "fence"
    /\ UNCHANGED <<setup, availEvent, kick, driver, lastAvail, n, total,
                   emitted, used, called>>

(* *avail_event = vq.last_avail                                            *)
PublishEvent ==
    /\ dev = "publish"
    /\ storeBuf' = lastAvail
    /\ dev' = "fence"
    /\ UNCHANGED <<setup, availEvent, kick, driver, lastAvail, n, total,
                   emitted, used, called>>

(* The processor lets the store become visible.                            *)
StoreLands ==
    /\ storeBuf # NoStore
    /\ availEvent' = storeBuf
    /\ storeBuf' = NoStore
    /\ UNCHANGED <<setup, kick, driver, dev, lastAvail, n, total, emitted,
                   used, called>>

Bug_Fence ==   \* no fence: the store may still be on its way
    /\ dev = "fence"
    /\ dev' = "recheck"
    /\ UNCHANGED <<setup, availEvent, kick, driver, lastAvail, n, total,
                   storeBuf, emitted, used, called>>

(* __atomic_thread_fence(__ATOMIC_SEQ_CST)                                 *)
Fence ==
    /\ dev = "fence"
    /\ storeBuf = NoStore
    /\ dev' = "recheck"
    /\ UNCHANGED <<setup, availEvent, kick, driver, lastAvail, n, total,
                   storeBuf, emitted, used, called>>

Bug_Recheck ==   \* "no progress; don't spin forever" is left out
    /\ dev = "recheck"
    /\ dev' = IF avail = lastAvail THEN "call" ELSE "handle"
    /\ UNCHANGED <<setup, availEvent, kick, driver, lastAvail, n, total,
                   storeBuf, emitted, used, called>>

Recheck ==
    /\ dev = "recheck"
    /\ dev' = IF avail = lastAvail \/ n = 0 THEN "call" ELSE "handle"
    /\ UNCHANGED <<setup, availEvent, kick, driver, lastAvail, n, total,
                   storeBuf, emitted, used, called>>

(* if (total > 0 && call_fd >= 0) eventfd_write(call_fd, 1)                *)
Call ==
    /\ dev = "call"
    /\ called' = IF total > 0 THEN used ELSE called
    /\ dev' = "poll"
    /\ UNCHANGED <<setup, availEvent, kick, driver, lastAvail, n, total,
                   storeBuf, emitted, used>>

TxKick == Handle \/ PublishEvent \/ Fence \/ Recheck \/ Call

Next == Publish \/ Check \/ KickCb \/ TxKick \/ StoreLands

Spec == Init /\ [][Next]_vars

(* The backend's only thread runs, stores land, and a driver that          *)
(* published a buffer goes on to the check whether to kick.                *)
FairSpec ==
    Spec /\ WF_vars(KickCb) /\ WF_vars(TxKick) /\ WF_vars(StoreLands)
         /\ WF_vars(Check)

-----------------------------------------------------------------------------
(***************************************************************************)
(* Properties                                                              *)
(***************************************************************************)
(* backend.c: every index is a uint16_t, and the device is never more than *)
(* a ring behind the driver.                                               *)
TypeOK ==
    /\ <<avail, used, availEvent, lastAvail, called, old>>
          \in (0..IdxMod - 1) \X (0..IdxMod - 1) \X (0..IdxMod - 1)
              \X (0..IdxMod - 1) \X (0..IdxMod - 1) \X (0..IdxMod - 1)
    /\ Minus(avail, lastAvail) <= QNum
    /\ <<event_idx, handler>> \in EventIdxs \X Handlers
    /\ drv \in {"idle", "check"} /\ kick \in BOOLEAN
    /\ dev \in {"poll", "handle", "publish", "fence", "recheck", "call"}
    /\ storeBuf \in (0..IdxMod - 1) \cup {NoStore}

(* "Without this re-check the queue can stall" (backend.c:134): when both  *)
(* sides are idle and no kick is pending, no published buffer is left.     *)
NoStall ==
    (handler = "complete" /\ dev = "poll" /\ ~kick /\ drv = "idle")
        => lastAvail = avail

(* Every record reaches the sink once and in the order it was published,   *)
(* across any number of wraps of the ring.                                 *)
EmittedOnceInOrder ==
    \A k \in 1..Len(emitted) : emitted[k] = k

(* The backend never hangs in tx_kick, whatever the handler returns, and   *)
(* when it waits again the driver has been told about everything that was  *)
(* completed, however many rounds of the loop that took.                   *)
KickReturns == dev # "poll" ~> (dev = "poll" /\ called = used)

(* Every buffer the driver published is emitted in the end.                *)
EverythingEmitted ==
    \A k \in 1..MaxBufs :
        (handler = "complete" /\ published >= k) ~> Len(emitted) >= k
=============================================================================
