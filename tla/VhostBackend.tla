---------------------------- MODULE VhostBackend ----------------------------
(***************************************************************************)
(* The control plane of vhost/backend.c and libvhost-user.c: the event     *)
(* loop, the watch table, the descriptors the frontend passes over the     *)
(* socket, and the life of the virtqueues as SET_VRING_... messages start, *)
(* rewire, stop and restart them while the guest goes on kicking.          *)
(***************************************************************************)
EXTENDS Integers, Sequences, SequencesExt, FiniteSetsExt

CONSTANTS Queues,       \* queue indices; the code has 0 (RX) and 1 (TX)
          TX,           \* VQ_TX, the only queue that gets a handler
          KickEvents,   \* eventfds the frontend uses for kicks
          Other,        \* any other descriptor it passes (call, error)
          Closed,       \* a descriptor number that is not in use
          MaxFd,        \* bound: descriptor numbers 0..MaxFd-1
          MAXW,         \* size of the watch table W
          MaxMaps,      \* bound: memory tables and regions the frontend sends
          MaxRegions,   \* regions (and descriptors) of a memory table
          MaxAvail      \* bound: buffers published between device resets

ASSUME VhostBackendConstants ==
    /\ TX \in Queues
    /\ {MaxFd, MaxMaps, MaxAvail} \subseteq Nat
    /\ {MAXW, MaxRegions} \subseteq Nat \ {0}
    /\ Other \notin KickEvents /\ Closed \notin KickEvents \cup {Other}

(***************************************************************************)
(* Definitions named Bug_... are deliberate mistakes that no specification *)
(* uses; each could replace the definition after it.                       *)
(***************************************************************************)

VARIABLES
    life,       \* "running", or how the process ended
    why,        \* what made it panic
    phase,      \* of the event loop: "poll", "dispatch" or "serve"
    ready,      \* descriptors poll reported that are still to be served
    fds,        \* descriptor table: what each number refers to
    readable,   \* the eventfds with a count above zero (kernel state)
    W,          \* the watch table, [fd, q] for each of its nW entries
    kickFd, callFd, errFd,   \* of each queue; -1 for none
    started,    \* queues with vq->started
    handler,    \* queues with vq->handler
    sized,      \* queues with vring.num # 0
    region,     \* region[q]: the mapping that holds the ring of q, 0 for none
    maps,       \* number of mappings made so far
    devFd,      \* log_call_fd and backend_fd of the device; -1 for none
    ring,       \* ring[q]: mapping that vring.desc... point into, 0 for NULL
    lastAvail,  \* last_avail_idx of each queue
    \* the frontend and the guest
    base,       \* the index the frontend restarts a queue from
    synced,     \* queues it gave that index to since they were last stopped
    addressed,  \* queues whose address it gave since it removed their region
    published,  \* buffers the guest made available on TX since its reset
    emitted     \* ring positions handed to the sink since then

queues == <<kickFd, callFd, errFd, started, handler, sized, ring, lastAvail>>
dev    == <<region, maps, devFd>>
guest  == <<base, synced, addressed, published, emitted>>
vars == <<life, why, phase, ready, fds, readable, W, queues, dev, guest>>

DevFds == {"log_call_fd", "backend_fd"}

Init ==
    /\ life = "running" /\ why = "none"
    /\ phase = "poll" /\ ready = << >>
    /\ fds = [f \in 0..MaxFd - 1 |-> Closed]
    /\ readable = {}
    /\ W = << >>
    /\ kickFd = [q \in Queues |-> -1]
    /\ callFd = kickFd /\ errFd = kickFd
    /\ started = {} /\ handler = {} /\ sized = {}
    /\ region = [q \in Queues |-> 0] /\ maps = 0
    /\ devFd = [d \in DevFds |-> -1]
    /\ ring = region
    /\ lastAvail = [q \in Queues |-> 0]
    /\ base = lastAvail /\ synced = Queues /\ addressed = Queues
    /\ published = 0 /\ emitted = << >>

-----------------------------------------------------------------------------
(***************************************************************************)
(* Descriptors and watches                                                 *)
(***************************************************************************)
Free == {f \in 0..MaxFd - 1 : fds[f] = Closed}

(* recvmsg installs a passed descriptor at the lowest free number.         *)
Received == Min(Free)

Close(t, fd) == IF fd = -1 THEN t ELSE [t EXCEPT ![fd] = Closed]

WatchOf(w, fd) == SelectInSeq(w, LAMBDA e : e.fd = fd)

(* set_watch: the entry of a known descriptor is replaced; an unknown one  *)
(* is added, and dropped without a word when the table is full.            *)
SetWatch(w, fd, q) ==
    IF WatchOf(w, fd) > 0 THEN [w EXCEPT ![WatchOf(w, fd)] = [fd |-> fd, q |-> q]]
    ELSE IF Len(w) < MAXW THEN Append(w, [fd |-> fd, q |-> q]) ELSE w

Bug_RemoveWatch(w, fd) ==   \* the number of entries is not decremented
    IF WatchOf(w, fd) > 0 THEN [w EXCEPT ![WatchOf(w, fd)] = Last(w)] ELSE w

(* remove_watch: the last entry takes the place of the removed one.        *)
RemoveWatch(w, fd) ==
    IF WatchOf(w, fd) > 0 THEN Front([w EXCEPT ![WatchOf(w, fd)] = Last(w)])
                          ELSE w

(* vu_panic and panic_cb: the process exits on the spot.                   *)
Panic(reason) ==
    /\ life' = "panicked"
    /\ why' = reason
    /\ UNCHANGED <<phase, ready, fds, readable, W, queues, dev, guest>>

Bug_Goes ==   \* "continue" after a message
    /\ ready' = << >>
    /\ phase' = "poll"

(* After the one message of this round the descriptors that poll reported  *)
(* are served.                                                             *)
Goes ==
    /\ ready' = ready
    /\ phase' = IF ready = << >> THEN "poll" ELSE "serve"

-----------------------------------------------------------------------------
(***************************************************************************)
(* Running a queue                                                         *)
(***************************************************************************)

(* tx_kick as a whole: everything available is emitted and last_avail_idx  *)
(* saved, unless the ring is not set up.  Module VirtioTx has its steps.   *)
TxKick(q) ==
    IF ring[q] # 0 /\ q \in sized
    THEN LET mod == MaxAvail + 1
             n == (published + mod - lastAvail[q]) % mod
         IN  /\ emitted' = emitted \o [k \in 1..n |-> (lastAvail[q] + k - 1) % mod]
             /\ lastAvail' = [lastAvail EXCEPT ![q] = published]
    ELSE UNCHANGED <<emitted, lastAvail>>

(* vu_kick_cb: an eventfd that cannot be read is fatal.                    *)
KickCb(q) ==
    LET ok == kickFd[q] # -1 /\ fds[kickFd[q]] \in readable
    IN  \/ /\ ~ok
           /\ Panic("eventfd")
        \/ /\ ok
           /\ readable' = readable \ {fds[kickFd[q]]}
           /\ IF q \in handler THEN TxKick(q) ELSE UNCHANGED <<emitted, lastAvail>>
           /\ ready' = Tail(ready)
           /\ phase' = IF Tail(ready) = << >> THEN "poll" ELSE "serve"
           /\ UNCHANGED <<life, why, fds, W, kickFd, callFd, errFd, started,
                          handler, sized, dev, ring, base, synced, addressed, published>>

(* queue_set_started and vu_set_queue_handler: the handlers and watches    *)
(* after queue q, with kick descriptor fd, was started or stopped.         *)
StartedHandlers(q, on) ==
    IF q # TX THEN handler ELSE IF on THEN handler \cup {q} ELSE handler \ {q}

StartedWatches(w, q, fd, on) ==
    IF q # TX \/ fd = -1 THEN w
    ELSE IF on THEN SetWatch(w, fd, q) ELSE RemoveWatch(w, fd)

-----------------------------------------------------------------------------
(***************************************************************************)
(* The messages: each action is vu_dispatch reading and executing one      *)
(***************************************************************************)
Dispatching == life = "running" /\ phase = "dispatch"

(* Requests that leave the state modelled here alone: features and owner,  *)
(* and RESET_OWNER, which only sets vq->enable, a flag that nothing in the *)
(* backend reads.                                                          *)
Features ==
    /\ Dispatching
    /\ Goes
    /\ UNCHANGED <<life, why, fds, readable, W, queues, dev, guest>>

(* Likewise protocol features, queries, the configuration space, which     *)
(* this device does not have, and SET_VRING_ENABLE.                        *)
Queries ==
    /\ Dispatching
    /\ Goes
    /\ UNCHANGED <<life, why, fds, readable, W, queues, dev, guest>>

(* What libvhost-user refuses: a legacy device, a queue index out of range *)
(* in a message that carries a descriptor, the wrong number of them, an    *)
(* unknown request, a message that is too big or breaks off, a region that *)
(* is not there. SET_VRING_NUM, _ADDR and _BASE and GET_VRING_BASE take    *)
(* the index as it is; the frontend modelled here sends valid ones.        *)
Refused ==
    /\ Dispatching
    /\ Panic("frontend")

(* The frontend is gone when its reply is written.                         *)
ReplyFails ==
    /\ Dispatching
    /\ Panic("reply")

(* End of file reads as a message of zeros, that is VHOST_USER_NONE, and   *)
(* that is exit(0): vu_deinit is not reached.                              *)
Disconnected ==
    /\ Dispatching
    /\ life' = "exited"
    /\ UNCHANGED <<why, phase, ready, fds, readable, W, queues, dev, guest>>

(* map_ring: the mapping a ring points into, 0 when its address is in none. *)
MapRing(r, q) == r[q]

(* Every ring that was set up is found again in the regions r, or this is  *)
(* a panic.                                                                *)
RemapRings(r, reason) ==
    LET lost == {q \in Queues : ring[q] # 0 /\ MapRing(r, q) = 0}
    IN  \/ lost # {} /\ Panic(reason)
        \/ /\ lost = {}
           /\ ring' = [q \in Queues |-> IF ring[q] = 0 THEN 0 ELSE MapRing(r, q)]
           /\ Goes
           /\ UNCHANGED <<life, why, fds, readable, W, kickFd, callFd, errFd,
                          started, handler, sized, lastAvail, guest, devFd>>

Bug_SetMemTable(cover, nfds) ==   \* the rings keep their old addresses
    /\ Dispatching
    /\ maps < MaxMaps
    /\ 4 * nfds < 8
    /\ region' = [q \in Queues |-> IF q \in cover THEN maps + 1 ELSE 0]
    /\ maps' = maps + 1
    /\ Goes
    /\ UNCHANGED <<life, why, fds, readable, W, queues, devFd, guest>>

(* SET_MEM_TABLE: unmap everything, map the new regions (which may fail),  *)
(* and find the rings again; cover is the set of queues whose ring is in   *)
(* one of them.  Its nfds descriptors are closed again;                    *)
(* vu_message_read_default asserts that their size in bytes is below       *)
(* VHOST_MEMORY_BASELINE_NREGIONS, which is 8.                             *)
SetMemTable(cover, nfds) ==
    LET new == [q \in Queues |-> IF q \in cover THEN maps + 1 ELSE 0]
    IN  /\ Dispatching
        /\ maps < MaxMaps
        /\ \/ /\ 4 * nfds >= 8
              /\ life' = "aborted"
              /\ UNCHANGED <<why, phase, ready, fds, readable, W, queues, dev,
                             guest>>
           \/ 4 * nfds < 8 /\ Panic("mmap")
           \/ /\ 4 * nfds < 8
              /\ RemapRings(new, "frontend")
              /\ IF life' = "running" THEN region' = new /\ maps' = maps + 1
                                      ELSE UNCHANGED dev

(* ADD_MEM_REG maps one more region.  The rings are looked up before       *)
(* nregions counts it, so that a ring in the new region is not found.      *)
AddMemReg(cover) ==
    /\ Dispatching
    /\ maps < MaxMaps
    /\ \A q \in cover : region[q] = 0
    /\ \/ Panic("mmap")
       \/ /\ RemapRings(region, "remap")
          /\ IF life' = "running"
             THEN /\ region' = [q \in Queues |-> IF q \in cover THEN maps + 1
                                                             ELSE region[q]]
                  /\ maps' = maps + 1
             ELSE UNCHANGED dev

(* REM_MEM_REG unmaps a region and leaves the ring addresses alone.  The   *)
(* frontend keeps the region of a running ring, and gives the addresses    *)
(* anew before it restarts the others.                                     *)
RemMemReg(cover) ==
    /\ Dispatching
    /\ \A q \in cover : region[q] # 0 /\ q \notin started
    /\ region' = [q \in Queues |-> IF q \in cover THEN 0 ELSE region[q]]
    /\ addressed' = addressed \ cover
    /\ Goes
    /\ UNCHANGED <<life, why, fds, readable, W, queues, maps, devFd, base, synced,
                   published, emitted>>

SetVringNum(q) ==
    /\ Dispatching
    /\ sized' = sized \cup {q}
    /\ Goes
    /\ UNCHANGED <<life, why, fds, readable, W, kickFd, callFd, errFd, started,
                   handler, ring, lastAvail, dev, guest>>

(* SET_VRING_ADDR: the used index it reads is for devices that process in  *)
(* order and say so; backend.c is not one.                                 *)
SetVringAddr(q) ==
    /\ Dispatching
    /\ \/ MapRing(region, q) = 0 /\ Panic("frontend")
       \/ /\ MapRing(region, q) # 0
          /\ ring' = [ring EXCEPT ![q] = MapRing(region, q)]
          /\ addressed' = addressed \cup {q}
          /\ Goes
          /\ UNCHANGED <<life, why, fds, readable, W, kickFd, callFd, errFd,
                         started, handler, sized, lastAvail, dev, base, synced,
                         published, emitted>>

Bug_SetVringBase(q) ==   \* the index is not taken over
    /\ Dispatching
    /\ q \notin started
    /\ synced' = synced \cup {q}
    /\ Goes
    /\ UNCHANGED <<life, why, fds, readable, W, queues, dev, base, addressed,
                   published, emitted>>

(* The frontend gives the index of a stopped queue only.                   *)
SetVringBase(q) ==
    /\ Dispatching
    /\ q \notin started
    /\ lastAvail' = [lastAvail EXCEPT ![q] = base[q]]
    /\ synced' = synced \cup {q}
    /\ Goes
    /\ UNCHANGED <<life, why, fds, readable, W, kickFd, callFd, errFd, started,
                   handler, sized, ring, dev, base, addressed, published,
                   emitted>>

(* GET_VRING_BASE stops the queue: handler and watch go, the descriptors   *)
(* are closed, and the reply carries the index to go on from.              *)
GetVringBase(q) ==
    /\ Dispatching
    /\ q \in started
    /\ base' = [base EXCEPT ![q] = lastAvail[q]]
    /\ synced' = synced \ {q}
    /\ started' = started \ {q}
    /\ handler' = StartedHandlers(q, FALSE)
    /\ W' = LET w == StartedWatches(W, q, kickFd[q], FALSE)
            IN  IF kickFd[q] = -1 THEN w ELSE RemoveWatch(w, kickFd[q])
    /\ fds' = Close(Close(fds, callFd[q]), kickFd[q])
    /\ callFd' = [callFd EXCEPT ![q] = -1]
    /\ kickFd' = [kickFd EXCEPT ![q] = -1]
    /\ Goes
    /\ UNCHANGED <<life, why, readable, errFd, sized, ring, lastAvail, dev,
                   addressed, published, emitted>>

(* A descriptor arrives, or the message says there is none; event e is     *)
(* what it refers to, and the descriptor it replaces is closed.            *)
Arrives(nofd) == nofd \/ Free # {}
NewFd(nofd) == IF nofd THEN -1 ELSE Received
Passed(e, nofd, old) ==
    Close(IF nofd THEN fds ELSE [fds EXCEPT ![Received] = e], old)

Bug_SetVringKick(q, e, nofd) ==   \* the new descriptor is watched, the old
    /\ Dispatching                \* one too
    /\ q \in synced \cap addressed /\ Arrives(nofd)
    /\ fds' = Passed(e, nofd, kickFd[q])
    /\ kickFd' = [kickFd EXCEPT ![q] = NewFd(nofd)]
    /\ started' = started \cup {q}
    /\ handler' = StartedHandlers(q, TRUE)
    /\ W' = StartedWatches(W, q, NewFd(nofd), TRUE)
    /\ Goes
    /\ UNCHANGED <<life, why, readable, callFd, errFd, sized, ring, lastAvail,
                   dev, guest>>

(* SET_VRING_KICK starts the queue, or rewires one that runs.  The check   *)
(* of inflight buffers ends at once: that feature is not offered.          *)
SetVringKick(q, e, nofd) ==
    /\ Dispatching
    /\ q \in synced \cap addressed /\ Arrives(nofd)
    /\ fds' = Passed(e, nofd, kickFd[q])
    /\ kickFd' = [kickFd EXCEPT ![q] = NewFd(nofd)]
    /\ started' = started \cup {q}
    /\ handler' = StartedHandlers(q, TRUE)
    /\ W' = StartedWatches(IF kickFd[q] = -1 THEN W ELSE RemoveWatch(W, kickFd[q]),
                           q, NewFd(nofd), TRUE)
    /\ Goes
    /\ UNCHANGED <<life, why, readable, callFd, errFd, sized, ring, lastAvail,
                   dev, guest>>

Bug_SetVringCall(q, nofd) ==   \* the old descriptor stays open
    /\ Dispatching
    /\ Arrives(nofd)
    /\ fds' = Passed(Other, nofd, -1)
    /\ callFd' = [callFd EXCEPT ![q] = NewFd(nofd)]
    /\ Goes
    /\ UNCHANGED <<life, why, readable, W, kickFd, errFd, started, handler, sized,
                   ring, lastAvail, dev, guest>>

(* The device is told to call at once: with an eventfd that cannot be      *)
(* written the handler returns -1, and a reply nobody waits for is sent,   *)
(* which changes nothing here.                                             *)
SetVringCall(q, nofd) ==
    /\ Dispatching
    /\ Arrives(nofd)
    /\ fds' = Passed(Other, nofd, callFd[q])
    /\ callFd' = [callFd EXCEPT ![q] = NewFd(nofd)]
    /\ Goes
    /\ UNCHANGED <<life, why, readable, W, kickFd, errFd, started, handler, sized,
                   ring, lastAvail, dev, guest>>

SetVringErr(q, nofd) ==
    /\ Dispatching
    /\ Arrives(nofd)
    /\ fds' = Passed(Other, nofd, errFd[q])
    /\ errFd' = [errFd EXCEPT ![q] = NewFd(nofd)]
    /\ Goes
    /\ UNCHANGED <<life, why, readable, W, kickFd, callFd, started, handler, sized,
                   ring, lastAvail, dev, guest>>

(* SET_LOG_FD and SET_BACKEND_REQ_FD, which must bring a descriptor.       *)
SetDevFd(d) ==
    /\ Dispatching
    /\ Arrives(FALSE)
    /\ fds' = Passed(Other, FALSE, devFd[d])
    /\ devFd' = [devFd EXCEPT ![d] = Received]
    /\ Goes
    /\ UNCHANGED <<life, why, readable, W, queues, region, maps, guest>>

(* VRING_KICK, a kick sent as a message, also starts a stopped queue.      *)
VringKick(q) ==
    /\ Dispatching
    /\ q \in synced \cap addressed
    /\ started' = started \cup {q}
    /\ handler' = IF q \in started THEN handler ELSE StartedHandlers(q, TRUE)
    /\ W' = IF q \in started THEN W ELSE StartedWatches(W, q, kickFd[q], TRUE)
    /\ IF q \in handler' THEN TxKick(q) ELSE UNCHANGED <<emitted, lastAvail>>
    /\ Goes
    /\ UNCHANGED <<life, why, fds, readable, kickFd, callFd, errFd, sized, ring,
                   dev, base, synced, addressed, published>>

Dispatch ==
    \/ Features \/ Queries \/ Refused \/ ReplyFails \/ Disconnected
    \/ \E cover \in SUBSET Queues :
          \/ AddMemReg(cover) \/ RemMemReg(cover)
          \/ \E n \in 1..MaxRegions : SetMemTable(cover, n)
    \/ \E d \in DevFds : SetDevFd(d)
    \/ \E q \in Queues :
          \/ SetVringNum(q) \/ SetVringAddr(q) \/ SetVringBase(q)
          \/ GetVringBase(q) \/ VringKick(q)
          \/ \E nofd \in BOOLEAN :
                \/ \E e \in KickEvents : SetVringKick(q, e, nofd)
                \/ SetVringCall(q, nofd) \/ SetVringErr(q, nofd)

-----------------------------------------------------------------------------
(***************************************************************************)
(* The event loop                                                          *)
(***************************************************************************)

(* poll blocks until the socket (sock) or a watched eventfd is readable;   *)
(* what it reports is served in the order of the table.                    *)
Poll(sock) ==
    LET hits == {i \in 1..Len(W) : fds[W[i].fd] \in readable}
    IN  /\ life = "running" /\ phase = "poll"
        /\ sock \/ hits # {}
        /\ \E order \in [1..Cardinality(hits) -> hits] :
              /\ \A i, j \in DOMAIN order : i < j => order[i] < order[j]
              /\ ready' = [i \in DOMAIN order |-> W[order[i]].fd]
        /\ phase' = IF sock THEN "dispatch" ELSE "serve"
        /\ UNCHANGED <<life, why, fds, readable, W, queues, dev, guest>>

UnwatchAll(w) ==
    FoldSet(LAMBDA q, v : RemoveWatch(v, kickFd[q]), w, Queues)

(* poll fails (a signal): vu_deinit closes everything.                     *)
PollFails ==
    /\ life = "running" /\ phase = "poll"
    /\ life' = "closed"
    /\ LET held == (UNION {{kickFd[q], callFd[q], errFd[q]} : q \in Queues})
                       \cup {devFd[d] : d \in DevFds}
       IN  fds' = [f \in DOMAIN fds |-> IF f \in held THEN Closed ELSE fds[f]]
    /\ kickFd' = [q \in Queues |-> -1]
    /\ callFd' = kickFd' /\ errFd' = kickFd'
    /\ devFd' = [d \in DevFds |-> -1]
    /\ region' = [q \in Queues |-> 0]
    /\ W' = UnwatchAll(W)
    /\ UNCHANGED <<why, phase, ready, readable, started, handler, sized, ring,
                   lastAvail, maps, guest>>

(* The next reported descriptor is looked up again in W, which the message *)
(* may have changed since poll.                                            *)
Serve ==
    /\ life = "running" /\ phase = "serve"
    /\ LET i == WatchOf(W, Head(ready))
       IN  \/ i > 0 /\ KickCb(W[i].q)
           \/ /\ i = 0
              /\ ready' = Tail(ready)
              /\ phase' = IF Tail(ready) = << >> THEN "poll" ELSE "serve"
              /\ UNCHANGED <<life, why, fds, readable, W, queues, dev, guest>>

-----------------------------------------------------------------------------
(***************************************************************************)
(* The guest, not part of the source                                       *)
(***************************************************************************)
Publish ==
    /\ life = "running" /\ published < MaxAvail
    /\ published' = published + 1
    /\ UNCHANGED <<life, why, phase, ready, fds, readable, W, queues, dev, base,
                   synced, addressed, emitted>>

(* A kick, for a buffer or for nothing, on any eventfd it ever knew.       *)
Kick(e) ==
    /\ life = "running"
    /\ readable' = readable \cup {e}
    /\ UNCHANGED <<life, why, phase, ready, fds, W, queues, dev, guest>>

(* The guest resets the device: its frontend has stopped the queue, and    *)
(* will restart it from zero.                                              *)
GuestReset ==
    /\ life = "running" /\ TX \notin started /\ TX \notin synced
    /\ published' = 0 /\ emitted' = << >>
    /\ base' = [base EXCEPT ![TX] = 0]
    /\ UNCHANGED <<life, why, phase, ready, fds, readable, W, queues, dev,
                   synced, addressed>>

Backend == Dispatch \/ Serve \/ PollFails \/ \E sock \in BOOLEAN : Poll(sock)

Next == Backend \/ Publish \/ (\E e \in KickEvents : Kick(e)) \/ GuestReset

Spec == Init /\ [][Next]_vars

(* The backend has one thread, and it runs.                                *)
FairSpec == Spec /\ WF_vars(Backend)

-----------------------------------------------------------------------------
(***************************************************************************)
(* Properties                                                              *)
(***************************************************************************)
FdOrNone == -1..MaxFd - 1

(* backend.c: the tables keep their sizes, only the transmit queue has a   *)
(* handler, and the loop serves only what poll reported.                   *)
TypeOK ==
    /\ life \in {"running", "panicked", "aborted", "exited", "closed"}
    /\ why \in {"none", "frontend", "reply", "mmap", "remap", "eventfd"}
    /\ phase \in {"poll", "dispatch", "serve"}
    /\ phase = "serve" => ready # << >>
    /\ fds \in [0..MaxFd - 1 -> KickEvents \cup {Other, Closed}]
    /\ readable \subseteq KickEvents
    /\ Len(W) <= MAXW
    /\ {kickFd, callFd, errFd} \subseteq [Queues -> FdOrNone]
    /\ handler \subseteq {TX} /\ started \subseteq Queues
    /\ lastAvail \in [Queues -> 0..MaxAvail]
    /\ ring \in [Queues -> 0..MaxMaps]

(* vu_kick_cb never reads an eventfd that is closed, empty or some other   *)
(* descriptor with a reused number, whatever message came between poll and *)
(* the callback: a panic is always the frontend's or the kernel's doing.   *)
NoSpuriousPanic == why # "eventfd"

(* Whenever the loop polls, it watches the kick descriptor of every queue  *)
(* with a handler, once, and nothing else.                                 *)
WatchesExact ==
    (life \in {"running", "closed"} /\ phase = "poll") =>
        /\ IsInjective(W)
        /\ Range(W) = {[fd |-> kickFd[q], q |-> q] :
                          q \in {r \in handler : kickFd[r] # -1}}

(* Who holds which descriptor.                                             *)
Held ==
    {h \in (UNION {{<<"kick", q, kickFd[q]>>, <<"call", q, callFd[q]>>, <<"err", q, errFd[q]>>} :
                   q \in Queues}) \cup {<<"dev", d, devFd[d]>> : d \in DevFds} :
        h[3] # -1}

(* Descriptors are neither leaked nor closed twice: the open ones are      *)
(* those some queue or the device holds, each held once.                   *)
FdsAccounted ==
    /\ {f \in DOMAIN fds : fds[f] # Closed} = {h[3] : h \in Held}
    /\ \A g, h \in Held : g[3] = h[3] => g = h

(* tx_kick never follows a ring pointer into memory that was unmapped: the *)
(* ring of a queue with a handler is NULL or in a present mapping, however *)
(* tables were replaced and regions added and removed.                     *)
NoStaleRing ==
    life = "running" => \A q \in handler : ring[q] \in {0, region[q]}

(* Across any number of stops, restarts and rewirings of the queue, each   *)
(* buffer is handed to the sink once, in order; after a device reset the   *)
(* count begins again.                                                     *)
EmittedOnceInOrder ==
    /\ Len(emitted) <= published
    /\ \A k \in 1..Len(emitted) : emitted[k] = k - 1

(* A kick on a watched descriptor is taken, however many messages keep     *)
(* coming, unless the queue is stopped or rewired first.                   *)
KickIsServed ==
    \A f \in 0..MaxFd - 1 :
        LET pending == /\ life = "running" /\ fds[f] \in readable
                       /\ \E i \in 1..Len(W) : W[i].fd = f
        IN  []<>~pending

(* vu_message_read_default asserts a size for the descriptors of one       *)
(* message.                                                                *)
FdsFitAssertion == life # "aborted"
=============================================================================
