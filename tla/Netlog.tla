------------------------------- MODULE Netlog -------------------------------
(***************************************************************************)
(* emulator/netlog.c: the TCP listener thread that turns the lines of many *)
(* producers into records of the log store, and netlog_stop, which ends    *)
(* it.  An append to the store is one step here: module LogStore shows     *)
(* that logstore_append is atomic.                                         *)
(***************************************************************************)
EXTENDS LogLine

CONSTANTS Producers,    \* clients; each makes one connection
          Script,       \* Script[p]: the characters p sends, in order
          IdleProducers,\* clients that may stay connected and send nothing
          MaxConn,      \* NL_MAX_CONN
          ReadMax,      \* size of the buffer given to read()
          Garbage,      \* what the pollfd array may hold before it is set
          PollErrors    \* may poll() fail with something else than EINTR?

ASSUME NetlogConstants ==
    /\ Script \in [Producers -> Seq(STRING)]
    /\ IdleProducers \subseteq Producers
    /\ MaxConn \in Nat \ {0}
    /\ ReadMax \in Nat \ {0}
    /\ Garbage \subseteq SUBSET {"IN", "HUP"} /\ Garbage # {}
    /\ PollErrors \in BOOLEAN

(***************************************************************************)
(* Definitions named Bug_... are deliberate mistakes that no specification *)
(* uses; each could replace the definition after it.                       *)
(***************************************************************************)

VARIABLES
    \* the clients and the kernel's sockets
    client,    \* client[p]: "new", "connected", "closed" or "reset"
    socket,    \* socket[p]: "none", "backlog", "accepted" or "closed"
    backlog,   \* connections waiting in accept's queue
    sent,      \* sent[p]: characters of Script[p] sent so far
    taken,     \* taken[p]: characters of Script[p] the listener has read
    lfd,       \* the listen socket: "listening", "shutdown" or "closed"
    \* struct netlog and netlog_stop
    stop,      \* nl->stop
    stopper,   \* where netlog_stop stands
    stored,    \* the records appended to the store; nl->seq is their number
    \* the listener thread
    pc,        \* where the listener stands
    conns,     \* conns[0..nc-1], as a sequence
    revents,   \* pfds[0..MaxConn].revents; slot 0 is the listen socket
    i, keep    \* the loop variables of the service loop

clients == <<client, sent>>
thread == <<pc, conns, revents, i, keep>>
vars == <<client, socket, backlog, sent, taken, lfd, stop, stopper, stored,
          pc, conns, revents, i, keep>>

nc == Len(conns)

-----------------------------------------------------------------------------
(* The record of a completed line.  "from" and "line" are not in the file; *)
(* they say where the record came from.                                    *)
Record(p, n, line) ==
    LET text == IF line # << >> /\ Last(line) = NL THEN Front(line) ELSE line
        parsed == ProcessLine(text)
    IN  [seq |-> n, level |-> parsed.level, msg |-> parsed.msg,
         from |-> p, line |-> line]

NewRecords(p, lines) ==
    [k \in 1..Len(lines) |-> Record(p, Len(stored) + k - 1, lines[k])]

-----------------------------------------------------------------------------
Init ==
    /\ client = [p \in Producers |-> "new"]
    /\ socket = [p \in Producers |-> "none"]
    /\ backlog = << >>
    /\ sent = [p \in Producers |-> 0]
    /\ taken = [p \in Producers |-> 0]
    /\ lfd = "listening"
    /\ stop = FALSE
    /\ stopper = "running"
    /\ stored = << >>
    /\ pc = "top"
    /\ conns = << >>
    \* an uninitialised stack array; entry 0 is set before every use
    /\ revents \in {f \in [0..MaxConn -> Garbage \cup {{}}] :
                      f[0] = {} /\ \A s \in 1..MaxConn : f[s] \in Garbage}
    /\ i = 1
    /\ keep = 0

-----------------------------------------------------------------------------
(***************************************************************************)
(* The clients                                                             *)
(***************************************************************************)

Connect(p) ==
    /\ client[p] = "new"
    /\ lfd = "listening"
    /\ client' = [client EXCEPT ![p] = "connected"]
    /\ socket' = [socket EXCEPT ![p] = "backlog"]
    /\ backlog' = Append(backlog, p)
    /\ UNCHANGED <<sent, taken, lfd, stop, stopper, stored, thread>>

(* Any number of the characters left reach the listener's machine.         *)
Send(p) ==
    /\ client[p] = "connected"
    /\ \E n \in sent[p] + 1 .. Len(Script[p]) : sent' = [sent EXCEPT ![p] = n]
    /\ UNCHANGED <<client, socket, backlog, taken, lfd, stop, stopper, stored,
                   thread>>

(* An orderly close, or a reset (the client's host went away).             *)
Disconnect(p) ==
    /\ client[p] = "connected"
    /\ \E how \in {"closed", "reset"} : client' = [client EXCEPT ![p] = how]
    /\ UNCHANGED <<socket, backlog, sent, taken, lfd, stop, stopper, stored,
                   thread>>

-----------------------------------------------------------------------------
(***************************************************************************)
(* The listener thread                                                     *)
(***************************************************************************)

Unread(p) == sent[p] - taken[p]

(* read() on the connection of p would not block.                          *)
Readable(p) == Unread(p) > 0 \/ client[p] \in {"closed", "reset"}

PollOf(p) == {e \in {"IN", "HUP"} :
                \/ e = "IN" /\ Readable(p)
                \/ e = "HUP" /\ client[p] = "reset"}

PollOfListen == {e \in {"IN", "HUP"} :
                   \/ e = "IN" /\ (backlog # << >> \/ lfd = "shutdown")
                   \/ e = "HUP" /\ lfd = "shutdown"}

(* The head of the while loop.                                             *)
LoopEnds ==
    /\ pc = "top"
    /\ stop
    /\ pc' = "exit"
    /\ UNCHANGED <<client, socket, backlog, sent, taken, lfd, stop, stopper,
                   stored, conns, revents, i, keep>>

(* Only the entries of the listen socket and of the nc connections are     *)
(* set; the others keep what they held.                                    *)
SetRevents(listen, of(_)) ==
    [s \in 0..MaxConn |-> IF s = 0 THEN listen
                          ELSE IF s <= nc THEN of(conns[s].p)
                          ELSE revents[s]]

(* poll() reports what is ready now, or nothing after 200 ms.              *)
Poll ==
    /\ pc = "top"
    /\ ~stop
    /\ pc' = "accept"
    /\ revents' = SetRevents(PollOfListen, PollOf)
    /\ UNCHANGED <<client, socket, backlog, sent, taken, lfd, stop, stopper,
                   stored, conns, i, keep>>

(* EINTR goes round again, any other error ends the thread.                *)
PollFails ==
    /\ pc = "top"
    /\ ~stop
    /\ pc' \in {"top"} \cup (IF PollErrors THEN {"exit"} ELSE {})
    /\ revents' = SetRevents({}, LAMBDA p : {})
    /\ UNCHANGED <<client, socket, backlog, sent, taken, lfd, stop, stopper,
                   stored, conns, i, keep>>

StartService == pc' = "service" /\ i' = 1 /\ keep' = 0

StopSeen ==
    /\ pc = "accept"
    /\ stop
    /\ pc' = "exit"
    /\ UNCHANGED <<client, socket, backlog, sent, taken, lfd, stop, stopper,
                   stored, conns, revents, i, keep>>

Bug_Accept ==   \* a newcomer beyond the capacity is forgotten, not closed
    /\ pc = "accept"
    /\ ~stop
    /\ "IN" \in revents[0] /\ backlog # << >> /\ lfd = "listening"
    /\ backlog' = Tail(backlog)
    /\ socket' = [socket EXCEPT ![Head(backlog)] = "accepted"]
    /\ conns' = IF nc < MaxConn
                THEN Append(conns, [p |-> Head(backlog), buf |-> << >>])
                ELSE conns
    /\ StartService
    /\ UNCHANGED <<client, sent, taken, lfd, stop, stopper, stored, revents>>

(* accept() one producer; at capacity the newcomer is closed.              *)
Accept ==
    /\ pc = "accept"
    /\ ~stop
    /\ "IN" \in revents[0] /\ backlog # << >> /\ lfd = "listening"
    /\ backlog' = Tail(backlog)
    /\ IF nc < MaxConn
       THEN /\ conns' = Append(conns, [p |-> Head(backlog), buf |-> << >>])
            /\ socket' = [socket EXCEPT ![Head(backlog)] = "accepted"]
       ELSE /\ UNCHANGED conns
            /\ socket' = [socket EXCEPT ![Head(backlog)] = "closed"]
    /\ StartService
    /\ UNCHANGED <<client, sent, taken, lfd, stop, stopper, stored, revents>>

Bug_NoAccept ==   \* "continue": connections are served after an accept only
    /\ pc = "accept"
    /\ ~stop
    /\ pc' = "top"
    /\ UNCHANGED <<client, socket, backlog, sent, taken, lfd, stop, stopper,
                   stored, conns, revents, i, keep>>

(* Nothing to accept, or accept() fails (no descriptors, socket shut down). *)
NoAccept ==
    /\ pc = "accept"
    /\ ~stop
    /\ StartService
    /\ UNCHANGED <<client, socket, backlog, sent, taken, lfd, stop, stopper,
                   stored, conns, revents>>

Bug_Keep(c) == conns   \* the slot is not copied down over a dropped one

(* conns[keep++] = conns[i], c being conns[i] after feed.                  *)
Keep(c) == [conns EXCEPT ![keep + 1] = c]

(* One round of the service loop, for connection i.  With POLLIN set it    *)
(* waits in read() until there is something to read.                       *)
Service ==
    /\ pc = "service"
    /\ i <= nc
    /\ LET conn == conns[i]
           p == conn.p
           re == revents[i]
           k == IF Unread(p) < ReadMax THEN Unread(p) ELSE ReadMax
           fed == Feed(conn.buf, SubSeq(Script[p], taken[p] + 1, taken[p] + k))
           read == "IN" \in re
           drop == (read /\ k = 0) \/ "HUP" \in re
       IN  /\ read => Readable(p)
           /\ IF read
              THEN /\ taken' = [taken EXCEPT ![p] = @ + k]
                   /\ stored' = stored \o NewRecords(p, fed.lines)
              ELSE UNCHANGED <<taken, stored>>
           /\ IF drop
              THEN /\ socket' = [socket EXCEPT ![p] = "closed"]
                   /\ UNCHANGED <<conns, keep>>
              ELSE /\ conns' = Keep(IF read THEN [conn EXCEPT !.buf = fed.buf]
                                            ELSE conn)
                   /\ keep' = keep + 1
                   /\ UNCHANGED socket
    /\ i' = i + 1
    /\ UNCHANGED <<client, backlog, sent, lfd, stop, stopper, pc, revents>>

(* nc = keep, and back to the top of the loop.                             *)
ServiceDone ==
    /\ pc = "service"
    /\ i > nc
    /\ conns' = SubSeq(conns, 1, keep)
    /\ pc' = "top"
    /\ i' = 1 /\ keep' = 0   \* out of scope
    /\ UNCHANGED <<client, socket, backlog, sent, taken, lfd, stop, stopper,
                   stored, revents>>

(* The thread closes what is still open and returns.                       *)
Exit ==
    /\ pc = "exit"
    /\ pc' = "done"
    /\ socket' = [p \in Producers |->
                    IF \E s \in 1..nc : conns[s].p = p THEN "closed"
                                                       ELSE socket[p]]
    /\ conns' = << >>
    /\ UNCHANGED <<client, backlog, sent, taken, lfd, stop, stopper, stored,
                   revents, i, keep>>

Listener ==
    \/ LoopEnds \/ Poll \/ PollFails \/ StopSeen \/ Accept \/ NoAccept
    \/ Service \/ ServiceDone \/ Exit

-----------------------------------------------------------------------------
(***************************************************************************)
(* netlog_stop, one action per statement                                   *)
(***************************************************************************)

Bug_SetStop ==   \* the flag is not set: shutdown() is trusted to end the thread
    /\ stopper = "running"
    /\ stopper' = "shutdown"
    /\ UNCHANGED <<client, socket, backlog, sent, taken, lfd, stop, stored, thread>>

SetStop ==
    /\ stopper = "running"
    /\ stop' = TRUE
    /\ stopper' = "shutdown"
    /\ UNCHANGED <<client, socket, backlog, sent, taken, lfd, stored, thread>>

(* Shutting the listen socket down resets what waits in its queue.         *)
Shutdown ==
    /\ stopper = "shutdown"
    /\ lfd' = "shutdown"
    /\ backlog' = << >>
    /\ socket' = [p \in Producers |->
                    IF socket[p] = "backlog" THEN "closed" ELSE socket[p]]
    /\ stopper' = "join"
    /\ UNCHANGED <<client, sent, taken, stop, stored, thread>>

(* pthread_join, then close(lfd) and free.                                 *)
Join ==
    /\ stopper = "join"
    /\ pc = "done"
    /\ stopper' = "freed"
    /\ lfd' = "closed"
    /\ UNCHANGED <<client, socket, backlog, sent, taken, stop, stored, thread>>

Stopper == SetStop \/ Shutdown \/ Join

Next ==
    \/ Listener
    \/ Stopper
    \/ \E p \in Producers : Connect(p) \/ Send(p) \/ Disconnect(p)

Spec == Init /\ [][Next]_vars

(* The listener and the stopping thread are scheduled; EINTR does not      *)
(* happen for ever; netlog_stop may never be called.  A connected client   *)
(* outside IdleProducers sends what it has and closes in the end.          *)
Fairness ==
    /\ WF_vars(LoopEnds) /\ SF_vars(Poll) /\ WF_vars(StopSeen) /\ SF_vars(Accept)
    /\ WF_vars(NoAccept) /\ WF_vars(Service) /\ WF_vars(ServiceDone)
    /\ WF_vars(Exit)
    /\ WF_vars(Shutdown) /\ WF_vars(Join)
    /\ \A p \in Producers \ IdleProducers :
          WF_vars(Send(p)) /\ WF_vars(Disconnect(p))

FairSpec == Spec /\ Fairness

-----------------------------------------------------------------------------
(***************************************************************************)
(* Properties                                                              *)
(***************************************************************************)

(* netlog.c: the state stays in its types; in particular no line buffer    *)
(* outgrows buf with its NUL, nc stays within conns[NL_MAX_CONN], and no   *)
(* more is read than was sent.                                             *)
TypeOK ==
    /\ client \in [Producers -> {"new", "connected", "closed", "reset"}]
    /\ socket \in [Producers -> {"none", "backlog", "accepted", "closed"}]
    /\ backlog \in Seq(Producers)
    /\ \A p \in Producers : 0 <= taken[p] /\ taken[p] <= sent[p]
                            /\ sent[p] <= Len(Script[p])
    /\ lfd \in {"listening", "shutdown", "closed"}
    /\ stop \in BOOLEAN
    /\ stopper \in {"running", "shutdown", "join", "freed"}
    /\ pc \in {"top", "accept", "service", "exit", "done"}
    /\ \A s \in 1..nc : conns[s].p \in Producers
                        /\ Len(conns[s].buf) <= LineMax - 1
    /\ nc <= MaxConn
    /\ revents \in [0..MaxConn -> SUBSET {"IN", "HUP"}]

(* The connections that are live in the middle of the compacting loop.     *)
Live == SubSeq(conns, 1, keep) \o SubSeq(conns, i, nc)

LiveConns == IF pc = "service" THEN Live ELSE conns

(* The lines of the records that came from p, one after the other.         *)
TextOf(p, records) ==
    LET text[n \in 0..Len(records)] ==
            IF n = 0 THEN << >>
            ELSE IF records[n].from = p THEN text[n - 1] \o records[n].line
                                        ELSE text[n - 1]
    IN  text[Len(records)]

LinesOf(p) == TextOf(p, stored)

(* Every character the listener read from a connection is, in order, in    *)
(* the lines it stored for that connection or in that connection's buffer: *)
(* compaction, splitting of long lines and interleaved producers neither   *)
(* lose, duplicate nor mix up text.  When the connection is gone, what was *)
(* stored for it is still a prefix of what it sent.                        *)
NothingLostOrMixed ==
    /\ \A s \in 1..Len(LiveConns) :
          LET conn == LiveConns[s]
          IN  LinesOf(conn.p) \o conn.buf
                  = SubSeq(Script[conn.p], 1, taken[conn.p])
    /\ \A p \in Producers : IsPrefix(LinesOf(p), SubSeq(Script[p], 1, sent[p]))

(* No descriptor leaks and none is used after close: the accepted sockets  *)
(* are those in the table, each once.                                      *)
TableMatchesSockets ==
    /\ {p \in Producers : socket[p] = "accepted"} =
           {LiveConns[s].p : s \in 1..Len(LiveConns)}
    /\ \A s, t \in 1..Len(LiveConns) :
          LiveConns[s].p = LiveConns[t].p => s = t

(* "compacting out any that closed" (netlog.c:129): while it runs, the     *)
(* listener closes a connection it serves only when its client closed it.  *)
OnlyClosedAreDropped ==
    [][\A p \in Producers :
          (pc = "service" /\ socket[p] = "accepted" /\ socket'[p] = "closed")
              => client[p] \in {"closed", "reset"}]_vars

(* netlog_stop returns once it is called.                                  *)
StopReturns == stopper # "running" ~> stopper = "freed"

(* Producers are served concurrently: what an accepted producer has sent   *)
(* is read, unless the connection or the listener ends.                    *)
EveryoneServed ==
    \A p \in Producers :
        (socket[p] = "accepted" /\ Unread(p) > 0)
            ~> (Unread(p) = 0 \/ socket[p] = "closed")
=============================================================================
