----------------------------- MODULE RunnerLog ------------------------------
(***************************************************************************)
(* The log sink of runner/runner.c: log records are shipped to a collector *)
(* over a non-blocking TCP connection that is made lazily, re-made after a *)
(* failure, and backed by a bounded buffer of lines not yet sent.          *)
(***************************************************************************)
EXTENDS Naturals, Sequences, SequencesExt

CONSTANTS MaxRecords,   \* bound: records logged
          MaxFlips,     \* bound: times the collector comes up or goes away
          LineLen,      \* units of a line; the last one is its newline
          PendMax,      \* sizeof g_log_pend, in units
          BackoffMax,   \* LOG_BACKOFF_MAX
          ShortWrites,  \* may write() take a part of its buffer, or nothing,
                        \* on an established connection (slow collector)?
          Refusals      \* how a connect to nobody fails: "sync" (connect
                        \* returns the error), "async" (EINPROGRESS first)

ASSUME RunnerLogConstants ==
    /\ MaxRecords \in Nat /\ MaxFlips \in Nat
    /\ LineLen \in Nat \ {0}
    /\ PendMax \in Nat
    /\ BackoffMax \in Nat \ {0}
    /\ ShortWrites \in BOOLEAN
    /\ Refusals \subseteq {"sync", "async"}

(***************************************************************************)
(* Definitions named Bug_... are deliberate mistakes that no specification *)
(* uses; each could replace the definition after it.                       *)
(***************************************************************************)

VARIABLES alive,      \* the runner process has not been killed
          sink,       \* the globals of the sink; fails, gap and cut (a line
                      \* was written in part) are history
          link,       \* the connection behind g_log_fd; "none" when fd = -1
          wire,       \* wire[k]: what write() took on connection k
          emitted,    \* records logged
          lost,       \* records dropped because the buffer was full
          listening,  \* is the collector there?
          flips       \* how often that changed

sinkVars == <<alive, sink, link, wire, emitted, lost, listening, flips>>

Links == {"none", "connecting", "refused", "up", "fin", "doomed", "dead",
          "reset"}

Line(r) == [k \in 1..LineLen |-> [rec |-> r, part |-> k]]

SinkInit ==
    /\ alive = TRUE
    /\ sink = [skip |-> 0, backoff |-> 1, pend |-> << >>,
               fails |-> 0, gap |-> 0, cut |-> FALSE]
    /\ link = "none"
    /\ wire = << >>
    /\ emitted = 0
    /\ lost = {}
    /\ listening \in BOOLEAN
    /\ flips = 0

-----------------------------------------------------------------------------
(***************************************************************************)
(* The helpers of log_sink_emit, on the state s of the sink:               *)
(* s = [alive, link, wire, lost] \cup sink, in one record.                 *)
(***************************************************************************)
State == [alive |-> alive, link |-> link, wire |-> wire, lost |-> lost,
          skip |-> sink.skip, backoff |-> sink.backoff, pend |-> sink.pend,
          fails |-> sink.fails, gap |-> sink.gap, cut |-> sink.cut]

Become(s) ==
    /\ alive' = s.alive
    /\ link' = s.link
    /\ wire' = s.wire
    /\ lost' = s.lost
    /\ sink' = [skip |-> s.skip, backoff |-> s.backoff, pend |-> s.pend,
                fails |-> s.fails, gap |-> s.gap, cut |-> s.cut]

Bug_LogPend(s, line) ==   \* what fits of the line is buffered
    LET room == PendMax - Len(s.pend)
    IN  IF Len(line) > room
        THEN [s EXCEPT !.pend = @ \o SubSeq(line, 1, room)]
        ELSE [s EXCEPT !.pend = @ \o line]

(* log_pend: a line that does not fit is dropped as a whole.               *)
LogPend(s, line) ==
    IF Len(s.pend) + Len(line) > PendMax
    THEN [s EXCEPT !.lost = @ \cup {line[1].rec}]
    ELSE [s EXCEPT !.pend = @ \o line]

(* The next attempt is g_log_backoff records away, and the one after it    *)
(* twice as many.                                                          *)
Widen(s) ==
    [s EXCEPT !.skip = s.backoff,
              !.backoff = IF @ < BackoffMax THEN 2 * @ ELSE @,
              !.fails = @ + 1,
              !.gap = s.backoff]

LogSinkDrop(s) == Widen([s EXCEPT !.link = "none"])

(* n units of data go out on the current connection.  Data sent after the  *)
(* collector closed will be answered by a reset.                           *)
Took(s, data, n) ==
    [s EXCEPT !.wire = [s.wire EXCEPT ![Len(s.wire)] = @ \o SubSeq(data, 1, n)],
              !.link = IF @ = "fin" THEN "doomed" ELSE @,
              !.fails = IF n > 0 THEN 0 ELSE @]

(* What write(g_log_fd, data) may do: the state after it, how much it took *)
(* and, when it took nothing, why.  Writing to a connection that the peer  *)
(* closed and then reset raises SIGPIPE, which the runner neither ignores  *)
(* nor handles.                                                            *)
Write(s, data) ==
    LET full == [s |-> Took(s, data, Len(data)), w |-> Len(data), err |-> "none"]
        fails(why) == [s |-> s, w |-> 0, err |-> why]
    IN  CASE s.link = "connecting" -> {fails("wouldblock")}
          [] s.link \in {"refused", "reset"} -> {fails("hard")}
          [] s.link = "dead" -> {fails("sigpipe")}
          [] s.link \in {"fin", "doomed"} -> {full}
          [] s.link = "up" ->
               {full} \cup
               IF ShortWrites
               THEN {fails("wouldblock")} \cup
                    {[s |-> Took(s, data, n), w |-> n, err |-> "none"] :
                        n \in 1..Len(data) - 1}
               ELSE {}

Killed(s) == [s EXCEPT !.alive = FALSE]

Failed(s, why, line) ==
    LogPend(IF why = "wouldblock" THEN s ELSE LogSinkDrop(s), line)

(* The end of log_sink_emit.  After a short write errno still holds what   *)
(* an earlier call left there.                                             *)
WriteLine(s, line) ==
    UNION {IF r.w = Len(line) THEN {r.s}
           ELSE IF r.err = "sigpipe" THEN {Killed(r.s)}
           ELSE {Failed([r.s EXCEPT !.cut = @ \/ r.w > 0], why, line) :
                    why \in IF r.w > 0 THEN {"wouldblock", "hard"} ELSE {r.err}}
           : r \in Write(s, line)}

Bug_FlushAndWrite(s, line) ==   \* the new line overtakes the buffered ones
    UNION {IF t.pend = << >> \/ t.link = "none" THEN {t}
           ELSE {[r.s EXCEPT !.pend = SubSeq(@, r.w + 1, Len(@))] :
                    r \in {x \in Write(t, t.pend) : x.err # "sigpipe"}}
           : t \in WriteLine(s, line)}

(* Buffered lines go first.                                                *)
FlushAndWrite(s, line) ==
    IF s.pend = << >> THEN WriteLine(s, line)
    ELSE UNION
          {IF r.w = Len(s.pend) THEN WriteLine([r.s EXCEPT !.pend = << >>], line)
           ELSE IF r.w > 0
                THEN {LogPend([r.s EXCEPT !.pend = SubSeq(@, r.w + 1, Len(@))],
                              line)}
           ELSE IF r.err = "sigpipe" THEN {Killed(r.s)}
           ELSE {Failed(r.s, r.err, line)}
           : r \in Write(s, s.pend)}

-----------------------------------------------------------------------------
(***************************************************************************)
(* log_sink_emit, one action per way through it                            *)
(***************************************************************************)
Emits ==
    /\ alive
    /\ emitted < MaxRecords
    /\ emitted' = emitted + 1
    /\ UNCHANGED <<listening, flips>>

EmitSkips ==
    /\ Emits
    /\ link = "none" /\ sink.skip > 0
    /\ Become(LogPend([State EXCEPT !.skip = @ - 1], Line(emitted + 1)))

EmitConnectFails ==
    /\ Emits
    /\ link = "none" /\ sink.skip = 0
    /\ ~listening /\ "sync" \in Refusals
    /\ Become(LogPend(Widen(State), Line(emitted + 1)))

(* log_sink_connect hands back a descriptor whose handshake is under way.  *)
EmitConnects ==
    /\ Emits
    /\ link = "none" /\ sink.skip = 0
    /\ listening \/ "async" \in Refusals
    /\ \E s \in FlushAndWrite([State EXCEPT !.link = "connecting",
                                            !.wire = Append(@, << >>),
                                            !.backoff = 1],
                              Line(emitted + 1)) : Become(s)

EmitWrites ==
    /\ Emits
    /\ link # "none"
    /\ \E s \in FlushAndWrite(State, Line(emitted + 1)) : Become(s)

Emit == EmitSkips \/ EmitConnectFails \/ EmitConnects \/ EmitWrites

-----------------------------------------------------------------------------
(***************************************************************************)
(* The collector and TCP                                                   *)
(***************************************************************************)
LinkBecomes(to) ==
    /\ link' \in to
    /\ UNCHANGED <<alive, sink, wire, emitted, lost>>

(* The runner does not see this happen; the history of failures ends.      *)
HandshakeSucceeds ==
    /\ link = "connecting" /\ listening
    /\ link' = "up"
    /\ sink' = [sink EXCEPT !.fails = 0]
    /\ UNCHANGED <<alive, wire, emitted, lost, listening, flips>>

HandshakeRefused ==
    /\ link = "connecting" /\ ~listening
    /\ LinkBecomes({"refused"})
    /\ UNCHANGED <<listening, flips>>

CollectorArrives ==
    /\ ~listening /\ flips < MaxFlips
    /\ listening' = TRUE /\ flips' = flips + 1
    /\ UNCHANGED <<alive, sink, link, wire, emitted, lost>>

(* The collector ends: its sockets are closed in order, or reset when they *)
(* hold data it has not read.                                              *)
CollectorLeaves ==
    /\ listening /\ flips < MaxFlips
    /\ listening' = FALSE /\ flips' = flips + 1
    /\ LinkBecomes(IF link = "up" THEN {"fin", "reset"} ELSE {link})

ResetArrives ==
    /\ link = "doomed"
    /\ LinkBecomes({"dead"})
    /\ UNCHANGED <<listening, flips>>

Network ==
    \/ HandshakeSucceeds \/ HandshakeRefused
    \/ CollectorArrives \/ CollectorLeaves \/ ResetArrives

SinkNext == Emit \/ Network

SinkSpec == SinkInit /\ [][SinkNext]_sinkVars

-----------------------------------------------------------------------------
(***************************************************************************)
(* Properties                                                              *)
(***************************************************************************)

(* runner.c: the backoff stays within 1..LOG_BACKOFF_MAX and g_log_pend    *)
(* never overflows.                                                        *)
TypeOK ==
    /\ alive \in BOOLEAN
    /\ link \in Links
    /\ sink.skip \in 0..BackoffMax
    /\ sink.backoff \in 1..BackoffMax
    /\ Len(sink.pend) <= PendMax
    /\ Len(wire) <= emitted
    /\ lost \subseteq 1..emitted

(* What went out, connection by connection, and then what is buffered.     *)
Traffic == Append(wire, sink.pend)

(* Each unit of t comes after those before it, on a connection and from    *)
(* one to the next: in the same record or in a later one; and if "once",   *)
(* further on in that record.                                              *)
Follows(u, v, once) ==
    \/ u.rec < v.rec
    \/ u.rec = v.rec /\ (once => u.part < v.part)
InSequence(t, once) ==
    \A j, k \in 1..Len(t) : \A m \in 1..Len(t[j]), n \in 1..Len(t[k]) :
        j < k \/ (j = k /\ m < n) => Follows(t[j][m], t[k][n], once)

(* However short the writes and whatever connection is lost: every unit of *)
(* a record that did not find the buffer full was sent or is buffered.  As *)
(* long as no line was written in part, more holds: what went out over all *)
(* connections, followed by the buffer, is exactly the records logged so   *)
(* far, in order, each once, except the whole records that found the       *)
(* buffer full.  A buffer that is flushed in several writes does no harm.  *)
NothingElseIsLost ==
    alive =>
        /\ \A r \in (1..emitted) \ lost : \A k \in 1..LineLen :
              \E j \in 1..Len(Traffic) : Contains(Traffic[j], Line(r)[k])
        /\ ~sink.cut =>
              /\ InSequence(Traffic, TRUE)
              /\ \A j \in 1..Len(Traffic) : \A n \in 1..Len(Traffic[j]) :
                    \E r \in (1..emitted) \ lost : Contains(Line(r), Traffic[j][n])

(* "one record per line, which is exactly the wire format a collector      *)
(* expects" (runner.c:62): a connection carries whole lines, and at most   *)
(* the last one is unfinished, also when the collector is slow.            *)
WholeLinesOnWire ==
    \A k \in 1..Len(wire) : \A n \in 1..Len(wire[k]) :
        /\ wire[k][n].part = ((n - 1) % LineLen) + 1
        /\ wire[k][n].part > 1 => wire[k][n].rec = wire[k][n - 1].rec

(* "so the collector sees the records in the order they happened"          *)
(* (runner.c:187), on one connection and from one to the next.             *)
SentInOrder == InSequence(wire, FALSE)

(* "Retry with a widening gap" (runner.c:175): of two failures with no     *)
(* connection between them, the second one waits twice as long, up to      *)
(* LOG_BACKOFF_MAX.                                                        *)
WideningGap ==
    [][(sink'.fails > sink.fails /\ sink.fails > 0) =>
          (sink'.gap >= 2 * sink.gap \/ sink'.gap = BackoffMax)]_sinkVars

(* "Logging must never take the runner down" (runner.c:66).                *)
LoggingNeverKills == alive
=============================================================================
