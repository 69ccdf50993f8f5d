---------------------------- MODULE RunnerServer ----------------------------
(***************************************************************************)
(* The server of runner/runner.c: start-up, and a loop that takes one      *)
(* client at a time, reads once, executes the command and replies.  What   *)
(* the functions compute is in module RunnerFunctions, how log records     *)
(* reach a collector in RunnerLog.                                         *)
(***************************************************************************)
EXTENDS Naturals, Sequences, SequencesExt, FiniteSets

CONSTANTS Clients,       \* each makes one connection
          Request,       \* Request[c]: the words of the line c sends
          Numerals,      \* the words fn_sum takes for a number
          Silent,        \* clients that may connect and never send
          Backlog,       \* the argument of listen()
          Split,         \* may a line arrive in several segments?
          AcceptErrors   \* may accept() fail with something else than EINTR?

FUNCS == <<"wordcount", "sum">>

ASSUME RunnerServerConstants ==
    /\ Request \in [Clients -> Seq(STRING) \ {<< >>}]
    /\ Silent \subseteq Clients
    /\ Backlog \in Nat \ {0}
    /\ {Split, AcceptErrors} \subseteq BOOLEAN

(***************************************************************************)
(* Definitions named Bug_... are deliberate mistakes that no specification *)
(* uses; each could replace the definition after it.                       *)
(***************************************************************************)

VARIABLES
    pc,        \* where the server stands
    backlog,   \* connections waiting to be accepted
    conn,      \* the connection being served, as a sequence of at most one
    line,      \* what read() returned, as words
    reply,     \* the reply to it
    log,       \* records logged: [level, event]
    \* the clients
    client,    \* client[c]: "new", "connected", "served"; it left with "gone",
               \* "reset" or "broken": see below
    arrived,   \* arrived[c]: words of the request that reached the server
    got        \* got[c]: replies c received

clients == <<client, arrived, got>>
vars == <<pc, backlog, conn, line, reply, log, clients>>

NoReply == [st |-> "none", text |-> << >>]

Init ==
    /\ pc = "socket"
    /\ backlog = << >> /\ conn = << >>
    /\ line = << >> /\ reply = NoReply
    /\ log = << >>
    /\ client = [c \in Clients |-> "new"]
    /\ arrived = [c \in Clients |-> 0]
    /\ got = [c \in Clients |-> << >>]

-----------------------------------------------------------------------------
(***************************************************************************)
(* handle_line                                                             *)
(***************************************************************************)
Ok(text) == [st |-> "OK", text |-> text]
Err(text) == [st |-> "ERR", text |-> text]

IsRun(words) == words[1] = "RUN" /\ Len(words) > 1
Payload(words) == SubSeq(words, 3, Len(words))

Known(words) == Contains(FUNCS, words[2])

(* fn_sum refuses a word that is no number.                                *)
FnFails(words) ==
    words[2] = "sum" /\ \E k \in DOMAIN Payload(words) : Payload(words)[k] \notin Numerals

(* The reply to a line; a result is the function and what it is applied to. *)
ReplyTo(words) ==
    CASE words = <<"PING">>  -> [st |-> "PONG", text |-> << >>]
      [] words = <<"INFO">>  -> Ok(<<"platform">>)
      [] words = <<"FUNCS">> -> Ok(FUNCS)
      [] IsRun(words) /\ ~Known(words) -> Err(<<"no such function">>)
      [] IsRun(words) /\ Known(words)  ->
            IF FnFails(words) THEN Err(<<"not a number">>)
                              ELSE Ok(<<words[2]>> \o Payload(words))
      [] OTHER -> Err(<<"bad command">>)

(* The record logged with the reply.                                       *)
RecordOf(words) ==
    CASE words \in {<<"PING">>, <<"INFO">>, <<"FUNCS">>} ->
            [level |-> 0, event |-> words]
      [] IsRun(words) /\ Known(words) ->
            [level |-> IF FnFails(words) THEN 3 ELSE 1,
             event |-> <<"result", words[2]>>]
      [] OTHER -> [level |-> 2, event |-> <<"refused">>]

-----------------------------------------------------------------------------
(***************************************************************************)
(* The server                                                              *)
(***************************************************************************)
Started == [level |-> 1, event |-> <<"started">>]

(* socket, bind and listen; each failure is logged and ends the program.   *)
Listen ==
    /\ pc = "socket"
    /\ pc' = "announce"
    /\ UNCHANGED <<backlog, conn, line, reply, log, clients>>

StartFails ==
    /\ pc = "socket"
    /\ pc' = "exited"
    /\ log' = Append(log, [level |-> 3, event |-> <<"startup">>])
    /\ UNCHANGED <<backlog, conn, line, reply, clients>>

(* "function runner started on port ..."                                   *)
Announce ==
    /\ pc = "announce"
    /\ pc' = "accept"
    /\ log' = Append(log, Started)
    /\ UNCHANGED <<backlog, conn, line, reply, clients>>

Accept ==
    /\ pc = "accept" /\ backlog # << >>
    /\ conn' = <<Head(backlog)>>
    /\ backlog' = Tail(backlog)
    /\ pc' = "read"
    /\ UNCHANGED <<line, reply, log, clients>>

(* An error of accept() ends the server; EINTR goes round.                 *)
AcceptFails ==
    /\ pc = "accept" /\ AcceptErrors
    /\ pc' = "exited"
    /\ log' = Append(log, [level |-> 3, event |-> <<"accept">>])
    /\ UNCHANGED <<backlog, conn, line, reply, clients>>

(* How a connection ends on the client's side: it closed, it reset the     *)
(* connection, or it closed and a reset came after that.                   *)
Left == {"gone", "reset", "broken"}

Bug_Read ==   \* line[n - 1] = '\0'
    /\ pc = "read"
    /\ LET to == conn[1]
       IN  /\ arrived[to] > 0 \/ client[to] \in Left
           /\ line' = SubSeq(Request[to], 1, arrived[to] - 1)
           /\ pc' = IF arrived[to] > 0 THEN "handle" ELSE "close"
    /\ UNCHANGED <<backlog, conn, reply, log, clients>>

(* One read(): it waits for the first segment, or for the client to leave; *)
(* what arrived before is still read, with nothing to read it returns 0 or *)
(* an error.                                                               *)
Read ==
    /\ pc = "read"
    /\ LET to == conn[1]
       IN  /\ arrived[to] > 0 \/ client[to] \in Left
           /\ line' = SubSeq(Request[to], 1, arrived[to])
           /\ pc' = IF arrived[to] > 0 THEN "handle" ELSE "close"
    /\ UNCHANGED <<backlog, conn, reply, log, clients>>

(* RUN of a known function logs the invocation before it runs.             *)
Invoke ==
    /\ pc = "handle"
    /\ IsRun(line) /\ Known(line)
    /\ log' = Append(log, [level |-> 1, event |-> <<"invoke", line[2]>>])
    /\ pc' = "finish"
    /\ UNCHANGED <<backlog, conn, line, reply, clients>>

Bug_Finish ==   \* a failure returns before it is logged
    /\ \/ pc = "finish"
       \/ pc = "handle" /\ ~(IsRun(line) /\ Known(line))
    /\ log' = IF ReplyTo(line).st = "ERR" THEN log ELSE Append(log, RecordOf(line))
    /\ reply' = ReplyTo(line)
    /\ pc' = "write"
    /\ UNCHANGED <<backlog, conn, line, clients>>

(* The outcome is logged, then the reply is formatted.                     *)
Finish ==
    /\ \/ pc = "finish"
       \/ pc = "handle" /\ ~(IsRun(line) /\ Known(line))
    /\ log' = Append(log, RecordOf(line))
    /\ reply' = ReplyTo(line)
    /\ pc' = "write"
    /\ UNCHANGED <<backlog, conn, line, clients>>

(* One write(), whose result is ignored: a client that left gets none.     *)
WriteReply ==
    /\ pc = "write" /\ client[conn[1]] # "broken"
    /\ LET to == conn[1]
       IN  got' = IF client[to] = "connected"
                  THEN [got EXCEPT ![to] = Append(@, reply)] ELSE got
    /\ pc' = "close"
    /\ UNCHANGED <<backlog, conn, line, reply, log, client, arrived>>

(* On a connection that was closed and then reset by its peer the write is *)
(* EPIPE, and SIGPIPE, which main neither ignores nor handles, ends the    *)
(* process.                                                                *)
WriteKills ==
    /\ pc = "write" /\ client[conn[1]] = "broken"
    /\ pc' = "killed"
    /\ UNCHANGED <<backlog, conn, line, reply, log, clients>>

Bug_CloseConn ==   \* close(c) is missing
    /\ pc = "close"
    /\ conn' = << >> /\ line' = << >> /\ reply' = NoReply
    /\ pc' = "accept"
    /\ UNCHANGED <<backlog, log, clients>>

CloseConn ==
    /\ pc = "close"
    /\ client' = [client EXCEPT ![conn[1]] = IF @ = "connected" THEN "served" ELSE @]
    /\ conn' = << >> /\ line' = << >> /\ reply' = NoReply   \* out of scope
    /\ pc' = "accept"
    /\ UNCHANGED <<backlog, log, arrived, got>>

Working ==
    \/ Listen \/ Announce \/ Accept \/ Read
    \/ Invoke \/ Finish \/ WriteReply \/ WriteKills \/ CloseConn

Server == Working \/ StartFails \/ AcceptFails

-----------------------------------------------------------------------------
(***************************************************************************)
(* The clients, not part of the source                                     *)
(***************************************************************************)
Listening == pc \notin {"socket", "exited", "killed"}

Connect(c) ==
    /\ client[c] = "new" /\ Listening
    /\ Len(backlog) < Backlog
    /\ client' = [client EXCEPT ![c] = "connected"]
    /\ backlog' = Append(backlog, c)
    /\ UNCHANGED <<pc, conn, line, reply, log, arrived, got>>

(* A segment of the line arrives: all of the rest, or a part of it.        *)
Deliver(c) ==
    /\ client[c] = "connected"
    /\ \E n \in arrived[c] + 1 .. Len(Request[c]) :
          /\ Split \/ n = Len(Request[c])
          /\ arrived' = [arrived EXCEPT ![c] = n]
    /\ UNCHANGED <<pc, backlog, conn, line, reply, log, client, got>>

Leave(c, from, to) ==
    /\ client[c] = from
    /\ client' = [client EXCEPT ![c] = to]
    /\ UNCHANGED <<pc, backlog, conn, line, reply, log, arrived, got>>

(* It closes; it resets the connection instead; or the reset follows.      *)
GiveUp(c) ==
    \/ Leave(c, "connected", "gone")
    \/ Leave(c, "connected", "reset")
    \/ Leave(c, "gone", "broken")

Next ==
    \/ Server
    \/ \E c \in Clients : Connect(c) \/ Deliver(c) \/ GiveUp(c)

Spec == Init /\ [][Next]_vars

(* The server's only thread runs, and errors need not happen; the clients  *)
(* that are not silent send what they came to send.                        *)
FairSpec == Spec /\ WF_vars(Working) /\ \A c \in Clients \ Silent : WF_vars(Deliver(c))

-----------------------------------------------------------------------------
(***************************************************************************)
(* Properties                                                              *)
(***************************************************************************)

IsInvoke(record) == record.event[1] = "invoke"
IsOutcome(record) == record.event[1] \notin {"invoke", "started", "startup", "accept"}

(* Every reply that reached a client has an outcome of its own in the log, *)
(* and an invocation is logged right before the outcome of that function,  *)
(* nowhere else.                                                           *)
ResultIsLogged ==
    /\ Cardinality({c \in Clients : got[c] # << >>})
          <= Cardinality({k \in 1..Len(log) : IsOutcome(log[k])})
    /\ \A k \in 1..Len(log) : IsInvoke(log[k]) =>
          \/ k = Len(log) /\ pc = "finish"
          \/ k < Len(log) /\ log[k + 1].event = <<"result", log[k].event[2]>>
    /\ \A k \in 1..Len(log) : log[k].event[1] = "result" =>
          k > 1 /\ log[k - 1].event = <<"invoke", log[k].event[2]>>

(* "One connection carries one command, then closes" (runner/README.md:    *)
(* 19): the reply a client gets is the reply to the line it sent.          *)
ReplyAnswersRequest ==
    \A c \in Clients : got[c] # << >> => got[c] = <<ReplyTo(Request[c])>>

(* The queue behind a client moves on: it may fail, close or reset the     *)
(* connection at any moment, and the next ones are served all the same.    *)
(* The server ends in three ways only: at start-up, on an error of         *)
(* accept(), or by SIGPIPE when the client it answers had closed and reset *)
(* its connection before the write (runner.c:438), and then the whole      *)
(* queue is lost. That every client sends its line is the fairness of      *)
(* FairSpec: one that stays silent holds up the others for ever.           *)
ServerEnded ==
    \/ pc = "exited" /\ log[Len(log)].event \in {<<"startup">>, <<"accept">>}
    \/ pc = "killed" /\ client[conn[1]] = "broken"

ClientIsServed ==
    \A c \in Clients :
        client[c] = "connected" ~> (client[c] \in Left \cup {"served"} \/ ServerEnded)
=============================================================================
