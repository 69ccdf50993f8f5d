---------------------------- MODULE RunnerProofs ----------------------------
(***************************************************************************)
(* Proofs about runner/runner.c.  First RunnerServer, for any clients, any *)
(* requests, any backlog, and clients that leave at any moment; then the   *)
(* log sink, RunnerLog, for any sizes of a line and of the buffer, short   *)
(* writes, and a collector that comes and goes.  The two share no state.   *)
(***************************************************************************)
EXTENDS RunnerServer, RunnerLog, TLAPS, SequenceTheorems, FiniteSetTheorems

(* The words of the log, and of the lines.                                 *)
Words == STRING \cup {"PING", "INFO", "FUNCS", "started", "startup", "accept",
                      "invoke", "result", "refused"}

LogRecords == [level : 0..3, event : Seq(Words)]

Serving == {"read", "handle", "finish", "write", "close"}

Types ==
    /\ pc \in Serving \cup {"socket", "announce", "accept", "exited", "killed"}
    /\ log \in Seq(LogRecords)
    /\ line \in Seq(STRING)
    /\ backlog \in Seq(Clients)
    /\ client \in [Clients -> {"new", "connected", "served"} \cup Left]
    /\ arrived \in [Clients -> Nat]
    /\ \A c \in Clients : arrived[c] <= Len(Request[c])
    /\ DOMAIN got = Clients
    /\ pc \in Serving => conn[1] \in Clients
    /\ pc \in {"handle", "finish", "write"} => line # << >>

(* A client is in one place: not yet there, in the backlog once, being     *)
(* served, or done; it has no reply before the server wrote one.           *)
OnePlace ==
    /\ \A i, j \in 1..Len(backlog) : backlog[i] = backlog[j] => i = j
    /\ \A i \in 1..Len(backlog) :
          client[backlog[i]] # "new" /\ got[backlog[i]] = << >>
    /\ pc \in Serving =>
          /\ client[conn[1]] # "new"
          /\ \A i \in 1..Len(backlog) : backlog[i] # conn[1]
          /\ pc # "close" => got[conn[1]] = << >>
    /\ \A c \in Clients : client[c] = "new" => got[c] = << >>

(* With lines that arrive whole, what is executed is what was sent.        *)
WholeLine ==
    /\ \A c \in Clients : arrived[c] \in {0, Len(Request[c])}
    /\ pc \in {"handle", "finish", "write"} => line = Request[conn[1]]
    /\ pc = "write" => reply = ReplyTo(line)

(* Outcomes in the log against replies that reached a client.              *)
Answered == {c \in Clients : got[c] # << >>}
Outcomes == {k \in 1..Len(log) : IsOutcome(log[k])}

Counts ==
    /\ IsFiniteSet(Answered)
    /\ Cardinality(Answered) + (IF pc = "write" THEN 1 ELSE 0)
          <= Cardinality(Outcomes)

(* An invocation is the last record while its function runs.               *)
Paired ==
    /\ pc = "finish" =>
          /\ IsRun(line) /\ Known(line)
          /\ log # << >> /\ log[Len(log)].event = <<"invoke", line[2]>>
    /\ \A k \in 1..Len(log) : IsInvoke(log[k]) =>
          \/ k = Len(log) /\ pc = "finish"
          \/ k < Len(log) /\ log[k + 1].event = <<"result", log[k].event[2]>>
    /\ \A k \in 1..Len(log) : log[k].event[1] = "result" =>
          k > 1 /\ log[k - 1].event = <<"invoke", log[k].event[2]>>

IndInv == Types /\ OnePlace /\ Counts /\ Paired /\ (~Split => WholeLine)

-----------------------------------------------------------------------------
(***************************************************************************)
(* The records of handle_line                                              *)
(***************************************************************************)
LEMMA RequestType ==
    ASSUME NEW c \in Clients
    PROVE  Request[c] \in Seq(STRING) /\ Len(Request[c]) \in Nat \ {0}
<1>1. Request[c] \in Seq(STRING) /\ Request[c] # << >>
  BY RunnerServerConstants
<1> QED BY <1>1, EmptySeq

LEMMA RunIsNoQuery ==
    ASSUME NEW words, IsRun(words)
    PROVE  words \notin {<<"PING">>, <<"INFO">>, <<"FUNCS">>}
BY DEF IsRun

LEMMA ShortSeq ==
    ASSUME NEW S, NEW a \in S, NEW b \in S
    PROVE  <<a>> \in Seq(S) /\ <<a, b>> \in Seq(S)
<1>1. <<a>> \in [1..1 -> S] /\ <<a, b>> \in [1..2 -> S]
  OBVIOUS
<1> QED BY <1>1, SeqDef

LEMMA ResultRecord ==
    ASSUME NEW words \in Seq(STRING), IsRun(words), Known(words)
    PROVE  /\ RecordOf(words) \in LogRecords
           /\ RecordOf(words).event = <<"result", words[2]>>
<1>1. RecordOf(words) = [level |-> IF FnFails(words) THEN 3 ELSE 1,
                         event |-> <<"result", words[2]>>]
  BY RunIsNoQuery DEF RecordOf
<1>2. "result" \in Words /\ words[2] \in Words
  BY DEF IsRun, Words
<1>3. <<"result", words[2]>> \in Seq(Words)
  BY <1>2, ShortSeq, Zenon
<1> QED BY <1>1, <1>3 DEF LogRecords

LEMMA OtherRecord ==
    ASSUME NEW words \in Seq(STRING), ~(IsRun(words) /\ Known(words))
    PROVE  /\ RecordOf(words) \in LogRecords
           /\ RecordOf(words).event[1]
                 \in {"PING", "INFO", "FUNCS", "refused"}
<1>1. CASE words \in {<<"PING">>, <<"INFO">>, <<"FUNCS">>}
  <2>1. RecordOf(words) = [level |-> 0, event |-> words]
    BY <1>1 DEF RecordOf
  <2>2. "PING" \in Words /\ "INFO" \in Words /\ "FUNCS" \in Words
    BY DEF Words
  <2>3. words \in Seq(Words)
    BY <1>1, <2>2, ShortSeq, Zenon
  <2> QED BY <1>1, <2>1, <2>3 DEF LogRecords
<1>2. CASE words \notin {<<"PING">>, <<"INFO">>, <<"FUNCS">>}
  <2>1. RecordOf(words) = [level |-> 2, event |-> <<"refused">>]
    BY <1>2 DEF RecordOf
  <2>2. "refused" \in Words
    BY DEF Words
  <2>3. <<"refused">> \in Seq(Words)
    BY <2>2, ShortSeq, Zenon
  <2> QED BY <2>1, <2>3 DEF LogRecords
<1> QED BY <1>1, <1>2

-----------------------------------------------------------------------------
(***************************************************************************)
(* What a record does to the log                                           *)
(***************************************************************************)
Logs(r) == r \in LogRecords /\ log' = Append(log, r)

LEMMA LogAppend ==
    ASSUME log \in Seq(LogRecords), NEW r, Logs(r)
    PROVE  /\ log' \in Seq(LogRecords) /\ Len(log) \in Nat
           /\ Len(log') = Len(log) + 1 /\ log'[Len(log) + 1] = r
           /\ \A k \in 1..Len(log) : log'[k] = log[k]
BY AppendProperties, LenProperties DEF Logs

LEMMA OutcomesGrow ==
    ASSUME log \in Seq(LogRecords), NEW r, Logs(r)
    PROVE  /\ IsFiniteSet(Outcomes) /\ Cardinality(Outcomes) \in Nat
           /\ Cardinality(Outcomes') =
                 Cardinality(Outcomes) + (IF IsOutcome(r) THEN 1 ELSE 0)
<1>1. /\ Len(log) \in Nat /\ Len(log') = Len(log) + 1
      /\ log'[Len(log) + 1] = r /\ \A k \in 1..Len(log) : log'[k] = log[k]
  BY LogAppend
<1>2. IsFiniteSet(Outcomes) /\ Cardinality(Outcomes) \in Nat
  <2>1. IsFiniteSet(1..Len(log))
    BY <1>1, FS_Interval
  <2>2. Outcomes \in SUBSET (1..Len(log))
    BY DEF Outcomes
  <2> QED BY <2>1, <2>2, FS_Subset, FS_CardinalityType
<1>3. Outcomes' = IF IsOutcome(r) THEN Outcomes \cup {Len(log) + 1} ELSE Outcomes
  BY <1>1 DEF Outcomes, IsOutcome
<1>4. Len(log) + 1 \notin Outcomes
  BY <1>1 DEF Outcomes
<1>5. Cardinality(Outcomes \cup {Len(log) + 1}) = Cardinality(Outcomes) + 1
  BY <1>2, <1>4, FS_AddElement, Zenon
<1> QED BY <1>2, <1>3, <1>5

(* A record that is neither an invocation nor a result leaves the pairs.   *)
LEMMA PlainRecord ==
    ASSUME log \in Seq(LogRecords), Paired, pc # "finish", pc' # "finish",
           NEW r, Logs(r), r.event[1] \notin {"invoke", "result"}
    PROVE  Paired'
<1>1. /\ Len(log) \in Nat /\ Len(log') = Len(log) + 1
      /\ log'[Len(log) + 1] = r /\ \A k \in 1..Len(log) : log'[k] = log[k]
  BY LogAppend
<1>2. ASSUME NEW k \in 1..Len(log'), IsInvoke(log'[k])
      PROVE  k < Len(log') /\ log'[k + 1].event = <<"result", log'[k].event[2]>>
  <2>1. k \in 1..Len(log) /\ IsInvoke(log[k])
    BY <1>1, <1>2 DEF IsInvoke
  <2>2. k < Len(log) /\ log[k + 1].event = <<"result", log[k].event[2]>>
    BY <2>1 DEF Paired
  <2>3. k + 1 \in 1..Len(log)
    BY <1>1, <2>1, <2>2
  <2> QED BY <1>1, <2>1, <2>2, <2>3
<1>3. ASSUME NEW k \in 1..Len(log'), log'[k].event[1] = "result"
      PROVE  k > 1 /\ log'[k - 1].event = <<"invoke", log'[k].event[2]>>
  <2>1. k \in 1..Len(log) /\ log[k].event[1] = "result"
    BY <1>1, <1>3
  <2>2. k > 1 /\ log[k - 1].event = <<"invoke", log[k].event[2]>>
    BY <2>1 DEF Paired
  <2>3. k - 1 \in 1..Len(log)
    BY <1>1, <2>1, <2>2
  <2> QED BY <1>1, <2>1, <2>2, <2>3
<1> QED BY <1>2, <1>3 DEF Paired

LEMMA InvokeRecord ==
    ASSUME log \in Seq(LogRecords), Paired, pc # "finish", pc' = "finish",
           IsRun(line), Known(line), line' = line,
           NEW r, Logs(r), r.event = <<"invoke", line[2]>>
    PROVE  Paired'
<1>1. /\ Len(log) \in Nat /\ Len(log') = Len(log) + 1
      /\ log'[Len(log) + 1] = r /\ \A k \in 1..Len(log) : log'[k] = log[k]
      /\ log' \in Seq(LogRecords)
  BY LogAppend
<1>2. ASSUME NEW k \in 1..Len(log'), IsInvoke(log'[k]), k # Len(log')
      PROVE  k < Len(log') /\ log'[k + 1].event = <<"result", log'[k].event[2]>>
  <2>1. k \in 1..Len(log) /\ IsInvoke(log[k])
    BY <1>1, <1>2 DEF IsInvoke
  <2>2. k < Len(log) /\ log[k + 1].event = <<"result", log[k].event[2]>>
    BY <2>1 DEF Paired
  <2>3. k + 1 \in 1..Len(log)
    BY <1>1, <2>1, <2>2
  <2> QED BY <1>1, <2>1, <2>2, <2>3
<1>3. ASSUME NEW k \in 1..Len(log'), log'[k].event[1] = "result"
      PROVE  k > 1 /\ log'[k - 1].event = <<"invoke", log'[k].event[2]>>
  <2>1. k \in 1..Len(log) /\ log[k].event[1] = "result"
    BY <1>1, <1>3
  <2>2. k > 1 /\ log[k - 1].event = <<"invoke", log[k].event[2]>>
    BY <2>1 DEF Paired
  <2>3. k - 1 \in 1..Len(log)
    BY <1>1, <2>1, <2>2
  <2> QED BY <1>1, <2>1, <2>2, <2>3
<1>4. log' # << >>
  BY <1>1, EmptySeq
<1> QED BY <1>1, <1>2, <1>3, <1>4 DEF Paired

LEMMA ResultOfInvoke ==
    ASSUME log \in Seq(LogRecords), Paired, pc = "finish", pc' # "finish",
           NEW r, Logs(r), r.event = <<"result", line[2]>>
    PROVE  Paired'
<1>1. /\ Len(log) \in Nat /\ Len(log') = Len(log) + 1
      /\ log'[Len(log) + 1] = r /\ \A k \in 1..Len(log) : log'[k] = log[k]
  BY LogAppend
<1>2. Len(log) > 0 /\ log[Len(log)].event = <<"invoke", line[2]>>
  BY <1>1, EmptySeq DEF Paired
<1>3. ASSUME NEW k \in 1..Len(log'), IsInvoke(log'[k])
      PROVE  k < Len(log') /\ log'[k + 1].event = <<"result", log'[k].event[2]>>
  <2>1. k \in 1..Len(log) /\ IsInvoke(log[k])
    BY <1>1, <1>3 DEF IsInvoke
  <2>2. CASE k = Len(log)
    BY <1>1, <1>2, <2>1, <2>2
  <2>3. CASE k # Len(log)
    <3>1. k < Len(log) /\ log[k + 1].event = <<"result", log[k].event[2]>>
      BY <2>1, <2>3 DEF Paired
    <3>2. k + 1 \in 1..Len(log)
      BY <1>1, <2>1, <3>1
    <3> QED BY <1>1, <2>1, <3>1, <3>2
  <2> QED BY <2>2, <2>3
<1>4. ASSUME NEW k \in 1..Len(log'), log'[k].event[1] = "result"
      PROVE  k > 1 /\ log'[k - 1].event = <<"invoke", log'[k].event[2]>>
  <2>1. CASE k = Len(log) + 1
    BY <1>1, <1>2, <2>1
  <2>2. CASE k # Len(log) + 1
    <3>1. k \in 1..Len(log) /\ log[k].event[1] = "result"
      BY <1>1, <1>4, <2>2
    <3>2. k > 1 /\ log[k - 1].event = <<"invoke", log[k].event[2]>>
      BY <3>1 DEF Paired
    <3>3. k - 1 \in 1..Len(log)
      BY <1>1, <3>1, <3>2
    <3> QED BY <1>1, <3>1, <3>2, <3>3
  <2> QED BY <2>1, <2>2
<1> QED BY <1>3, <1>4 DEF Paired

LEMMA SameLog ==
    ASSUME Paired, log' = log,
           \/ pc # "finish" /\ pc' # "finish"
           \/ pc' = pc /\ line' = line
    PROVE  Paired'
BY DEF Paired, IsInvoke, IsRun, Known

(* Replies stay in step with outcomes while neither grows.                 *)
LEMMA SameCounts ==
    ASSUME Counts, log' = log, got' = got, pc # "write", pc' # "write"
    PROVE  Counts'
BY DEF Counts, Answered, Outcomes, IsOutcome

LEMMA OneMoreOutcome ==
    ASSUME Counts, log \in Seq(LogRecords), NEW r, Logs(r), got' = got,
           pc # "write", IsOutcome(r) \/ pc' # "write"
    PROVE  Counts'
<1>1. /\ Cardinality(Outcomes) \in Nat
      /\ Cardinality(Outcomes') =
            Cardinality(Outcomes) + (IF IsOutcome(r) THEN 1 ELSE 0)
  BY OutcomesGrow
<1>2. Answered' = Answered
  BY DEF Answered
<1>3. Cardinality(Answered) \in Nat /\ Cardinality(Answered) <= Cardinality(Outcomes)
  BY FS_CardinalityType DEF Counts
<1> QED BY <1>1, <1>2, <1>3 DEF Counts

-----------------------------------------------------------------------------
(***************************************************************************)
(* The inductive invariant                                                 *)
(***************************************************************************)
LEMMA InitInd == Init => IndInv
<1> SUFFICES ASSUME Init PROVE IndInv
  OBVIOUS
<1> USE DEF Init
<1>1. Len(<< >>) = 0 /\ \A S : << >> \in Seq(S)
  BY EmptySeq
<1>2. Types
  <2>1. \A c \in Clients : 0 <= Len(Request[c])
    BY RequestType
  <2> QED BY <1>1, <2>1 DEF Types, Serving
<1>3. OnePlace
  BY <1>1 DEF OnePlace, Serving
<1>4. Counts
  <2>1. Answered = {} /\ Outcomes = {}
    BY <1>1 DEF Answered, Outcomes
  <2> QED BY <2>1, FS_EmptySet DEF Counts
<1>5. Paired
  BY <1>1 DEF Paired
<1>6. WholeLine
  BY <1>1 DEF WholeLine
<1> QED BY <1>2, <1>3, <1>4, <1>5, <1>6 DEF IndInv

LEMMA RunServer == IndInv /\ Working => IndInv'
<1> SUFFICES ASSUME IndInv, Working PROVE IndInv'
  OBVIOUS
<1>0. Types /\ OnePlace /\ Counts /\ Paired /\ (~Split => WholeLine)
  BY DEF IndInv
<1>1. CASE Listen
  <2>1. Types' /\ OnePlace' /\ (~Split => WholeLine')
    BY <1>0, <1>1 DEF Listen, clients, Types, OnePlace, WholeLine, Serving
  <2>2. Counts' /\ Paired'
    BY <1>0, <1>1, SameCounts, SameLog DEF Listen, clients
  <2> QED BY <2>1, <2>2 DEF IndInv
<1>2. CASE Announce
  <2>1. Logs(Started) /\ log' \in Seq(LogRecords)
    <3>1. Started \in LogRecords
      <4>1. "started" \in Words
        BY DEF Words
      <4>2. <<"started">> \in Seq(Words)
        BY <4>1, ShortSeq, Zenon
      <4> QED BY <4>2 DEF Started, LogRecords
    <3> QED BY <1>0, <1>2, <3>1, LogAppend DEF Announce, Logs, Types
  <2>2. Types' /\ OnePlace' /\ (~Split => WholeLine')
    BY <1>0, <1>2, <2>1 DEF Announce, clients, Types, OnePlace, WholeLine, Serving
  <2>3. Counts'
    BY <1>0, <1>2, <2>1, OneMoreOutcome DEF Announce, clients, Types
  <2>4. Paired'
    BY <1>0, <1>2, <2>1, PlainRecord DEF Announce, Started, Types
  <2> QED BY <2>2, <2>3, <2>4 DEF IndInv
<1>3. CASE Accept
  <2>1. /\ backlog \in Seq(Clients) /\ Len(backlog) \in Nat \ {0}
        /\ conn'[1] = backlog[1] /\ backlog[1] \in Clients
        /\ backlog' \in Seq(Clients) /\ Len(backlog') = Len(backlog) - 1
        /\ \A i \in 1..Len(backlog') : backlog'[i] = backlog[i + 1]
    BY <1>0, <1>3, HeadTailProperties, EmptySeq DEF Accept, Types
  <2>2. \A i \in 1..Len(backlog') : i + 1 \in 1..Len(backlog) /\ i + 1 # 1
    BY <2>1
  <2>3. Types' /\ (~Split => WholeLine')
    BY <1>0, <1>3, <2>1 DEF Accept, clients, Types, WholeLine, Serving
  <2>4. OnePlace'
    <3>1. \A i, j \in 1..Len(backlog') : backlog'[i] = backlog'[j] => i = j
      BY <1>0, <2>1, <2>2 DEF OnePlace
    <3>2. \A i \in 1..Len(backlog') : backlog'[i] # conn'[1]
      BY <1>0, <2>1, <2>2 DEF OnePlace
    <3>3. /\ client' = client /\ got' = got
          /\ client[conn'[1]] # "new" /\ got[conn'[1]] = << >>
      BY <1>0, <1>3, <2>1 DEF Accept, clients, OnePlace
    <3>4. \A i \in 1..Len(backlog') :
             client[backlog'[i]] # "new" /\ got[backlog'[i]] = << >>
      BY <1>0, <2>1, <2>2, SMTT(30) DEF OnePlace
    <3> QED BY <1>0, <3>1, <3>2, <3>3, <3>4 DEF OnePlace
  <2>5. Counts' /\ Paired'
    BY <1>0, <1>3, SameCounts, SameLog DEF Accept, clients
  <2> QED BY <2>3, <2>4, <2>5 DEF IndInv
<1>4. CASE Read
  <2> DEFINE to == conn[1]
  <2>1. /\ to \in Clients /\ Request[to] \in Seq(STRING)
        /\ arrived[to] \in 0..Len(Request[to])
        /\ line' = SubSeq(Request[to], 1, arrived[to])
        /\ pc' = IF arrived[to] > 0 THEN "handle" ELSE "close"
        /\ conn' = conn
    BY <1>0, <1>4, RequestType DEF Read, Types, Serving
  <2>2. line' \in Seq(STRING) /\ Len(line') = arrived[to]
    BY <2>1, SubSeqProperties
  <2>3. arrived[to] = Len(Request[to]) => line' = Request[to]
    BY <2>1, SubSeqFull
  <2>4. pc' = "handle" => line' # << >>
    BY <2>1, <2>2, EmptySeq
  <2> HIDE DEF to
  <2>5. Types'
    BY <1>0, <1>4, <2>1, <2>2, <2>4 DEF Read, clients, Types, Serving, to
  <2>6. OnePlace'
    BY <1>0, <1>4, <2>1 DEF Read, clients, OnePlace, Serving
  <2>7. ~Split => WholeLine'
    BY <1>0, <1>4, <2>1, <2>3 DEF Read, clients, WholeLine, to
  <2>8. Counts' /\ Paired'
    BY <1>0, <1>4, <2>1, SameCounts, SameLog DEF Read, clients
  <2> QED BY <2>5, <2>6, <2>7, <2>8 DEF IndInv
<1>5. CASE Invoke
  <2> DEFINE r == [level |-> 1, event |-> <<"invoke", line[2]>>]
  <2>1. r \in LogRecords /\ r.event = <<"invoke", line[2]>>
    <3>1. "invoke" \in Words /\ line[2] \in Words
      BY <1>0, <1>5 DEF Words, Invoke, IsRun, Types
    <3>2. <<"invoke", line[2]>> \in Seq(Words)
      BY <3>1, ShortSeq, Zenon
    <3> QED BY <3>2 DEF LogRecords
  <2>2. Logs(r)
    BY <1>5, <2>1 DEF Invoke, Logs
  <2> HIDE DEF r
  <2>3. log' \in Seq(LogRecords) /\ log \in Seq(LogRecords)
    BY <1>0, <2>2, LogAppend DEF Types
  <2>4. Types' /\ OnePlace' /\ (~Split => WholeLine')
    BY <1>0, <1>5, <2>3 DEF Invoke, clients, Types, OnePlace, WholeLine, Serving
  <2>5. Counts'
    BY <1>0, <1>5, <2>2, <2>3, OneMoreOutcome DEF Invoke, clients
  <2>6. Paired'
    BY <1>0, <1>5, <2>1, <2>2, <2>3, InvokeRecord DEF Invoke
  <2> QED BY <2>4, <2>5, <2>6 DEF IndInv
<1>6. CASE Finish
  <2> DEFINE r == RecordOf(line)
  <2>1. /\ log \in Seq(LogRecords) /\ line \in Seq(STRING)
        /\ pc' = "write" /\ log' = Append(log, r)
    BY <1>0, <1>6 DEF Finish, Types
  <2>2. ASSUME pc = "finish"
        PROVE  IsOutcome(r) /\ Logs(r) /\ Paired' /\ log' \in Seq(LogRecords)
    <3>1. IsRun(line) /\ Known(line)
      BY <1>0, <2>2 DEF Paired
    <3>2. r \in LogRecords /\ r.event = <<"result", line[2]>>
      BY <2>1, <3>1, ResultRecord
    <3>3. IsOutcome(r) /\ Logs(r)
      BY <2>1, <3>2 DEF IsOutcome, Logs
    <3> HIDE DEF r
    <3>4. Paired' /\ log' \in Seq(LogRecords)
      BY <1>0, <2>1, <2>2, <3>2, <3>3, ResultOfInvoke, LogAppend
    <3> QED BY <3>3, <3>4
  <2>3. ASSUME pc = "handle"
        PROVE  IsOutcome(r) /\ Logs(r) /\ Paired' /\ log' \in Seq(LogRecords)
    <3>1. ~(IsRun(line) /\ Known(line))
      BY <1>6, <2>3 DEF Finish
    <3>2. /\ r \in LogRecords
          /\ r.event[1] \in {"PING", "INFO", "FUNCS", "refused"}
      BY <2>1, <3>1, OtherRecord
    <3>3. IsOutcome(r) /\ Logs(r)
      BY <2>1, <3>2 DEF IsOutcome, Logs
    <3> HIDE DEF r
    <3>4. Paired' /\ log' \in Seq(LogRecords)
      BY <1>0, <2>1, <2>3, <3>2, <3>3, PlainRecord, LogAppend
    <3> QED BY <3>3, <3>4
  <2>4. /\ IsOutcome(r) /\ Logs(r) /\ Paired' /\ log' \in Seq(LogRecords)
        /\ pc \in {"handle", "finish"}
    BY <1>6, <2>2, <2>3 DEF Finish
  <2> HIDE DEF r
  <2>5. Counts'
    BY <1>0, <1>6, <2>1, <2>4, OneMoreOutcome DEF Finish, clients
  <2>6. Types' /\ OnePlace' /\ (~Split => WholeLine')
    BY <1>0, <1>6, <2>4 DEF Finish, clients, Types, OnePlace, WholeLine, Serving
  <2> QED BY <2>4, <2>5, <2>6 DEF IndInv
<1>7. CASE WriteReply
  <2> DEFINE to == conn[1]
  <2>1. /\ to \in Clients /\ pc = "write" /\ pc' = "close" /\ conn' = conn
        /\ got' = IF client[to] = "connected"
                  THEN [got EXCEPT ![to] = Append(@, reply)] ELSE got
        /\ \A i \in 1..Len(backlog) : backlog[i] # to
        /\ client[to] # "new"
    BY <1>0, <1>7 DEF WriteReply, Types, Serving, OnePlace
  <2> HIDE DEF to
  <2>2. \A c \in Clients : c # to => got'[c] = got[c]
    BY <1>0, <2>1 DEF Types
  <2>3. Types' /\ (~Split => WholeLine')
    BY <1>0, <1>7, <2>1 DEF WriteReply, Types, WholeLine, Serving
  <2>4. OnePlace'
    <3>1. \A i \in 1..Len(backlog) : backlog[i] \in Clients
      BY <1>0 DEF Types
    <3> QED BY <1>0, <1>7, <2>1, <2>2, <3>1 DEF WriteReply, OnePlace, Serving, to
  <2>5. Counts'
    <3>1. /\ Outcomes' = Outcomes /\ IsFiniteSet(Answered)
          /\ Cardinality(Answered) + 1 <= Cardinality(Outcomes)
          /\ log' = log
      BY <1>0, <1>7 DEF WriteReply, Outcomes, IsOutcome, Counts
    <3>2. Answered' = Answered \/ Answered' = Answered \cup {to}
      BY <2>1, <2>2 DEF Answered
    <3>3. Cardinality(Outcomes) \in Nat
      <4>1. Len(log) \in Nat
        BY <1>0, LenProperties DEF Types
      <4>2. IsFiniteSet(1..Len(log)) /\ Outcomes \in SUBSET (1..Len(log))
        BY <4>1, FS_Interval DEF Outcomes
      <4> QED BY <4>2, FS_Subset, FS_CardinalityType
    <3>4. /\ Cardinality(Answered) \in Nat
          /\ IsFiniteSet(Answered \cup {to})
          /\ \/ Cardinality(Answered \cup {to}) = Cardinality(Answered)
             \/ Cardinality(Answered \cup {to}) = Cardinality(Answered) + 1
      BY <3>1, FS_CardinalityType, FS_AddElement, Zenon
    <3>5. /\ IsFiniteSet(Answered') /\ Outcomes' = Outcomes
          /\ Cardinality(Answered') <= Cardinality(Outcomes)
      <4>1. IsFiniteSet(Answered')
        BY <3>1, <3>2, <3>4, Zenon
      <4>2. \/ Cardinality(Answered') = Cardinality(Answered)
            \/ Cardinality(Answered') = Cardinality(Answered) + 1
        BY <3>2, <3>4, Zenon
      <4>3. Cardinality(Answered) \in Nat
        BY <3>4, Zenon
      <4> QED BY <3>1, <3>3, <4>1, <4>2, <4>3
    <3>6. Cardinality(Answered') \in Nat
      BY <3>5, FS_CardinalityType
    <3> HIDE DEF Answered, Outcomes
    <3> QED BY <2>1, <3>5, <3>6 DEF Counts
  <2>6. Paired'
    BY <1>0, <1>7, SameLog DEF WriteReply
  <2> QED BY <2>3, <2>4, <2>5, <2>6 DEF IndInv
<1>8. CASE CloseConn
  <2>1. conn[1] \in Clients /\ pc = "close"
    BY <1>0, <1>8 DEF CloseConn, Types, Serving
  <2>2. Types'
    <3>1. << >> \in Seq(STRING)
      BY EmptySeq
    <3> QED BY <1>0, <1>8, <2>1, <3>1 DEF CloseConn, Types, Serving
  <2>3. OnePlace' /\ (~Split => WholeLine')
    <3>1. /\ pc' = "accept" /\ backlog' = backlog /\ got' = got /\ arrived' = arrived
          /\ client' = [client EXCEPT ![conn[1]] = IF @ = "connected" THEN "served" ELSE @]
      BY <1>8 DEF CloseConn
    <3>2. \A d \in Clients : client'[d] = "new" => client[d] = "new"
      BY <1>0, <2>1, <3>1 DEF Types
    <3>3. \A k \in 1..Len(backlog) : backlog[k] \in Clients
      BY <1>0 DEF Types
    <3>4. \A k \in 1..Len(backlog) : client'[backlog[k]] # "new" /\ got[backlog[k]] = << >>
      BY <1>0, <3>2, <3>3 DEF OnePlace
    <3>5. OnePlace'
      BY <1>0, <3>1, <3>2, <3>4, Zenon DEF OnePlace, Serving
    <3>6. ~Split => WholeLine'
      BY <1>0, <3>1 DEF WholeLine
    <3> QED BY <3>5, <3>6
  <2>4. Counts' /\ Paired'
    BY <1>0, <1>8, SameCounts, SameLog DEF CloseConn
  <2> QED BY <2>2, <2>3, <2>4 DEF IndInv
<1>9. CASE WriteKills
  <2>1. /\ pc = "write" /\ pc' = "killed"
        /\ UNCHANGED <<backlog, conn, line, reply, log, client, arrived, got>>
    BY <1>9 DEF WriteKills, clients
  <2>2. Types' /\ OnePlace' /\ (~Split => WholeLine')
    BY <1>0, <2>1 DEF Types, OnePlace, WholeLine, Serving
  <2>3. Counts'
    <3>1. Outcomes' = Outcomes /\ Answered' = Answered
      BY <2>1 DEF Outcomes, Answered, IsOutcome
    <3>2. Cardinality(Outcomes) \in Nat
      <4>1. Len(log) \in Nat
        BY <1>0, LenProperties DEF Types
      <4>2. IsFiniteSet(1..Len(log)) /\ Outcomes \in SUBSET (1..Len(log))
        BY <4>1, FS_Interval DEF Outcomes
      <4> QED BY <4>2, FS_Subset, FS_CardinalityType
    <3>3. Cardinality(Answered) \in Nat
      BY <1>0, FS_CardinalityType DEF Counts
    <3> HIDE DEF Answered, Outcomes
    <3> QED BY <1>0, <2>1, <3>1, <3>2, <3>3 DEF Counts
  <2>4. Paired'
    BY <1>0, <2>1, SameLog
  <2> QED BY <2>2, <2>3, <2>4 DEF IndInv
<1> QED BY <1>1, <1>2, <1>3, <1>4, <1>5, <1>6, <1>7, <1>8, <1>9 DEF Working

LEMMA EndServer == IndInv /\ (StartFails \/ AcceptFails) => IndInv'
<1> SUFFICES ASSUME IndInv, StartFails \/ AcceptFails PROVE IndInv'
  OBVIOUS
<1>0. Types /\ OnePlace /\ Counts /\ Paired /\ (~Split => WholeLine)
  BY DEF IndInv
<1>1. /\ log' = Append(log, [level |-> 3, event |-> <<"startup">>])
         \/ log' = Append(log, [level |-> 3, event |-> <<"accept">>])
      /\ pc \in {"socket", "accept"} /\ pc' = "exited"
      /\ UNCHANGED <<backlog, conn, line, reply, clients>>
  BY DEF StartFails, AcceptFails
<1>2. \E w \in {"startup", "accept"} : log' = Append(log, [level |-> 3, event |-> <<w>>])
  BY <1>1
<1>3. PICK w \in {"startup", "accept"} : log' = Append(log, [level |-> 3, event |-> <<w>>])
  BY <1>2
<1>4. PICK e : e = [level |-> 3, event |-> <<w>>]
  OBVIOUS
<1>5. e \in LogRecords /\ e.event[1] = w
  <2>1. w \in Words
    BY DEF Words
  <2>2. <<w>> \in Seq(Words)
    BY <2>1, ShortSeq, Zenon
  <2> QED BY <1>4, <2>2 DEF LogRecords
<1>6. Logs(e) /\ log \in Seq(LogRecords) /\ log' \in Seq(LogRecords)
  BY <1>0, <1>3, <1>4, <1>5, LogAppend DEF Logs, Types
<1>7. Types' /\ OnePlace' /\ (~Split => WholeLine')
  BY <1>0, <1>1, <1>6 DEF clients, Types, OnePlace, WholeLine, Serving
<1>8. Counts'
  BY <1>0, <1>1, <1>6, OneMoreOutcome DEF clients
<1>9. Paired'
  BY <1>0, <1>1, <1>5, <1>6, PlainRecord
<1> QED BY <1>7, <1>8, <1>9 DEF IndInv

LEMMA RunClients ==
    ASSUME IndInv, NEW c \in Clients, Connect(c) \/ Deliver(c) \/ GiveUp(c)
    PROVE  IndInv'
<1>0. Types /\ OnePlace /\ Counts /\ Paired /\ (~Split => WholeLine)
  BY DEF IndInv
<1>1. /\ pc' = pc /\ line' = line /\ conn' = conn /\ reply' = reply
      /\ log' = log /\ got' = got
  BY DEF Connect, Deliver, GiveUp, Leave
<1>2. Counts' /\ Paired'
  BY <1>0, <1>1, SameLog DEF Counts, Answered, Outcomes, IsOutcome
<1>3. CASE Connect(c)
  <2>1. /\ backlog' \in Seq(Clients) /\ Len(backlog) \in Nat
        /\ Len(backlog') = Len(backlog) + 1 /\ backlog'[Len(backlog) + 1] = c
        /\ \A i \in 1..Len(backlog) : backlog'[i] = backlog[i]
    BY <1>0, <1>3, AppendProperties, LenProperties DEF Connect, Types
  <2>2. /\ client[c] = "new" /\ client' = [client EXCEPT ![c] = "connected"]
        /\ arrived' = arrived
    BY <1>3 DEF Connect
  <2>3. \A i \in 1..Len(backlog) : backlog[i] # c /\ backlog[i] \in Clients
    <3>1. backlog \in Seq(Clients)
      BY <1>0 DEF Types
    <3>2. \A i \in 1..Len(backlog) : backlog[i] \in Clients
      BY <3>1, ElementOfSeq
    <3> QED BY <1>0, <2>2, <3>2 DEF OnePlace
  <2>4. Types' /\ (~Split => WholeLine')
    BY <1>0, <1>1, <2>1, <2>2 DEF Types, WholeLine
  <2>5. \A i \in 1..Len(backlog') : i # Len(backlog) + 1 => i \in 1..Len(backlog)
    BY <2>1
  <2>6. \A i, j \in 1..Len(backlog') : backlog'[i] = backlog'[j] => i = j
    BY <1>0, <2>1, <2>3, <2>5 DEF OnePlace
  <2>7. \A i \in 1..Len(backlog') :
           client'[backlog'[i]] # "new" /\ got[backlog'[i]] = << >>
    <3> TAKE i \in 1..Len(backlog')
    <3>1. CASE i = Len(backlog) + 1
      BY <1>0, <2>1, <2>2, <3>1 DEF OnePlace, Types
    <3>2. CASE i # Len(backlog) + 1
      <4>1. i \in 1..Len(backlog) /\ backlog'[i] = backlog[i]
        BY <2>1, <2>5, <3>2
      <4>2. client[backlog[i]] # "new" /\ got[backlog[i]] = << >> /\ backlog[i] # c
        BY <1>0, <2>3, <4>1 DEF OnePlace
      <4>3. backlog[i] \in Clients /\ client'[backlog[i]] = client[backlog[i]]
        BY <1>0, <2>2, <2>3, <4>1, <4>2 DEF Types
      <4> QED BY <4>1, <4>2, <4>3
    <3> QED BY <3>1, <3>2
  <2>8. OnePlace'
    <3>1. pc \in Serving => /\ conn[1] \in Clients /\ conn[1] # c
                            /\ \A i \in 1..Len(backlog') : backlog'[i] # conn[1]
      BY <1>0, <2>1, <2>2, <2>5 DEF OnePlace, Types
    <3>2. \A d \in Clients : client'[d] = "new" => d # c /\ client[d] = "new"
      BY <1>0, <2>2 DEF Types
    <3>3. pc \in Serving => client'[conn[1]] # "new"
      BY <1>0, <2>2, <3>1 DEF OnePlace, Types
    <3> QED BY <1>0, <1>1, <2>6, <2>7, <3>1, <3>2, <3>3 DEF OnePlace
  <2> QED BY <1>2, <2>4, <2>8 DEF IndInv
<1>4. CASE Deliver(c)
  <2>1. PICK n \in arrived[c] + 1..Len(Request[c]) :
           (Split \/ n = Len(Request[c])) /\ arrived' = [arrived EXCEPT ![c] = n]
    BY <1>4 DEF Deliver
  <2>2. n \in Nat /\ n <= Len(Request[c]) /\ backlog' = backlog /\ client' = client
    BY <1>0, <1>4, <2>1, RequestType DEF Types, Deliver
  <2>3. Types' /\ OnePlace' /\ (~Split => WholeLine')
    BY <1>0, <1>1, <2>1, <2>2 DEF Types, OnePlace, WholeLine
  <2> QED BY <1>2, <2>3 DEF IndInv
<1>5. CASE GiveUp(c)
  <2>1. PICK to \in Left : client' = [client EXCEPT ![c] = to]
    BY <1>5 DEF GiveUp, Leave, Left
  <2>2. Types' /\ (~Split => WholeLine')
    <3>1. backlog' = backlog /\ arrived' = arrived
      BY <1>5 DEF GiveUp, Leave
    <3> QED BY <1>0, <1>1, <2>1, <3>1 DEF Types, WholeLine
  <2>3. \A d \in Clients : client'[d] = IF d = c THEN to ELSE client[d]
    BY <1>0, <2>1 DEF Types
  <2>4. OnePlace'
    <3>1. \A i \in 1..Len(backlog) : backlog[i] \in Clients
      BY <1>0 DEF Types
    <3>2. \A d \in Clients : client'[d] = "new" => client[d] = "new"
      BY <2>1, <2>3 DEF Left
    <3>3. \A k \in 1..Len(backlog) : client'[backlog[k]] # "new" /\ got[backlog[k]] = << >>
      BY <1>0, <3>1, <3>2 DEF OnePlace
    <3>4. pc \in Serving => conn[1] \in Clients
      BY <1>0 DEF Types
    <3>5. UNCHANGED <<pc, backlog, conn, got>>
      BY <1>5 DEF GiveUp, Leave
    <3> QED BY <1>0, <3>2, <3>3, <3>4, <3>5, Zenon DEF OnePlace
  <2> QED BY <1>2, <2>2, <2>4 DEF IndInv
<1> QED BY <1>3, <1>4, <1>5

(* The server keeps the inductive invariant, whatever its clients do.      *)
THEOREM Inductive == Spec => []IndInv
<1>1. IndInv /\ UNCHANGED vars => IndInv'
  <2> SUFFICES ASSUME IndInv, UNCHANGED vars PROVE IndInv'
    OBVIOUS
  <2>1. Types' /\ OnePlace' /\ (~Split => WholeLine')
    BY DEF IndInv, vars, clients, Types, OnePlace, WholeLine
  <2>2. Counts' /\ Paired'
    BY SameLog DEF IndInv, vars, clients, Counts, Answered, Outcomes, IsOutcome
  <2> QED BY <2>1, <2>2 DEF IndInv
<1>2. IndInv /\ [Next]_vars => IndInv'
  BY <1>1, RunServer, EndServer, RunClients DEF Next, Server
<1> QED BY <1>2, InitInd, PTL DEF Spec

-----------------------------------------------------------------------------
(***************************************************************************)
(* The theorems                                                            *)
(***************************************************************************)
(* handle_line: every reply a client received has an outcome in the log;   *)
(* an invocation is followed at once by the outcome of its function, and   *)
(* an outcome of a function by nothing but its invocation preceded.        *)
THEOREM Logged == Spec => []ResultIsLogged
<1>1. IndInv => ResultIsLogged
  <2> SUFFICES ASSUME IndInv PROVE ResultIsLogged
    OBVIOUS
  <2>1. Cardinality(Answered) <= Cardinality(Outcomes)
    <3>1. Cardinality(Answered) \in Nat
      BY FS_CardinalityType DEF IndInv, Counts
    <3>2. Cardinality(Outcomes) \in Nat
      <4>1. Len(log) \in Nat
        BY LenProperties DEF IndInv, Types
      <4>2. IsFiniteSet(1..Len(log)) /\ Outcomes \in SUBSET (1..Len(log))
        BY <4>1, FS_Interval DEF Outcomes
      <4> QED BY <4>2, FS_Subset, FS_CardinalityType
    <3> QED BY <3>1, <3>2 DEF IndInv, Counts
  <2> QED BY <2>1 DEF IndInv, Paired, ResultIsLogged, Answered, Outcomes
<1> QED BY <1>1, Inductive, PTL

(* "One connection carries one command": when a line arrives in one piece, *)
(* as the server's single read() expects, a client gets one reply, and it  *)
(* is the reply to the line it sent.                                       *)
THEOREM Answers == ~Split => (Spec => []ReplyAnswersRequest)
<1> DEFINE Answering ==
       \A c \in Clients : got[c] \in {<< >>, <<ReplyTo(Request[c])>>}
<1> SUFFICES ASSUME ~Split PROVE Spec => []ReplyAnswersRequest
  OBVIOUS
<1>1. Init => Answering
  BY DEF Init
<1>2. IndInv /\ Answering /\ [Next]_vars => Answering'
  <2> SUFFICES ASSUME IndInv, Answering, [Next]_vars, got' # got
               PROVE  Answering'
    OBVIOUS
  <2> DEFINE to == conn[1]
  <2>1. WriteReply
    BY DEF Next, Server, Working, Listen, Announce, Accept, Read, Invoke, Finish,
       WriteKills, CloseConn, StartFails, AcceptFails, Connect, Deliver, GiveUp, Leave,
       vars, clients
  <2>2. /\ to \in Clients /\ got[to] = << >> /\ DOMAIN got = Clients
        /\ reply = ReplyTo(Request[to])
    BY <2>1 DEF WriteReply, IndInv, Types, OnePlace, WholeLine, Serving
  <2>3. got' = [got EXCEPT ![to] = Append(@, reply)]
    BY <2>1 DEF WriteReply
  <2> HIDE DEF to
  <2>4. \A c \in Clients : got'[c] = IF c = to THEN Append(<< >>, reply) ELSE got[c]
    BY <2>2, <2>3
  <2>5. Append(<< >>, reply) = <<reply>>
    OBVIOUS
  <2> QED BY <2>2, <2>4, <2>5
<1>3. Answering => ReplyAnswersRequest
  BY DEF ReplyAnswersRequest
<1> HIDE DEF Answering
<1> QED BY <1>1, <1>2, <1>3, Inductive, PTL DEF Spec

-----------------------------------------------------------------------------
(***************************************************************************)
(* The log sink                                                            *)
(***************************************************************************)
Units == [rec : Nat, part : 1..LineLen]

SinkStates ==
    [alive : BOOLEAN, link : Links, wire : Seq(Seq(Units)), lost : SUBSET Nat,
     skip : Nat, backoff : Nat, pend : Seq(Units), fails : Nat, gap : Nat,
     cut : BOOLEAN]

(* The units on the connections w and in the buffer p.                     *)
Carried(w, p) ==
    {u \in Units : (\E j \in 1..Len(w) : Contains(w[j], u)) \/ Contains(p, u)}

(* They are in sequence, the buffer last.                                  *)
Flow(w, p, once) ==
    /\ InSequence(w, once)
    /\ \A m, n \in 1..Len(p) : m < n => Follows(p[m], p[n], once)
    /\ \A j \in 1..Len(w) : \A m \in 1..Len(w[j]), n \in 1..Len(p) :
          Follows(w[j][m], p[n], once)

(* The state s of the sink after n records.                                *)
Good(s, n) ==
    /\ s \in SinkStates
    /\ s.link # "none" => s.wire # << >>
    /\ Flow(s.wire, s.pend, ~s.cut)
    /\ s.lost \subseteq 1..n
    /\ \A u \in Carried(s.wire, s.pend) : u.rec \in 1..n
    /\ s.alive => \A r \in (1..n) \ s.lost : \A k \in 1..LineLen :
                     [rec |-> r, part |-> k] \in Carried(s.wire, s.pend)
    /\ ~s.cut => \A u \in Carried(s.wire, s.pend) : u.rec \notin s.lost

SinkInv == emitted \in Nat /\ Good(State, emitted)

-----------------------------------------------------------------------------
LEMMA Sizes == LineLen \in Nat \ {0} /\ PendMax \in Nat /\ BackoffMax \in Nat \ {0}
BY RunnerLogConstants

LEMMA LineUnits ==
    ASSUME NEW r \in Nat
    PROVE  /\ Line(r) \in Seq(Units) /\ Len(Line(r)) = LineLen
           /\ \A k \in 1..LineLen : Line(r)[k] = [rec |-> r, part |-> k]
<1>1. Line(r) \in [1..LineLen -> Units]
  BY DEF Line, Units
<1>2. Len(Line(r)) = LineLen
  BY <1>1, Sizes, LenProperties DEF Line
<1>3. Line(r) \in Seq(Units)
  BY <1>1, Sizes, SeqDef
<1> QED BY <1>2, <1>3 DEF Line

(* An element of a sequence that is carried.                               *)
LEMMA CarriedAt ==
    ASSUME NEW w \in Seq(Seq(Units)), NEW p \in Seq(Units)
    PROVE  /\ \A j \in 1..Len(w) : w[j] \in Seq(Units)
           /\ \A j \in 1..Len(w) : \A m \in 1..Len(w[j]) : w[j][m] \in Carried(w, p)
           /\ \A m \in 1..Len(p) : p[m] \in Carried(w, p)
<1>1. \A j \in 1..Len(w) : w[j] \in Seq(Units)
  BY ElementOfSeq, Zenon
<1>2. ASSUME NEW j \in 1..Len(w), NEW m \in 1..Len(w[j])
      PROVE  w[j][m] \in Carried(w, p)
  <2>1. w[j][m] \in Units
    BY <1>1, ElementOfSeq, Zenon
  <2> QED BY <2>1, Zenon DEF Carried, Contains
<1>3. ASSUME NEW m \in 1..Len(p)
      PROVE  p[m] \in Carried(w, p)
  <2>1. p[m] \in Units
    BY ElementOfSeq, Zenon
  <2> QED BY <2>1, Zenon DEF Carried, Contains
<1> QED BY <1>1, <1>2, <1>3

(* The first k units of the buffer go out on the last connection.          *)
LEMMA Moves ==
    ASSUME NEW w \in Seq(Seq(Units)), w # << >>, NEW p \in Seq(Units),
           NEW k \in 0..Len(p), NEW once, Flow(w, p, once)
    PROVE  LET w2 == [w EXCEPT ![Len(w)] = @ \o SubSeq(p, 1, k)]
               p2 == SubSeq(p, k + 1, Len(p))
           IN  /\ w2 \in Seq(Seq(Units)) /\ p2 \in Seq(Units) /\ w2 # << >>
               /\ Flow(w2, p2, once)
               /\ Carried(w2, p2) = Carried(w, p)
<1> DEFINE L == Len(w)
           a == w[L]
           c == Len(a)
           d == SubSeq(p, 1, k)
           w2 == [w EXCEPT ![Len(w)] = @ \o d]
           p2 == SubSeq(p, k + 1, Len(p))
<1>1. L \in Nat \ {0} /\ DOMAIN w = 1..L
  BY EmptySeq
<1>2. /\ a \in Seq(Units) /\ c \in Nat /\ Len(p) \in Nat
      /\ \A j \in 1..L : w[j] \in Seq(Units) /\ Len(w[j]) \in Nat
  <2>1. \A j \in 1..L : w[j] \in Seq(Units)
    BY CarriedAt, Zenon
  <2> QED BY <1>1, <2>1
<1>3. d \in Seq(Units) /\ Len(d) = k /\ \A m \in 1..k : d[m] = p[m]
  BY <1>2
<1>4. /\ p2 \in Seq(Units) /\ Len(p2) = Len(p) - k
      /\ \A m \in 1..Len(p) - k : p2[m] = p[m + k]
  BY <1>2
<1> HIDE DEF d
<1>5. /\ a \o d \in Seq(Units) /\ Len(a \o d) = c + k
      /\ \A m \in 1..c : (a \o d)[m] = a[m]
      /\ \A m \in c + 1..c + k : (a \o d)[m] = p[m - c]
  <2>1. /\ a \o d \in Seq(Units) /\ Len(a \o d) = Len(a) + Len(d)
        /\ \A m \in 1..Len(a) + Len(d) :
              (a \o d)[m] = IF m <= Len(a) THEN a[m] ELSE d[m - Len(a)]
    BY <1>2, <1>3, ConcatProperties, Zenon
  <2> HIDE DEF a
  <2>2. \A m \in c + 1..c + k : m - c \in 1..k /\ ~(m <= c) /\ m \in 1..c + k
    BY <1>2
  <2>3. \A m \in 1..c : m <= c /\ m \in 1..c + k
    BY <1>2
  <2>4. \A m \in c + 1..c + k : (a \o d)[m] = d[m - c]
    BY <1>3, <2>1, <2>2
  <2>5. \A m \in c + 1..c + k : d[m - c] = p[m - c]
    BY <1>3, <2>2
  <2> QED BY <1>3, <2>1, <2>3, <2>4, <2>5
<1>6. /\ w2 \in Seq(Seq(Units)) /\ Len(w2) = L /\ w2[L] = a \o d
      /\ \A j \in 1..L - 1 : w2[j] = w[j]
  <2> DEFINE e == a \o d
  <2>1. L \in 1..Len(w) /\ e \in Seq(Units) /\ w2 = [w EXCEPT ![L] = e]
    BY <1>1, <1>5
  <2> HIDE DEF L, e, w2
  <2>2. w2 \in Seq(Seq(Units)) /\ Len(w2) = Len(w) /\ w2[L] = e
        /\ \A j \in 1..Len(w) : j # L => w2[j] = w[j]
    BY <2>1
  <2>3. Len(w) = L
    BY DEF L
  <2>4. \A j \in 1..L - 1 : j \in 1..L /\ j # L
    BY <1>1
  <2> QED BY <2>2, <2>3, <2>4 DEF e
<1> HIDE DEF L, a, c, p2, w2
<1>7. w2 # << >>
  BY <1>1, <1>6, EmptySeq
(* Where a unit was before.                                                *)
<1>8. ASSUME NEW j \in 1..L, NEW m \in 1..Len(w2[j])
      PROVE  \/ m \in 1..Len(w[j]) /\ w2[j][m] = w[j][m]
             \/ j = L /\ m \in c + 1..c + k /\ w2[j][m] = p[m - c] /\ m - c \in 1..k
  <2>1. CASE j # L
    <3>1. j \in 1..L - 1
      BY <1>1, <2>1
    <3>2. w2[j] = w[j]
      BY <1>6, <3>1
    <3> QED BY <3>2
  <2>2. CASE j = L
    <3>1. Len(w2[j]) = c + k /\ w2[j] = a \o d
      BY <1>5, <1>6, <2>2
    <3>2. CASE m <= c
      BY <1>2, <1>5, <2>2, <3>1, <3>2 DEF a, c
    <3>3. CASE ~(m <= c)
      <4>1. m \in c + 1..c + k /\ m - c \in 1..k
        BY <1>2, <3>1, <3>3
      <4> QED BY <1>5, <2>2, <3>1, <4>1
    <3> QED BY <3>2, <3>3
  <2> QED BY <2>1, <2>2
<1>9. /\ \A i, j \in 1..L : \A m \in 1..Len(w[i]), n \in 1..Len(w[j]) :
            i < j \/ (i = j /\ m < n) => Follows(w[i][m], w[j][n], once)
      /\ \A m, n \in 1..Len(p) : m < n => Follows(p[m], p[n], once)
      /\ \A j \in 1..L : \A m \in 1..Len(w[j]), n \in 1..Len(p) :
            Follows(w[j][m], p[n], once)
  BY DEF Flow, InSequence, L
<1>10. k \in Nat /\ k <= Len(p) /\ \A m \in 1..k : m \in 1..Len(p)
  BY <1>2
<1>11. InSequence(w2, once)
  <2> SUFFICES ASSUME NEW i \in 1..L, NEW j \in 1..L,
                      NEW m \in 1..Len(w2[i]), NEW n \in 1..Len(w2[j]),
                      i < j \/ (i = j /\ m < n)
               PROVE  Follows(w2[i][m], w2[j][n], once)
    BY <1>6 DEF InSequence
  <2>1. m \in Nat /\ n \in Nat
    <3>1. Len(w2[i]) \in Nat /\ Len(w2[j]) \in Nat
      BY <1>6, CarriedAt, LenProperties, ElementOfSeq, Zenon
    <3> QED BY <3>1
  <2>2. CASE m \in 1..Len(w[i]) /\ w2[i][m] = w[i][m]
    <3>1. CASE n \in 1..Len(w[j]) /\ w2[j][n] = w[j][n]
      BY <1>9, <2>2, <3>1
    <3>2. CASE w2[j][n] = p[n - c] /\ n - c \in 1..k
      <4>1. n - c \in 1..Len(p)
        BY <1>10, <3>2
      <4> QED BY <1>9, <2>2, <3>2, <4>1, Zenon
    <3> QED BY <1>8, <3>1, <3>2
  <2>3. CASE i = L /\ m \in c + 1..c + k /\ w2[i][m] = p[m - c] /\ m - c \in 1..k
    <3>1. j = L /\ m < n
      BY <1>1, <2>3
    <3>2. n \notin 1..Len(w[j])
      BY <1>2, <2>1, <2>3, <3>1 DEF c, a
    <3>3. w2[j][n] = p[n - c] /\ n - c \in 1..k
      BY <1>8, <3>2
    <3>4. m - c < n - c /\ m - c \in 1..Len(p) /\ n - c \in 1..Len(p)
      BY <1>2, <1>10, <2>1, <2>3, <3>1, <3>3
    <3> QED BY <1>9, <2>3, <3>3, <3>4
  <2> QED BY <1>8, <2>2, <2>3
<1>12. /\ Len(p2) = Len(p) - k
       /\ \A m \in 1..Len(p2) : p2[m] = p[m + k] /\ m + k \in 1..Len(p)
  BY <1>2, <1>4, <1>10
<1>13. \A m, n \in 1..Len(p2) : m < n => Follows(p2[m], p2[n], once)
  <2> SUFFICES ASSUME NEW m \in 1..Len(p2), NEW n \in 1..Len(p2), m < n
               PROVE  Follows(p2[m], p2[n], once)
    OBVIOUS
  <2>1. m + k < n + k
    BY <1>2, <1>10, <1>12
  <2> QED BY <1>9, <1>12, <2>1
<1>14. ASSUME NEW j \in 1..L, NEW m \in 1..Len(w2[j]), NEW n \in 1..Len(p2)
       PROVE  Follows(w2[j][m], p2[n], once)
  <2>1. p2[n] = p[n + k] /\ n + k \in 1..Len(p)
    BY <1>12
  <2>2. CASE m \in 1..Len(w[j]) /\ w2[j][m] = w[j][m]
    BY <1>9, <2>1, <2>2
  <2>3. CASE w2[j][m] = p[m - c] /\ m - c \in 1..k
    <3>1. m - c \in 1..Len(p) /\ m - c < n + k
      BY <1>2, <1>10, <1>12, <2>3
    <3> QED BY <1>9, <2>1, <2>3, <3>1
  <2> QED BY <1>8, <2>2, <2>3
<1>15. Flow(w2, p2, once)
  BY <1>6, <1>11, <1>13, <1>14 DEF Flow
<1>16. Carried(w2, p2) \subseteq Carried(w, p)
  <2> SUFFICES ASSUME NEW u \in Carried(w2, p2) PROVE u \in Carried(w, p)
    OBVIOUS
  <2>1. CASE \E j \in 1..Len(w2) : Contains(w2[j], u)
    <3>1. PICK j \in 1..L : \E m \in 1..Len(w2[j]) : w2[j][m] = u
      BY <1>6, <2>1 DEF Contains
    <3>a. PICK m \in 1..Len(w2[j]) : w2[j][m] = u
      BY <3>1
    <3>2. CASE m \in 1..Len(w[j]) /\ w2[j][m] = w[j][m]
      BY <3>a, <3>2, CarriedAt, Zenon DEF L
    <3>3. CASE w2[j][m] = p[m - c] /\ m - c \in 1..k
      <4>1. m - c \in 1..Len(p)
        BY <1>10, <3>3
      <4> QED BY <3>a, <3>3, <4>1, CarriedAt, Zenon
    <3> QED BY <1>8, <3>2, <3>3
  <2>2. CASE Contains(p2, u)
    <3>1. PICK m \in 1..Len(p2) : p2[m] = u
      BY <2>2 DEF Contains
    <3> QED BY <1>12, <3>1, CarriedAt, Zenon
  <2> QED BY <2>1, <2>2 DEF Carried
<1>17. Carried(w, p) \subseteq Carried(w2, p2)
  <2> SUFFICES ASSUME NEW u \in Carried(w, p) PROVE u \in Carried(w2, p2)
    OBVIOUS
  <2>0. u \in Units
    BY DEF Carried
  <2>1. CASE \E j \in 1..Len(w) : Contains(w[j], u)
    <3>1. PICK j \in 1..L : \E m \in 1..Len(w[j]) : w[j][m] = u
      BY <2>1 DEF Contains, L
    <3>a. PICK m \in 1..Len(w[j]) : w[j][m] = u
      BY <3>1
    <3>2. m \in 1..Len(w2[j]) /\ w2[j][m] = w[j][m]
      <4>1. CASE j # L
        BY <1>1, <1>6, <4>1
      <4>2. CASE j = L
        <5>1. m \in 1..c /\ m \in 1..c + k
          BY <1>2, <1>10, <4>2 DEF c, a
        <5> QED BY <1>5, <1>6, <4>2, <5>1 DEF a
      <4> QED BY <4>1, <4>2
    <3> QED BY <1>6, <2>0, <3>a, <3>2 DEF Carried, Contains
  <2>2. CASE Contains(p, u)
    <3>1. PICK m \in 1..Len(p) : p[m] = u
      BY <2>2 DEF Contains
    <3>2. CASE m <= k
      <4>1. m + c \in c + 1..c + k /\ (m + c) - c = m /\ m + c \in 1..c + k
        BY <1>2, <1>10, <3>2
      <4>2. (a \o d)[m + c] = p[m]
        BY <1>5, <4>1
      <4>3. L \in 1..Len(w2) /\ m + c \in 1..Len(w2[L]) /\ w2[L][m + c] = u
        BY <1>1, <1>5, <1>6, <3>1, <4>1, <4>2
      <4> QED BY <2>0, <4>3 DEF Carried, Contains
    <3>3. CASE ~(m <= k)
      <4>1. m - k \in 1..Len(p2) /\ (m - k) + k = m
        BY <1>2, <1>10, <1>12, <3>3
      <4>2. p2[m - k] = u
        BY <1>12, <3>1, <4>1
      <4> QED BY <2>0, <4>1, <4>2 DEF Carried, Contains
    <3> QED BY <3>2, <3>3
  <2> QED BY <2>1, <2>2 DEF Carried
<1> QED BY <1>4, <1>6, <1>7, <1>15, <1>16, <1>17, Zenon DEF p2, w2, d, L

UnitsOf(r) == {[rec |-> r, part |-> k] : k \in 1..LineLen}

(* A whole line goes behind what is carried.                               *)
LEMMA Appends ==
    ASSUME NEW w \in Seq(Seq(Units)), NEW p \in Seq(Units), NEW r \in Nat,
           NEW once, Flow(w, p, once),
           \A u \in Carried(w, p) : u.rec < r \/ (u.rec = r /\ ~once)
    PROVE  /\ p \o Line(r) \in Seq(Units) /\ Len(p \o Line(r)) = Len(p) + LineLen
           /\ Flow(w, p \o Line(r), once)
           /\ Carried(w, p \o Line(r)) = Carried(w, p) \cup UnitsOf(r)
<1> DEFINE l == Line(r)
           c == Len(p)
           q == p \o l
<1>1. /\ l \in Seq(Units) /\ Len(l) = LineLen /\ c \in Nat /\ LineLen \in Nat
      /\ \A k \in 1..LineLen : l[k] = [rec |-> r, part |-> k]
  BY LineUnits, Sizes
<1> HIDE DEF l
<1>2. /\ q \in Seq(Units) /\ Len(q) = Len(p) + Len(l)
      /\ \A m \in 1..Len(p) + Len(l) : q[m] = IF m <= Len(p) THEN p[m] ELSE l[m - Len(p)]
  BY <1>1, ConcatProperties, Zenon
<1> HIDE DEF c, q
<1>3. Len(q) = c + LineLen
  BY <1>1, <1>2 DEF c
<1>4. ASSUME NEW m \in 1..Len(q)
      PROVE  \/ m \in 1..c /\ q[m] = p[m]
             \/ /\ m \in c + 1..c + LineLen /\ m - c \in 1..LineLen
                /\ q[m] = [rec |-> r, part |-> m - c]
  <2>1. CASE m <= c
    <3>1. m \in 1..c /\ m \in 1..Len(p) + Len(l)
      BY <1>1, <1>3, <2>1 DEF c
    <3> QED BY <1>2, <2>1, <3>1 DEF c
  <2>2. CASE ~(m <= c)
    <3>1. m \in c + 1..c + LineLen /\ m - c \in 1..LineLen /\ m \in 1..Len(p) + Len(l)
      BY <1>1, <1>3, <2>2 DEF c
    <3>2. q[m] = l[m - c]
      BY <1>2, <2>2, <3>1 DEF c
    <3> QED BY <1>1, <3>1, <3>2
  <2> QED BY <2>1, <2>2
<1>5. ASSUME NEW k \in 1..LineLen
      PROVE  k + c \in 1..Len(q) /\ q[k + c] = [rec |-> r, part |-> k]
  <2>1. k + c \in 1..Len(q) /\ (k + c) - c = k /\ k + c \notin 1..c
    BY <1>1, <1>3
  <2> QED BY <1>4, <2>1
<1>6. ASSUME NEW m \in 1..c PROVE m \in 1..Len(q) /\ q[m] = p[m]
  <2>1. m \in 1..Len(q) /\ m <= c /\ m \in 1..Len(p) + Len(l)
    BY <1>1, <1>3 DEF c
  <2> QED BY <1>2, <2>1 DEF c
<1>7. ASSUME NEW u \in Carried(w, p), NEW k \in 1..LineLen
      PROVE  Follows(u, [rec |-> r, part |-> k], once)
  BY DEF Follows
<1>8. /\ InSequence(w, once)
      /\ \A m, n \in 1..c : m < n => Follows(p[m], p[n], once)
      /\ \A j \in 1..Len(w) : \A m \in 1..Len(w[j]), n \in 1..c :
            Follows(w[j][m], p[n], once)
  BY DEF Flow, c
<1>9. \A m \in 1..c : p[m] \in Carried(w, p)
  BY CarriedAt, Zenon DEF c
<1>10. \A j \in 1..Len(w) : \A m \in 1..Len(w[j]) : w[j][m] \in Carried(w, p)
  BY CarriedAt, Zenon
<1>11. ASSUME NEW m \in 1..Len(q), NEW n \in 1..Len(q), m < n
       PROVE  Follows(q[m], q[n], once)
  <2>1. CASE n \in 1..c /\ q[n] = p[n]
    <3>1. m \in 1..c
      BY <1>1, <1>3, <1>11, <2>1
    <3> QED BY <1>6, <1>8, <1>11, <2>1, <3>1
  <2>2. CASE n - c \in 1..LineLen /\ q[n] = [rec |-> r, part |-> n - c]
    <3>1. CASE m \in 1..c /\ q[m] = p[m]
      BY <1>7, <1>9, <2>2, <3>1
    <3>2. CASE m - c \in 1..LineLen /\ q[m] = [rec |-> r, part |-> m - c]
      <4>1. m - c < n - c
        BY <1>1, <1>3, <1>11
      <4> QED BY <2>2, <3>2, <4>1 DEF Follows
    <3> QED BY <1>4, <3>1, <3>2
  <2> QED BY <1>4, <2>1, <2>2
<1>12. ASSUME NEW j \in 1..Len(w), NEW m \in 1..Len(w[j]), NEW n \in 1..Len(q)
       PROVE  Follows(w[j][m], q[n], once)
  <2>1. CASE n \in 1..c /\ q[n] = p[n]
    BY <1>8, <2>1
  <2>2. CASE n - c \in 1..LineLen /\ q[n] = [rec |-> r, part |-> n - c]
    BY <1>7, <1>10, <2>2
  <2> QED BY <1>4, <2>1, <2>2
<1>13. Flow(w, q, once)
  BY <1>8, <1>11, <1>12, Zenon DEF Flow
<1>14. ASSUME NEW u \in Units
       PROVE  Contains(q, u) <=> \/ Contains(p, u)
                                 \/ \E k \in 1..LineLen : u = [rec |-> r, part |-> k]
  <2>1. ASSUME Contains(q, u)
        PROVE  Contains(p, u) \/ \E k \in 1..LineLen : u = [rec |-> r, part |-> k]
    <3>1. PICK m \in 1..Len(q) : q[m] = u
      BY <2>1 DEF Contains
    <3> QED BY <1>4, <3>1 DEF Contains, c
  <2>2. ASSUME Contains(p, u) PROVE Contains(q, u)
    BY <1>6, <2>2 DEF Contains, c
  <2>3. ASSUME NEW k \in 1..LineLen, u = [rec |-> r, part |-> k] PROVE Contains(q, u)
    BY <1>5, <2>3 DEF Contains
  <2> QED BY <2>1, <2>2, <2>3
<1>15. \A k \in 1..LineLen : [rec |-> r, part |-> k] \in Units
  BY DEF Units
<1>16. Carried(w, q) = Carried(w, p) \cup UnitsOf(r)
  BY <1>14, <1>15 DEF Carried, UnitsOf
<1> QED BY <1>2, <1>3, <1>13, <1>16 DEF q, c, l

-----------------------------------------------------------------------------
(***************************************************************************)
(* The helpers of log_sink_emit                                            *)
(***************************************************************************)
(* A state in which the record after the nth is about to be buffered; some *)
(* of its units may be out already, when the line was cut.                 *)
Ready(s, n) ==
    /\ s \in SinkStates
    /\ s.link # "none" => s.wire # << >>
    /\ Flow(s.wire, s.pend, ~s.cut)
    /\ s.lost \subseteq 1..n
    /\ \A u \in Carried(s.wire, s.pend) : u.rec \in 1..n \/ (s.cut /\ u.rec = n + 1)
    /\ s.alive => \A r \in (1..n) \ s.lost : \A k \in 1..LineLen :
                     [rec |-> r, part |-> k] \in Carried(s.wire, s.pend)
    /\ ~s.cut => \A u \in Carried(s.wire, s.pend) : u.rec \notin s.lost

LEMMA GoodIsReady ==
    ASSUME NEW n \in Nat, NEW s, Good(s, n)
    PROVE  Ready(s, n)
BY DEF Good, Ready

LEMMA LogPendGood ==
    ASSUME NEW n \in Nat, NEW s, Ready(s, n)
    PROVE  Good(LogPend(s, Line(n + 1)), n + 1)
<1> DEFINE l == Line(n + 1)
           t == LogPend(s, l)
<1>1. /\ s \in SinkStates /\ n + 1 \in Nat /\ s.wire \in Seq(Seq(Units))
      /\ s.pend \in Seq(Units) /\ (~s.cut) \in BOOLEAN
  BY DEF Ready, SinkStates
<1>2. /\ l \in Seq(Units) /\ Len(l) = LineLen /\ LineLen \in Nat \ {0}
      /\ l[1].rec = n + 1
  <2>1. 1 \in 1..LineLen /\ n + 1 \in Nat
    BY Sizes
  <2>2. /\ l \in Seq(Units) /\ Len(l) = LineLen
        /\ l[1] = [rec |-> n + 1, part |-> 1]
    BY <2>1, LineUnits, Zenon
  <2> QED BY <2>2, Sizes
<1>3. \A u \in Carried(s.wire, s.pend) : u.rec < n + 1 \/ (u.rec = n + 1 /\ s.cut)
  BY DEF Ready
<1> HIDE DEF l
<1>4. CASE Len(s.pend) + Len(l) > PendMax
  <2>1. t = [s EXCEPT !.lost = @ \cup {n + 1}]
    BY <1>2, <1>4 DEF LogPend
  <2>2. /\ t \in SinkStates /\ t.lost = s.lost \cup {n + 1}
        /\ t.wire = s.wire /\ t.pend = s.pend /\ t.cut = s.cut
        /\ t.alive = s.alive /\ t.link = s.link
    <3>1. s.lost \cup {n + 1} \in SUBSET Nat
      BY <1>1 DEF SinkStates
    <3> HIDE DEF t
    <3> QED BY <1>1, <2>1, <3>1 DEF SinkStates
  <2> HIDE DEF t
  <2>3. t.lost \subseteq 1..n + 1
    BY <2>2 DEF Ready
  <2>4. \A u \in Carried(s.wire, s.pend) : u.rec \in 1..n + 1
    BY DEF Ready
  <2>5. ASSUME t.alive, NEW r \in (1..n + 1) \ t.lost, NEW k \in 1..LineLen
        PROVE  [rec |-> r, part |-> k] \in Carried(t.wire, t.pend)
    <3>1. r \in (1..n) \ s.lost
      BY <2>2, <2>5
    <3> QED BY <2>2, <2>5, <3>1 DEF Ready
  <2>6. ASSUME ~t.cut, NEW u \in Carried(t.wire, t.pend)
        PROVE  u.rec \notin t.lost
    <3>1. u.rec \in 1..n /\ u.rec \notin s.lost
      BY <2>2, <2>6 DEF Ready
    <3> QED BY <2>2, <3>1
  <2>7. t.link # "none" => t.wire # << >>
    BY <2>2 DEF Ready
  <2>8. Flow(t.wire, t.pend, ~t.cut)
    BY <2>2 DEF Ready
  <2> QED BY <2>2, <2>3, <2>4, <2>5, <2>6, <2>7, <2>8, Zenon DEF Good, t, l
<1>5. CASE ~(Len(s.pend) + Len(l) > PendMax)
  <2> DEFINE q == s.pend \o l
             new == UnitsOf(n + 1)
  <2>1. /\ q \in Seq(Units)
        /\ Flow(s.wire, q, ~s.cut)
        /\ Carried(s.wire, q) = Carried(s.wire, s.pend) \cup new
    <3> DEFINE o == ~s.cut
               w == s.wire
               p == s.pend
               r == n + 1
    <3>1. /\ w \in Seq(Seq(Units)) /\ p \in Seq(Units) /\ r \in Nat
          /\ o \in BOOLEAN /\ Flow(w, p, o)
          /\ \A u \in Carried(w, p) : u.rec < r \/ (u.rec = r /\ ~o)
      BY <1>1, <1>3 DEF Ready
    <3> HIDE DEF o, w, p, r
    <3>2. /\ p \o Line(r) \in Seq(Units) /\ Flow(w, p \o Line(r), o)
          /\ Carried(w, p \o Line(r)) = Carried(w, p) \cup UnitsOf(r)
      BY <3>1, Appends, Zenon
    <3> QED BY <3>2 DEF o, w, p, r, l
  <2>2. t = [s EXCEPT !.pend = q]
    BY <1>5 DEF LogPend
  <2> HIDE DEF q
  <2>3. /\ t \in SinkStates /\ t.lost = s.lost
        /\ t.wire = s.wire /\ t.pend = q /\ t.cut = s.cut
        /\ t.alive = s.alive /\ t.link = s.link
    BY <1>1, <2>1, <2>2 DEF SinkStates
  <2> HIDE DEF t
  <2>4. \A u \in new : u.rec = n + 1
    BY DEF UnitsOf
  <2>5. \A k \in 1..LineLen : [rec |-> n + 1, part |-> k] \in new
    BY DEF UnitsOf
  <2> HIDE DEF new
  <2>6. Carried(t.wire, t.pend) = Carried(s.wire, s.pend) \cup new
    BY <2>1, <2>3
  <2>7. t.lost \subseteq 1..n + 1
    BY <2>3 DEF Ready
  <2>8. ASSUME NEW u \in Carried(t.wire, t.pend) PROVE u.rec \in 1..n + 1
    BY <2>4, <2>6 DEF Ready
  <2>9. ASSUME t.alive, NEW r \in (1..n + 1) \ t.lost, NEW k \in 1..LineLen
        PROVE  [rec |-> r, part |-> k] \in Carried(t.wire, t.pend)
    <3>1. CASE r = n + 1
      BY <2>5, <2>6, <3>1
    <3>2. CASE r # n + 1
      <4>1. r \in (1..n) \ s.lost
        BY <2>3, <2>9, <3>2
      <4> QED BY <2>3, <2>6, <2>9, <4>1 DEF Ready
    <3> QED BY <3>1, <3>2
  <2>10. ASSUME ~t.cut, NEW u \in Carried(t.wire, t.pend)
         PROVE  u.rec \notin t.lost
    <3>1. n + 1 \notin s.lost
      BY DEF Ready
    <3> QED BY <2>3, <2>4, <2>6, <2>10, <3>1 DEF Ready
  <2>11. t.link # "none" => t.wire # << >>
    BY <2>3 DEF Ready
  <2>12. Flow(t.wire, t.pend, ~t.cut)
    BY <2>1, <2>3
  <2> QED BY <2>3, <2>7, <2>8, <2>9, <2>10, <2>11, <2>12, Zenon DEF Good, t, l
<1> QED BY <1>4, <1>5

LEMMA WidenReady ==
    ASSUME NEW n \in Nat, NEW s, Ready(s, n)
    PROVE  Ready(Widen(s), n) /\ Ready(LogSinkDrop(s), n)
<1>1. ASSUME NEW t \in SinkStates
      PROVE  /\ Widen(t) \in SinkStates
             /\ Widen(t).lost = t.lost /\ Widen(t).wire = t.wire
             /\ Widen(t).pend = t.pend /\ Widen(t).cut = t.cut
             /\ Widen(t).alive = t.alive /\ Widen(t).link = t.link
  <2>1. t.backoff \in Nat /\ t.fails + 1 \in Nat /\ 2 * t.backoff \in Nat
    BY DEF SinkStates
  <2>2. (IF t.backoff < BackoffMax THEN 2 * t.backoff ELSE t.backoff) \in Nat
    BY <2>1
  <2> QED BY <2>1, <2>2 DEF Widen, SinkStates
<1> DEFINE d == [s EXCEPT !.link = "none"]
<1>2. s \in SinkStates
  BY DEF Ready
<1>3. /\ d \in SinkStates /\ d.lost = s.lost /\ d.wire = s.wire /\ d.pend = s.pend
      /\ d.cut = s.cut /\ d.alive = s.alive /\ d.link = "none"
  BY <1>2 DEF SinkStates, Links
<1>4. LogSinkDrop(s) = Widen(d)
  BY DEF LogSinkDrop
<1>5. Ready(Widen(s), n)
  BY <1>1, <1>2 DEF Ready
<1> HIDE DEF d
<1>6. Ready(Widen(d), n)
  BY <1>1, <1>3 DEF Ready
<1> QED BY <1>4, <1>5, <1>6

LEMMA FailedGood ==
    ASSUME NEW n \in Nat, NEW s, Ready(s, n), NEW why
    PROVE  Good(Failed(s, why, Line(n + 1)), n + 1)
<1>1. CASE why = "wouldblock"
  BY <1>1, LogPendGood DEF Failed
<1>2. CASE why # "wouldblock"
  BY <1>2, WidenReady, LogPendGood DEF Failed
<1> QED BY <1>1, <1>2

LEMMA KilledGood ==
    ASSUME NEW n \in Nat, NEW s, Good(s, n)
    PROVE  Good(Killed(s), n + 1)
<1> DEFINE t == Killed(s)
<1>1. s \in SinkStates
  BY DEF Good
<1>2. /\ t \in SinkStates /\ t.lost = s.lost /\ t.wire = s.wire /\ t.pend = s.pend
      /\ t.cut = s.cut /\ ~t.alive /\ t.link = s.link
  BY <1>1 DEF SinkStates, Killed
<1> HIDE DEF t
<1>3. Good(t, n + 1)
  BY <1>2 DEF Good
<1> QED BY <1>3 DEF t

(* write(2): it takes a part of the data, or nothing.                      *)
LEMMA WriteCases ==
    ASSUME NEW s, s.link \in Links \ {"none"}, NEW data, Len(data) \in Nat \ {0},
           NEW r \in Write(s, data)
    PROVE  \/ \E why \in {"wouldblock", "hard", "sigpipe"} :
                 r = [s |-> s, w |-> 0, err |-> why]
           \/ \E k \in 1..Len(data) :
                 r = [s |-> Took(s, data, k), w |-> k, err |-> "none"]
<1> DEFINE full == [s |-> Took(s, data, Len(data)), w |-> Len(data), err |-> "none"]
           fails(why) == [s |-> s, w |-> 0, err |-> why]
<1>1. CASE s.link = "connecting"
  BY <1>1 DEF Write
<1>2. CASE s.link \in {"refused", "reset"}
  BY <1>2 DEF Write
<1>3. CASE s.link = "dead"
  BY <1>3 DEF Write
<1>4. CASE s.link \in {"fin", "doomed"}
  BY <1>4 DEF Write
<1>5. CASE s.link = "up"
  <2>1. r \in {full} \cup
               (IF ShortWrites
                THEN {fails("wouldblock")} \cup
                     {[s |-> Took(s, data, n), w |-> n, err |-> "none"] :
                         n \in 1..Len(data) - 1}
                ELSE {})
    BY <1>5 DEF Write
  <2>2. CASE r \in {full, fails("wouldblock")}
    BY <2>2
  <2>3. CASE \E n \in 1..Len(data) - 1 :
                r = [s |-> Took(s, data, n), w |-> n, err |-> "none"]
    BY <2>3
  <2> QED BY <2>1, <2>2, <2>3
<1> QED BY <1>1, <1>2, <1>3, <1>4, <1>5 DEF Links

Out(w, data, k) == [w EXCEPT ![Len(w)] = @ \o SubSeq(data, 1, k)]

LEMMA TookFields ==
    ASSUME NEW s \in SinkStates, NEW data, NEW k \in Nat,
           Out(s.wire, data, k) \in Seq(Seq(Units))
    PROVE  /\ Took(s, data, k) \in SinkStates
           /\ Took(s, data, k).wire = Out(s.wire, data, k)
           /\ Took(s, data, k).pend = s.pend /\ Took(s, data, k).lost = s.lost
           /\ Took(s, data, k).cut = s.cut /\ Took(s, data, k).alive = s.alive
           /\ s.link # "none" => Took(s, data, k).link # "none"
<1> DEFINE w2 == Out(s.wire, data, k)
<1>1. Took(s, data, k) = [s EXCEPT !.wire = w2,
                                   !.link = IF @ = "fin" THEN "doomed" ELSE @,
                                   !.fails = IF k > 0 THEN 0 ELSE @]
  BY DEF Took, Out
<1>2. /\ (IF s.link = "fin" THEN "doomed" ELSE s.link) \in Links
      /\ (IF k > 0 THEN 0 ELSE s.fails) \in Nat
      /\ w2 \in Seq(Seq(Units))
  BY DEF SinkStates, Links
<1> HIDE DEF w2
<1>3. /\ Took(s, data, k) \in SinkStates /\ Took(s, data, k).wire = w2
      /\ Took(s, data, k).pend = s.pend /\ Took(s, data, k).lost = s.lost
      /\ Took(s, data, k).cut = s.cut /\ Took(s, data, k).alive = s.alive
      /\ s.link # "none" => Took(s, data, k).link # "none"
  BY <1>1, <1>2 DEF SinkStates
<1> QED BY <1>3 DEF w2

(* A part of the buffer is flushed.                                        *)
LEMMA FlushedGood ==
    ASSUME NEW n \in Nat, NEW s, Good(s, n), s.link # "none", NEW k \in 1..Len(s.pend)
    PROVE  LET t == [Took(s, s.pend, k) EXCEPT !.pend = SubSeq(@, k + 1, Len(@))]
           IN  /\ Good(t, n) /\ t.link # "none"
               /\ t.pend = SubSeq(s.pend, k + 1, Len(s.pend))
<1> DEFINE w == s.wire
           p == s.pend
           w2 == [w EXCEPT ![Len(w)] = @ \o SubSeq(p, 1, k)]
           p2 == SubSeq(p, k + 1, Len(p))
           u == Took(s, p, k)
           t == [u EXCEPT !.pend = SubSeq(@, k + 1, Len(@))]
<1>1. /\ s \in SinkStates /\ w \in Seq(Seq(Units)) /\ p \in Seq(Units)
      /\ k \in 0..Len(p) /\ w # << >> /\ Flow(w, p, ~s.cut) /\ k \in Nat
  BY DEF Good, SinkStates
<1>2. /\ w2 \in Seq(Seq(Units)) /\ p2 \in Seq(Units) /\ w2 # << >>
      /\ Flow(w2, p2, ~s.cut)
      /\ Carried(w2, p2) = Carried(w, p)
  BY <1>1, Moves, Zenon
<1> HIDE DEF w2, p2
<1>3. /\ u \in SinkStates /\ u.wire = w2 /\ u.pend = p
      /\ u.lost = s.lost /\ u.cut = s.cut /\ u.alive = s.alive /\ u.link # "none"
  <2>1. Out(s.wire, s.pend, k) = w2
    BY DEF w2, Out
  <2>2. Out(s.wire, s.pend, k) \in Seq(Seq(Units))
    BY <1>2, <2>1
  <2>3. /\ u \in SinkStates /\ u.wire = Out(s.wire, s.pend, k) /\ u.pend = s.pend
        /\ u.lost = s.lost /\ u.cut = s.cut /\ u.alive = s.alive
        /\ s.link # "none" => u.link # "none"
    BY <1>1, <2>2, TookFields
  <2> QED BY <2>1, <2>3
<1> HIDE DEF u
<1>4. /\ t \in SinkStates /\ t.wire = w2 /\ t.pend = p2
      /\ t.lost = s.lost /\ t.cut = s.cut /\ t.alive = s.alive /\ t.link # "none"
  <2>1. t = [u EXCEPT !.pend = p2]
    BY <1>3 DEF p2, SinkStates
  <2> HIDE DEF t
  <2> QED BY <1>2, <1>3, <2>1 DEF SinkStates
<1> HIDE DEF t
<1>5. Good(t, n)
  BY <1>2, <1>4 DEF Good
<1> QED BY <1>4, <1>5 DEF t, u, p2

(* The new line goes out, whole or in part.                                *)
LEMMA LineOut ==
    ASSUME NEW n \in Nat, NEW s, Good(s, n), s.link # "none", s.pend = << >>,
           NEW k \in 1..LineLen
    PROVE  LET t == Took(s, Line(n + 1), k)
           IN  /\ k = LineLen => Good(t, n + 1)
               /\ Ready([t EXCEPT !.cut = TRUE], n)
<1> DEFINE l == Line(n + 1)
           w == s.wire
           w2 == Out(w, l, k)
           p2 == SubSeq(l, k + 1, Len(l))
           t == Took(s, l, k)
           new == UnitsOf(n + 1)
<1>1. /\ s \in SinkStates /\ w \in Seq(Seq(Units)) /\ n + 1 \in Nat
      /\ k \in Nat /\ w # << >> /\ Flow(w, << >>, ~s.cut) /\ (~s.cut) \in BOOLEAN
  BY Sizes DEF Good, SinkStates
<1>2. /\ l \in Seq(Units) /\ Len(l) = LineLen
      /\ \A i \in 1..LineLen : l[i] = [rec |-> n + 1, part |-> i]
  BY <1>1, LineUnits
<1>3. \A u \in Carried(w, << >>) : u.rec \in 1..n
  BY DEF Good
<1> HIDE DEF w
<1>4. Flow(w, l, ~s.cut) /\ Carried(w, l) = Carried(w, << >>) \cup new
  <2>1. << >> \in Seq(Units) /\ << >> \o l = l
    BY <1>2, ConcatEmptySeq, EmptySeq
  <2>2. \A u \in Carried(w, << >>) : u.rec < n + 1 \/ (u.rec = n + 1 /\ ~(~s.cut))
    BY <1>3
  <2>3. /\ Flow(w, << >> \o Line(n + 1), ~s.cut)
        /\ Carried(w, << >> \o Line(n + 1)) = Carried(w, << >>) \cup new
    <3> DEFINE o == ~s.cut
               q == << >>
               r == n + 1
    <3>1. /\ w \in Seq(Seq(Units)) /\ q \in Seq(Units) /\ r \in Nat /\ Flow(w, q, o)
          /\ \A u \in Carried(w, q) : u.rec < r \/ (u.rec = r /\ ~o)
      BY <1>1, <2>1, <2>2
    <3> HIDE DEF o, q, r
    <3>2. /\ Flow(w, q \o Line(r), o)
          /\ Carried(w, q \o Line(r)) = Carried(w, q) \cup UnitsOf(r)
      BY <3>1, Appends, Zenon
    <3> QED BY <3>2 DEF o, q, r
  <2> QED BY <2>1, <2>3
<1> HIDE DEF l
<1>5. k \in 0..Len(l)
  BY <1>2, Sizes
<1>6. /\ w2 \in Seq(Seq(Units)) /\ p2 \in Seq(Units) /\ w2 # << >>
      /\ Flow(w2, p2, ~s.cut) /\ Carried(w2, p2) = Carried(w, l)
  <2> HIDE DEF new
  <2>1. l \in Seq(Units) /\ Flow(w, l, ~s.cut)
    BY <1>2, <1>4
  <2> QED BY <1>1, <1>5, <2>1, Moves, Zenon DEF Out
<1> HIDE DEF w2
<1>7. /\ t \in SinkStates /\ t.wire = w2 /\ t.pend = << >>
      /\ t.lost = s.lost /\ t.cut = s.cut /\ t.alive = s.alive /\ t.link # "none"
  BY <1>1, <1>6, TookFields DEF w2, w
<1> HIDE DEF t, p2
<1>8. ASSUME NEW u \in Units, Contains(p2, u) PROVE u \in new /\ k < LineLen
  <2>1. PICK m \in 1..Len(p2) : p2[m] = u
    BY <1>8 DEF Contains
  <2>2. Len(p2) = LineLen - k /\ p2[m] = l[m + k] /\ m + k \in 1..LineLen /\ k < LineLen
    BY <1>2, <1>5, <2>1, Sizes DEF p2
  <2> QED BY <1>2, <2>1, <2>2 DEF UnitsOf
<1>9. \A u \in new : u.rec = n + 1
  BY DEF UnitsOf
<1>10. ASSUME NEW i \in 1..LineLen PROVE [rec |-> n + 1, part |-> i] \in new
  BY DEF UnitsOf
<1> HIDE DEF new
<1>11. Flow(w2, << >>, ~s.cut) /\ Flow(w2, << >>, FALSE)
  <2>1. InSequence(w2, ~s.cut)
    BY <1>6 DEF Flow
  <2>2. InSequence(w2, FALSE)
    BY <2>1 DEF InSequence, Follows
  <2>3. 1..Len(<< >>) = {}
    BY EmptySeq
  <2> QED BY <2>1, <2>2, <2>3 DEF Flow
<1>12. Carried(w2, << >>) \subseteq Carried(w, << >>) \cup new
  <2>1. \A u : ~Contains(<< >>, u)
    BY EmptySeq DEF Contains
  <2> QED BY <1>4, <1>6, <2>1 DEF Carried
<1>13. Carried(w, << >>) \subseteq Carried(w2, << >>)
  <2> SUFFICES ASSUME NEW u \in Carried(w, << >>) PROVE u \in Carried(w2, << >>)
    OBVIOUS
  <2>1. u \in Units /\ u.rec \in 1..n
    BY <1>3 DEF Carried
  <2>2. u \notin new
    BY <1>9, <2>1
  <2>3. u \in Carried(w2, p2) /\ ~Contains(p2, u)
    BY <1>4, <1>6, <1>8, <2>1, <2>2
  <2> QED BY <2>3 DEF Carried
<1>14. ASSUME k = LineLen PROVE new \subseteq Carried(w2, << >>)
  <2> SUFFICES ASSUME NEW u \in new PROVE u \in Carried(w2, << >>)
    OBVIOUS
  <2>1. u \in Carried(w2, p2)
    BY <1>4, <1>6
  <2>2. u \in Units
    BY <2>1 DEF Carried
  <2>3. ~Contains(p2, u)
    BY <1>8, <1>14, <2>2, Sizes
  <2> QED BY <2>1, <2>3 DEF Carried
<1>15. /\ s.lost \subseteq 1..n
       /\ s.alive => \A r \in (1..n) \ s.lost : \A i \in 1..LineLen :
             [rec |-> r, part |-> i] \in Carried(w2, << >>)
       /\ ~s.cut => \A u \in Carried(w, << >>) : u.rec \notin s.lost
  BY <1>13 DEF Good, w
<1>16. ASSUME k = LineLen PROVE Good(t, n + 1)
  <2>1. ASSUME NEW u \in Carried(w2, << >>) PROVE u.rec \in 1..n + 1
    BY <1>3, <1>9, <1>12
  <2>2. ASSUME s.alive, NEW r \in (1..n + 1) \ s.lost, NEW i \in 1..LineLen
        PROVE  [rec |-> r, part |-> i] \in Carried(w2, << >>)
    <3>1. CASE r = n + 1
      BY <1>10, <1>14, <1>16, <3>1
    <3>2. CASE r # n + 1
      <4>1. r \in (1..n) \ s.lost
        BY <2>2, <3>2
      <4> QED BY <1>15, <2>2, <4>1
    <3> QED BY <3>1, <3>2
  <2>3. ASSUME ~s.cut, NEW u \in Carried(w2, << >>)
        PROVE  u.rec \notin s.lost
    <3>1. CASE u \in Carried(w, << >>)
      BY <1>15, <2>3, <3>1
    <3>2. CASE u \in new
      BY <1>9, <1>15, <3>2
    <3> QED BY <1>12, <3>1, <3>2
  <2>4. s.lost \subseteq 1..n + 1
    BY <1>15
  <2> QED BY <1>6, <1>7, <1>11, <2>1, <2>2, <2>3, <2>4 DEF Good
<1>17. Ready([t EXCEPT !.cut = TRUE], n)
  <2> DEFINE v == [t EXCEPT !.cut = TRUE]
  <2>1. /\ v \in SinkStates /\ v.wire = w2 /\ v.pend = << >>
        /\ v.lost = s.lost /\ v.cut /\ v.alive = s.alive /\ v.link # "none"
    BY <1>7 DEF SinkStates
  <2> HIDE DEF v
  <2>2. ASSUME NEW u \in Carried(w2, << >>) PROVE u.rec \in 1..n \/ u.rec = n + 1
    BY <1>3, <1>9, <1>12
  <2>3. Flow(v.wire, v.pend, ~v.cut)
    <3>1. (~v.cut) = FALSE
      BY <2>1
    <3> QED BY <1>11, <2>1, <3>1
  <2>4. Ready(v, n)
    BY <1>6, <1>15, <2>1, <2>2, <2>3 DEF Ready
  <2> QED BY <2>4 DEF v
<1> QED BY <1>16, <1>17 DEF t, l

(* The end of log_sink_emit, with nothing left in the buffer.              *)
LEMMA WriteLineGood ==
    ASSUME NEW n \in Nat, NEW s, Good(s, n), s.link # "none", s.pend = << >>,
           NEW t \in WriteLine(s, Line(n + 1))
    PROVE  Good(t, n + 1)
<1> DEFINE l == Line(n + 1)
<1>1. Len(l) = LineLen /\ LineLen \in Nat \ {0} /\ s \in SinkStates
      /\ s.link \in Links \ {"none"} /\ s.cut \in BOOLEAN
  <2>1. n + 1 \in Nat
    OBVIOUS
  <2> QED BY <2>1, LineUnits, Sizes DEF Good, SinkStates
<1> HIDE DEF l
<1>2. PICK r \in Write(s, l) :
        t \in IF r.w = Len(l) THEN {r.s}
              ELSE IF r.err = "sigpipe" THEN {Killed(r.s)}
              ELSE {Failed([r.s EXCEPT !.cut = @ \/ r.w > 0], why, l) :
                       why \in IF r.w > 0 THEN {"wouldblock", "hard"} ELSE {r.err}}
  BY Zenon DEF WriteLine, l
<1>3. CASE \E why \in {"wouldblock", "hard", "sigpipe"} :
              r = [s |-> s, w |-> 0, err |-> why]
  <2>1. r.s = s /\ r.w = 0 /\ r.w # Len(l)
    BY <1>1, <1>3
  <2>2. CASE r.err = "sigpipe"
    <3>1. t = Killed(s)
      BY <1>2, <2>1, <2>2
    <3> QED BY <3>1, KilledGood
  <2>3. CASE r.err # "sigpipe"
    <3>1. [s EXCEPT !.cut = @ \/ r.w > 0] = s
      <4>1. (s.cut \/ r.w > 0) = s.cut
        BY <1>1, <2>1
      <4> QED BY <1>1, <4>1 DEF SinkStates
    <3>2. t = Failed(s, r.err, l)
      BY <1>2, <2>1, <2>3, <3>1
    <3> QED BY <3>2, GoodIsReady, FailedGood DEF l
  <2> QED BY <2>2, <2>3
<1>4. ASSUME NEW k \in 1..LineLen, r = [s |-> Took(s, l, k), w |-> k, err |-> "none"]
      PROVE  Good(t, n + 1)
  <2>1. r.s = Took(s, l, k) /\ r.w = k /\ r.err = "none" /\ r.w > 0
    BY <1>4
  <2>2. /\ k = LineLen => Good(Took(s, l, k), n + 1)
        /\ Ready([Took(s, l, k) EXCEPT !.cut = TRUE], n)
    BY LineOut DEF l
  <2>3. CASE k = LineLen
    BY <1>1, <1>2, <2>1, <2>2, <2>3
  <2>4. CASE k # LineLen
    <3>1. PICK why \in {"wouldblock", "hard"} :
            t = Failed([r.s EXCEPT !.cut = @ \/ r.w > 0], why, l)
      BY <1>1, <1>2, <2>1, <2>4
    <3>2. [r.s EXCEPT !.cut = @ \/ r.w > 0] = [Took(s, l, k) EXCEPT !.cut = TRUE]
      BY <2>1
    <3> QED BY <2>2, <3>1, <3>2, FailedGood DEF l
  <2> QED BY <2>3, <2>4
<1> QED BY <1>1, <1>3, <1>4, WriteCases

LEMMA FlushAndWriteGood ==
    ASSUME NEW n \in Nat, NEW s, Good(s, n), s.link # "none",
           NEW t \in FlushAndWrite(s, Line(n + 1))
    PROVE  Good(t, n + 1)
<1> DEFINE l == Line(n + 1)
           p == s.pend
           c == Len(p)
           rest(k) == SubSeq(p, k + 1, c)
           out(k) == [Took(s, p, k) EXCEPT !.pend = SubSeq(@, k + 1, Len(@))]
<1>1. CASE s.pend = << >>
  BY <1>1, WriteLineGood DEF FlushAndWrite
<1>2. CASE s.pend # << >>
  <2>1. /\ s \in SinkStates /\ s.link \in Links \ {"none"}
        /\ p \in Seq(Units) /\ c \in Nat \ {0}
    BY <1>2, EmptySeq DEF Good, SinkStates
  <2> HIDE DEF l
  <2>2. PICK r \in Write(s, p) :
          t \in IF r.w = c THEN WriteLine([r.s EXCEPT !.pend = << >>], l)
                ELSE IF r.w > 0
                     THEN {LogPend([r.s EXCEPT !.pend = SubSeq(@, r.w + 1, Len(@))], l)}
                ELSE IF r.err = "sigpipe" THEN {Killed(r.s)}
                ELSE {Failed(r.s, r.err, l)}
    BY <1>2, Zenon DEF FlushAndWrite, l
  <2>3. CASE \E why \in {"wouldblock", "hard", "sigpipe"} :
                r = [s |-> s, w |-> 0, err |-> why]
    <3>1. r.s = s /\ r.w = 0 /\ r.w # c /\ ~(r.w > 0)
      BY <2>1, <2>3
    <3>2. CASE r.err = "sigpipe"
      <4>1. t = Killed(s)
        BY <2>2, <3>1, <3>2
      <4> QED BY <4>1, KilledGood
    <3>3. CASE r.err # "sigpipe"
      <4>1. t = Failed(s, r.err, l)
        BY <2>2, <3>1, <3>3
      <4> QED BY <4>1, GoodIsReady, FailedGood DEF l
    <3> QED BY <3>2, <3>3
  <2>4. ASSUME NEW k \in 1..c, r = [s |-> Took(s, p, k), w |-> k, err |-> "none"]
        PROVE  Good(t, n + 1)
    <3>1. r.s = Took(s, p, k) /\ r.w = k /\ r.w > 0
      BY <2>1, <2>4
    <3>2. Good(out(k), n) /\ out(k).link # "none" /\ out(k).pend = rest(k)
      BY FlushedGood
    <3>3. CASE k = c
      <4>1. rest(k) = << >>
        BY <2>1, <3>3
      <4>2. [r.s EXCEPT !.pend = << >>] = out(k)
        <5>1. SubSeq(Took(s, p, k).pend, k + 1, Len(Took(s, p, k).pend)) = << >>
          <6>1. out(k).pend = << >> /\ out(k) \in SinkStates
            BY <3>2, <4>1 DEF Good
          <6>2. "pend" \in DOMAIN Took(s, p, k)
            BY <6>1 DEF SinkStates
          <6> QED BY <6>1, <6>2
        <5> QED BY <3>1, <5>1
      <4> HIDE DEF out
      <4>3. t \in WriteLine(out(k), l)
        BY <2>2, <3>1, <3>3, <4>2
      <4> QED BY <3>2, <4>1, <4>3, WriteLineGood DEF l
    <3>4. CASE k # c
      <4>1. t = LogPend(out(k), l)
        BY <2>2, <3>1, <3>4
      <4> QED BY <3>2, <4>1, GoodIsReady, LogPendGood DEF l
    <3> QED BY <3>3, <3>4
  <2> QED BY <2>1, <2>3, <2>4, WriteCases
<1> QED BY <1>1, <1>2

-----------------------------------------------------------------------------
(***************************************************************************)
(* The steps                                                               *)
(***************************************************************************)
LEMMA NothingYet ==
    /\ << >> \in Seq(Seq(Units)) /\ << >> \in Seq(Units)
    /\ Carried(<< >>, << >>) = {}
    /\ \A once : Flow(<< >>, << >>, once)
<1>1. Len(<< >>) = 0 /\ 1..Len(<< >>) = {} /\ \A S : << >> \in Seq(S)
  BY EmptySeq
<1>2. \A u : ~Contains(<< >>, u)
  BY <1>1 DEF Contains
<1>3. \A once : InSequence(<< >>, once)
  BY <1>1 DEF InSequence
<1>4. Carried(<< >>, << >>) = {}
  BY <1>1, <1>2 DEF Carried
<1> QED BY <1>1, <1>3, <1>4 DEF Flow

LEMMA SinkStarts == SinkInit => SinkInv
<1> SUFFICES ASSUME SinkInit PROVE SinkInv
  OBVIOUS
<1>1. /\ State.alive /\ State.link = "none" /\ State.wire = << >>
      /\ State.lost = {} /\ State.pend = << >> /\ State.cut = FALSE
      /\ State.skip = 0 /\ State.backoff = 1
      /\ State.fails = 0 /\ State.gap = 0
      /\ emitted = 0
  BY DEF SinkInit, State
<1>2. State \in SinkStates
  BY NothingYet DEF SinkInit, State, SinkStates, Links
<1>3. /\ Flow(State.wire, State.pend, ~State.cut)
      /\ Carried(State.wire, State.pend) = {}
  BY <1>1, NothingYet
<1>4. 1..emitted = {}
  BY <1>1
<1> QED BY <1>1, <1>2, <1>3, <1>4 DEF SinkInv, Good

(* A connection that took nothing yet.                                     *)
LEMMA ConnectsGood ==
    ASSUME NEW n \in Nat, NEW s, Good(s, n)
    PROVE  LET t == [s EXCEPT !.link = "connecting", !.wire = Append(@, << >>),
                              !.backoff = 1]
           IN  Good(t, n) /\ t.link # "none"
<1> DEFINE w == s.wire
           p == s.pend
           w2 == Append(w, << >>)
           L == Len(w)
           t == [s EXCEPT !.link = "connecting", !.wire = Append(@, << >>),
                          !.backoff = 1]
<1>1. s \in SinkStates /\ w \in Seq(Seq(Units)) /\ p \in Seq(Units) /\ L \in Nat
  BY DEF Good, SinkStates
<1>2. /\ w2 \in Seq(Seq(Units)) /\ Len(w2) = L + 1 /\ w2[L + 1] = << >>
      /\ \A j \in 1..L : w2[j] = w[j]
  <2>1. << >> \in Seq(Units)
    BY EmptySeq
  <2> QED BY <1>1, <2>1
<1>3. t = [s EXCEPT !.link = "connecting", !.wire = w2, !.backoff = 1]
  BY <1>1 DEF SinkStates
<1> HIDE DEF w2, L, t
<1>4. w2 # << >>
  BY <1>1, <1>2, EmptySeq
<1>5. /\ t \in SinkStates /\ t.link = "connecting" /\ t.wire = w2 /\ t.pend = p
      /\ t.lost = s.lost /\ t.cut = s.cut /\ t.alive = s.alive
  <2>1. "connecting" \in Links /\ 1 \in Nat /\ w2 \in Seq(Seq(Units))
    BY <1>2 DEF Links
  <2> DEFINE from == "connecting"
             e == [s EXCEPT !.link = from, !.wire = w2, !.backoff = 1]
  <2>2. t = e /\ s \in SinkStates
    BY <1>1, <1>3
  <2> HIDE DEF from
  <2>3. from \in Links
    BY <2>1 DEF from
  <2>4. /\ e \in SinkStates /\ e.link = from /\ e.wire = w2 /\ e.pend = s.pend
        /\ e.lost = s.lost /\ e.cut = s.cut /\ e.alive = s.alive
    <3> HIDE DEF w
    <3> QED BY <2>1, <2>2, <2>3 DEF SinkStates
  <2> QED BY <2>2, <2>4 DEF from
<1>6. ASSUME NEW j \in 1..L + 1, NEW m \in 1..Len(w2[j])
      PROVE  j \in 1..L /\ w2[j] = w[j]
  <2>1. CASE j = L + 1
    <3>1. Len(w2[j]) = 0
      BY <1>2, <2>1, EmptySeq
    <3> QED BY <3>1
  <2>2. CASE j # L + 1
    <3>1. j \in 1..L
      BY <1>1, <2>2
    <3> QED BY <1>2, <3>1
  <2> QED BY <2>1, <2>2
<1>7. \A j \in 1..L : j \in 1..L + 1
  BY <1>1
<1>8. ASSUME NEW once, Flow(w, p, once) PROVE Flow(w2, p, once)
  <2>1. InSequence(w2, once)
    <3> SUFFICES ASSUME NEW i \in 1..L + 1, NEW j \in 1..L + 1,
                        NEW m \in 1..Len(w2[i]), NEW k \in 1..Len(w2[j]),
                        i < j \/ (i = j /\ m < k)
                 PROVE  Follows(w2[i][m], w2[j][k], once)
      BY <1>2 DEF InSequence
    <3>1. i \in 1..L /\ w2[i] = w[i] /\ j \in 1..L /\ w2[j] = w[j]
      BY <1>6
    <3> QED BY <1>8, <3>1 DEF Flow, InSequence, L
  <2>2. ASSUME NEW j \in 1..L + 1, NEW m \in 1..Len(w2[j]), NEW k \in 1..Len(p)
        PROVE  Follows(w2[j][m], p[k], once)
    BY <1>6, <1>8 DEF Flow, L
  <2> QED BY <1>2, <1>8, <2>1, <2>2 DEF Flow
<1>9. ASSUME NEW u
      PROVE  (\E j \in 1..Len(w2) : Contains(w2[j], u))
                <=> (\E j \in 1..Len(w) : Contains(w[j], u))
  <2>1. ASSUME NEW j \in 1..L + 1, Contains(w2[j], u)
        PROVE  j \in 1..L /\ Contains(w[j], u)
    BY <1>6, <2>1 DEF Contains
  <2>2. ASSUME NEW j \in 1..L, Contains(w[j], u)
        PROVE  j \in 1..L + 1 /\ Contains(w2[j], u)
    BY <1>2, <1>7, <2>2
  <2> QED BY <1>2, <2>1, <2>2 DEF L
<1>10. Carried(w2, p) = Carried(w, p)
  BY <1>9 DEF Carried
<1>11. Flow(w2, p, ~s.cut)
  BY <1>8 DEF Good
<1>12. Good(t, n)
  BY <1>4, <1>5, <1>10, <1>11 DEF Good
<1> QED BY <1>5, <1>12 DEF t

(* What a step leaves behind is the state it was given.                    *)
LEMMA BecomeIs ==
    ASSUME NEW s \in SinkStates, Become(s)
    PROVE  State' = s
BY DEF Become, State, SinkStates

LEMMA SkipReady ==
    ASSUME NEW n \in Nat, NEW s, Good(s, n), s.skip > 0
    PROVE  Ready([s EXCEPT !.skip = @ - 1], n)
<1> DEFINE t == [s EXCEPT !.skip = @ - 1]
<1>1. s \in SinkStates
  BY DEF Good
<1>2. s.skip - 1 \in Nat
  BY <1>1 DEF SinkStates
<1>3. /\ t \in SinkStates /\ t.lost = s.lost /\ t.wire = s.wire /\ t.pend = s.pend
      /\ t.cut = s.cut /\ t.alive = s.alive /\ t.link = s.link
  BY <1>1, <1>2 DEF SinkStates
<1> HIDE DEF t
<1>4. Ready(t, n)
  BY <1>3 DEF Good, Ready
<1> QED BY <1>4 DEF t

(* The network changes only the link, and the count of failures.           *)
LEMMA NetworkKeeps ==
    ASSUME SinkInv, Network
    PROVE  SinkInv'
<1>1. State \in SinkStates /\ emitted \in Nat /\ Good(State, emitted)
  BY DEF SinkInv, Good
<1>2. /\ emitted' = emitted /\ wire' = wire /\ lost' = lost /\ alive' = alive
      /\ sink' \in {sink, [sink EXCEPT !.fails = 0]}
      /\ link' \in Links /\ (link' # "none" => link # "none")
  <2>1. link \in Links
    BY <1>1 DEF State, SinkStates
  <2>2. CASE HandshakeSucceeds
    BY <2>1, <2>2 DEF HandshakeSucceeds, Links
  <2>3. CASE HandshakeRefused
    BY <2>1, <2>3 DEF HandshakeRefused, LinkBecomes, Links
  <2>4. CASE CollectorArrives
    BY <2>1, <2>4 DEF CollectorArrives
  <2>5. CASE CollectorLeaves
    BY <2>1, <2>5 DEF CollectorLeaves, LinkBecomes, Links
  <2>6. CASE ResetArrives
    BY <2>1, <2>6 DEF ResetArrives, LinkBecomes, Links
  <2> QED BY <2>2, <2>3, <2>4, <2>5, <2>6 DEF Network
<1>3. /\ State'.alive = State.alive /\ State'.wire = State.wire
      /\ State'.lost = State.lost
      /\ State'.link \in Links
      /\ State'.link # "none" => State.link # "none"
  BY <1>2 DEF State
<1>4. /\ State'.pend = State.pend /\ State'.cut = State.cut
      /\ State' \in SinkStates
  <2>1. CASE sink' = sink
    BY <1>1, <1>2, <2>1 DEF State, SinkStates
  <2>2. CASE sink' = [sink EXCEPT !.fails = 0]
    <3>1. /\ sink'.skip = sink.skip /\ sink'.backoff = sink.backoff
          /\ sink'.pend = sink.pend /\ sink'.gap = sink.gap /\ sink'.cut = sink.cut
          /\ sink'.fails \in {0, sink.fails}
      BY <2>2
    <3> QED BY <1>1, <1>2, <3>1 DEF State, SinkStates
  <2> QED BY <1>2, <2>1, <2>2
<1>5. Good(State', emitted)
  BY <1>1, <1>3, <1>4 DEF Good
<1> QED BY <1>1, <1>2, <1>5 DEF SinkInv

LEMMA EmitKeeps ==
    ASSUME SinkInv, Emit
    PROVE  SinkInv'
<1> DEFINE l == Line(emitted + 1)
<1>1. /\ State \in SinkStates /\ emitted \in Nat /\ Good(State, emitted)
      /\ emitted + 1 \in Nat
  BY DEF SinkInv, Good
<1>2. State.link = link /\ State.skip = sink.skip
  BY DEF State
<1>3. emitted' = emitted + 1
  BY DEF Emit, EmitSkips, EmitConnectFails, EmitConnects,
     EmitWrites, Emits
<1>4. \E s : Good(s, emitted + 1) /\ Become(s)
  <2>1. CASE EmitSkips
    <3>1. State.skip > 0 /\ Become(LogPend([State EXCEPT !.skip = @ - 1], l))
      BY <1>2, <2>1 DEF EmitSkips
    <3>2. Good(LogPend([State EXCEPT !.skip = @ - 1], l), emitted + 1)
      BY <1>1, <3>1, SkipReady, LogPendGood
    <3> QED BY <3>1, <3>2
  <2>2. CASE EmitConnectFails
    <3>1. Become(LogPend(Widen(State), l))
      BY <2>2 DEF EmitConnectFails
    <3>2. Good(LogPend(Widen(State), l), emitted + 1)
      BY <1>1, GoodIsReady, WidenReady, LogPendGood
    <3> QED BY <3>1, <3>2
  <2>3. CASE EmitConnects
    <3> DEFINE c == [State EXCEPT !.link = "connecting", !.wire = Append(@, << >>),
                                  !.backoff = 1]
    <3>1. PICK s \in FlushAndWrite(c, l) : Become(s)
      BY <2>3 DEF EmitConnects
    <3>2. Good(c, emitted) /\ c.link # "none"
      BY <1>1, ConnectsGood
    <3> HIDE DEF c
    <3>3. Good(s, emitted + 1)
      BY <1>1, <3>2, FlushAndWriteGood
    <3> QED BY <3>1, <3>3
  <2>4. CASE EmitWrites
    <3>1. PICK s \in FlushAndWrite(State, l) : Become(s)
      BY <2>4 DEF EmitWrites
    <3>2. State.link # "none"
      BY <1>2, <2>4 DEF EmitWrites
    <3>3. Good(s, emitted + 1)
      BY <1>1, <3>2, FlushAndWriteGood
    <3> QED BY <3>1, <3>3
  <2> QED BY <2>1, <2>2, <2>3, <2>4 DEF Emit
<1>5. PICK s : Good(s, emitted + 1) /\ Become(s)
  BY <1>4
<1>6. State' = s
  BY <1>5, BecomeIs DEF Good
<1> QED BY <1>1, <1>3, <1>5, <1>6 DEF SinkInv

(* Whatever write() takes and the collector does, log_sink_emit keeps what *)
(* is on the connections and in the buffer complete and in order.          *)
THEOREM SinkInductive == SinkSpec => []SinkInv
<1>1. SinkInit => SinkInv
  BY SinkStarts
<1>2. SinkInv /\ [SinkNext]_sinkVars => SinkInv'
  <2> SUFFICES ASSUME SinkInv, [SinkNext]_sinkVars PROVE SinkInv'
    OBVIOUS
  <2>1. CASE Emit
    BY <2>1, EmitKeeps
  <2>2. CASE Network
    BY <2>2, NetworkKeeps
  <2>3. CASE UNCHANGED sinkVars
    <3>1. State' = State /\ emitted' = emitted
      BY <2>3 DEF sinkVars, State
    <3> QED BY <3>1 DEF SinkInv
  <2> QED BY <2>1, <2>2, <2>3 DEF SinkNext
<1> QED BY <1>1, <1>2, PTL DEF SinkSpec

-----------------------------------------------------------------------------
(***************************************************************************)
(* The properties                                                          *)
(***************************************************************************)
(* The buffer behind the connections, as one more of them.                 *)
LEMMA AllTraffic ==
    ASSUME NEW w \in Seq(Seq(Units)), NEW p \in Seq(Units)
    PROVE  /\ \A once : Flow(w, p, once) => InSequence(Append(w, p), once)
           /\ \A u \in Carried(w, p) :
                 \E j \in 1..Len(Append(w, p)) : Contains(Append(w, p)[j], u)
           /\ \A j \in 1..Len(Append(w, p)) : \A m \in 1..Len(Append(w, p)[j]) :
                 Append(w, p)[j][m] \in Carried(w, p)
<1> DEFINE t == Append(w, p)
           L == Len(w)
<1>1. /\ L \in Nat /\ Len(t) = L + 1 /\ t[L + 1] = p
      /\ \A j \in 1..L : t[j] = w[j]
  OBVIOUS
<1>2. /\ \A j \in 1..L : j \in 1..L + 1
      /\ L + 1 \in 1..L + 1
      /\ \A j \in 1..L + 1 : j \in 1..L \/ j = L + 1
      /\ \A j \in 1..L : j # L + 1
  BY <1>1
<1> HIDE DEF t, L
<1>3. ASSUME NEW once, Flow(w, p, once) PROVE InSequence(t, once)
  <2> SUFFICES ASSUME NEW i \in 1..L + 1, NEW j \in 1..L + 1,
                      NEW m \in 1..Len(t[i]), NEW k \in 1..Len(t[j]),
                      i < j \/ (i = j /\ m < k)
               PROVE  Follows(t[i][m], t[j][k], once)
    BY <1>1 DEF InSequence
  <2>1. CASE i \in 1..L /\ j \in 1..L
    BY <1>1, <1>3, <2>1 DEF Flow, InSequence, L
  <2>2. CASE i \in 1..L /\ j = L + 1
    BY <1>1, <1>3, <2>2 DEF Flow, L
  <2>3. CASE i = L + 1
    <3>1. j = L + 1 /\ m < k
      BY <1>1, <2>3
    <3> QED BY <1>1, <1>3, <2>3, <3>1 DEF Flow
  <2> QED BY <1>2, <2>1, <2>2, <2>3
<1>4. ASSUME NEW u \in Carried(w, p) PROVE \E j \in 1..Len(t) : Contains(t[j], u)
  <2>1. CASE \E j \in 1..Len(w) : Contains(w[j], u)
    BY <1>1, <1>2, <2>1 DEF L
  <2>2. CASE Contains(p, u)
    BY <1>1, <1>2, <2>2
  <2> QED BY <2>1, <2>2 DEF Carried
<1>5. ASSUME NEW j \in 1..Len(t), NEW m \in 1..Len(t[j])
      PROVE  t[j][m] \in Carried(w, p)
  <2>1. CASE j \in 1..L
    BY <1>1, <2>1, CarriedAt, Zenon DEF L
  <2>2. CASE j = L + 1
    BY <1>1, <2>2, CarriedAt, Zenon
  <2> QED BY <1>1, <1>2, <2>1, <2>2
<1> QED BY <1>3, <1>4, <1>5 DEF t

(* runner.c:187: the collector sees the records in the order they happened, *)
(* on a connection and from one to the next.                               *)
THEOREM Ordered == SinkSpec => []SentInOrder
<1>1. SinkInv => SentInOrder
  <2> SUFFICES ASSUME SinkInv PROVE SentInOrder
    OBVIOUS
  <2>1. InSequence(wire, ~State.cut)
    BY DEF SinkInv, Good, Flow, State
  <2>2. ASSUME NEW u, NEW v, NEW once, Follows(u, v, once)
        PROVE  Follows(u, v, FALSE)
    BY <2>2 DEF Follows
  <2> QED BY <2>1, <2>2, Zenon DEF SentInOrder, InSequence
<1> QED BY <1>1, SinkInductive, PTL

(* Every unit of a record that found room was sent or is buffered, and as  *)
(* long as no line was written in part there is nothing else, in order and *)
(* once.                                                                   *)
THEOREM NothingLost == SinkSpec => []NothingElseIsLost
<1>1. SinkInv => NothingElseIsLost
  <2> SUFFICES ASSUME SinkInv, alive PROVE NothingElseIsLost
    BY DEF NothingElseIsLost
  <2> DEFINE C == Carried(wire, sink.pend)
  <2>1. /\ State.wire = wire /\ State.pend = sink.pend /\ State.lost = lost
        /\ State.alive = alive /\ State.cut = sink.cut
    BY DEF State
  <2>2. /\ wire \in Seq(Seq(Units)) /\ sink.pend \in Seq(Units)
        /\ emitted \in Nat
        /\ Flow(wire, sink.pend, ~sink.cut)
        /\ \A u \in C : u.rec \in 1..emitted
        /\ \A r \in (1..emitted) \ lost : \A k \in 1..LineLen :
              [rec |-> r, part |-> k] \in C
        /\ ~sink.cut => \A u \in C : u.rec \notin lost
    BY <2>1 DEF SinkInv, Good, SinkStates
  <2>3. /\ \A once : Flow(wire, sink.pend, once) => InSequence(Traffic, once)
        /\ \A u \in C : \E j \in 1..Len(Traffic) : Contains(Traffic[j], u)
        /\ \A j \in 1..Len(Traffic) : \A m \in 1..Len(Traffic[j]) :
              Traffic[j][m] \in C
    BY <2>2, AllTraffic DEF Traffic
  <2>4. C \subseteq Units
    BY DEF Carried
  <2> HIDE DEF C
  <2>5. ASSUME NEW r \in Nat, NEW k \in 1..LineLen
        PROVE  Line(r)[k] = [rec |-> r, part |-> k] /\ Len(Line(r)) = LineLen
    BY LineUnits
  <2>6. ASSUME NEW r \in (1..emitted) \ lost, NEW k \in 1..LineLen
        PROVE  \E j \in 1..Len(Traffic) : Contains(Traffic[j], Line(r)[k])
    <3>1. r \in Nat
      BY <2>2
    <3>2. Line(r)[k] = [rec |-> r, part |-> k]
      BY <2>5, <3>1
    <3>3. [rec |-> r, part |-> k] \in C
      BY <2>2
    <3> QED BY <2>3, <3>2, <3>3
  <2>7. ASSUME ~sink.cut PROVE InSequence(Traffic, TRUE)
    <3>1. (~sink.cut) = TRUE
      BY <2>7
    <3> QED BY <2>2, <2>3, <3>1
  <2>8. ASSUME ~sink.cut, NEW u \in C
        PROVE  \E r \in (1..emitted) \ lost : Contains(Line(r), u)
    <3>1. u \in Units /\ u.rec \in (1..emitted) \ lost
      BY <2>2, <2>4, <2>8
    <3>2. u.part \in 1..LineLen /\ u = [rec |-> u.rec, part |-> u.part] /\ u.rec \in Nat
      BY <3>1 DEF Units
    <3>3. Contains(Line(u.rec), u)
      BY <2>5, <3>2 DEF Contains
    <3> QED BY <3>1, <3>3
  <2> QED BY <2>3, <2>6, <2>7, <2>8 DEF NothingElseIsLost
<1> QED BY <1>1, SinkInductive, PTL
=============================================================================
