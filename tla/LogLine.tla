------------------------------ MODULE LogLine -------------------------------
(***************************************************************************)
(* The lines "<level> <message>" that carry log records, as the three      *)
(* programs write and read them: logrec of runner/runner.c, process_line   *)
(* and feed of emulator/netlog.c, and vlog_sink_emit of vhost/sink.c.      *)
(***************************************************************************)
EXTENDS Naturals, Sequences, SequencesExt, FiniteSetsExt

CONSTANTS LineMax,     \* NL_LINE_MAX
          RunnerMax    \* LINE_MAX_LEN of the runner

ASSUME LogLineConstants ==
    /\ LineMax \in Nat \ {0, 1}
    /\ RunnerMax \in 4..LineMax

NL == "\n"
CR == "\r"
SP == " "

Digits == <<"0", "1", "2", "3", "4", "5", "6", "7", "8", "9">>

(***************************************************************************)
(* Definitions named Bug_... are deliberate mistakes that no specification *)
(* uses; each could replace the definition after it.                       *)
(***************************************************************************)

(* strtoul(s, NULL, 10): the number at the start of s, 0 if there is none. *)
(* White space and signs, which it takes as well, occur in no level here.  *)
StrToUL(s) ==
    LET digits == {n \in 0..Len(s) :
                     \A k \in 1..n : \E d \in 1..10 : s[k] = Digits[d]}
        value(k) == (CHOOSE d \in 1..10 : s[k] = Digits[d]) - 1
        n == CHOOSE m \in digits : \A x \in digits : x <= m
    IN  FoldLeft(LAMBDA acc, k : 10 * acc + value(k), 0, [k \in 1..n |-> k])

Bug_ProcessLine(line) ==   \* the last space separates, not the first
    LET sps == {k \in 1..Len(line) : line[k] = SP}
    IN  IF sps # {}
        THEN LET sp == CHOOSE k \in sps : \A x \in sps : x <= k
             IN  [level |-> StrToUL(SubSeq(line, 1, sp - 1)),
                  msg |-> SubSeq(line, sp + 1, Len(line))]
        ELSE [level |-> StrToUL(line), msg |-> << >>]

(* process_line: the level stands before the first space, the message      *)
(* after it.                                                               *)
ProcessLine(line) ==
    LET sps == {k \in 1..Len(line) : line[k] = SP}
    IN  IF sps # {}
        THEN LET sp == CHOOSE k \in sps : \A x \in sps : k <= x
             IN  [level |-> StrToUL(SubSeq(line, 1, sp - 1)),
                  msg |-> SubSeq(line, sp + 1, Len(line))]
        ELSE [level |-> StrToUL(line), msg |-> << >>]

(* The body of feed's loop: st.buf is the connection's unfinished line,    *)
(* st.lines the lines completed so far, with the newline that ended them.  *)
FeedChar(st, ch) ==
    IF ch = NL THEN [buf |-> << >>, lines |-> Append(st.lines, st.buf \o <<NL>>)]
    ELSE IF Len(st.buf) < LineMax - 1
         THEN [st EXCEPT !.buf = Append(@, ch)]
         ELSE [buf |-> <<ch>>, lines |-> Append(st.lines, st.buf)]

(* feed: the state after each of the characters.                           *)
Feed(buf, data) ==
    LET fed[n \in 0..Len(data)] ==
            IF n = 0 THEN [buf |-> buf, lines |-> << >>]
                     ELSE FeedChar(fed[n - 1], data[n])
    IN  fed[Len(data)]

(* logrec: the level has one digit; the line is cut to leave room for the  *)
(* newline.                                                                *)
Logrec(level, msg) ==
    LET line == <<Digits[level + 1], SP>> \o msg
    IN  (IF Len(line) > RunnerMax - 2 THEN SubSeq(line, 1, RunnerMax - 2)
                                      ELSE line) \o <<NL>>

(* vlog_sink_emit: the records, none or one, of what one chain holds.      *)
SinkEmit(bytes) ==
    LET ends == {n \in 0..Len(bytes) :
                    \A k \in n + 1..Len(bytes) : bytes[k] \in {NL, CR}}
        text == SubSeq(bytes, 1, CHOOSE n \in ends : \A x \in ends : n <= x)
        levelled == Len(text) >= 2 /\ Contains(Digits, text[1]) /\ text[2] = SP
    IN  IF text = << >> THEN << >>
        ELSE IF levelled
        THEN <<[level |-> StrToUL(SubSeq(text, 1, 1)),
                msg |-> SubSeq(text, 3, Len(text))]>>
        ELSE <<[level |-> 1, msg |-> text]>>

(* What the listener makes of bytes that come on a new connection.         *)
ListenerReads(bytes) ==
    LET lines == Feed(<< >>, bytes).lines
    IN  [k \in DOMAIN lines |->
            ProcessLine(SelectSeq(lines[k], LAMBDA ch : ch # NL))]

-----------------------------------------------------------------------------
(* A message without newlines arrives at the collector as the record that  *)
(* logrec was given, cut at the same place whatever it holds. A line with  *)
(* one digit for its level means the same to the listener and to the       *)
(* virtio sink up to two differences, and no other: the sink drops the     *)
(* carriage returns at the end of it, which the listener keeps, and takes  *)
(* the whole of a chain, where the listener cuts a line at its buffer and  *)
(* takes the rest for records of their own.                                *)
WithoutCR(msg) == SubSeq(msg, 1, Max({0} \cup {k \in DOMAIN msg : msg[k] # CR}))

AgreesOn(msg) ==
    ~Contains(msg, NL) =>
        \A level \in 0..9 :
            LET sent == Logrec(level, msg)
                line == <<Digits[level + 1], SP>> \o msg
                heard == ListenerReads(line \o <<NL>>)
                says(text) == [level |-> level, msg |-> text]
            IN  /\ ListenerReads(sent) = <<says(SubSeq(msg, 1, Len(sent) - 3))>>
                /\ SinkEmit(line \o <<NL>>) = <<says(WithoutCR(msg))>>
                /\ Len(line) < LineMax => heard = <<says(msg)>>
                /\ Len(line) >= LineMax =>
                      /\ heard[1] = says(SubSeq(msg, 1, LineMax - 3))
                      /\ Len(heard) = (Len(line) + LineMax - 2) \div (LineMax - 1)

(* "We accept the same "<level> <message>" wire format the network ingest  *)
(* path uses" (sink.c:3).                                                  *)
SameFormatOn(line) ==
    /\ ~Contains(line, NL) /\ Len(line) < LineMax
    /\ \E sp \in 2..Len(line) : /\ line[sp] = SP
                                /\ \A k \in 1..sp - 1 : Contains(Digits, line[k])
    => ListenerReads(line \o <<NL>>) = SinkEmit(line \o <<NL>>)
=============================================================================
