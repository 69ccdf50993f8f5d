------------------------------ MODULE Emulator ------------------------------
(***************************************************************************)
(* emulator/main.c over the log store: the main thread of the emulator in  *)
(* collector mode (no guest) and in guest mode, the listener thread it     *)
(* starts and joins, and the signals that end a collector.  The listener   *)
(* is reduced to what main.c sees of it (module Netlog has the rest).  The *)
(* vCPU runs on the main thread, inside vmm_run.                           *)
(***************************************************************************)
EXTENDS Naturals, Sequences

CONSTANTS Modes,        \* {"collector"}, {"guest"} or both
          LoadResults,  \* what vmm_load_binary returns; the stub in vmm.c
                        \* always fails, a completed VMM may succeed
          MaxSignals,   \* bound: SIGINT or SIGTERM sent
          MaxSeq        \* bound: records per thread

Threads == {"main", "net"}

VARIABLES mode,      \* how the program was started
          main,      \* where the main thread stands
          net,       \* the listener thread: "absent"; at "poll", the top of its
                     \* loop; in a round of "service"; "blocked" in read(); "exited"
          stop,      \* nl->stop
          handler,   \* are the signal handlers installed?
          gstop,     \* g_stop
          signals,   \* signals sent so far
          code,      \* exit status
          \* the log store
          life, lock, pc, cur, seq, out, ondisk

LS == INSTANCE LogStore WITH
        Producers <- Threads,
        Msgs <- {[level |-> 1, len |-> 0], [level |-> 2, len |-> 1]},
        DiskErrors <- FALSE,
        NoOne <- "none"

store == <<life, lock, pc, cur, seq, out, ondisk>>
control == <<mode, main, net, stop, handler, gstop, signals, code>>
vars == <<control, store>>

ASSUME EmulatorConstants ==
    /\ Modes \subseteq {"collector", "guest"} /\ Modes # {}
    /\ LoadResults \subseteq {"ok", "fail"} /\ LoadResults # {}
    /\ MaxSignals \in Nat /\ MaxSeq \in Nat

(***************************************************************************)
(* Definitions named Bug_... are deliberate mistakes that no specification *)
(* uses; each could replace the definition after it.                       *)
(***************************************************************************)

Init ==
    /\ mode \in Modes
    /\ main = "open"
    /\ net = "absent"
    /\ stop = FALSE
    /\ handler = FALSE
    /\ gstop = FALSE
    /\ signals = 0
    /\ code = 0
    /\ LS!Init

Running == main \notin {"exited", "killed"}

Alive == net \in {"poll", "service", "blocked"}

(* The main thread moves on and touches nothing else.                      *)
Goto(from, to) ==
    /\ main = from
    /\ main' = to
    /\ UNCHANGED <<mode, net, stop, handler, gstop, signals, code, store>>

Fail(from, status) ==
    /\ main = from
    /\ main' = "exited"
    /\ code' = status
    /\ UNCHANGED <<mode, net, stop, handler, gstop, signals, store>>

-----------------------------------------------------------------------------
(***************************************************************************)
(* Both modes                                                              *)
(***************************************************************************)

(* logstore_open, called by main or by vmm_create.                         *)
OpenStore ==
    /\ main = "open"
    /\ LS!Open
    /\ main' = IF mode = "collector" THEN "start" ELSE "create"
    /\ UNCHANGED <<mode, net, stop, handler, gstop, signals, code>>

OpenFails == Fail("open", 1)

(* netlog_start creates the listener thread.                               *)
NetlogStart ==
    /\ main = "start"
    /\ net' = "poll"
    /\ main' = IF mode = "collector" THEN "sigint" ELSE "run"
    /\ UNCHANGED <<mode, stop, handler, gstop, signals, code, store>>

(* logstore_close, without the precondition its callers owe it.            *)
CloseStore(from, status) ==
    /\ main = from
    /\ LS!Drain
    /\ life' = "closed"
    /\ main' = "exited"
    /\ code' = status
    /\ UNCHANGED <<mode, net, stop, handler, gstop, signals,
                   lock, pc, cur, seq>>

(* netlog_stop: set the flag, wake the listener, join it.                  *)
SetStop ==
    /\ main = "stop"
    /\ stop' = TRUE
    /\ main' = "join"
    /\ UNCHANGED <<mode, net, handler, gstop, signals, code, store>>

Bug_Join ==   \* the store is closed while the listener may still append
    Goto("join", "close")

Join ==
    /\ net = "exited"
    /\ Goto("join", "close")

Close == CloseStore("close", code)

-----------------------------------------------------------------------------
(***************************************************************************)
(* Collector mode                                                          *)
(***************************************************************************)
StartFailsCollector == mode = "collector" /\ CloseStore("start", 1)

(* signal(SIGINT, ...), signal(SIGTERM, ...) and the greeting.             *)
InstallHandlers ==
    /\ main = "sigint"
    /\ handler' = TRUE
    /\ main' = "test"
    /\ UNCHANGED <<mode, net, stop, gstop, signals, code, store>>

(* The condition of "while (!g_stop) pause();".                            *)
TestStop ==
    /\ main = "test"
    /\ main' = IF gstop THEN "stop" ELSE "gap"
    /\ UNCHANGED <<mode, net, stop, handler, gstop, signals, code, store>>

(* pause() is entered some time after the test.                            *)
Pause == Goto("gap", "paused")

(* A signal with a handler sets g_stop and ends a pause() that has begun;  *)
(* one without a handler kills the process.                                *)
Signal ==
    /\ Running
    /\ signals < MaxSignals
    /\ signals' = signals + 1
    /\ UNCHANGED <<mode, stop, handler, code>>
    /\ IF handler
       THEN /\ gstop' = TRUE
            /\ main' = IF main = "paused" THEN "test" ELSE main
            /\ UNCHANGED <<net, store>>
       ELSE /\ main' = "killed"
            /\ net' = IF Alive THEN "exited" ELSE net
            /\ IF life = "open" THEN LS!Crash ELSE UNCHANGED store
            /\ UNCHANGED gstop

-----------------------------------------------------------------------------
(***************************************************************************)
(* Guest mode                                                              *)
(***************************************************************************)

(* The rest of vmm_create: uc_open or an allocation may fail; the store    *)
(* stays open until the process exits.                                     *)
CreateFails == Fail("create", 1)
Create == Goto("create", "load")

LoadBinary ==
    /\ "ok" \in LoadResults
    /\ \/ Goto("load", "bootinfo")
       \/ Goto("load", "listen")        \* no --bootinfo

LoadFails ==
    \/ "fail" \in LoadResults /\ CloseStore("load", 1)
    \/ CloseStore("bootinfo", 1)

LoadBootinfo == Goto("bootinfo", "listen")

(* With --listen the listener is started; a failure is only a warning.     *)
Listen ==
    \/ Goto("listen", "start")
    \/ Goto("listen", "run")            \* no --listen

StartFailsGuest == mode = "guest" /\ Goto("start", "run")

(* vmm_run: the device appends records on behalf of the guest; the guest   *)
(* powers off, or faults, with some status.                                *)
VmmAppend ==
    /\ main = "run"
    /\ \/ \E m \in {[level |-> 1, len |-> 0], [level |-> 2, len |-> 1]} :
             LS!Call("main", m)
       \/ LS!CallFlush("main")
    /\ UNCHANGED control

VmmStep == LS!Step("main") /\ UNCHANGED control

Bug_VmmReturns ==   \* vmm_destroy comes before netlog_stop
    /\ main = "run"
    /\ pc["main"] = "idle"
    /\ code' \in {0, 1}
    /\ main' = "close"
    /\ UNCHANGED <<mode, net, stop, handler, gstop, signals, store>>

VmmReturns ==
    /\ main = "run"
    /\ pc["main"] = "idle"
    /\ code' \in {0, 1}
    /\ main' = IF net = "absent" THEN "close" ELSE "stop"
    /\ UNCHANGED <<mode, net, stop, handler, gstop, signals, store>>

-----------------------------------------------------------------------------
(***************************************************************************)
(* The listener thread                                                     *)
(***************************************************************************)
ListenerTo(from, to) ==
    /\ net = from
    /\ net' = to
    /\ UNCHANGED <<mode, main, stop, handler, gstop, signals, code, store>>

(* The condition of the loop, or its test after poll(), sees nl->stop.     *)
NetExits == stop /\ ListenerTo("poll", "exited")

(* poll() fails with something else than EINTR, whether stop is set or not. *)
NetFails == ListenerTo("poll", "exited")

(* poll() returned and stop was not set: a round of accept and read starts, *)
(* in which stop is not looked at.                                         *)
NetServes == ~stop /\ ListenerTo("poll", "service")

NetAppend ==
    /\ net = "service"
    /\ \E m \in {[level |-> 1, len |-> 0], [level |-> 2, len |-> 1]} :
          LS!Call("net", m)
    /\ UNCHANGED control

NetStep ==
    /\ net = "service"
    /\ LS!Step("net")
    /\ UNCHANGED control

(* The descriptors are blocking: read() on one that poll did not report    *)
(* waits until its producer sends or closes.                               *)
NetBlocks == pc["net"] = "idle" /\ ListenerTo("service", "blocked")

NetUnblocks == ListenerTo("blocked", "service")

NetRoundEnds == pc["net"] = "idle" /\ ListenerTo("service", "poll")

-----------------------------------------------------------------------------
MainStep ==
    \/ OpenStore \/ OpenFails \/ NetlogStart \/ SetStop \/ Join \/ Close
    \/ StartFailsCollector \/ InstallHandlers \/ TestStop \/ Pause
    \/ CreateFails \/ Create \/ LoadBinary \/ LoadFails \/ LoadBootinfo
    \/ Listen \/ StartFailsGuest \/ VmmStep

Listener ==
    \/ NetExits \/ NetFails \/ NetServes \/ NetAppend \/ NetStep
    \/ NetBlocks \/ NetUnblocks \/ NetRoundEnds

Next == MainStep \/ VmmAppend \/ VmmReturns \/ Signal \/ Listener

Spec == Init /\ [][Next]_vars

(* The threads are scheduled. A round reads each connection once, so it    *)
(* ends if its reads return: strong fairness, because a read may block in  *)
(* between. Nothing makes a blocked read return; that is up to the         *)
(* producer, as a signal is up to the user and power-off to the guest.     *)
FairSpec ==
    Spec /\ WF_vars(MainStep) /\ WF_vars(NetStep) /\ WF_vars(NetExits)
         /\ SF_vars(NetRoundEnds)

-----------------------------------------------------------------------------
(***************************************************************************)
(* Properties                                                              *)
(***************************************************************************)
(* main.c: the main thread is at one of its statements, and the program    *)
(* exits with 0 or 1 unless the guest says otherwise.                      *)
TypeOK ==
    /\ mode \in {"collector", "guest"}
    /\ main \in {"open", "start", "create", "load", "bootinfo", "listen", "run",
                 "sigint", "test", "gap", "paused", "stop", "join", "close",
                 "exited", "killed"}
    /\ net \in {"absent", "poll", "service", "blocked", "exited"}
    /\ <<stop, handler, gstop>> \in BOOLEAN \X BOOLEAN \X BOOLEAN
    /\ code \in 0..1
    /\ LS!TypeOK

(* logstore_close takes no lock, and no test waits for the right moment:   *)
(* when main.c calls it no thread is inside the store or can enter it.     *)
StoreClosedLast ==
    life = "closed" => ~Alive /\ LS!Quiescent

(* When the program has returned from main, every record a thread began to *)
(* append is complete in the file.                                         *)
ExitLosesNothing ==
    (main = "exited" /\ life = "closed") =>
        /\ \A p \in Threads : LS!Returned(p) = seq[p]
        /\ LS!ReturnedIsDurable
        /\ LS!NoTornRecord

(* A read that blocks, blocks for some time only. netlog.c does not see to *)
(* that: read() has no timeout (netlog.c:132), and module Netlog shows a   *)
(* producer that keeps netlog_stop in pthread_join for ever.               *)
ReadsReturn == []<>(net # "blocked")

(* If the listener's reads return, the program ends: once the guest has    *)
(* stopped, and for a collector once a signal was seen by the test of      *)
(* g_stop (one that ends pause, or that came before the test; not one that *)
(* comes between the test and pause, see below). The listener may be in    *)
(* the middle of a round, inside an append or gone when stop is set.       *)
ShutdownCompletes ==
    ReadsReturn =>
        ((main = "stop" \/ (main = "test" /\ gstop)) ~> (main \in {"exited", "killed"}))

(* "until interrupted (Ctrl-C/SIGTERM)" (main.c:14): a collector that was  *)
(* interrupted ends, producers that hold up the listener aside.            *)
InterruptEndsCollector == ReadsReturn => (gstop ~> (main = "exited"))
=============================================================================
