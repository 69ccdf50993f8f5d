----------------------------- MODULE MCLogStore -----------------------------
(* LogStore for TLC: two threads, messages with and without bytes, and one *)
(* with a level that has no name.                                          *)
EXTENDS LogStore

MCMsgs == {[level |-> 1, len |-> 1], [level |-> 7, len |-> 0]}
=============================================================================
