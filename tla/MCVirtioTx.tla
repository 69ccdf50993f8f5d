----------------------------- MODULE MCVirtioTx -----------------------------
(* VirtioTx for TLC: a ring of two slots whose indices wrap at four.       *)
EXTENDS VirtioTx
=============================================================================
