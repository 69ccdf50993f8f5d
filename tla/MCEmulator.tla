----------------------------- MODULE MCEmulator -----------------------------
(* Emulator for TLC.                                                       *)
EXTENDS Emulator
=============================================================================
