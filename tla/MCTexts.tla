------------------------------ MODULE MCTexts -------------------------------
(* The functions of the runner and the formats of log lines for TLC, both  *)
(* on every text up to a bound.                                            *)
EXTENDS RunnerFunctions, LogLine

MCAlphabet == {"1", "7", "-", " ", "x", CR}

(* LogLine's promises, for the text as the message of a record ...         *)
TransportsAgree == AgreesOn(payload)

(* ... and as a whole line.                                                *)
SameWireFormat == SameFormatOn(payload)
=============================================================================
