---------------------------- MODULE MCZshSignals ----------------------------
(* Instances of ZshSignals for TLC: two signals.                            *)
EXTENDS ZshSignals, TLC

CONSTANTS chld, int
=============================================================================
