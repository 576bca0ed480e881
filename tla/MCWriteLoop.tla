---------------------------- MODULE MCWriteLoop ----------------------------
(* WriteLoop for TLC: one busy sender, whose frames have an order to keep,  *)
(* and one that hands over a single frame.                                  *)
EXTENDS WriteLoop, TLC

CONSTANTS s1, s2

BusyAndSingle == (s1 :> 2) @@ (s2 :> 1)
BusyOnly      == s1 :> 2
============================================================================
