--------------------------- MODULE MCReleaseQueue ---------------------------
(* ReleaseQueue for TLC: two readers, as while a resumed socket's old and new *)
(* connection both deliver.                                                   *)
EXTENDS ReleaseQueue, TLC

CONSTANTS r1, r2, v1, v2, v3

TwoReaders == r1 :> <<v1, v2>> @@ r2 :> <<v3>>
=============================================================================
