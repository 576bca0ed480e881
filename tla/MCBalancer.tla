----------------------------- MODULE MCBalancer -----------------------------
(* Balancer for TLC: three clients, two of which want one label. *)
EXTENDS Balancer

CONSTANTS c1, c2, c3

ThreePuts == {<<"x", c1>>, <<"y", c2>>, <<"x", c3>>}
=============================================================================
