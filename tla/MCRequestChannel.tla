--------------------------- MODULE MCRequestChannel ---------------------------
(* Values for RequestChannel. *)
EXTENDS RequestChannel

\* each publisher needs demand beyond what it is given at first, or not; the
\* requester's subscriber asks twice, so that one demand is a REQUEST_N
ItemBounds == A :> 2 @@ B :> 1
AskBounds  == A :> 2 @@ B :> 1
=============================================================================
