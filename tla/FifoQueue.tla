----------------------------- MODULE FifoQueue -----------------------------
(***************************************************************************)
(* What internal/buffer/unbounded.go promises its one reader: every item   *)
(* accepted is received once, in the order of acceptance, until the queue  *)
(* is closed; the reader's loop ends when, and only when, the queue is     *)
(* closed and it has received everything.                                  *)
(***************************************************************************)
EXTENDS Sequences

CONSTANT Items
VARIABLES items, open, ended
vars == <<items, open, ended>>

Init == items = <<>> /\ open = TRUE /\ ended = FALSE

Accept(x) == open /\ items' = Append(items, x) /\ UNCHANGED <<open, ended>>

Deliver == /\ items # <<>> /\ ~ended
           /\ items' = Tail(items)
           /\ UNCHANGED <<open, ended>>

Shut == open' = FALSE /\ UNCHANGED <<items, ended>>

End == /\ ~open /\ items = <<>>
       /\ ended' = TRUE
       /\ UNCHANGED <<items, open>>

Next == (\E x \in Items : Accept(x)) \/ Deliver \/ Shut \/ End
Spec == Init /\ [][Next]_vars
============================================================================
