----------------------------- MODULE Unbounded -----------------------------
(***************************************************************************)
(* internal/buffer/unbounded.go: a queue made of a channel of capacity one *)
(* and a backlog under a mutex.  Put, Load and Dispose each hold the mutex *)
(* throughout, so each is one step; the reader receives from the channel   *)
(* without it, and calls Load after every receive, as Get demands.         *)
(***************************************************************************)
EXTENDS Integers, Sequences

CONSTANT Items

VARIABLES
  c,         \* the content of the channel, at most one item
  backlog,
  disposed,
  shut,      \* the channel is closed
  reader     \* "idle" before a receive, "loading" until its Load, "ended"

vars == <<c, backlog, disposed, shut, reader>>

Init ==
  /\ c = <<>> /\ backlog = <<>>
  /\ disposed = FALSE /\ shut = FALSE
  /\ reader = "idle"

\* fault: Put tries the channel without looking at the backlog
PutOvertakes(x) ==
  /\ ~disposed
  /\ IF c = <<>>
       THEN c' = <<x>> /\ UNCHANGED backlog
       ELSE backlog' = Append(backlog, x) /\ UNCHANGED c
  /\ UNCHANGED <<disposed, shut, reader>>

\* Put returns false, and keeps nothing, once disposed
Put(x) ==
  /\ ~disposed
  /\ IF backlog = <<>> /\ c = <<>>
       THEN c' = <<x>> /\ UNCHANGED backlog
       ELSE backlog' = Append(backlog, x) /\ UNCHANGED c
  /\ UNCHANGED <<disposed, shut, reader>>

Receive ==
  /\ reader = "idle" /\ c # <<>>
  /\ c' = <<>>
  /\ reader' = "loading"
  /\ UNCHANGED <<backlog, disposed, shut>>

\* fault: Load does not close the channel of a disposed buffer
LoadNeverCloses ==
  /\ reader = "loading"
  /\ reader' = "idle"
  /\ IF backlog # <<>> /\ c = <<>>
       THEN c' = <<Head(backlog)>> /\ backlog' = Tail(backlog)
       ELSE UNCHANGED <<c, backlog>>
  /\ UNCHANGED <<disposed, shut>>

\* fault: the item sent stays in the backlog
LoadKeepsHead ==
  /\ reader = "loading"
  /\ reader' = "idle"
  /\ IF backlog # <<>> /\ c = <<>>
       THEN c' = <<Head(backlog)>> /\ UNCHANGED backlog
       ELSE UNCHANGED <<c, backlog>>
  /\ shut' = (shut \/ (backlog = <<>> /\ disposed))
  /\ UNCHANGED disposed

\* moves the head of the backlog into the channel, if there is room; the last
\* call on a disposed buffer closes the channel (again: close() recovers)
Load ==
  /\ reader = "loading"
  /\ reader' = "idle"
  /\ IF backlog # <<>> /\ c = <<>>
       THEN c' = <<Head(backlog)>> /\ backlog' = Tail(backlog)
       ELSE UNCHANGED <<c, backlog>>
  /\ shut' = (shut \/ (backlog = <<>> /\ disposed))
  /\ UNCHANGED disposed

Dispose ==
  /\ disposed' = TRUE
  /\ shut' = (shut \/ backlog = <<>>)
  /\ UNCHANGED <<c, backlog, reader>>

\* the reader's range loop ends on a closed and empty channel
End ==
  /\ reader = "idle" /\ shut /\ c = <<>>
  /\ reader' = "ended"
  /\ UNCHANGED <<c, backlog, disposed, shut>>

Next == (\E x \in Items : Put(x)) \/ Receive \/ Load \/ Dispose \/ End
Spec == Init /\ [][Next]_vars

----------------------------------------------------------------------------

TypeOK ==
  /\ c \in Seq(Items) /\ Len(c) <= 1 /\ backlog \in Seq(Items)
  /\ disposed \in BOOLEAN /\ shut \in BOOLEAN
  /\ reader \in {"idle", "loading", "ended"}

\* The channel is closed only when no later Put or Load can send on it, which
\* would panic: the buffer is disposed and its backlog empty.
ClosedIsFinal == shut => disposed /\ backlog = <<>>

\* A reader that waits on the empty channel is not forgotten: nothing sits in
\* the backlog, and if the buffer was disposed the channel is closed.
NobodyStranded ==
  reader = "idle" /\ c = <<>> => backlog = <<>> /\ (disposed => shut)

\* the promise this buffer keeps
Fifo == INSTANCE FifoQueue WITH
          items <- c \o backlog, open <- ~disposed, ended <- (reader = "ended")
============================================================================
