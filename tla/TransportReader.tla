-------------------------- MODULE TransportReader --------------------------
(***************************************************************************)
(* Transport.Start (core/transport/transport.go): one goroutine reads the  *)
(* connection and spreads the frames over two unbounded buffers by the     *)
(* parity of their stream, two goroutines dispatch them, and frames of     *)
(* stream 0 are dispatched by the reader itself.                           *)
(*                                                                         *)
(* The frames of a parity are numbered in their order of arrival.  What a  *)
(* handler does is its own module's matter; here it returns, nil or an     *)
(* error.                                                                  *)
(***************************************************************************)
EXTENDS Integers, Sequences

CONSTANT MaxFrames   \* bound: frames the peer sends

ASSUME ReaderAssumption == MaxFrames \in Nat

Parity == {"odd", "even"}

VARIABLES
  oc, ob, od, os, or,      \* oddFrames, and the goroutine reading it
  ec, eb, ed, es, er,      \* evenFrames, likewise
  hand,                    \* the frame a dispatcher is handling, 0 for none
  rpc,                     \* Start
  arrived,                 \* frames read of each parity
  zeros,                   \* frames read of stream 0
  dispatched,              \* frames handled of each parity, in order
  err, cancelled,          \* errChan holds an error; the context is done
  late,                    \* reads begun while an error was waiting
  posted, joined,          \* the channel done, and the receives from it
  connOpen

oddVars  == <<oc, ob, od, os, or>>
evenVars == <<ec, eb, ed, es, er>>
flowVars == <<arrived, zeros, dispatched>>
stopVars == <<err, cancelled, late>>
joinVars == <<posted, joined, connOpen>>
vars == <<oddVars, evenVars, hand, rpc, flowVars, stopVars, joinVars>>

odd  == INSTANCE Unbounded WITH Items <- 1..MaxFrames,
          c <- oc, backlog <- ob, disposed <- od, shut <- os, reader <- or
even == INSTANCE Unbounded WITH Items <- 1..MaxFrames,
          c <- ec, backlog <- eb, disposed <- ed, shut <- es, reader <- er

Init ==
  /\ odd!Init /\ even!Init
  /\ hand = [p \in Parity |-> 0]
  /\ rpc = "select"
  /\ arrived = [p \in Parity |-> 0] /\ zeros = 0
  /\ dispatched = [p \in Parity |-> <<>>]
  /\ err = FALSE /\ cancelled = FALSE /\ late = 0
  /\ posted = FALSE /\ joined = 0 /\ connOpen = TRUE

----------------------------------------------------------------------------
(* The reading goroutine *)

\* a ready case is taken, any of them, before the default
Select ==
  /\ rpc = "select"
  /\ \/ cancelled /\ rpc' = "disposeOdd" /\ UNCHANGED err
     \/ err /\ err' = FALSE /\ rpc' = "disposeOdd"
     \/ ~cancelled /\ ~err /\ rpc' = "read" /\ UNCHANGED err
  /\ UNCHANGED <<oddVars, evenVars, hand, flowVars, cancelled, late, joinVars>>

CountLate == late' = IF err THEN late + 1 ELSE late
MayRead   == rpc = "read" /\ arrived["odd"] + arrived["even"] + zeros < MaxFrames

ReadInto(p) ==
  /\ MayRead
  /\ arrived' = [arrived EXCEPT ![p] = @ + 1]
  /\ CountLate
  /\ rpc' = "select"
  /\ UNCHANGED <<hand, zeros, dispatched, err, cancelled, joinVars>>

ReadOdd  == ReadInto("odd") /\ odd!Put(arrived["odd"] + 1) /\ UNCHANGED evenVars
ReadEven == ReadInto("even") /\ even!Put(arrived["even"] + 1) /\ UNCHANGED oddVars

\* the handler of a frame of stream 0 may end the connection
ReadZero ==
  /\ MayRead
  /\ zeros' = zeros + 1
  /\ CountLate
  /\ rpc' \in {"select", "disposeOdd"}
  /\ UNCHANGED <<oddVars, evenVars, hand, arrived, dispatched, err, cancelled, joinVars>>

\* EOF, an error, or the read deadline of the connection
ReadEnds ==
  /\ rpc = "read"
  /\ rpc' = "disposeOdd"
  /\ UNCHANGED <<oddVars, evenVars, hand, flowVars, stopVars, joinVars>>

DisposeOdd ==
  /\ rpc = "disposeOdd" /\ odd!Dispose
  /\ rpc' = "disposeEven"
  /\ UNCHANGED <<evenVars, hand, flowVars, stopVars, joinVars>>

DisposeEven ==
  /\ rpc = "disposeEven" /\ even!Dispose
  /\ rpc' = "join"
  /\ UNCHANGED <<oddVars, hand, flowVars, stopVars, joinVars>>

\* fault: one receive from done where there are two goroutines
JoinOnce ==
  /\ rpc = "join" /\ posted
  /\ posted' = FALSE /\ joined' = joined + 1
  /\ rpc' = "close"
  /\ UNCHANGED <<oddVars, evenVars, hand, flowVars, stopVars, connOpen>>

Join ==
  /\ rpc = "join" /\ posted
  /\ posted' = FALSE /\ joined' = joined + 1
  /\ rpc' = IF joined = 1 THEN "close" ELSE "join"
  /\ UNCHANGED <<oddVars, evenVars, hand, flowVars, stopVars, connOpen>>

Close ==
  /\ rpc = "close"
  /\ connOpen' = FALSE
  /\ rpc' = "returned"
  /\ UNCHANGED <<oddVars, evenVars, hand, flowVars, stopVars, posted, joined>>

Cancel ==
  /\ ~cancelled
  /\ cancelled' = TRUE
  /\ UNCHANGED <<oddVars, evenVars, hand, rpc, flowVars, err, late, joinVars>>

----------------------------------------------------------------------------
(* loopReadBuffer, once for each parity *)

Take(p, f) ==
  /\ hand' = [hand EXCEPT ![p] = f]
  /\ UNCHANGED <<rpc, flowVars, stopVars, joinVars>>
TakeOdd  == odd!Receive /\ Take("odd", Head(oc)) /\ UNCHANGED evenVars
TakeEven == even!Receive /\ Take("even", Head(ec)) /\ UNCHANGED oddVars

\* DispatchFrame: an error is posted unless another one waits already
Dispatch(p) ==
  /\ hand[p] # 0
  /\ dispatched' = [dispatched EXCEPT ![p] = Append(@, hand[p])]
  /\ hand' = [hand EXCEPT ![p] = 0]
  /\ err' \in {err, TRUE}
  /\ UNCHANGED <<oddVars, evenVars, rpc, arrived, zeros, cancelled, late, joinVars>>

AfterDispatch(p) ==
  /\ hand[p] = 0
  /\ UNCHANGED <<hand, rpc, flowVars, stopVars, joinVars>>
LoadOdd  == odd!Load /\ AfterDispatch("odd") /\ UNCHANGED evenVars
LoadEven == even!Load /\ AfterDispatch("even") /\ UNCHANGED oddVars

\* done has room for one: the second goroutine waits for the first receive
Post ==
  /\ ~posted /\ posted' = TRUE
  /\ UNCHANGED <<hand, rpc, flowVars, stopVars, joined, connOpen>>
EndOdd  == odd!End /\ Post /\ UNCHANGED evenVars
EndEven == even!End /\ Post /\ UNCHANGED oddVars

ReaderStep == Select \/ DisposeOdd \/ DisposeEven \/ Join \/ Close
OddStep    == TakeOdd \/ Dispatch("odd") \/ LoadOdd \/ EndOdd
EvenStep   == TakeEven \/ Dispatch("even") \/ LoadEven \/ EndEven

Next ==
  \/ ReaderStep \/ ReadOdd \/ ReadEven \/ ReadZero \/ ReadEnds \/ Cancel
  \/ OddStep \/ EvenStep

\* DispatchFrame sets the read deadline of the connection: it has none before
Deadline == zeros > 0 \/ \E p \in Parity : dispatched[p] # <<>>

(***************************************************************************)
(* The three goroutines run and their handlers return; once a deadline is  *)
(* set, a silent peer ends the read.                                       *)
(***************************************************************************)
Fairness ==
  /\ WF_vars(ReaderStep) /\ WF_vars(OddStep) /\ WF_vars(EvenStep)
  /\ WF_vars(Deadline /\ ReadEnds)
Spec == Init /\ [][Next]_vars /\ Fairness

----------------------------------------------------------------------------

\* Both buffers keep their types, and the counters their bounds.
TypeOK ==
  /\ odd!TypeOK /\ even!TypeOK
  /\ hand \in [Parity -> 0..MaxFrames]
  /\ rpc \in {"select", "read", "disposeOdd", "disposeEven", "join", "close", "returned"}
  /\ arrived \in [Parity -> 0..MaxFrames] /\ zeros \in 0..MaxFrames
  /\ \A p \in Parity : Len(dispatched[p]) <= arrived[p]
  /\ err \in BOOLEAN /\ cancelled \in BOOLEAN /\ late \in 0..MaxFrames
  /\ posted \in BOOLEAN /\ joined \in 0..2 /\ connOpen \in BOOLEAN

\* The frames of a parity, so those of any one stream, are handled in the
\* order of their arrival, each once and none skipped.
InOrder ==
  \A p \in Parity : \A i \in DOMAIN dispatched[p] : dispatched[p][i] = i

\* When Start closes the connection, both dispatchers have ended and every
\* frame that was read has been handled: a handler never runs, and sends
\* nothing, on behalf of a Start that has returned.
DrainedAtClose ==
  rpc \in {"close", "returned"} =>
    /\ or = "ended" /\ er = "ended"
    /\ \A p \in Parity : hand[p] = 0 /\ Len(dispatched[p]) = arrived[p]

\* No goroutine sends on a closed channel, which would panic: a channel is
\* closed only after Dispose, with nothing left that Load would still send.
NoSendOnClosed == odd!ClosedIsFinal /\ even!ClosedIsFinal

\* After a handler has failed at most one more frame is read: the one Read
\* that had already passed the test of the error channel.
AtMostOneLateRead == late <= 1

\* Start ends cleanly: everything handled, no panic, one frame too many at the
\* most (DrainedAtClose, NoSendOnClosed, AtMostOneLateRead).
CleanStop == DrainedAtClose /\ NoSendOnClosed /\ AtMostOneLateRead

\* Once reading has ended or a handler has failed, Start returns, even when the
\* reading goroutine is blocked in Read on a peer that has fallen silent.
StartReturns == (err \/ rpc = "disposeOdd") ~> rpc = "returned"

\* Each buffer, with its dispatcher, is a FIFO queue that ends properly.
OddIsFifo == odd!Fifo!Spec
============================================================================
