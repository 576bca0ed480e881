--------------------------- MODULE RequestChannel ---------------------------
(***************************************************************************)
(* One request-channel: items flow both ways, and each half ends by itself *)
(* (duplex.go, subscriber_request_channel.go).  The requester registers    *)
(* its callback on a scheduler, after the request has been sent; the       *)
(* responder registers before its dispatcher goes on, and unregisters when *)
(* both halves have ended.                                                 *)
(*                                                                         *)
(* Frames travel in order; publishers and processors are those of          *)
(* reactor-go, as in RequestStream.                                        *)
(***************************************************************************)
EXTENDS Integers, Sequences, SequencesExt

CONSTANTS
  MaxItems,   \* items of the publisher of a side
  Asks        \* how often the subscriber of a side may ask for an item

A == "requester"
B == "responder"
Sides == {A, B}

ASSUME ChannelAssumption == MaxItems \in [Sides -> Nat] /\ Asks \in [Sides -> Nat \ {0}]

VARIABLES
  total,             \* items of each side's publisher
  final,             \* the responder's last item was a FinalPayload
  pc,                \* of each side: its call, subscription or subscriber
  reg,               \* the callback is in the table
  sink, fin,         \* of each side: its receiving processor, its DoFinally
  asked, got,        \* demand made, items received
  credit, sent, stopped,  \* of each publisher: demand left, items emitted, cancelled
  calls,             \* finallyRequests: ends counted by the responder
  closed,
  inbox,             \* frames under way to each side
  unheard,           \* what the requester dropped and still needed
  crashed            \* a panic of the requester's dispatcher, which nobody recovers

recvVars == <<sink, fin, asked, got>>
sendVars == <<credit, sent, stopped>>
vars == <<total, final, pc, reg, recvVars, sendVars, calls, closed, inbox, unheard, crashed>>

Other(s) == IF s = A THEN B ELSE A
F(type, n) == [type |-> type, n |-> n]

\* a frame arrives as long as neither socket has closed the connection
Arrives == ~closed[A] /\ ~closed[B]

Send(s, f) ==
  inbox' = IF ~Arrives THEN inbox ELSE [inbox EXCEPT ![Other(s)] = Append(@, f)]

Init ==
  /\ \E i \in 0..MaxItems[A], j \in 0..MaxItems[B] : total = [s \in Sides |-> IF s = A THEN i ELSE j]
  /\ final = FALSE
  /\ pc = [s \in Sides |-> "idle"] /\ reg = [s \in Sides |-> FALSE]
  /\ sink = [s \in Sides |-> "open"] /\ fin = [s \in Sides |-> "none"]
  /\ asked = [s \in Sides |-> 0] /\ got = [s \in Sides |-> <<>>]
  /\ credit = [s \in Sides |-> 0] /\ sent = [s \in Sides |-> 0]
  /\ stopped = [s \in Sides |-> FALSE] /\ calls = 0
  /\ closed = [s \in Sides |-> FALSE]
  /\ inbox = [s \in Sides |-> <<>>] /\ unheard = {} /\ crashed = FALSE

Goto(s, to) == pc' = [pc EXCEPT ![s] = to]

Terminate(s, how) ==
  IF sink[s] = "open"
    THEN sink' = [sink EXCEPT ![s] = how] /\ fin' = [fin EXCEPT ![s] = "run"]
    ELSE UNCHANGED <<sink, fin>>

\* how a publisher may end
Ends(s) == IF stopped[s] THEN {"error"} ELSE {"complete", "error"}

----------------------------------------------------------------------------
(* The requester *)

\* RequestChannel: the test of closed; nothing is registered
Call ==
  /\ pc[A] = "idle"
  /\ Goto(A, IF closed[A] THEN "refused" ELSE "returned")
  /\ UNCHANGED <<total, final, reg, recvVars, sendVars, calls, closed, inbox, unheard, crashed>>

\* DoOnRequest, the first time: the request goes out, and the publisher of the
\* other half is subscribed to on a scheduler.  If the send fails there is no
\* callback to kill, and nothing more happens; but a request that was split
\* subscribes all the same
Request ==
  /\ pc[A] = "returned" /\ sink[A] = "open"
  /\ asked' = [asked EXCEPT ![A] = 1]
  /\ Send(A, F("request", 1))
  /\ \E to \in IF closed[A] THEN {"refused", "subscribing"} ELSE {"subscribing"} : Goto(A, to)
  /\ UNCHANGED <<total, final, reg, sink, fin, got, sendVars, calls, closed, unheard, crashed>>

\* fault: the requester's publisher is not asked for its first item
OnSubscribeUnasked ==
  /\ pc[A] = "subscribing"
  /\ reg' = [reg EXCEPT ![A] = TRUE]
  /\ Goto(A, "active")
  /\ UNCHANGED <<total, final, recvVars, sendVars, calls, closed, inbox, unheard, crashed>>

\* requestChannelSubscriber.OnSubscribe: register, and ask for one item
OnSubscribeA ==
  /\ pc[A] = "subscribing"
  /\ reg' = [reg EXCEPT ![A] = TRUE]
  /\ credit' = [credit EXCEPT ![A] = 1]
  /\ Goto(A, "active")
  /\ UNCHANGED <<total, final, recvVars, sent, stopped, calls, closed, inbox, unheard, crashed>>

\* the same once the context is done
OnSubscribeDoneA ==
  /\ pc[A] = "subscribing"
  /\ Send(A, F("error", 0))
  /\ Goto(A, "ended")
  /\ UNCHANGED <<total, final, reg, recvVars, sendVars, calls, closed, unheard, crashed>>

\* OnNext, OnComplete and OnError
EmitA ==
  /\ pc[A] = "active" /\ ~stopped[A] /\ sent[A] < total[A] /\ credit[A] > 0
  /\ sent' = [sent EXCEPT ![A] = @ + 1] /\ credit' = [credit EXCEPT ![A] = @ - 1]
  /\ Send(A, F("next", sent[A] + 1))
  /\ UNCHANGED <<total, final, pc, reg, recvVars, stopped, calls, closed, unheard, crashed>>

EndA ==
  /\ pc[A] = "active" /\ (stopped[A] \/ sent[A] = total[A])
  /\ \E how \in Ends(A) : Send(A, F(how, 0))
  /\ Goto(A, "ended")
  /\ UNCHANGED <<total, final, reg, recvVars, sendVars, calls, closed, unheard, crashed>>

\* DoFinally of the requester sends no CANCEL
FinallyA ==
  /\ fin[A] = "run" /\ fin' = [fin EXCEPT ![A] = "done"]
  /\ reg' = [reg EXCEPT ![A] = FALSE]
  /\ UNCHANGED <<total, final, pc, sink, asked, got, sendVars, calls, closed, inbox, unheard, crashed>>

----------------------------------------------------------------------------
(* The responder *)

\* respondRequestChannel up to the wait for subscribed; the handler may return
\* nothing or panic
Respond(n) ==
  \/ /\ Goto(B, "refused")
     /\ inbox' = [inbox EXCEPT ![A] = IF Arrives THEN Append(@, F("error", 0)) ELSE @,
                               ![B] = Tail(@)]
     /\ UNCHANGED credit
  \/ /\ Goto(B, "subscribing") /\ credit' = [credit EXCEPT ![B] = n]
     /\ inbox' = [inbox EXCEPT ![B] = Tail(@)]

\* respondChannelSubscriber.OnSubscribe: register, and let the dispatcher go on
OnSubscribeB ==
  /\ pc[B] = "subscribing"
  /\ reg' = [reg EXCEPT ![B] = TRUE]
  /\ Goto(B, "active")
  /\ UNCHANGED <<total, final, recvVars, sendVars, calls, closed, inbox, unheard, crashed>>

\* fault: the first end of a half unregisters the channel
CountOne ==
  /\ calls' = calls + 1
  /\ reg' = [reg EXCEPT ![B] = FALSE]

\* finallyRequests.Inc() == 2
Count ==
  /\ calls' = calls + 1
  /\ reg' = IF calls + 1 = 2 THEN [reg EXCEPT ![B] = FALSE] ELSE reg

\* the same once the context is done: the dispatcher waits for ever
OnSubscribeDoneB ==
  /\ pc[B] = "subscribing"
  /\ Count
  /\ Send(B, F("error", 0))
  /\ Goto(B, "stuck")
  /\ UNCHANGED <<total, final, recvVars, sendVars, closed, unheard, crashed>>

EmitB ==
  /\ pc[B] = "active" /\ ~stopped[B] /\ sent[B] < total[B] /\ credit[B] > 0
  /\ sent' = [sent EXCEPT ![B] = @ + 1] /\ credit' = [credit EXCEPT ![B] = @ - 1]
  /\ \/ /\ Send(B, F("next", sent[B] + 1))
        /\ UNCHANGED <<calls, reg, final>>
     \/ /\ sent[B] + 1 = total[B] /\ final' = TRUE
        /\ Count /\ Send(B, F("final", sent[B] + 1))
  /\ UNCHANGED <<total, pc, recvVars, stopped, closed, unheard, crashed>>

\* OnComplete, whose frame went with a final payload, and OnError, which may
\* follow one too
EndB ==
  /\ pc[B] = "active" /\ (stopped[B] \/ sent[B] = total[B])
  /\ Count
  /\ \E how \in Ends(B) :
       IF final /\ how = "complete" THEN UNCHANGED inbox ELSE Send(B, F(how, 0))
  /\ Goto(B, "ended")
  /\ UNCHANGED <<total, final, recvVars, sendVars, closed, unheard, crashed>>

\* DoFinally of the responder's receiving flux, if anyone has subscribed to it
FinallyB ==
  /\ fin[B] = "run" /\ asked[B] > 0
  /\ fin' = [fin EXCEPT ![B] = "done"]
  /\ Count
  /\ IF sink[B] = "cancel" THEN Send(B, F("cancel", 0)) ELSE UNCHANGED inbox
  /\ UNCHANGED <<total, final, pc, sink, asked, got, sendVars, closed, unheard, crashed>>

----------------------------------------------------------------------------
(* Both sides *)

Begun(s) == pc[s] \notin {"idle", "returned", "refused"}

\* the subscriber asks for one more item
Ask(s) ==
  /\ Begun(s) /\ sink[s] = "open" /\ asked[s] < Asks[s]
  /\ asked' = [asked EXCEPT ![s] = @ + 1]
  /\ Send(s, F("requestN", 1))
  /\ UNCHANGED <<total, final, pc, reg, sink, fin, got, sendVars, calls, closed, unheard, crashed>>

Cancel(s) ==
  /\ Begun(s) /\ sink[s] = "open" /\ asked[s] > 0
  /\ Terminate(s, "cancel")
  /\ UNCHANGED <<total, final, pc, reg, asked, got, sendVars, calls, closed, inbox, unheard, crashed>>

\* onFramePayload and onFrameError, of a frame that has a callback
Deliver(s, f) ==
  /\ got' = IF f.n > 0 /\ sink[s] = "open" THEN [got EXCEPT ![s] = Append(@, f.n)] ELSE got
  /\ IF f.type = "next" THEN UNCHANGED <<sink, fin>>
                        ELSE Terminate(s, IF f.type = "error" THEN "error" ELSE "complete")

\* a frame with a callback; the CANCEL of a responder finds a callback that
\* onFrameCancel does not expect
Handle(s, f) ==
  \/ /\ f.type \in {"next", "final", "complete", "error"}
     /\ Deliver(s, f) /\ UNCHANGED <<credit, crashed>>
  \/ /\ f.type = "requestN"
     /\ credit' = [credit EXCEPT ![s] = @ + f.n]
     /\ UNCHANGED <<sink, fin, got, crashed>>
  \/ /\ f.type = "cancel"
     /\ crashed' = TRUE
     /\ UNCHANGED <<credit, sink, fin, got>>

\* a frame without a callback is dropped: demand for a publisher that still has
\* items, or an answer to a requester that has no callback yet
Miss(s, f) ==
  unheard' = CASE s = A /\ f.type = "requestN" /\ pc[A] \in {"subscribing", "active"}
                    -> unheard \cup {"demand"}
               [] s = A /\ f.type # "requestN" /\ pc[A] = "subscribing"
                    -> unheard \cup {"answer"}
               [] OTHER -> unheard

Receive(s) ==
  /\ inbox[s] # <<>>
  /\ s = B => pc[B] \notin {"subscribing", "stuck"}
  /\ LET f == Head(inbox[s]) IN
       \/ /\ f.type = "request" /\ Respond(f.n)
          /\ UNCHANGED <<sink, fin, got, unheard, crashed>>
       \/ /\ f.type # "request" /\ reg[s] /\ Handle(s, f)
          /\ inbox' = [inbox EXCEPT ![s] = Tail(@)]
          /\ UNCHANGED <<pc, unheard>>
       \/ /\ f.type # "request" /\ ~reg[s] /\ Miss(s, f)
          /\ inbox' = [inbox EXCEPT ![s] = Tail(@)]
          /\ UNCHANGED <<pc, credit, sink, fin, got, crashed>>
  /\ UNCHANGED <<total, final, reg, asked, sent, stopped, calls, closed>>

\* Close, from closed to destroyHandler, which stops both halves; the peer loses
\* what it has not received, while what was read here is still handled
Close(s) ==
  /\ ~closed[s] /\ closed' = [closed EXCEPT ![s] = TRUE]
  /\ inbox' = [inbox EXCEPT ![Other(s)] = <<>>]
  /\ IF reg[s] THEN Terminate(s, "error") /\ stopped' = [stopped EXCEPT ![s] = TRUE]
               ELSE UNCHANGED <<sink, fin, stopped>>
  /\ UNCHANGED <<total, final, pc, reg, asked, got, credit, sent, calls, unheard, crashed>>
----------------------------------------------------------------------------

Requester == OnSubscribeA \/ OnSubscribeDoneA \/ EmitA \/ EndA \/ FinallyA
Responder == OnSubscribeB \/ OnSubscribeDoneB \/ EmitB \/ EndB \/ FinallyB

Next ==
  /\ ~crashed
  /\ \/ Call \/ Request \/ Requester \/ Responder
     \/ \E s \in Sides : Ask(s) \/ Cancel(s) \/ Receive(s) \/ Close(s)

(***************************************************************************)
(* Goroutines run and frames arrive.                                       *)
(***************************************************************************)
Fairness ==
  /\ WF_vars(~crashed /\ Requester) /\ WF_vars(~crashed /\ Responder)
  /\ \A s \in Sides : WF_vars(~crashed /\ Receive(s))

Spec     == Init /\ [][Next]_vars
FairSpec == Spec /\ Fairness
----------------------------------------------------------------------------

FrameTypes == {"request", "requestN", "cancel", "next", "final", "complete", "error"}

\* Every variable keeps its type. A publisher is never owed more demand than its
\* peer has asked for, with the one item that the requester asks of its own.
TypeOK ==
  /\ pc \in [Sides -> {"idle", "refused", "returned", "subscribing", "stuck", "active", "ended"}]
  /\ reg \in [Sides -> BOOLEAN] /\ stopped \in [Sides -> BOOLEAN]
  /\ sink \in [Sides -> {"open", "complete", "error", "cancel"}]
  /\ fin \in [Sides -> {"none", "run", "done"}]
  /\ \A s \in Sides : asked[s] \in 0..Asks[s]
  /\ calls \in 0..3
  /\ \A s \in Sides :
       /\ got[s] \in Seq(1..MaxItems[Other(s)]) /\ Len(got[s]) <= sent[Other(s)] /\ sent[s] \in 0..total[s]
       /\ credit[s] \in 0..(IF s = A THEN asked[B] + 1 ELSE asked[A])
       /\ \A i \in 1..Len(inbox[s]) : inbox[s][i].type \in FrameTypes
  /\ closed \in [Sides -> BOOLEAN]
  /\ unheard \subseteq {"answer", "demand"} /\ crashed \in BOOLEAN

\* Either subscriber gets its peer's items in order and without a gap, and is told
\* of completion only when it has them all; the requester only if no answer came
\* before its callback.
Received ==
  \A s \in Sides : s = B \/ "answer" \notin unheard =>
    /\ \A i \in 1..Len(got[s]) : got[s][i] = i
    /\ sink[s] = "complete" => Len(got[s]) = total[Other(s)]

\* The responder forgets a channel only when it has sent its end and its receiving
\* flux has run DoFinally; a final payload, which counts twice, may be too early.
HalvesKept ==
  pc[B] \in {"active", "ended"} /\ ~reg[B] /\ ~final => pc[B] = "ended" /\ fin[B] = "done"

\* A requester that has a callback and has asked for all there is gets its terminal
\* signal, unless an answer came too early or the peer closed or crashed it.
RequesterServed ==
  (reg[A] /\ ~closed[A] /\ asked[A] >= total[B]) ~>
    (sink[A] # "open" \/ "answer" \in unheard \/ closed[B] \/ crashed)

\* So does the responder, unless its demand found no callback: before the requester
\* had one, or after the end of the requester's own receiving flux removed it.
ResponderServed ==
  (reg[B] /\ asked[B] + 1 >= total[A]) ~>
    (sink[B] # "open" \/ "demand" \in unheard \/ final \/ closed[A] \/ closed[B] \/ crashed)

\* Both halves of a channel end.
Answered == RequesterServed /\ ResponderServed

\* onFrameCancel meets a callback it does not know, and panics, only when the
\* responder's subscriber has cancelled: no end or close of either side does it.
OnlyCancelCrashes == crashed => sink[B] = "cancel"

\* A channel carries what was sent until both halves end: TypeOK, Received,
\* HalvesKept, OnlyCancelCrashes.
Delivered == TypeOK /\ Received /\ HalvesKept /\ OnlyCancelCrashes
============================================================================
