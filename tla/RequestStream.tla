--------------------------- MODULE RequestStream ---------------------------
(***************************************************************************)
(* One request-response or request-stream, from the call of the requester  *)
(* to the last frame (duplex.go, subscriber_request_response.go,           *)
(* subscriber_request_stream.go): its callback in the table of each        *)
(* socket, the demand it asks for, its cancellation, and Close of either   *)
(* socket at any moment.                                                   *)
(*                                                                         *)
(* The frames of a stream travel in order, as Transport's reader and the   *)
(* write loop keep them.  Publishers, processors and subscriptions are     *)
(* those of reactor-go: a processor takes one terminal signal and ignores  *)
(* what follows, then runs DoFinally once; a publisher emits what was      *)
(* demanded, and ends a cancelled subscription with an error.              *)
(***************************************************************************)
EXTENDS Integers, Sequences

CONSTANTS
  MaxItems,   \* items the responder's publisher may have
  MaxAsks,    \* times the requester's subscriber asks for items
  MaxN        \* items it asks for at a time

ASSUME RequestAssumption ==
  /\ MaxItems \in Nat /\ MaxAsks \in Nat \ {0} /\ MaxN \in Nat \ {0}

A == "requester"
B == "responder"
Sides == {A, B}

VARIABLES
  kind,              \* "response" or "stream"
  total, outcome,    \* what the publisher has: items, and how it ends
  apc,               \* the requesting call and its subscriber
  areg, sink, fin,   \* the callback of the requester, its processor, its DoFinally
  first, asks, asked, got,   \* n of the request, demands made, their sum, items received
  bpc, breg,         \* the responder's subscriber, and its callback
  credit, sent, stopped,     \* demand left, items emitted, subscription cancelled
  closed, swept,     \* of each socket: closed, and its callbacks stopped
  ab, ba,            \* frames under way
  unheard            \* demand, or a cancel, that came before the responder had a callback

planVars == <<kind, total, outcome>>
aVars    == <<apc, areg, sink, fin, first, asks, asked, got>>
bVars    == <<bpc, breg, credit, sent, stopped>>
sockVars == <<closed, swept>>
vars == <<planVars, aVars, bVars, sockVars, ab, ba, unheard>>

\* every frame has the same two fields
F(type, n) == [type |-> type, n |-> n]

\* a frame arrives if its socket is open and the connection has not been closed
SendA(f) == ab' = IF closed[A] \/ swept[B] THEN ab ELSE Append(ab, f)
SendB(f) == ba' = IF closed[B] \/ swept[A] THEN ba ELSE Append(ba, f)

RequestMax == MaxItems + MaxAsks * MaxN + 1

Init ==
  /\ kind \in {"response", "stream"} /\ outcome \in {"complete", "error"}
  /\ total \in 0..(IF kind = "response" THEN IF outcome = "error" THEN 0 ELSE 1 ELSE MaxItems)
  /\ apc = "idle" /\ areg = FALSE /\ sink = "open" /\ fin = "none"
  /\ first = 0 /\ asks = 0 /\ asked = 0 /\ got = <<>>
  /\ bpc = "idle" /\ breg = FALSE /\ credit = 0 /\ sent = 0 /\ stopped = FALSE
  /\ closed = [s \in Sides |-> FALSE] /\ swept = [s \in Sides |-> FALSE]
  /\ ab = <<>> /\ ba = <<>> /\ unheard = {}

\* the processor's terminal signal; DoFinally follows
Terminate(how) ==
  IF sink = "open" THEN sink' = how /\ fin' = "run" ELSE UNCHANGED <<sink, fin>>

----------------------------------------------------------------------------
(* The requester *)

\* the test of closed at the head of RequestResponse and RequestStream
Check ==
  /\ apc = "idle"
  /\ apc' = IF closed[A] THEN "refused" ELSE "checked"
  /\ UNCHANGED <<planVars, areg, sink, fin, first, asks, asked, got, bVars, sockVars, ab, ba, unheard>>

Register ==
  /\ apc = "checked"
  /\ areg' = TRUE
  /\ apc' = IF kind = "response" THEN "requesting" ELSE "returned"
  /\ first' = IF kind = "response" THEN RequestMax ELSE 0
  /\ UNCHANGED <<planVars, sink, fin, asks, asked, got, bVars, sockVars, ab, ba, unheard>>

\* DoOnRequest, the first time: requested.CAS
AskFirst(n) ==
  /\ apc = "returned" /\ sink = "open"
  /\ apc' = "requesting" /\ first' = n
  /\ asks' = asks + 1 /\ asked' = asked + n
  /\ UNCHANGED <<planVars, areg, sink, fin, got, bVars, sockVars, ab, ba, unheard>>

\* fault: a request that cannot be sent leaves its callback alone
SendRequestUnchecked ==
  /\ apc = "requesting"
  /\ SendA(F("request", first))
  /\ apc' = "sent"
  /\ UNCHANGED <<planVars, areg, sink, fin, first, asks, asked, got, bVars, sockVars, ba, unheard>>

\* sendFrame of the request, and killCallback where it fails
SendRequest ==
  /\ apc = "requesting"
  /\ SendA(F("request", first))
  /\ IF closed[A] /\ areg THEN Terminate("error") ELSE UNCHANGED <<sink, fin>>
  /\ apc' = "sent"
  /\ UNCHANGED <<planVars, areg, first, asks, asked, got, bVars, sockVars, ba, unheard>>

\* DoOnRequest, later; another goroutine may ask while the request is being sent
AskMore(n) ==
  /\ kind = "stream" /\ apc \in {"requesting", "sent"} /\ sink = "open" /\ asks < MaxAsks
  /\ SendA(F("requestN", n))
  /\ asks' = asks + 1 /\ asked' = asked + n
  /\ UNCHANGED <<planVars, apc, areg, sink, fin, first, got, bVars, sockVars, ba, unheard>>

\* the subscriber cancels: a stream also while its request is being sent
Cancel ==
  /\ sink = "open"
  /\ apc \in IF kind = "stream" THEN {"returned", "requesting", "sent"} ELSE {"sent"}
  /\ Terminate("cancel")
  /\ UNCHANGED <<planVars, apc, areg, first, asks, asked, got, bVars, sockVars, ab, ba, unheard>>

\* DoFinally: CANCEL, if that was the signal
Finally ==
  /\ fin = "run"
  /\ IF sink = "cancel" THEN SendA(F("cancel", 0)) ELSE UNCHANGED ab
  /\ fin' = "unregister"
  /\ UNCHANGED <<planVars, apc, areg, sink, first, asks, asked, got, bVars, sockVars, ba, unheard>>

Unregister ==
  /\ fin = "unregister"
  /\ areg' = FALSE /\ fin' = "done"
  /\ UNCHANGED <<planVars, apc, sink, first, asks, asked, got, bVars, sockVars, ab, ba, unheard>>

\* onFramePayload and onFrameError; without a callback the frame is released
ReceiveA ==
  /\ ba # <<>> /\ ba' = Tail(ba)
  /\ LET f == Head(ba) IN
       /\ got' = IF areg /\ sink = "open" /\ f.n > 0 THEN Append(got, f.n) ELSE got
       /\ IF areg /\ (f.type # "next" \/ kind = "response")
            THEN Terminate(IF f.type = "error" THEN "error" ELSE "complete")
            ELSE UNCHANGED <<sink, fin>>
  /\ UNCHANGED <<planVars, apc, areg, first, asks, asked, bVars, sockVars, ab, unheard>>

----------------------------------------------------------------------------
(* The responder *)

\* respondRequestResponse, respondRequestStream: the responder's handler may
\* return nothing or panic; what it returns is subscribed to on a scheduler
Respond(f) ==
  \/ /\ SendB(F("error", 0)) /\ bpc' = "ended"
     /\ UNCHANGED credit
  \/ /\ bpc' = "subscribing" /\ credit' = f.n
     /\ UNCHANGED ba

\* onFrameRequestN knows the callback of a stream
Demand(f) ==
  IF breg
    THEN credit' = (IF kind = "stream" THEN credit + f.n ELSE credit) /\ UNCHANGED unheard
    ELSE /\ unheard' = IF bpc \in {"idle", "subscribing"} THEN unheard \cup {"requestN"} ELSE unheard
         /\ UNCHANGED credit

\* onFrameCancel
Halt ==
  IF breg
    THEN stopped' = TRUE /\ UNCHANGED unheard
    ELSE /\ unheard' = IF bpc \in {"idle", "subscribing"} THEN unheard \cup {"cancel"} ELSE unheard
         /\ UNCHANGED stopped

ReceiveB ==
  /\ ab # <<>> /\ ab' = Tail(ab)
  /\ LET f == Head(ab) IN
       \/ f.type = "request" /\ Respond(f) /\ UNCHANGED <<stopped, unheard>>
       \/ f.type = "requestN" /\ Demand(f) /\ UNCHANGED <<bpc, stopped, ba>>
       \/ f.type = "cancel" /\ Halt /\ UNCHANGED <<bpc, credit, ba>>
  /\ UNCHANGED <<planVars, aVars, breg, sent, sockVars>>

\* OnSubscribe: register, then Request
OnSubscribe ==
  /\ bpc = "subscribing"
  /\ breg' = TRUE /\ bpc' = "active"
  /\ UNCHANGED <<planVars, aVars, credit, sent, stopped, sockVars, ab, ba, unheard>>

\* OnSubscribe once the context is done
OnSubscribeDone ==
  /\ bpc = "subscribing"
  /\ SendB(F("error", 0)) /\ bpc' = "ending"
  /\ UNCHANGED <<planVars, aVars, breg, credit, sent, stopped, sockVars, ab, unheard>>

\* fault: an item is emitted and its demand is not counted
EmitUncounted ==
  /\ bpc = "active" /\ ~stopped /\ sent < total /\ credit > 0
  /\ sent' = sent + 1
  /\ SendB(F("next", sent + 1))
  /\ UNCHANGED <<planVars, aVars, bpc, breg, credit, stopped, sockVars, ab, unheard>>

Emit ==
  /\ bpc = "active" /\ ~stopped /\ sent < total /\ credit > 0
  /\ sent' = sent + 1 /\ credit' = credit - 1
  /\ SendB(F("next", sent + 1))
  /\ UNCHANGED <<planVars, aVars, bpc, breg, stopped, sockVars, ab, unheard>>

\* OnComplete and OnError; the completion of a response went with its item
End ==
  /\ bpc = "active" /\ ~stopped /\ sent = total
  /\ IF kind = "response" /\ sent = 1 THEN UNCHANGED ba ELSE SendB(F(outcome, 0))
  /\ bpc' = "ending"
  /\ UNCHANGED <<planVars, aVars, breg, credit, sent, stopped, sockVars, ab, unheard>>

\* the subscription was cancelled: OnError
EndCancelled ==
  /\ bpc = "active" /\ stopped
  /\ SendB(F("error", 0)) /\ bpc' = "ending"
  /\ UNCHANGED <<planVars, aVars, breg, credit, sent, stopped, sockVars, ab, unheard>>

\* fault: the callback stays in the table
FinishRegistered ==
  /\ bpc = "ending" /\ bpc' = "ended"
  /\ UNCHANGED <<planVars, aVars, breg, credit, sent, stopped, sockVars, ab, ba, unheard>>

Finish ==
  /\ bpc = "ending" /\ bpc' = "ended"
  /\ breg' = FALSE
  /\ UNCHANGED <<planVars, aVars, credit, sent, stopped, sockVars, ab, ba, unheard>>

----------------------------------------------------------------------------
(* Close *)

Close(s) ==
  /\ ~closed[s]
  /\ closed' = [closed EXCEPT ![s] = TRUE]
  /\ UNCHANGED <<planVars, aVars, bVars, swept, ab, ba, unheard>>

\* what is not yet on the wire is lost with the connection
Cut == /\ \E k \in 0..Len(ab) : ab' = SubSeq(ab, 1, k)
       /\ \E k \in 0..Len(ba) : ba' = SubSeq(ba, 1, k)

\* destroyTransport and destroyHandler
SweepA ==
  /\ closed[A] /\ ~swept[A] /\ swept' = [swept EXCEPT ![A] = TRUE]
  /\ IF areg THEN Terminate("error") ELSE UNCHANGED <<sink, fin>>
  /\ Cut
  /\ UNCHANGED <<planVars, apc, areg, first, asks, asked, got, bVars, closed, unheard>>

SweepB ==
  /\ closed[B] /\ ~swept[B] /\ swept' = [swept EXCEPT ![B] = TRUE]
  /\ stopped' = (stopped \/ breg)
  /\ Cut
  /\ UNCHANGED <<planVars, aVars, bpc, breg, credit, sent, closed, unheard>>
----------------------------------------------------------------------------

Requester == Check \/ Register \/ SendRequest \/ Finally \/ Unregister
Responder == OnSubscribe \/ OnSubscribeDone \/ Emit \/ End \/ EndCancelled \/ Finish

Next ==
  \/ Requester \/ Responder \/ Cancel \/ ReceiveA \/ ReceiveB
  \/ \E n \in 1..MaxN : AskFirst(n) \/ AskMore(n)
  \/ \E s \in Sides : Close(s)
  \/ SweepA \/ SweepB

(***************************************************************************)
(* Goroutines run, frames under way arrive, and a Close that has begun goes *)
(* on.  Nobody is obliged to request, to ask for more, to cancel or to     *)
(* close.                                                                  *)
(***************************************************************************)
Fairness ==
  /\ WF_vars(Requester /\ apc # "idle") /\ WF_vars(Responder)
  /\ WF_vars(ReceiveA) /\ WF_vars(ReceiveB) /\ WF_vars(SweepA) /\ WF_vars(SweepB)

Spec     == Init /\ [][Next]_vars
FairSpec == Spec /\ Fairness
----------------------------------------------------------------------------

\* the demand of the frames up to the i-th, and of all under way to the responder
InFlight(f) == IF f.type = "cancel" THEN 0 ELSE f.n
UpTo(q)     == LET demand[i \in 0..Len(q)] == IF i = 0 THEN 0 ELSE demand[i - 1] + InFlight(q[i])
               IN  demand
OnTheWay    == UpTo(ab)[Len(ab)]

FrameTypes == {"request", "requestN", "cancel", "next", "complete", "error"}
FrameType(q) ==
  \A i \in 1..Len(q) : q[i].type \in FrameTypes /\ q[i].n \in 0..RequestMax

\* Every variable keeps its type; the demand at the responder is never more
\* than its peer asked for.
TypeOK ==
  /\ apc \in {"idle", "refused", "checked", "returned", "requesting", "sent"}
  /\ areg \in BOOLEAN /\ sink \in {"open", "complete", "error", "cancel"}
  /\ fin \in {"none", "run", "unregister", "done"}
  /\ first \in 0..RequestMax /\ asks \in 0..MaxAsks /\ asked \in 0..MaxAsks * MaxN
  /\ bpc \in {"idle", "subscribing", "active", "ending", "ended"} /\ breg \in BOOLEAN
  /\ credit \in 0..(IF kind = "stream" THEN asked ELSE RequestMax)
  /\ sent \in 0..total /\ Len(got) <= sent /\ stopped \in BOOLEAN
  /\ closed \in [Sides -> BOOLEAN] /\ swept \in [Sides -> BOOLEAN]
  /\ FrameType(ab) /\ FrameType(ba) /\ unheard \subseteq {"requestN", "cancel"}

\* The subscriber gets the publisher's items in order and without a gap, and is
\* told of completion only when it has them all, whatever is cancelled, closed or
\* lost on the way.
Received ==
  /\ \A i \in 1..Len(got) : got[i] = i
  /\ sink = "complete" => outcome = "complete" /\ Len(got) = total

\* Demand is neither invented nor lost: what was asked for has been used, is at
\* the publisher or is under way, unless it came before the callback or a socket
\* was closed.
DemandKept ==
  kind = "stream" =>
    /\ sent + credit + OnTheWay <= asked
    /\ apc = "sent" /\ bpc \in {"idle", "subscribing", "active"} /\ unheard = {}
       /\ ~closed[A] /\ ~closed[B] => sent + credit + OnTheWay = asked

\* A stream carries what was sent as it was asked for: TypeOK, Received, DemandKept.
Delivered == TypeOK /\ Received /\ DemandKept

\* A requester that has asked for all there is gets its terminal signal, unless
\* the peer closed or was asked for more before it knew the stream (by a demand
\* that overtook the request itself, or came before its subscriber).
Served ==
  (apc = "sent" /\ (kind = "response" \/ asked >= total)) ~>
    (sink # "open" \/ closed[B] \/ "requestN" \in unheard)

\* Whoever asked through a socket that closes is told, at whatever moment.
ClosedEnds == (closed[A] /\ apc \in {"requesting", "sent"}) ~> sink # "open"

\* Every request ends: with all that was asked for, or with the socket.
Answered == Served /\ ClosedEnds

\* A cancel stops a publisher that has started, unless it came before the
\* responder's callback (it may even overtake a stream's request) or a socket closed.
CancelStops ==
  (sink = "cancel" /\ bpc = "active") ~>
    (bpc = "ended" \/ closed[A] \/ closed[B] \/ "cancel" \in unheard)

\* No entry stays in either table once its stream has ended: the requester's
\* after a terminal signal, the responder's after an end, a cancel or a close that
\* found it.
Forgotten ==
  /\ (sink # "open") ~> ~areg
  /\ (bpc = "ending" \/ stopped \/ (closed[B] /\ breg /\ ~swept[B])) ~> ~breg
  /\ CancelStops
============================================================================
