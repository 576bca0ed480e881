--------------------------- MODULE Fragmentation ---------------------------
(***************************************************************************)
(* One direction of one stream, from a payload given to the sending socket *)
(* to a payload dispatched by the receiving one: SplitSkip cuts it to the  *)
(* mtu (internal/fragmentation/splitter.go), doFragment and Joiner put it  *)
(* together again (duplex.go, joiner.go).  The sender's CANCEL, REQUEST_N  *)
(* and ERROR of the same stream go down the same line; the first two may   *)
(* fall between two fragments, and each deletes what the receiver has      *)
(* joined so far when it finds no callback.                                *)
(*                                                                         *)
(* A byte is its position in the metadata or the data it belongs to.  The  *)
(* write loop between the two sockets is a sequence of frames.  Fragments, *)
(* the joiner and what is dispatched carry the number of their payload     *)
(* (of), and cut collects the payloads of which a part was deleted: ghosts *)
(* that no guard reads.                                                    *)
(***************************************************************************)
EXTENDS Integers, Sequences, FiniteSets

CONSTANTS
  Mtus,          \* the mtu of the sending socket, any of these
  MetadataSizes, \* bounds: bytes of metadata and of data in a payload, any of
  DataSizes,     \* these
  MaxPayloads,   \* bounds: payloads of a channel or of an answer, and
  MaxDemands     \* REQUEST_N under way at a time

FrameHeaderLen == 6
MinFragment    == FrameHeaderLen + 4

ASSUME MtuAssumption == \A n \in Mtus : n \in Nat /\ n >= MinFragment
ASSUME SizeAssumption ==
  /\ MetadataSizes \subseteq Nat /\ DataSizes \subseteq Nat
  /\ MaxPayloads \in Nat \ {0} /\ MaxDemands \in Nat

\* what the stream carries in this direction: a single request, of
\* request-response or of request-stream; a channel's request and payloads; the
\* payloads that answer a request-response or a request-stream, whose requester
\* registered its callback before it sent; or those of a channel's responder,
\* whose requester registers only once its own publisher is subscribed
Requests == {"response", "stream", "channel"}
Kinds    == Requests \cup {"reply", "answer"}

NoJoiner == [open |-> FALSE]

VARIABLES
  mtu, kind,
  sent,       \* payloads given to the socket
  split,      \* a split is running; its counters idx, cursor1, cursor2
  idx, cursor1, cursor2,
  ended,      \* no more payloads: "no", after a "final" payload, or "yes"
  cancel,     \* the sender has sent CANCEL
  wire,
  joiner,     \* the fragments of the stream, joined so far
  cut,        \* the payloads of which joined fragments were deleted
  callback,   \* of the receiver, for the stream: "none" yet, "in", or "gone"
  got,        \* payloads dispatched
  completed,  \* the receiver's processor was completed, or failed
  dead        \* the receiver stopped: "no", "invalid" frame read, or "panic"

splitVars == <<split, idx, cursor1, cursor2>>
sendVars  == <<sent, splitVars, ended, cancel>>
recvVars  == <<joiner, cut, callback, got, completed, dead>>
vars == <<mtu, kind, sendVars, wire, recvVars>>

Least(a, b)    == IF a < b THEN a ELSE b
Most(a, b)     == IF a > b THEN a ELSE b
Bytes(lo, hi)  == [i \in 1..(hi - lo) |-> lo + i]
Payload        == [m : MetadataSizes, d : DataSizes, final : BOOLEAN]
Current        == sent[Len(sent)]

\* the request frames of a stream and of a channel have an initial request n
Skip(n, i) == IF n = 1 /\ i = 0 /\ kind \in {"stream", "channel"} THEN 4 ELSE 0
Type(n, i) == IF n = 1 /\ i = 0 /\ kind \in Requests THEN "REQUEST" ELSE "PAYLOAD"

\* Len of the writeable frames: the metadata length is written if there is any
FrameLen(f) ==
  FrameHeaderLen + f.skip + Len(f.data) + (IF f.meta = <<>> THEN 0 ELSE 3 + Len(f.meta))

\* Validate of the frame read: a metadata flag promises a metadata length
Valid(f) ==
  f.metadata => FrameLen(f) - FrameHeaderLen >= f.skip + 3

Init ==
  /\ mtu \in Mtus /\ kind \in Kinds
  /\ sent = <<>>
  /\ split = FALSE /\ idx = 0 /\ cursor1 = 0 /\ cursor2 = 0
  /\ ended = "no" /\ cancel = FALSE
  /\ wire = <<>>
  /\ joiner = NoJoiner /\ cut = {}
  /\ callback = IF kind = "reply" THEN "in" ELSE "none"
  /\ got = <<>>
  /\ completed = FALSE /\ dead = "no"

----------------------------------------------------------------------------
(* The sending socket *)

Size(p, skip) == FrameHeaderLen + skip + p.d + (IF p.m = 0 THEN 0 ELSE 3 + p.m)

SendWhole(p, n) ==
  wire' = Append(wire,
    [type |-> Type(n, 0), of |-> n, skip |-> Skip(n, 0), meta |-> Bytes(0, p.m), data |-> Bytes(0, p.d),
     metadata |-> p.m > 0, follow |-> FALSE, next |-> TRUE, complete |-> p.final])

\* a request is the first payload of its stream, and the only one unless the
\* stream is a channel; only a responder marks a payload final
MaySend(p) ==
  /\ ~split /\ ended = "no"
  /\ Len(sent) < (IF kind \in {"response", "stream"} THEN 1 ELSE MaxPayloads)
  /\ p.final => kind \notin Requests

\* shouldSplit decides whether the payload goes in one frame
Send(p) ==
  /\ MaySend(p)
  /\ sent' = Append(sent, p)
  /\ LET n == Len(sent) + 1 IN
       IF Size(p, Skip(n, 0)) > mtu
         THEN /\ split' = TRUE /\ idx' = 0 /\ cursor1' = 0 /\ cursor2' = 0
              /\ UNCHANGED wire
         ELSE SendWhole(p, n) /\ UNCHANGED splitVars
  /\ ended' = IF p.final THEN "final" ELSE "no"
  /\ UNCHANGED <<mtu, kind, cancel, recvVars>>

\* fault: the initial request n is not counted
RoomIgnoresSkip(n, i, more) == mtu - FrameHeaderLen - (IF more THEN 3 ELSE 0)

\* left: what the mtu leaves for the bytes of a fragment; below zero, none
Room(n, i, more) == mtu - FrameHeaderLen - Skip(n, i) - (IF more THEN 3 ELSE 0)

Follows(p, c1, c2) == c1 + c2 < p.m + p.d

HasMetadata(p) == cursor1 < p.m

\* how far the data gets, when the metadata leaves this much room
DataCursor(p, room) == Least(p.d, cursor2 + room)

\* one iteration of the loop of SplitSkip, and the frame its callback sends: the
\* metadata goes first, and data fills what is left
Fragment ==
  /\ split
  /\ LET p    == Current
         n    == Len(sent)
         more == HasMetadata(p)
         room == Most(0, Room(n, idx, more))
         c1   == Least(p.m, cursor1 + room)
         c2   == DataCursor(p, room - (c1 - cursor1))
         goOn == Follows(p, c1, c2)
     IN /\ wire' = Append(wire,
             [type |-> Type(n, idx), of |-> n, skip |-> Skip(n, idx),
              meta |-> Bytes(cursor1, c1), data |-> Bytes(cursor2, c2),
              metadata |-> more, follow |-> goOn, next |-> TRUE,
              complete |-> p.final /\ ~goOn])
        /\ cursor1' = c1 /\ cursor2' = c2
        /\ idx' = idx + 1
        /\ split' = goOn
  /\ UNCHANGED <<mtu, kind, sent, ended, cancel, recvVars>>

Mark(type) == Append(wire, [type |-> type])

\* a publisher ends once it has sent its payloads; a channel's requester
\* subscribes its own after the request
MayEnd ==
  /\ kind \in {"channel", "reply", "answer"}
  /\ ~split
  /\ kind = "channel" => sent # <<>>

\* OnComplete of the subscriber of a stream or a channel: a final payload has
\* completed it already
Complete ==
  /\ MayEnd /\ ended = "no"
  /\ ended' = "yes"
  /\ wire' = Append(wire,
       [type |-> "PAYLOAD", of |-> Len(sent), skip |-> 0, meta |-> <<>>, data |-> <<>>,
        metadata |-> FALSE, follow |-> FALSE, next |-> FALSE, complete |-> TRUE])
  /\ UNCHANGED <<mtu, kind, sent, splitVars, cancel, recvVars>>

\* OnError of the subscriber, which may follow a final payload, or the ERROR in
\* place of an answer when there is no handler
Fail ==
  /\ MayEnd /\ ended # "yes"
  /\ ended' = "yes"
  /\ wire' = Mark("ERROR")
  /\ UNCHANGED <<mtu, kind, sent, splitVars, cancel, recvVars>>

\* a flux is cancelled by any goroutine, while its request or an item of the
\* other half is being split too, a request-response only after; a channel's
\* requester sends no CANCEL
Cancel ==
  /\ ~cancel
  /\ kind \in {"stream", "answer"} \/ (kind = "response" /\ ~split /\ sent # <<>>)
  /\ cancel' = TRUE
  /\ wire' = Mark("CANCEL")
  /\ UNCHANGED <<mtu, kind, sent, splitVars, ended, recvVars>>

Demands == {i \in DOMAIN wire : wire[i].type = "REQUEST_N"}

\* the subscriber of a flux asks for more from any goroutine: the CAS that makes
\* the first Request(n) send the request does not make the second wait for it
Demand ==
  /\ kind \in {"stream", "channel", "answer"}
  /\ Cardinality(Demands) < MaxDemands
  /\ wire' = Mark("REQUEST_N")
  /\ UNCHANGED <<mtu, kind, sent, splitVars, ended, cancel, recvVars>>

----------------------------------------------------------------------------
(* The receiving socket *)

\* OnSubscribe of a channel's requester registers its callback
Register ==
  /\ kind = "answer" /\ callback = "none"
  /\ callback' = "in"
  /\ UNCHANGED <<mtu, kind, sendVars, wire, joiner, cut, got, completed, dead>>

DeleteFragment ==
  /\ joiner' = NoJoiner
  /\ cut' = cut \cup (IF joiner.open THEN {joiner.of} ELSE {})

\* the stream ends for the receiver, in DoFinally or with its own publisher
Unregister ==
  /\ callback = "in"
  /\ callback' = "gone"
  /\ DeleteFragment
  /\ UNCHANGED <<mtu, kind, sendVars, wire, got, completed, dead>>

Arrives(f) == wire # <<>> /\ dead = "no" /\ f = Head(wire) /\ wire' = Tail(wire)

\* what a joiner, or a frame that needs none, amounts to: header and flags of
\* the first frame, metadata up to the first frame without any, all the data
NewJoiner(f) ==
  [open |-> TRUE, of |-> f.of, type |-> f.type, next |-> f.next, complete |-> f.complete,
   inMetadata |-> f.metadata, meta |-> f.meta, data |-> f.data]

Push(j, f) ==
  LET more == j.inMetadata /\ f.metadata IN
    [j EXCEPT !.inMetadata = more,
              !.meta = IF more THEN @ \o f.meta ELSE @,
              !.data = @ \o f.data]

Item(j) == [of |-> j.of, meta |-> j.meta, data |-> j.data]

\* the handler of the whole: a request registers its callback, or is refused; a
\* payload without one is released
Dispatch(j) ==
  IF j.type = "REQUEST"
    THEN /\ callback' \in {"in", "gone"}
         /\ got' = Append(got, Item(j))
         /\ UNCHANGED completed
    ELSE /\ got' = IF callback = "in" /\ j.next THEN Append(got, Item(j)) ELSE got
         /\ completed' = (completed \/ (callback = "in" /\ j.complete))
         /\ UNCHANGED callback

\* fault: a finished joiner stays in the map
ReceiveKeepsJoiner(f) ==
  /\ LET j == IF joiner.open THEN Push(joiner, f) ELSE NewJoiner(f) IN
       /\ joiner' = j
       /\ IF f.follow THEN UNCHANGED <<callback, got, completed>> ELSE Dispatch(j)
  /\ UNCHANGED <<cut, dead>>

\* doFragment, and the dispatch of what it returns
Receive(f) ==
  /\ LET j == IF joiner.open THEN Push(joiner, f) ELSE NewJoiner(f) IN
       IF f.follow
         THEN joiner' = j /\ UNCHANGED <<callback, got, completed>>
         ELSE joiner' = NoJoiner /\ Dispatch(j)
  /\ UNCHANGED <<cut, dead>>

\* fault: the fragments of a cancelled stream stay in the map
ReceiveCancelKeepsFragments ==
  /\ cut' = cut \cup (IF joiner.open THEN {joiner.of} ELSE {})
  /\ dead' = IF callback = "in" /\ kind = "answer" THEN "panic" ELSE dead
  /\ UNCHANGED <<joiner, callback, got, completed>>

\* onFrameCancel, with its deferred deleteFragment: the callback of a channel's
\* requester is one it does not expect, and it panics
ReceiveCancel ==
  /\ DeleteFragment
  /\ dead' = IF callback = "in" /\ kind = "answer" THEN "panic" ELSE dead
  /\ UNCHANGED <<callback, got, completed>>

\* onFrameRequestN: without a callback what was joined is deleted
ReceiveRequestN ==
  /\ IF callback = "in" THEN UNCHANGED <<joiner, cut>> ELSE DeleteFragment
  /\ UNCHANGED <<callback, got, completed, dead>>

\* onFrameError: the same, and a callback is told
ReceiveError ==
  /\ IF callback = "in"
       THEN completed' = TRUE /\ UNCHANGED <<joiner, cut>>
       ELSE DeleteFragment /\ UNCHANGED completed
  /\ UNCHANGED <<callback, got, dead>>

\* Conn.Read fails on a frame that is not valid, and ends the connection
ReadFails ==
  /\ dead' = "invalid"
  /\ UNCHANGED <<joiner, cut, callback, got, completed>>

\* the frame's handler
Handle(f) ==
  CASE f.type = "CANCEL"    -> ReceiveCancel
    [] f.type = "REQUEST_N" -> ReceiveRequestN
    [] f.type = "ERROR"     -> ReceiveError
    [] OTHER                -> IF Valid(f) THEN Receive(f) ELSE ReadFails

Read ==
  \E f \in {wire[i] : i \in DOMAIN wire} :
    Arrives(f) /\ Handle(f) /\ UNCHANGED <<mtu, kind, sendVars>>

Next ==
  \/ \E p \in Payload : Send(p)
  \/ Fragment \/ Complete \/ Fail \/ Cancel \/ Demand
  \/ Register \/ Unregister \/ Read

Spec == Init /\ [][Next]_vars

----------------------------------------------------------------------------

\* The split stays inside its payload, and at most one payload is open.
TypeOK ==
  /\ mtu \in Mtus /\ kind \in Kinds
  /\ sent \in Seq(Payload) /\ Len(sent) <= MaxPayloads
  /\ split \in BOOLEAN /\ cursor1 \in Nat /\ cursor2 \in Nat /\ idx \in 0..(cursor1 + cursor2)
  /\ split => sent # <<>> /\ cursor1 <= Current.m /\ cursor2 <= Current.d
  /\ \A v \in {cancel, joiner.open, completed} : v \in BOOLEAN
  /\ ended \in {"no", "final", "yes"}
  /\ callback \in {"none", "in", "gone"} /\ dead \in {"no", "invalid", "panic"}
  /\ cut \subseteq Nat

\* No frame is longer than the mtu, the metadata length and the initial request
\* n included, and none is one that Validate makes its receiver refuse.
FitsMtu ==
  /\ \A i \in DOMAIN wire : wire[i].type \in {"REQUEST", "PAYLOAD"} => FrameLen(wire[i]) <= mtu
  /\ dead # "invalid"

\* The splitter keeps to its bounds: TypeOK, FitsMtu.
Splits == TypeOK /\ FitsMtu

\* an item is the bytes of its payload, from some byte on
EndOf(p, item) ==
  \E a \in 0..p.m, b \in 0..p.d : item.meta = Bytes(a, p.m) /\ item.data = Bytes(b, p.d)

AllOf(p, item) == item.meta = Bytes(0, p.m) /\ item.data = Bytes(0, p.d)

\* What is dispatched is what was sent, byte for byte: no fragment is doubled or
\* joined to another payload, and only the first bytes of a payload that was cut
\* can be missing.
Whole ==
  \A i \in DOMAIN got :
    LET n == got[i].of IN
      /\ n \in DOMAIN sent /\ EndOf(sent[n], got[i])
      /\ n \notin cut => AllOf(sent[n], got[i])

\* It comes in the order it was sent in, with no payload left out between two
\* others; only a channel's requester, which may register late, misses the
\* first ones.
InOrder ==
  \A i \in DOMAIN got :
    /\ i > 1 => got[i].of = got[i - 1].of + 1
    /\ kind # "answer" => got[i].of = i

\* No request-response is cut, and what answers one or a stream only by the end
\* of the stream at its requester.
SeldomCut ==
  cut # {} => kind \in {"stream", "channel", "answer"} \/ (kind = "reply" /\ callback = "gone")

Quiet == wire = <<>> /\ ~split /\ dead = "no"

\* Once the wire is empty nothing waits in the joiner, not even the rest of what
\* was cut; a receiver with a callback has had the last payload, and all of
\* them but for a channel's answers; and a request that nobody knows was cut.
NothingLeft ==
  Quiet =>
    /\ ~joiner.open
    /\ callback = "in" /\ kind # "answer" => Len(got) = Len(sent)
    /\ callback = "in" /\ got # <<>> => got[Len(got)].of = Len(sent)
    /\ kind \in Requests /\ callback = "none" /\ sent # <<>> => 1 \in cut

\* A receiver with a callback learns the end of the stream, unless it comes with
\* a final payload that was split, or came before the callback.
EndSeen ==
  Quiet /\ ended # "no" /\ callback = "in" =>
    \/ completed
    \/ ended = "final" /\ Size(Current, 0) > mtu
    \/ kind = "answer" /\ got = <<>>

\* What the receiver puts together is what was sent, and no more: Whole, InOrder,
\* SeldomCut, NothingLeft, EndSeen.
Joined == Whole /\ InOrder /\ SeldomCut /\ NothingLeft /\ EndSeen

\* Once a request or one of a channel's payloads has lost fragments, nothing of
\* the stream is dispatched any more, though the rest of the fragments still
\* arrives and is joined.
CutIsLost == [][kind # "answer" /\ cut # {} => UNCHANGED got]_vars
============================================================================
