-------------------------- MODULE WriteLoop_proofs --------------------------
(***************************************************************************)
(* Type correctness of WriteLoop; that Close never tears the socket down   *)
(* under a running write loop; that a frame is in one place, finished once *)
(* and written once; and what the peer of a simple socket sees: for any    *)
(* senders, transports and sizes.                                          *)
(*                                                                         *)
(* They need each other.  Resend takes the head of the backlog, which is   *)
(* not empty there only because Close does not empty it while the loop     *)
(* runs; a frame is written once because it is finished when it is, and    *)
(* what is finished is in no queue; and the frames a peer gets are in      *)
(* order because each of them was handed over before the next.             *)
(***************************************************************************)
EXTENDS WriteLoop, FiniteSetTheorems, FunctionTheorems, SequenceTheorems, TLAPS

\* how Close and LoopWrite know of each other: closed is set before writeDone
\* is read, and writeDone is set before closed is read
SyncOK ==
  /\ closed <=> cpc # "idle"
  /\ lpc = "start" <=> writeDone = "nil"
  /\ lpc = "stopped" <=> writeDone = "closed"
  /\ DestroyExclusive

\* a caller inside sendFrame still has a frame to hand over
CallersOwe == \A s \in Senders : spc[s] = "enqueue" => sent[s] < PerSender[s]

\* the loop holds a frame where it sends one, and a backlog where it resends
LoopHolds ==
  /\ lpc \in {"pick", "write"} => out \in Tracked
  /\ lpc = "resend" => backlog # <<>>

IInv == TypeOK /\ CallersOwe /\ LoopHolds

USE WriteLoopAssumption

LEMMA InitSync == Init => SyncOK
  BY DEF Init, SyncOK, DestroyExclusive, Destroying

\* a step of the loop between its first check and its exit
LEMMA LoopMoves ==
  ASSUME SyncOK, lpc \notin {"start", "check", "exit", "stopped"},
         lpc' \notin {"start", "stopped"}, UNCHANGED <<closed, writeDone, cpc>>
  PROVE  SyncOK'
  BY DEF SyncOK, DestroyExclusive, Destroying

LEMMA SyncStep == SyncOK /\ [Next]_vars => SyncOK'
<1> SUFFICES ASSUME SyncOK, [Next]_vars PROVE SyncOK'
  OBVIOUS
<1> USE DEF connVars, loopVars, inputVars, sendVars, linkVars, peerVars, fateVars
<1>1. ASSUME NEW s \in Senders, SendFrame(s) \/ Enqueue(s) PROVE SyncOK'
  BY <1>1 DEF SendFrame, Enqueue, SyncOK, DestroyExclusive, Destroying
<1>2. CASE LoopStart \/ CheckClosed \/ LoopExit
  BY <1>2 DEF LoopStart, CheckClosed, LoopExit, Goto, SyncOK, DestroyExclusive, Destroying
<1>3. CASE CheckReady \/ Park \/ CheckCtx
  BY <1>3, LoopMoves DEF CheckReady, Park, CheckCtx, Goto
<1>4. CASE PollTick
  BY <1>4, LoopMoves DEF PollTick, Goto, Tick
<1>5. CASE DrainBacklog
  <2>1. lpc = "backlog" /\ lpc' \in {"select", "drain", "resend"}
    BY <1>5 DEF DrainBacklog, AfterBacklog
  <2>2. QED
    BY <1>5, <2>1, LoopMoves DEF DrainBacklog
<1>6. CASE Resend
  <2>1. lpc = "resend" /\ lpc' \in {"resend", "reflush"}
    BY <1>6 DEF Resend
  <2>2. QED
    BY <1>6, <2>1, LoopMoves DEF Resend
<1>7. CASE Reflush
  BY <1>7, LoopMoves DEF Reflush, AfterBacklog
<1>8. CASE DrainStart
  BY <1>8, LoopMoves DEF DrainStart
<1>9. CASE Recv
  <2>1. lpc = "recv" /\ lpc' \in {"pick", "select", "exit"}
    BY <1>9 DEF Recv, TakeQueue, TakeLease, ChannelClosed
  <2>2. QED
    BY <1>9, <2>1, LoopMoves DEF Recv
<1>10. CASE Select
  <2>1. lpc = "select" /\ lpc' \in {"pick", "check", "exit"}
    BY <1>10 DEF Select, Tick, TakeQueue, TakeLease, ChannelClosed
  <2>2. UNCHANGED <<closed, writeDone, cpc>>
    BY <1>10 DEF Select, Tick
  <2>3. QED
    BY <2>1, <2>2, LoopMoves
<1>11. CASE PickTransport \/ Write
  <2>1. \A fl : NextFrame(fl) => lpc' \in {"check", "recv", "flush", "select"}
    BY DEF NextFrame, AfterFrame, AfterDrain
  <2>2. lpc \in {"pick", "write"} /\ lpc' \in {"check", "recv", "flush", "select", "write"}
    BY <1>11, <2>1 DEF PickTransport, Write
  <2>3. UNCHANGED <<closed, writeDone, cpc>>
    BY <1>11 DEF PickTransport, Write
  <2>4. QED
    BY <2>2, <2>3, LoopMoves
<1>12. CASE Flush
  BY <1>12, LoopMoves DEF Flush, AfterDrain
<1>13. CASE LeaseClose \/ Cancel
  BY <1>13 DEF LeaseClose, Cancel, SyncOK, DestroyExclusive, Destroying
<1>14. ASSUME NEW t \in Transports, SetTransport(t) \/ Break(t) PROVE SyncOK'
  BY <1>14 DEF SetTransport, Break, SyncOK, DestroyExclusive, Destroying
<1>15. CASE AssignTransport \/ ClearTransport
  BY <1>15 DEF AssignTransport, ClearTransport, Wake, SyncOK, DestroyExclusive, Destroying
<1>16. CASE CloseCAS \/ CloseSeal \/ CloseBroadcast
  BY <1>16 DEF CloseCAS, CloseSeal, CloseBroadcast, Wake, SyncOK, DestroyExclusive, Destroying
<1>17. CASE CloseReadDone \/ CloseWait
  BY <1>17 DEF CloseReadDone, CloseWait, SyncOK, DestroyExclusive, Destroying
<1>18. CASE DestroyTransport \/ DestroySndQueue \/ DestroySndBacklog
  BY <1>18 DEF DestroyTransport, DestroySndQueue, DestroySndBacklog,
     SyncOK, DestroyExclusive, Destroying
<1>19. CASE UNCHANGED vars
  BY <1>19 DEF vars, SyncOK, DestroyExclusive, Destroying
<1>20. QED
  BY <1>1, <1>2, <1>3, <1>4, <1>5, <1>6, <1>7, <1>8, <1>9, <1>10, <1>11,
     <1>12, <1>13, <1>14, <1>15, <1>16, <1>17, <1>18, <1>19
     DEF Next, LoopStep, CloseStep

\* Close destroys the transport, queue and backlog only when the write loop has
\* ended, or will end at its first check: the handshake of closed and writeDone
\* in Close and LoopWrite.
THEOREM CloseExcludesLoop == Spec => []DestroyExclusive
<1>1. SyncOK => DestroyExclusive
  BY DEF SyncOK
<1>2. QED
  BY <1>1, InitSync, SyncStep, PTL DEF Spec
----------------------------------------------------------------------------

LEMMA FrameKinds ==
  /\ \A s \in Senders : sent[s] \in Nat /\ sent[s] < PerSender[s] => Current(s) \in Tracked
  /\ leases \in Nat /\ leases < NumLeases => <<Lessor, leases + 1>> \in Tracked
  /\ ticks \in Nat /\ ticks < MaxTicks => <<Ticker, ticks + 1>> \in Frames
  /\ Tracked \subseteq Frames
<1>1. ASSUME NEW s \in Senders, sent[s] \in Nat, sent[s] < PerSender[s]
      PROVE  Current(s) \in Tracked
  <2>1. sent[s] + 1 \in 1..PerSender[s]
    BY <1>1
  <2>2. QED
    BY <2>1 DEF Current, Tracked, Sent
<1>2. QED
  BY <1>1 DEF Tracked, Frames, LeaseF, TickF

\* a part of the type invariant whose variables do not change still holds
LEMMA Kept ==
  ASSUME IInv
  PROVE  /\ UNCHANGED connVars => ConnType'
         /\ UNCHANGED <<queue, backlog>> => QueueType'
         /\ UNCHANGED loopVars => LoopType'
         /\ UNCHANGED inputVars => InputType'
         /\ UNCHANGED <<cpc, sendVars, linkVars>> => CallerType'
         /\ UNCHANGED peerVars => PeerType'
         /\ UNCHANGED fateVars => FateType'
         /\ UNCHANGED sendVars => CallersOwe'
         /\ UNCHANGED <<lpc, out, backlog>> => LoopHolds'
<1> USE DEF IInv, TypeOK
<1>1. UNCHANGED connVars => ConnType'
  BY DEF ConnType, connVars
<1>2. UNCHANGED <<queue, backlog>> => QueueType'
  BY DEF QueueType
<1>3. UNCHANGED loopVars => LoopType'
  BY DEF LoopType, loopVars
<1>4. UNCHANGED inputVars => InputType'
  BY DEF InputType, inputVars
<1>5. UNCHANGED <<cpc, sendVars, linkVars>> => CallerType'
  BY DEF CallerType, sendVars, linkVars
<1>6. UNCHANGED peerVars => PeerType'
  BY DEF PeerType, peerVars
<1>7. UNCHANGED fateVars => FateType'
  BY DEF FateType, fateVars
<1>8. UNCHANGED sendVars => CallersOwe'
  BY DEF CallersOwe, sendVars
<1>9. UNCHANGED <<lpc, out, backlog>> => LoopHolds'
  BY DEF LoopHolds
<1>10. QED
  BY <1>1, <1>2, <1>3, <1>4, <1>5, <1>6, <1>7, <1>8, <1>9

\* finishing frames keeps their counts counts
LEMMA FinishType ==
  ASSUME FateType, NEW F, Finish(F), dropped' \subseteq Tracked
  PROVE  FateType'
  BY DEF Finish, FateType

\* what a transport does with a frame or a flush leaves its records records
LEMMA FailType ==
  ASSUME PeerType, NEW t, Fail(t)
  PROVE  PeerType'
  BY DEF Fail, PeerType

LEMMA PutType ==
  ASSUME PeerType, NEW t, NEW f \in Frames, NEW b, Put(t, f, b)
  PROVE  PeerType'
<1>1. t \in Transports
  BY DEF Put, MayAccept
<1>2. wire' \in [Transports -> Seq(Frames)]
  BY <1>1 DEF Put, PeerType
<1>3. flushed' \in [Transports -> Nat]
  BY <1>1 DEF Put, PeerType
<1>4. QED
  BY <1>2, <1>3 DEF Put, PeerType

LEMMA FlushType ==
  ASSUME PeerType, NEW t, FlushTo(t)
  PROVE  PeerType'
<1>1. CASE Fail(t)
  BY <1>1, FailType
<1>2. CASE ~Fail(t)
  <2>1. t \in Transports
    BY <1>2 DEF FlushTo, MayAccept
  <2>2. flushed' = [flushed EXCEPT ![t] = Len(wire[t])] /\ UNCHANGED <<health, wire>>
    BY <1>2 DEF FlushTo
  <2>3. Len(wire[t]) \in Nat
    BY <2>1 DEF PeerType
  <2>4. QED
    BY <2>1, <2>2, <2>3 DEF PeerType
<1>3. QED
  BY <1>1, <1>2

LEMMA NextFrameType ==
  ASSUME LoopType, NEW fl \in BOOLEAN, NextFrame(fl), stp' = stp
  PROVE  LoopType' /\ lpc' \notin {"pick", "write", "resend"}
<1>1. lpc' \in {"check", "recv", "flush", "select"}
  BY DEF NextFrame, AfterFrame, AfterDrain
<1>2. cycle' \in Nat
  BY DEF NextFrame, LoopType
<1>3. QED
  BY <1>1, <1>2 DEF NextFrame, LoopType, LoopPCs

LEMMA InitIInv == Init => IInv
<1> SUFFICES ASSUME Init PROVE IInv
  OBVIOUS
<1> USE DEF Init
<1>1. ConnType
  <2>1. ready \in BOOLEAN
    BY Zenon
  <2>2. QED
    BY <2>1 DEF ConnType
<1>8. QueueType
  BY DEF QueueType
<1>2. InputType
  <2>1. leaseOpen \in BOOLEAN
    <3>1. leaseOpen = (NumLeases > 0)
      BY Zenon
    <3> HIDE DEF Init
    <3>2. CASE NumLeases > 0
      BY <3>1, <3>2
    <3>3. CASE ~(NumLeases > 0)
      BY <3>1, <3>3
    <3>4. QED
      BY <3>2, <3>3
  <2>2. leases \in 0..NumLeases /\ ticks \in 0..MaxTicks
    <3>1. leases = 0 /\ ticks = 0
      BY Zenon
    <3> HIDE DEF Init
    <3>2. QED
      BY <3>1
  <2>3. cancelled \in BOOLEAN
    BY Zenon
  <2>4. QED
    BY <2>1, <2>2, <2>3, Zenon DEF InputType
<1>9. LoopType
  BY DEF LoopType, LoopPCs
<1>3. CallerType
  BY DEF CallerType, ClosePCs
<1>4. PeerType
  BY DEF PeerType
<1>5. FateType
  BY DEF FateType
<1>6. CallersOwe /\ LoopHolds
  BY DEF CallersOwe, LoopHolds
<1>7. QED
  BY <1>1, <1>2, <1>3, <1>4, <1>5, <1>6, <1>8, <1>9 DEF IInv, TypeOK

\* sendFrame
LEMMA SenderTypes ==
  ASSUME IInv, NEW s \in Senders, SendFrame(s) \/ Enqueue(s)
  PROVE  IInv'
<1> USE DEF IInv, TypeOK
<1>1. ConnType' /\ LoopType' /\ InputType' /\ PeerType'
  BY Kept DEF SendFrame, Enqueue
<1>2. CASE SendFrame(s)
  <2>1. QueueType' /\ LoopHolds'
    BY <1>2, Kept DEF SendFrame, loopVars
  <2>2. CASE closed
    <3>1. FateType'
      BY <1>2, <2>2, FinishType DEF SendFrame, FateType
    <3>2. sent' = [sent EXCEPT ![s] = @ + 1] /\ UNCHANGED <<spc, cpc, kpc, ktp>>
      BY <1>2, <2>2 DEF SendFrame, linkVars
    <3>3. CallerType'
      BY <1>2, <3>2 DEF SendFrame, CallerType
    <3>4. spc[s] = "idle"
      BY <1>2 DEF SendFrame
    <3>5. CallersOwe'
      BY <3>2, <3>4 DEF CallersOwe, CallerType
    <3>6. QED
      BY <1>1, <2>1, <3>1, <3>3, <3>5
  <2>3. CASE ~closed
    <3>1. FateType'
      BY <1>2, <2>3, Kept DEF SendFrame, fateVars
    <3>2. CallerType' /\ CallersOwe'
      BY <1>2, <2>3 DEF SendFrame, CallerType, CallersOwe, linkVars
    <3>3. QED
      BY <1>1, <2>1, <3>1, <3>2
  <2>4. QED
    BY <2>2, <2>3
<1>3. CASE Enqueue(s)
  <2>1. Current(s) \in Tracked
    BY <1>3, FrameKinds DEF Enqueue, CallersOwe, CallerType
  <2>2. QueueType' /\ LoopHolds'
    <3>1. queue' \in Seq(Tracked) /\ Len(queue') <= QueueCap
      <4>1. CASE queue' = queue
        BY <4>1 DEF QueueType
      <4>2. CASE Len(queue) < QueueCap /\ queue' = Append(queue, Current(s))
        <5>1. queue' \in Seq(Tracked) /\ Len(queue') = Len(queue) + 1
          BY <2>1, <4>2 DEF QueueType
        <5>2. QED
          BY <4>2, <5>1 DEF QueueType
      <4>3. QED
        BY <1>3, <4>1, <4>2 DEF Enqueue
    <3>2. UNCHANGED <<backlog, lpc, out>>
      BY <1>3 DEF Enqueue, loopVars
    <3>3. QED
      BY <3>1, <3>2 DEF QueueType, LoopHolds
  <2>3. FateType'
    <3>1. CASE sealed
      BY <1>3, <3>1, FinishType DEF Enqueue, FateType
    <3>2. CASE ~sealed
      BY <1>3, <3>2 DEF Enqueue, FateType
    <3>3. QED
      BY <3>1, <3>2
  <2>4. sent' = [sent EXCEPT ![s] = @ + 1] /\ spc' = [spc EXCEPT ![s] = "idle"]
        /\ sent[s] < PerSender[s] /\ UNCHANGED <<cpc, kpc, ktp>>
    BY <1>3 DEF Enqueue, CallersOwe, linkVars
  <2>5. CallerType' /\ CallersOwe'
    BY <2>4 DEF CallerType, CallersOwe
  <2>6. QED
    BY <1>1, <2>2, <2>3, <2>5
<1>4. QED
  BY <1>2, <1>3

\* LoopWrite where it holds no frame
LEMMA LoopControlTypes ==
  ASSUME IInv,
         \/ LoopStart \/ CheckClosed \/ CheckReady \/ Park \/ CheckCtx
         \/ DrainStart \/ LoopExit \/ LeaseClose \/ Cancel
  PROVE  IInv'
<1> USE DEF IInv, TypeOK
<1>1. CallerType' /\ PeerType' /\ FateType' /\ QueueType' /\ CallersOwe'
  BY Kept DEF LoopStart, CheckClosed, CheckReady, Park, CheckCtx, DrainStart,
              LoopExit, LeaseClose, Cancel, Goto
<1>2. CASE LoopStart \/ LoopExit
  BY <1>1, <1>2, Kept DEF LoopStart, LoopExit, ConnType, LoopType, LoopPCs, LoopHolds
<1>3. CASE CheckClosed \/ CheckReady \/ Park \/ CheckCtx
  <2>1. LoopType' /\ LoopHolds'
    BY <1>3 DEF CheckClosed, CheckReady, Park, CheckCtx, Goto, LoopType, LoopPCs, LoopHolds
  <2>2. QED
    BY <1>1, <1>3, <2>1, Kept DEF CheckClosed, CheckReady, Park, CheckCtx, Goto
<1>4. CASE DrainStart
  <2>1. cycle' \in Nat
    BY <1>4 DEF DrainStart, QueueType
  <2>2. LoopType' /\ LoopHolds'
    BY <1>4, <2>1 DEF DrainStart, LoopType, LoopPCs, LoopHolds
  <2>3. QED
    BY <1>1, <1>4, <2>2, Kept DEF DrainStart
<1>5. CASE LeaseClose \/ Cancel
  <2>1. InputType' /\ LoopHolds'
    BY <1>5 DEF LeaseClose, Cancel, InputType, LoopHolds, loopVars
  <2>2. QED
    BY <1>1, <1>5, <2>1, Kept DEF LeaseClose, Cancel
<1>6. QED
  BY <1>2, <1>3, <1>4, <1>5

\* a tick sends a keepalive frame, and touches the transport only
LEMMA TickTypes ==
  ASSUME IInv, NEW to \in {"backlog", "check"}, Tick(to)
  PROVE  IInv'
<1> USE DEF IInv, TypeOK
<1>1. ConnType' /\ QueueType' /\ CallerType' /\ FateType' /\ CallersOwe'
  BY Kept DEF Tick
<1>2. LoopType' /\ LoopHolds'
  BY DEF Tick, LoopType, LoopPCs, LoopHolds
<1>3. InputType'
  <2>1. ticks \in Nat /\ ticks < MaxTicks /\ ticks' = ticks + 1
        /\ UNCHANGED <<leases, leaseOpen, cancelled>>
    BY DEF Tick, InputType
  <2>2. QED
    BY <2>1 DEF InputType
<1>4. PeerType'
  <2>1. <<Ticker, ticks + 1>> \in Frames
    BY FrameKinds DEF Tick, InputType
  <2>2. CASE UNCHANGED peerVars
    BY <2>2, Kept
  <2>3. CASE Put(tp, <<Ticker, ticks + 1>>, TRUE) \/ Fail(tp)
    BY <2>1, <2>3, PutType, FailType
  <2>4. QED
    BY <2>2, <2>3 DEF Tick
<1>5. QED
  BY <1>1, <1>2, <1>3, <1>4

\* drainBacklog
LEMMA BacklogTypes ==
  ASSUME IInv, DrainBacklog \/ Resend \/ Reflush
  PROVE  IInv'
<1> USE DEF IInv, TypeOK
<1>1. ConnType' /\ InputType' /\ CallerType' /\ CallersOwe'
  BY Kept DEF DrainBacklog, Resend, Reflush
<1>2. AfterBacklog \in {"select", "drain"}
  BY DEF AfterBacklog
<1>3. CASE DrainBacklog
  <2>1. PeerType'
    BY <1>3, Kept DEF DrainBacklog
  <2>2. QueueType' /\ FateType'
    BY <1>3 DEF DrainBacklog, QueueType, FateType, Elems
  <2>3. LoopType'
    BY <1>2, <1>3 DEF DrainBacklog, LoopType, LoopPCs, ConnType
  <2>4. LoopHolds'
    BY <1>2, <1>3 DEF DrainBacklog, LoopHolds
  <2>5. QED
    BY <1>1, <2>1, <2>2, <2>3, <2>4
<1>4. CASE Resend
  <2>1. backlog # <<>> /\ Head(backlog) \in Tracked /\ Tail(backlog) \in Seq(Tracked)
        /\ Len(Tail(backlog)) = Len(backlog) - 1
    BY <1>4 DEF Resend, LoopHolds, QueueType
  <2>2. PeerType'
    BY <1>4, <2>1, PutType, FailType, FrameKinds DEF Resend
  <2>3. FateType'
    BY <1>4, FinishType DEF Resend, FateType
  <2>4. QueueType' /\ LoopType'
    BY <1>4, <2>1 DEF Resend, QueueType, LoopType, LoopPCs
  <2>5. LoopHolds'
    <3>1. CASE Len(backlog) = 1
      BY <1>4, <3>1 DEF Resend, LoopHolds
    <3>2. CASE Len(backlog) # 1
      <4>1. Len(backlog') # 0 /\ backlog' \in Seq(Tracked)
        BY <1>4, <2>1, <3>2 DEF Resend, QueueType
      <4>2. backlog' # <<>>
        BY <4>1
      <4>3. lpc' = "resend"
        BY <1>4, <3>2 DEF Resend
      <4>4. QED
        BY <4>2, <4>3 DEF LoopHolds
    <3>3. QED
      BY <3>1, <3>2
  <2>6. QED
    BY <1>1, <2>2, <2>3, <2>4, <2>5
<1>5. CASE Reflush
  <2>1. PeerType'
    BY <1>5, FlushType DEF Reflush
  <2>2. QueueType' /\ FateType'
    BY <1>5, Kept DEF Reflush
  <2>3. LoopType' /\ LoopHolds'
    BY <1>2, <1>5 DEF Reflush, LoopType, LoopPCs, LoopHolds
  <2>4. QED
    BY <1>1, <2>1, <2>2, <2>3
<1>6. QED
  BY <1>3, <1>4, <1>5

\* receiving a frame and handing it to a transport, or to the backlog
LEMMA TakeQueueTypes ==
  ASSUME QueueType, NEW next, TakeQueue(next)
  PROVE  /\ out' \in Tracked
         /\ queue' \in Seq(Tracked) /\ Len(queue') <= QueueCap
<1>1. queue # <<>> /\ queue \in Seq(Tracked) /\ Len(queue) <= QueueCap
  BY DEF TakeQueue, QueueType
<1>2. Head(queue) \in Tracked /\ Tail(queue) \in Seq(Tracked)
      /\ Len(Tail(queue)) = Len(queue) - 1
  BY <1>1
<1>3. QED
  BY <1>1, <1>2 DEF TakeQueue

LEMMA ReceiveTypes ==
  ASSUME IInv, Recv \/ (Select /\ ~Tick("check"))
  PROVE  IInv'
<1> USE DEF IInv, TypeOK
<1>1. lpc \in {"recv", "select"} /\ UNCHANGED <<connVars, backlog, stp, flush,
            ticks, cancelled, cpc, sendVars, linkVars, peerVars, fateVars>>
  BY DEF Recv, Select
<1>2. ConnType' /\ CallerType' /\ PeerType' /\ FateType' /\ CallersOwe'
  BY <1>1, Kept
<1>3. cycle' \in Nat
  BY DEF Recv, Select, LoopType
<1>4. \/ TakeQueue("pick") \/ TakeLease("pick") \/ ChannelClosed("select")
      \/ ChannelClosed("exit")
  BY DEF Recv, Select
<1>5. CASE TakeQueue("pick")
  <2>1. lpc' = "pick" /\ UNCHANGED <<leases, leaseOpen>>
    BY <1>5 DEF TakeQueue
  <2>2. out' \in Tracked /\ queue' \in Seq(Tracked) /\ Len(queue') <= QueueCap
    BY <1>5, TakeQueueTypes
  <2>3. QueueType' /\ LoopHolds' /\ InputType'
    BY <1>1, <2>1, <2>2 DEF QueueType, LoopHolds, InputType
  <2>4. LoopType'
    BY <1>1, <1>3, <2>1, <2>2 DEF LoopType, LoopPCs
  <2>5. QED
    BY <1>2, <2>3, <2>4
<1>6. CASE TakeLease("pick")
  <2>1. lpc' = "pick" /\ out' = <<Lessor, leases + 1>> /\ leases' = leases + 1
        /\ leases \in Nat /\ leases < NumLeases /\ UNCHANGED <<queue, leaseOpen>>
    BY <1>6 DEF TakeLease, InputType
  <2>2. out' \in Tracked
    BY <2>1, FrameKinds
  <2>3. QueueType' /\ LoopHolds' /\ InputType'
    BY <1>1, <2>1, <2>2 DEF QueueType, LoopHolds, InputType
  <2>4. LoopType'
    BY <1>1, <1>3, <2>1, <2>2 DEF LoopType, LoopPCs
  <2>5. QED
    BY <1>2, <2>3, <2>4
<1>7. CASE ChannelClosed("select") \/ ChannelClosed("exit")
  <2>1. lpc' \in {"select", "exit"} /\ UNCHANGED <<out, queue, leases, leaseOpen>>
    BY <1>7 DEF ChannelClosed
  <2>2. QueueType' /\ LoopHolds' /\ InputType'
    BY <1>1, <2>1 DEF QueueType, LoopHolds, InputType
  <2>3. LoopType'
    BY <1>1, <1>3, <2>1 DEF LoopType, LoopPCs
  <2>4. QED
    BY <1>2, <2>2, <2>3
<1>8. QED
  BY <1>4, <1>5, <1>6, <1>7

LEMMA SendTypes ==
  ASSUME IInv, PickTransport \/ Write \/ Flush
  PROVE  IInv'
<1> USE DEF IInv, TypeOK
<1>1. ConnType' /\ InputType' /\ CallerType' /\ CallersOwe'
  BY Kept DEF PickTransport, Write, Flush
<1>2. lpc \in {"pick", "write"} => Append(backlog, out) \in Seq(Tracked)
  BY DEF LoopHolds, QueueType
<1>3. CASE PickTransport
  <2>1. PeerType' /\ FateType'
    BY <1>3, Kept DEF PickTransport
  <2>2. CASE tp = NoTp
    <3>1. backlog' = Append(backlog, out) /\ NextFrame(flush) /\ UNCHANGED <<queue, stp>>
          /\ lpc = "pick"
      BY <1>3, <2>2 DEF PickTransport
    <3>2. LoopType' /\ LoopHolds'
      BY <3>1, NextFrameType DEF LoopType, LoopHolds
    <3>3. QueueType'
      BY <1>2, <3>1 DEF QueueType
    <3>4. QED
      BY <1>1, <2>1, <3>2, <3>3
  <2>3. CASE tp # NoTp
    <3>1. lpc = "pick" /\ stp' = tp /\ lpc' = "write"
          /\ UNCHANGED <<queue, backlog, out, cycle, flush>>
      BY <1>3, <2>3 DEF PickTransport
    <3>2. QueueType' /\ LoopHolds'
      BY <3>1, Kept DEF LoopHolds
    <3>3. LoopType'
      BY <3>1 DEF LoopType, LoopPCs, ConnType
    <3>4. QED
      BY <1>1, <2>1, <3>2, <3>3
  <2>4. QED
    BY <2>2, <2>3
<1>4. CASE Write
  <2>1. lpc = "write" /\ out \in Tracked /\ out \in Frames /\ UNCHANGED <<queue, stp, dropped>>
    BY <1>4, FrameKinds DEF Write, LoopHolds
  <2>2. CASE Put(stp, out, cycle = 0) /\ Finish({out}) /\ NextFrame(cycle > 0)
             /\ UNCHANGED backlog
    <3>1. PeerType'
      BY <2>1, <2>2, PutType
    <3>2. FateType'
      BY <2>1, <2>2, FinishType DEF FateType
    <3>3. (cycle > 0) \in BOOLEAN
      BY DEF LoopType
    <3>4. LoopType' /\ LoopHolds'
      BY <2>1, <2>2, <3>3, NextFrameType DEF LoopHolds
    <3>5. QueueType'
      BY <2>1, <2>2, Kept
    <3>6. QED
      BY <1>1, <3>1, <3>2, <3>4, <3>5
  <2>3. CASE Fail(stp) /\ backlog' = Append(backlog, out) /\ NextFrame(flush)
             /\ UNCHANGED done
    <3>1. PeerType' /\ FateType'
      BY <2>1, <2>3, FailType DEF FateType
    <3>2. LoopType' /\ LoopHolds'
      BY <2>1, <2>3, NextFrameType DEF LoopType, LoopHolds
    <3>3. QueueType'
      BY <1>2, <2>1, <2>3 DEF QueueType
    <3>4. QED
      BY <1>1, <3>1, <3>2, <3>3
  <2>4. QED
    BY <1>4, <2>2, <2>3 DEF Write
<1>5. CASE Flush
  <2>1. PeerType'
    BY <1>5, FlushType DEF Flush
  <2>2. QueueType' /\ FateType'
    BY <1>5, Kept DEF Flush
  <2>3. LoopType' /\ LoopHolds'
    BY <1>5 DEF Flush, AfterDrain, LoopType, LoopPCs, LoopHolds
  <2>4. QED
    BY <1>1, <2>1, <2>2, <2>3
<1>6. QED
  BY <1>3, <1>4, <1>5

\* cond.Signal and cond.Broadcast
LEMMA WakeTypes ==
  ASSUME IInv, Wake, UNCHANGED <<out, stp, cycle, flush, backlog>>
  PROVE  LoopType' /\ LoopHolds'
  BY DEF IInv, TypeOK, LoopType, LoopPCs, LoopHolds, Wake

\* SetTransport, clearTransport and the loss of a connection
LEMMA LinkTypes ==
  ASSUME IInv,
         \/ \E t \in Transports : SetTransport(t) \/ Break(t)
         \/ AssignTransport \/ ClearTransport
  PROVE  IInv'
<1> USE DEF IInv, TypeOK
<1>1. QueueType' /\ InputType' /\ FateType' /\ CallersOwe'
  BY Kept DEF SetTransport, Break, AssignTransport, ClearTransport
<1>2. ASSUME NEW t \in Transports, SetTransport(t) \/ Break(t)
      PROVE  IInv'
  <2>1. LoopType' /\ LoopHolds'
    BY <1>2, Kept DEF SetTransport, Break, LoopHolds, loopVars
  <2>2. PeerType' /\ CallerType' /\ ConnType'
    BY <1>2 DEF SetTransport, Break, PeerType, CallerType, ConnType,
       connVars, sendVars, linkVars
  <2>3. QED
    BY <1>1, <2>1, <2>2
<1>3. CASE AssignTransport
  <2>1. LoopType' /\ LoopHolds'
    BY <1>3, WakeTypes DEF AssignTransport
  <2>2. ConnType' /\ CallerType'
    BY <1>3 DEF AssignTransport, ConnType, CallerType, sendVars
  <2>3. PeerType'
    BY <1>3, Kept DEF AssignTransport
  <2>4. QED
    BY <1>1, <2>1, <2>2, <2>3
<1>4. CASE ClearTransport
  <2>1. LoopType' /\ LoopHolds' /\ PeerType'
    BY <1>4, Kept DEF ClearTransport, loopVars
  <2>2. ConnType' /\ CallerType'
    BY <1>4 DEF ClearTransport, ConnType, CallerType, sendVars
  <2>3. QED
    BY <1>1, <2>1, <2>2
<1>5. QED
  BY <1>2, <1>3, <1>4

\* Close.  Emptying the backlog is safe because the loop is not resending it.
LEMMA CloseTypes ==
  ASSUME IInv, SyncOK, CloseCAS \/ CloseStep
  PROVE  IInv'
<1> USE DEF IInv, TypeOK, CloseStep
<1>1. InputType' /\ CallersOwe'
  BY Kept DEF CloseCAS, CloseSeal, CloseBroadcast, CloseReadDone, CloseWait,
              DestroyTransport, DestroySndQueue, DestroySndBacklog
<1>2. cpc' \in ClosePCs /\ UNCHANGED <<spc, sent, kpc, ktp>>
  BY DEF CloseCAS, CloseSeal, CloseBroadcast, CloseReadDone, CloseWait,
         DestroyTransport, DestroySndQueue, DestroySndBacklog, ClosePCs,
         sendVars, linkVars
<1>3. CallerType'
  BY <1>2 DEF CallerType
<1>4. ConnType'
  BY DEF CloseCAS, CloseSeal, CloseBroadcast, CloseReadDone, CloseWait,
         DestroyTransport, DestroySndQueue, DestroySndBacklog, ConnType, connVars
<1>5. CASE CloseCAS \/ CloseSeal \/ CloseBroadcast \/ CloseReadDone \/ CloseWait
  <2>1. QueueType' /\ FateType' /\ PeerType'
    BY <1>5, Kept DEF CloseCAS, CloseSeal, CloseBroadcast, CloseReadDone, CloseWait
  <2>2. LoopType' /\ LoopHolds'
    <3>1. CASE CloseBroadcast
      BY <3>1, WakeTypes DEF CloseBroadcast
    <3>2. CASE CloseCAS \/ CloseSeal \/ CloseReadDone \/ CloseWait
      BY <3>2, Kept DEF CloseCAS, CloseSeal, CloseReadDone, CloseWait, loopVars
    <3>3. QED
      BY <1>5, <3>1, <3>2
  <2>3. QED
    BY <1>1, <1>3, <1>4, <2>1, <2>2
<1>6. CASE DestroyTransport
  <2>1. QueueType' /\ FateType' /\ LoopType' /\ LoopHolds'
    BY <1>6, Kept DEF DestroyTransport, loopVars
  <2>2. PeerType'
    BY <1>6 DEF DestroyTransport, PeerType
  <2>3. QED
    BY <1>1, <1>3, <1>4, <2>1, <2>2
<1>7. CASE DestroySndQueue
  <2>1. LoopType' /\ LoopHolds' /\ PeerType'
    BY <1>7, Kept DEF DestroySndQueue, loopVars
  <2>2. QueueType'
    BY <1>7 DEF DestroySndQueue, QueueType
  <2>3. FateType'
    BY <1>7, FinishType DEF DestroySndQueue, FateType
  <2>4. QED
    BY <1>1, <1>3, <1>4, <2>1, <2>2, <2>3
<1>8. CASE DestroySndBacklog
  <2>1. LoopType' /\ PeerType'
    BY <1>8, Kept DEF DestroySndBacklog
  <2>2. QueueType'
    BY <1>8 DEF DestroySndBacklog, QueueType
  <2>3. FateType'
    BY <1>8, FinishType DEF DestroySndBacklog, FateType
  <2>4. lpc # "resend"
    BY <1>8 DEF DestroySndBacklog, SyncOK, DestroyExclusive, Destroying
  <2>5. LoopHolds'
    BY <1>8, <2>4 DEF DestroySndBacklog, LoopHolds, loopVars
  <2>6. QED
    BY <1>1, <1>3, <1>4, <2>1, <2>2, <2>3, <2>5
<1>9. QED
  BY <1>5, <1>6, <1>7, <1>8

LEMMA StepIInv == IInv /\ SyncOK /\ [Next]_vars => IInv'
<1> SUFFICES ASSUME IInv, SyncOK, [Next]_vars PROVE IInv'
  OBVIOUS
<1>1. CASE \E s \in Senders : SendFrame(s) \/ Enqueue(s)
  BY <1>1, SenderTypes
<1>2. CASE LoopStep \/ LeaseClose \/ Cancel
  <2>1. CASE PollTick \/ Select
    <3>1. \/ Tick("backlog") \/ Tick("check") \/ (Select /\ ~Tick("check"))
          \/ Goto("tick", "backlog")
      BY <2>1 DEF PollTick, Select
    <3>2. CASE Goto("tick", "backlog")
      <4>1. LoopType' /\ LoopHolds'
        BY <3>2 DEF Goto, IInv, TypeOK, LoopType, LoopPCs, LoopHolds
      <4>2. QED
        BY <3>2, <4>1, Kept DEF Goto, IInv, TypeOK
    <3>3. QED
      BY <3>1, <3>2, TickTypes, ReceiveTypes
  <2>2. QED
    BY <1>2, <2>1, LoopControlTypes, BacklogTypes, ReceiveTypes, SendTypes
       DEF LoopStep
<1>3. CASE CloseCAS \/ CloseStep
  BY <1>3, CloseTypes
<1>4. CASE (\E t \in Transports : SetTransport(t) \/ Break(t))
           \/ AssignTransport \/ ClearTransport
  BY <1>4, LinkTypes
<1>5. CASE UNCHANGED vars
  BY <1>5, Kept DEF vars, IInv, TypeOK, loopVars
<1>6. QED
  BY <1>1, <1>2, <1>3, <1>4, <1>5 DEF Next

\* Every reachable state is well typed: no send exceeds the capacity of the
\* channel, no frame comes from nowhere, and no pc leaves the code.
THEOREM TypeCorrect == Spec => []TypeOK
<1>1. IInv => TypeOK
  BY DEF IInv
<1>2. Spec => []SyncOK
  BY InitSync, SyncStep, PTL DEF Spec
<1>3. QED
  BY <1>1, <1>2, InitIInv, StepIInv, PTL DEF Spec

----------------------------------------------------------------------------

\* a simple socket keeps the transport it was given
KeepsTransport == tp = Attached /\ kpc = "up"

LEMMA KeepsStep ==
  ASSUME Attached # NoTp, ~Resumable, KeepsTransport, [Next]_vars
  PROVE  KeepsTransport'
<1> USE DEF KeepsTransport
<1> USE DEF connVars, linkVars, fateVars
<1>1. ASSUME NEW s \in Senders, SendFrame(s) \/ Enqueue(s) PROVE KeepsTransport'
  BY <1>1 DEF SendFrame, Enqueue
<1>2. CASE DrainBacklog
  BY <1>2 DEF DrainBacklog
<1>3. CASE LoopStart \/ CheckClosed \/ CheckReady \/ Park \/ CheckCtx \/ LoopExit
  BY <1>3 DEF LoopStart, CheckClosed, CheckReady, Park, CheckCtx, LoopExit, Goto
<1>4. CASE PollTick \/ Select
  BY <1>4 DEF PollTick, Select, Goto, Tick
<1>5. CASE Resend \/ Reflush \/ DrainStart \/ Recv \/ PickTransport \/ Write \/ Flush
  BY <1>5 DEF Resend, Reflush, DrainStart, Recv, PickTransport, Write, Flush
<1>6. CASE LeaseClose \/ Cancel
  BY <1>6 DEF LeaseClose, Cancel
<1>7. ASSUME NEW t \in Transports, SetTransport(t) \/ Break(t) PROVE KeepsTransport'
  BY <1>7 DEF SetTransport, Break
<1>8. CASE AssignTransport \/ ClearTransport
  BY <1>8 DEF AssignTransport, ClearTransport
<1>9. CASE CloseCAS \/ CloseStep
  BY <1>9 DEF CloseCAS, CloseStep, CloseSeal, CloseBroadcast, CloseReadDone,
     CloseWait, DestroyTransport, DestroySndQueue, DestroySndBacklog
<1>10. CASE UNCHANGED vars
  BY <1>10 DEF vars
<1>11. QED
  BY <1>1, <1>2, <1>3, <1>4, <1>5, <1>6, <1>7, <1>8, <1>9, <1>10
     DEF Next, LoopStep

----------------------------------------------------------------------------
(* Counting: how often a frame is in a sequence *)

\* the positions of a frame
At(s, f) == {i \in DOMAIN s : s[i] = f}

LEMMA OccursType ==
  ASSUME NEW S, NEW s \in Seq(S), NEW f
  PROVE  /\ Occurs(s, f) \in Nat
         /\ IsFiniteSet(At(s, f)) /\ Occurs(s, f) = Cardinality(At(s, f))
         /\ Occurs(s, f) = 0 <=> f \notin Elems(s)
<1>1. Len(s) \in Nat /\ DOMAIN s = 1..Len(s) /\ IsFiniteSet(1..Len(s))
  BY LenProperties, FS_Interval
<1> DEFINE P == {i \in DOMAIN s : s[i] = f}
<1>2. P \subseteq 1..Len(s)
  BY <1>1
<1>3. IsFiniteSet(P)
  BY <1>1, <1>2, FS_Subset
<1>4. Cardinality(P) \in Nat /\ (Cardinality(P) = 0 <=> P = {})
  BY <1>3, FS_CardinalityType, FS_EmptySet
<1>5. P = {} <=> f \notin Elems(s)
  BY DEF Elems
<1>6. At(s, f) = P /\ Occurs(s, f) = Cardinality(P)
  BY DEF At, Occurs
<1> HIDE DEF P
<1> QED BY <1>3, <1>4, <1>5, <1>6

LEMMA OccursNone == \A f : Occurs(<<>>, f) = 0 /\ Elems(<<>>) = {}
<1> TAKE f
<1>1. {i \in DOMAIN <<>> : <<>>[i] = f} = {} /\ Elems(<<>>) = {}
  BY DEF Elems
<1> QED BY <1>1, FS_EmptySet DEF Occurs

LEMMA OccursAppend ==
  ASSUME NEW S, NEW s \in Seq(S), NEW x \in S, NEW f
  PROVE  Occurs(Append(s, x), f) = Occurs(s, f) + Bit(x = f)
<1> DEFINE q == Append(s, x)
           n == Len(s) + 1
           P == At(s, f)
           Q == At(q, f)
<1>1. /\ Len(s) \in Nat /\ DOMAIN s = 1..Len(s) /\ q \in Seq(S) /\ Len(q) = n
      /\ \A i \in 1..Len(s) : q[i] = s[i]
      /\ q[n] = x
  BY AppendProperties, LenProperties
<1>2. DOMAIN q = 1..n
  BY <1>1, LenProperties
<1>3. /\ IsFiniteSet(P) /\ Cardinality(P) \in Nat
      /\ Occurs(s, f) = Cardinality(P) /\ Occurs(q, f) = Cardinality(Q)
  BY <1>1, OccursType DEF At, Occurs
<1>4. n \notin P /\ 1..n = (1..Len(s)) \cup {n}
  BY <1>1 DEF At
<1> HIDE DEF q, n
<1>5. CASE x = f
  <2>1. Q = P \cup {n}
    BY <1>1, <1>2, <1>4, <1>5 DEF At
  <2>2. Cardinality(Q) = Cardinality(P) + 1
    BY <1>3, <1>4, <2>1, FS_AddElement
  <2> QED BY <1>3, <1>5, <2>2 DEF Bit, q
<1>6. CASE x # f
  <2>1. Q = P
    BY <1>1, <1>2, <1>4, <1>6 DEF At
  <2>2. Cardinality(Q) = Cardinality(P) + 0
    <3> HIDE DEF P, Q
    <3> QED BY <1>3, <2>1
  <2> QED BY <1>3, <1>6, <2>2 DEF Bit, q
<1> QED BY <1>5, <1>6

LEMMA OccursTail ==
  ASSUME NEW S, NEW s \in Seq(S), s # <<>>, NEW f
  PROVE  Occurs(s, f) = Occurs(Tail(s), f) + Bit(Head(s) = f)
<1> DEFINE q == Tail(s)
           n == Len(q)
           P == At(s, f)
           Q == At(q, f)
           R == {i \in P : i # 1}
           g == [i \in R |-> i - 1]
<1>1. /\ q \in Seq(S) /\ n \in Nat /\ Len(s) = n + 1 /\ DOMAIN s = 1..(n + 1) /\ DOMAIN q = 1..n
      /\ \A i \in 1..n : q[i] = s[i + 1]
      /\ Head(s) = s[1]
  BY HeadTailProperties, LenProperties
<1>2. /\ IsFiniteSet(P) /\ Cardinality(P) \in Nat /\ Occurs(s, f) = Cardinality(P)
      /\ IsFiniteSet(Q) /\ Cardinality(Q) \in Nat /\ Occurs(q, f) = Cardinality(Q)
  <2>1. IsFiniteSet(P) /\ Cardinality(P) \in Nat /\ Occurs(s, f) = Cardinality(P)
    BY OccursType
  <2>2. q \in Seq(S)
    BY <1>1
  <2> HIDE DEF q
  <2>3. IsFiniteSet(Q) /\ Cardinality(Q) \in Nat /\ Occurs(q, f) = Cardinality(Q)
    BY <2>2, OccursType
  <2> QED BY <2>1, <2>3
<1>3. IsFiniteSet(R) /\ R = P \ {1}
  BY <1>2, FS_Subset
<1>p. /\ \A i : i \in P <=> i \in 1..(n + 1) /\ s[i] = f
      /\ \A i : i \in Q <=> i \in 1..n /\ q[i] = f
      /\ \A i : i \in R <=> i \in P /\ i # 1
  BY <1>1 DEF At
<1> HIDE DEF q, n, P, Q, R
<1>4. Cardinality(Q) = Cardinality(R)
  <2>1. \A i \in R : i \in 2..(n + 1) /\ s[i] = f /\ i - 1 \in 1..n /\ (i - 1) + 1 = i
    BY <1>1, <1>p
  <2>2. \A i \in R : i - 1 \in Q
    BY <1>1, <1>p, <2>1
  <2>3. g \in [R -> Q] /\ \A i, j \in R : g[i] = g[j] => i = j
    BY <2>1, <2>2
  <2>4. ASSUME NEW k \in Q PROVE \E i \in R : g[i] = k
    <3>1. k \in 1..n /\ q[k] = f /\ n \in Nat
      BY <1>1, <1>p
    <3>2. k + 1 \in 1..(n + 1) /\ k + 1 # 1 /\ (k + 1) - 1 = k
      BY <3>1
    <3>3. s[k + 1] = f
      BY <1>1, <3>1
    <3>4. k + 1 \in R
      BY <1>p, <3>2, <3>3
    <3>5. g[k + 1] = k
      BY <3>2, <3>4
    <3> QED BY <3>4, <3>5
  <2>5. g \in Bijection(R, Q)
    BY <2>3, <2>4, Fun_IsBij
  <2> HIDE DEF g
  <2> QED BY <1>3, <2>5, Fun_ExistsBij, FS_Bijection
<1>5. 1 \in P <=> Head(s) = f
  BY <1>1, <1>p
<1>6. Cardinality(R) = IF 1 \in P THEN Cardinality(P) - 1 ELSE Cardinality(P)
  BY <1>2, <1>3, FS_RemoveElement
<1>7. Cardinality(P) = Cardinality(Q) + Bit(Head(s) = f)
  BY <1>2, <1>4, <1>5, <1>6 DEF Bit
<1> QED BY <1>2, <1>7 DEF q
----------------------------------------------------------------------------
(* EachOnce *)

\* where a frame is, and whether it was handed over
Places(f) ==
  Occurs(queue, f) + Occurs(backlog, f) + Bit(out = f) + done[f] + Bit(f \in dropped)
Balanced == \A f \in Tracked : Places(f) = Bit(Handed(f))

\* the hand is empty outside drainOne, and Close empties what it is done with
Emptied ==
  /\ lpc \notin {"pick", "write"} => out = <<>>
  /\ cpc \notin {"idle", "seal"} => sealed
  /\ cpc \in {"backlog", "returned"} => queue = <<>>
  /\ cpc = "returned" => backlog = <<>>

\* what a transport took is finished
WrittenDone ==
  \A t \in Transports : \A i \in DOMAIN wire[t] :
    wire[t][i] \in Tracked => done[wire[t][i]] > 0

OnceInv == Balanced /\ Emptied /\ WrittenDone /\ NeverWrittenTwice

LEMMA BitType == \A b \in BOOLEAN : Bit(b) \in {0, 1} /\ (Bit(b) = 1 <=> b)
  BY DEF Bit

LEMMA TrackedFrames ==
  /\ \A f \in Tracked : /\ f # <<>> /\ f = <<f[1], f[2]>> /\ f[2] \in Nat
                        /\ \/ f[1] = Lessor /\ f[2] \in 1..NumLeases
                           \/ f[1] \in Senders /\ f[2] \in 1..PerSender[f[1]]
  /\ \A n : <<Ticker, n>> \notin Tracked
  BY DEF Tracked, Sent, LeaseF

LEMMA PlacesType ==
  ASSUME IInv, NEW f \in Tracked
  PROVE  /\ Occurs(queue, f) \in Nat /\ Occurs(backlog, f) \in Nat /\ done[f] \in Nat
         /\ Bit(out = f) \in {0, 1} /\ Bit(f \in dropped) \in {0, 1} /\ Bit(Handed(f)) \in {0, 1}
         /\ Occurs(queue, f) = 0 <=> f \notin Elems(queue)
         /\ Occurs(backlog, f) = 0 <=> f \notin Elems(backlog)
<1>1. queue \in Seq(Tracked) /\ backlog \in Seq(Tracked) /\ done \in [Tracked -> Nat]
  BY DEF IInv, TypeOK, QueueType, FateType
<1>2. Occurs(queue, f) \in Nat /\ (Occurs(queue, f) = 0 <=> f \notin Elems(queue))
  BY <1>1, OccursType
<1>3. Occurs(backlog, f) \in Nat /\ (Occurs(backlog, f) = 0 <=> f \notin Elems(backlog))
  BY <1>1, OccursType
<1>4. \A b : Bit(b) \in {0, 1}
  BY DEF Bit
<1> QED BY <1>1, <1>2, <1>3, <1>4

LEMMA FinishAdds ==
  ASSUME FateType, NEW F, Finish(F), NEW f \in Tracked
  PROVE  done'[f] = done[f] + Bit(f \in F)
  BY DEF FateType, Finish, Bit

LEMMA HandedSame ==
  ASSUME UNCHANGED <<sent, leases>>, NEW f
  PROVE  Handed(f)' <=> Handed(f)
  BY DEF Handed

LEMMA HandedSender ==
  ASSUME IInv, NEW s \in Senders, sent' = [sent EXCEPT ![s] = @ + 1], leases' = leases,
         NEW f \in Tracked
  PROVE  Bit(Handed(f)') = Bit(Handed(f)) + Bit(f = Current(s))
<1>1. sent \in [Senders -> Nat]
  BY DEF IInv, TypeOK, CallerType
<1>2. f[2] \in Nat /\ f = <<f[1], f[2]>> /\ (f[1] = Lessor \/ f[1] \in Senders) /\ f # <<>>
  BY TrackedFrames
<1>3. CASE f[1] # s
  <2>1. f # Current(s)
    BY <1>3 DEF Current
  <2>2. Handed(f)' <=> Handed(f)
    BY <1>1, <1>2, <1>3 DEF Handed
  <2> QED BY <2>1, <2>2 DEF Bit
<1>4. CASE f[1] = s
  <2>1. f[1] # Lessor /\ sent'[f[1]] = sent[s] + 1 /\ sent[s] \in Nat
    BY <1>1, <1>4
  <2>2. f = Current(s) <=> f[2] = sent[s] + 1
    BY <1>2, <1>4 DEF Current
  <2>3. /\ Handed(f) <=> f[2] <= sent[s]
        /\ Handed(f)' <=> f[2] <= sent[s] + 1
    BY <1>4, <2>1 DEF Handed
  <2> QED BY <1>2, <2>1, <2>2, <2>3 DEF Bit
<1> QED BY <1>3, <1>4

LEMMA HandedLease ==
  ASSUME IInv, leases' = leases + 1, sent' = sent, NEW f \in Tracked
  PROVE  Bit(Handed(f)') = Bit(Handed(f)) + Bit(f = <<Lessor, leases + 1>>)
<1>1. leases \in Nat
  BY DEF IInv, TypeOK, InputType
<1>2. f[2] \in Nat /\ f = <<f[1], f[2]>>
  BY TrackedFrames
<1>3. CASE f[1] # Lessor
  <2>1. f # <<Lessor, leases + 1>> /\ (Handed(f)' <=> Handed(f))
    BY <1>3 DEF Handed
  <2> QED BY <2>1 DEF Bit
<1>4. CASE f[1] = Lessor
  <2>1. f = <<Lessor, leases + 1>> <=> f[2] = leases + 1
    BY <1>2, <1>4
  <2>2. /\ Handed(f) <=> f[2] <= leases
        /\ Handed(f)' <=> f[2] <= leases + 1
    BY <1>4 DEF Handed
  <2> QED BY <1>1, <1>2, <2>1, <2>2 DEF Bit
<1> QED BY <1>3, <1>4
----------------------------------------------------------------------------
LEMMA BalanceSame ==
  ASSUME Balanced, UNCHANGED <<queue, backlog, out, done, dropped, sent, leases>>
  PROVE  Balanced'
  BY DEF Balanced, Places, Handed

LEMMA BalanceSend ==
  ASSUME IInv, Balanced, NEW s \in Senders, SendFrame(s) \/ Enqueue(s)
  PROVE  Balanced'
<1>0. FateType /\ queue \in Seq(Tracked) /\ CallersOwe /\ sent \in [Senders -> Nat]
  BY DEF IInv, TypeOK, QueueType, CallerType
<1> SUFFICES ASSUME NEW f \in Tracked
             PROVE  Places(f)' = Bit(Handed(f))'
  BY DEF Balanced
<1>1. Places(f) = Bit(Handed(f))
  BY DEF Balanced
<1>2. UNCHANGED <<backlog, out, dropped, leases>>
  BY DEF SendFrame, Enqueue, loopVars, inputVars, fateVars
<1>3. CASE UNCHANGED <<queue, done, sent>>
  BY <1>1, <1>2, <1>3 DEF Places, Handed
<1>4. CASE sent' = [sent EXCEPT ![s] = @ + 1] /\ Finish({Current(s)}) /\ UNCHANGED queue
  <2>1. done'[f] = done[f] + Bit(f = Current(s))
    <3>1. done'[f] = done[f] + Bit(f \in {Current(s)})
      BY <1>0, <1>4, FinishAdds
    <3> QED BY <3>1 DEF Bit
  <2>2. Bit(Handed(f)') = Bit(Handed(f)) + Bit(f = Current(s))
    BY <1>2, <1>4, HandedSender
  <2>3. Bit(f = Current(s)) \in {0, 1}
    BY DEF Bit
  <2> QED BY <1>1, <1>2, <1>4, <2>1, <2>2, <2>3, PlacesType DEF Places
<1>5. CASE sent' = [sent EXCEPT ![s] = @ + 1] /\ queue' = Append(queue, Current(s)) /\ UNCHANGED done
           /\ sent[s] < PerSender[s]
  <2>1. Occurs(queue', f) = Occurs(queue, f) + Bit(Current(s) = f)
    <3>1. Current(s) \in Tracked
      BY <1>0, <1>5, FrameKinds
    <3> QED BY <1>0, <1>5, <3>1, OccursAppend
  <2>2. Bit(Handed(f)') = Bit(Handed(f)) + Bit(f = Current(s))
    BY <1>2, <1>5, HandedSender
  <2>3. Bit(f = Current(s)) \in {0, 1} /\ Bit(f = Current(s)) = Bit(Current(s) = f)
    BY DEF Bit
  <2> QED BY <1>1, <1>2, <1>5, <2>1, <2>2, <2>3, PlacesType DEF Places
<1> QED BY <1>0, <1>3, <1>4, <1>5 DEF SendFrame, Enqueue, CallersOwe

\* drainBacklog: what it sends is finished, what it discards is dropped
LEMMA BalanceBacklog ==
  ASSUME IInv, Balanced, DrainBacklog \/ Resend
  PROVE  Balanced'
<1>0. FateType /\ backlog \in Seq(Tracked)
  BY DEF IInv, TypeOK, QueueType
<1> SUFFICES ASSUME NEW f \in Tracked
             PROVE  Places(f)' = Bit(Handed(f))'
  BY DEF Balanced
<1>1. Places(f) = Bit(Handed(f))
  BY DEF Balanced
<1>2. UNCHANGED <<queue, out, sent, leases>>
  BY DEF DrainBacklog, Resend, sendVars, inputVars
<1>3. (Handed(f)' <=> Handed(f)) /\ Bit(Handed(f)') = Bit(Handed(f))
  BY <1>2, HandedSame DEF Bit
<1>4. CASE UNCHANGED <<backlog, done, dropped>>
  BY <1>1, <1>2, <1>3, <1>4 DEF Places
<1>5. CASE backlog' = <<>> /\ dropped' = dropped \cup Elems(backlog) /\ UNCHANGED done
  <2>1. Occurs(backlog', f) = 0
    BY <1>5, OccursNone
  <2>2. Occurs(backlog, f) + Bit(f \in dropped) <= 1
    <3> DEFINE a == Occurs(queue, f)
               b == Occurs(backlog, f)
               c == Bit(out = f)
               d == done[f]
               e == Bit(f \in dropped)
    <3>1. a + b + c + d + e <= 1 /\ a \in Nat /\ b \in Nat /\ c \in {0, 1} /\ d \in Nat /\ e \in {0, 1}
      BY <1>1, PlacesType DEF Places
    <3> HIDE DEF a, b, c, d, e
    <3>2. b + e <= 1
      BY <3>1
    <3> QED BY <3>2 DEF b, e
  <2>3. Bit(f \in dropped') = Bit(f \in dropped) + Occurs(backlog, f)
    <3>1. CASE f \in dropped
      BY <1>5, <2>2, <3>1, PlacesType DEF Bit
    <3>2. CASE f \notin dropped /\ f \in Elems(backlog)
      BY <1>5, <2>2, <3>2, PlacesType DEF Bit
    <3>3. CASE f \notin dropped /\ f \notin Elems(backlog)
      BY <1>5, <3>3, PlacesType DEF Bit
    <3> QED BY <3>1, <3>2, <3>3
  <2> QED BY <1>1, <1>2, <1>3, <1>5, <2>1, <2>3, PlacesType DEF Places
<1>6. CASE Resend
  <2>1. backlog # <<>> /\ Finish({Head(backlog)}) /\ backlog' = Tail(backlog) /\ UNCHANGED dropped
    BY <1>6 DEF Resend, IInv, LoopHolds
  <2>2. Occurs(backlog, f) = Occurs(backlog', f) + Bit(Head(backlog) = f)
    BY <1>0, <2>1, OccursTail
  <2>3. done'[f] = done[f] + Bit(Head(backlog) = f)
    <3>1. done'[f] = done[f] + Bit(f \in {Head(backlog)})
      BY <1>0, <2>1, FinishAdds
    <3> QED BY <3>1 DEF Bit
  <2>4. Occurs(backlog', f) \in Nat
    <3>1. backlog' \in Seq(Tracked)
      BY <1>0, <2>1, HeadTailProperties
    <3> QED BY <3>1, OccursType
  <2>5. Bit(Head(backlog) = f) \in {0, 1}
    BY DEF Bit
  <2>6. Occurs(queue', f) = Occurs(queue, f) /\ out' = out /\ dropped' = dropped
    BY <1>2, <2>1
  <2>7. Occurs(backlog, f) + done[f] = Occurs(backlog', f) + done'[f]
    BY <2>2, <2>3, <2>4, <2>5, PlacesType
  <2> QED BY <1>1, <1>3, <2>3, <2>4, <2>5, <2>6, <2>7, PlacesType DEF Places
<1>7. CASE DrainBacklog
  <2>1. CASE tp = NoTp
    BY <1>5, <1>7, <2>1 DEF DrainBacklog
  <2>2. CASE tp # NoTp
    BY <1>4, <1>7, <2>2 DEF DrainBacklog
  <2> QED BY <2>1, <2>2
<1> QED BY <1>6, <1>7

\* a frame received from the queue or the lease channel is in the hand
LEMMA BalanceTake ==
  ASSUME IInv, Balanced, out = <<>>, UNCHANGED <<backlog, done, dropped, sent>>,
         NEW pc, TakeQueue(pc) \/ TakeLease(pc)
  PROVE  Balanced'
<1>0. queue \in Seq(Tracked)
  BY DEF IInv, TypeOK, QueueType
<1> SUFFICES ASSUME NEW f \in Tracked
             PROVE  Places(f)' = Bit(Handed(f))'
  BY DEF Balanced
<1>1. Places(f) = Bit(Handed(f))
  BY DEF Balanced
<1>2. Bit(out = f) = 0
  BY TrackedFrames DEF Bit
<1>3. CASE TakeQueue(pc)
  <2>1. queue # <<>> /\ out' = Head(queue) /\ queue' = Tail(queue) /\ leases' = leases
    BY <1>3 DEF TakeQueue
  <2>2. Occurs(queue, f) = Occurs(queue', f) + Bit(out' = f)
    BY <1>0, <2>1, OccursTail
  <2>3. Bit(Handed(f)') = Bit(Handed(f))
    BY <2>1, HandedSame DEF Bit
  <2>4. Occurs(queue', f) \in Nat
    <3>1. queue' \in Seq(Tracked)
      BY <1>0, <2>1, HeadTailProperties
    <3> QED BY <3>1, OccursType
  <2>5. Bit(out' = f) \in {0, 1}
    BY DEF Bit
  <2> QED BY <1>1, <1>2, <2>2, <2>3, <2>4, <2>5, PlacesType DEF Places
<1>4. CASE TakeLease(pc)
  <2>1. out' = <<Lessor, leases + 1>> /\ leases' = leases + 1 /\ queue' = queue
    BY <1>4 DEF TakeLease
  <2>2. Bit(Handed(f)') = Bit(Handed(f)) + Bit(f = <<Lessor, leases + 1>>)
    BY <2>1, HandedLease
  <2>3. Bit(out' = f) = Bit(f = <<Lessor, leases + 1>>) /\ Bit(out' = f) \in {0, 1}
    BY <2>1 DEF Bit
  <2> QED BY <1>1, <1>2, <2>1, <2>2, <2>3, PlacesType DEF Places
<1> QED BY <1>3, <1>4

\* the frame in hand goes to the transport or to the backlog
LEMMA BalanceGive ==
  ASSUME IInv, Balanced, PickTransport \/ Write
  PROVE  Balanced'
<1>0. FateType /\ backlog \in Seq(Tracked) /\ out \in Tracked
  BY DEF IInv, TypeOK, QueueType, LoopHolds, PickTransport, Write
<1> SUFFICES ASSUME NEW f \in Tracked
             PROVE  Places(f)' = Bit(Handed(f))'
  BY DEF Balanced
<1>1. Places(f) = Bit(Handed(f))
  BY DEF Balanced
<1>2. UNCHANGED <<queue, dropped, sent, leases>>
  BY DEF PickTransport, Write, sendVars, inputVars, fateVars
<1>3. Bit(Handed(f)') = Bit(Handed(f))
  BY <1>2, HandedSame DEF Bit
<1>4. Bit(out = f) \in {0, 1} /\ Bit(<<>> = f) = 0
  BY TrackedFrames DEF Bit
<1>5. CASE UNCHANGED <<backlog, out, done>>
  BY <1>1, <1>2, <1>3, <1>5 DEF Places
<1>6. CASE backlog' = Append(backlog, out) /\ out' = <<>> /\ UNCHANGED done
  <2>1. Occurs(backlog', f) = Occurs(backlog, f) + Bit(out = f)
    BY <1>0, <1>6, OccursAppend
  <2> QED BY <1>1, <1>2, <1>3, <1>4, <1>6, <2>1, PlacesType DEF Places
<1>7. CASE Finish({out}) /\ out' = <<>> /\ UNCHANGED backlog
  <2>1. done'[f] = done[f] + Bit(out = f)
    <3>1. done'[f] = done[f] + Bit(f \in {out})
      BY <1>0, <1>7, FinishAdds
    <3> QED BY <3>1 DEF Bit
  <2> QED BY <1>1, <1>2, <1>3, <1>4, <1>7, <2>1, PlacesType DEF Places
<1>8. CASE PickTransport
  <2>1. UNCHANGED done
    BY <1>8 DEF PickTransport, fateVars
  <2> QED BY <1>5, <1>6, <1>8, <2>1 DEF PickTransport, NextFrame
<1>9. CASE Write
  BY <1>6, <1>7, <1>9 DEF Write, NextFrame
<1> QED BY <1>8, <1>9

\* Close finishes what is left in the queue and in the backlog
LEMMA BalanceDestroy ==
  ASSUME IInv, Balanced, DestroySndQueue \/ DestroySndBacklog
  PROVE  Balanced'
<1>0. FateType
  BY DEF IInv, TypeOK
<1> SUFFICES ASSUME NEW f \in Tracked
             PROVE  Places(f)' = Bit(Handed(f))'
  BY DEF Balanced
<1>1. Places(f) = Bit(Handed(f))
  BY DEF Balanced
<1>2. UNCHANGED <<out, dropped, sent, leases>>
  BY DEF DestroySndQueue, DestroySndBacklog, loopVars, sendVars, inputVars
<1>3. Bit(Handed(f)') = Bit(Handed(f))
  BY <1>2, HandedSame DEF Bit
<1>4. Occurs(queue, f) <= 1 /\ Occurs(backlog, f) <= 1
  <2> DEFINE a == Occurs(queue, f)
             b == Occurs(backlog, f)
             c == Bit(out = f)
             d == done[f]
             e == Bit(f \in dropped)
  <2>1. a + b + c + d + e <= 1 /\ a \in Nat /\ b \in Nat /\ c \in {0, 1} /\ d \in Nat /\ e \in {0, 1}
    BY <1>1, PlacesType DEF Places
  <2> HIDE DEF a, b, c, d, e
  <2>2. a <= 1 /\ b <= 1
    BY <2>1
  <2> QED BY <2>2 DEF a, b
<1>5. CASE DestroySndQueue
  <2>1. Finish(Elems(queue)) /\ queue' = <<>> /\ backlog' = backlog
    BY <1>5 DEF DestroySndQueue
  <2>2. done'[f] = done[f] + Bit(f \in Elems(queue))
    BY <1>0, <2>1, FinishAdds
  <2>3. Bit(f \in Elems(queue)) = Occurs(queue, f)
    BY <1>4, PlacesType DEF Bit
  <2>4. Occurs(queue', f) = 0
    BY <2>1, OccursNone
  <2> QED BY <1>1, <1>2, <1>3, <2>1, <2>2, <2>3, <2>4, PlacesType DEF Places
<1>6. CASE DestroySndBacklog
  <2>1. Finish(Elems(backlog)) /\ backlog' = <<>> /\ queue' = queue
    BY <1>6 DEF DestroySndBacklog
  <2>2. done'[f] = done[f] + Bit(f \in Elems(backlog))
    BY <1>0, <2>1, FinishAdds
  <2>3. Bit(f \in Elems(backlog)) = Occurs(backlog, f)
    BY <1>4, PlacesType DEF Bit
  <2>4. Occurs(backlog', f) = 0
    BY <2>1, OccursNone
  <2> QED BY <1>1, <1>2, <1>3, <2>1, <2>2, <2>3, <2>4, PlacesType DEF Places
<1> QED BY <1>5, <1>6
----------------------------------------------------------------------------
\* a step of the loop that is not at its first check or its end: Close is not
\* tearing anything down
LEMMA EmptiedLoop ==
  ASSUME SyncOK, Emptied, lpc \notin {"start", "check", "exit", "stopped"},
         UNCHANGED <<sealed, cpc>>, lpc' \notin {"pick", "write"} => out' = <<>>
  PROVE  Emptied'
  BY DEF SyncOK, DestroyExclusive, Destroying, Emptied

LEMMA EmptiedStep ==
  ASSUME SyncOK, Emptied, [Next]_vars
  PROVE  Emptied'
<1> USE DEF connVars, loopVars, inputVars, sendVars, linkVars, peerVars, fateVars
<1>1. ASSUME NEW s \in Senders, SendFrame(s) \/ Enqueue(s) PROVE Emptied'
  <2>1. UNCHANGED <<sealed, cpc, backlog, lpc, out>>
    BY <1>1 DEF SendFrame, Enqueue
  <2>2. sealed => queue' = queue
    BY <1>1 DEF SendFrame, Enqueue
  <2> QED BY <2>1, <2>2 DEF Emptied
<1>2. CASE LoopStart \/ CheckClosed \/ LoopExit
  BY <1>2 DEF LoopStart, CheckClosed, LoopExit, Goto, Emptied
<1>3. CASE CheckReady \/ Park \/ CheckCtx
  <2>1. lpc \in {"ready", "park", "ctx"} /\ UNCHANGED <<sealed, cpc, out>>
    BY <1>3 DEF CheckReady, Park, CheckCtx, Goto
  <2> QED BY <2>1, EmptiedLoop DEF Emptied
<1>4. CASE PollTick \/ Reflush \/ DrainStart \/ Flush
  <2>1. lpc \in {"tick", "reflush", "drain", "flush"} /\ UNCHANGED <<sealed, cpc, out>>
    BY <1>4 DEF PollTick, Goto, Tick, Reflush, DrainStart, Flush
  <2> QED BY <2>1, EmptiedLoop DEF Emptied
<1>5. CASE DrainBacklog \/ Resend
  <2>1. lpc \in {"backlog", "resend"} /\ UNCHANGED <<sealed, cpc, out>>
    BY <1>5 DEF DrainBacklog, Resend
  <2> QED BY <2>1, EmptiedLoop DEF Emptied
<1>6. CASE Recv \/ Select
  <2>1. lpc \in {"recv", "select"} /\ UNCHANGED <<sealed, cpc>>
    BY <1>6 DEF Recv, Select, Tick
  <2>2. lpc' = "pick" \/ UNCHANGED out
    BY <1>6 DEF Recv, Select, Tick, TakeQueue, TakeLease, ChannelClosed
  <2> QED BY <2>1, <2>2, EmptiedLoop DEF Emptied
<1>7. CASE PickTransport \/ Write
  <2>1. lpc \in {"pick", "write"} /\ UNCHANGED <<sealed, cpc>>
    BY <1>7 DEF PickTransport, Write
  <2>2. lpc' = "write" \/ out' = <<>>
    BY <1>7 DEF PickTransport, Write, NextFrame
  <2> QED BY <2>1, <2>2, EmptiedLoop
<1>8. CASE LeaseClose \/ Cancel
  BY <1>8 DEF LeaseClose, Cancel, Emptied
<1>9. ASSUME NEW t \in Transports, SetTransport(t) \/ Break(t) PROVE Emptied'
  BY <1>9 DEF SetTransport, Break, Emptied
<1>10. CASE AssignTransport \/ ClearTransport
  BY <1>10 DEF AssignTransport, ClearTransport, Wake, Emptied
<1>11. CASE CloseCAS \/ CloseSeal \/ CloseBroadcast \/ CloseReadDone \/ CloseWait
  BY <1>11 DEF CloseCAS, CloseSeal, CloseBroadcast, CloseReadDone, CloseWait, Wake, Emptied
<1>12. CASE DestroyTransport \/ DestroySndQueue \/ DestroySndBacklog
  BY <1>12 DEF DestroyTransport, DestroySndQueue, DestroySndBacklog, Emptied
<1>13. CASE UNCHANGED vars
  BY <1>13 DEF vars, Emptied
<1> QED
  BY <1>1, <1>2, <1>3, <1>4, <1>5, <1>6, <1>7, <1>8, <1>9, <1>10, <1>11,
     <1>12, <1>13 DEF Next, LoopStep, CloseStep

LEMMA BalanceStep ==
  ASSUME IInv, SyncOK, Emptied, Balanced, [Next]_vars
  PROVE  Balanced'
<1> USE DEF connVars, loopVars, inputVars, sendVars, linkVars, peerVars, fateVars
<1>1. ASSUME NEW s \in Senders, SendFrame(s) \/ Enqueue(s) PROVE Balanced'
  BY <1>1, BalanceSend
<1>2. CASE LoopStart \/ CheckClosed \/ CheckReady \/ Park \/ CheckCtx \/ LoopExit
  BY <1>2, BalanceSame
     DEF LoopStart, CheckClosed, CheckReady, Park, CheckCtx, LoopExit, Goto
<1>3. CASE PollTick \/ Reflush \/ DrainStart \/ Flush
  BY <1>3, BalanceSame DEF PollTick, Goto, Tick, Reflush, DrainStart, Flush
<1>4. CASE DrainBacklog \/ Resend
  BY <1>4, BalanceBacklog
<1>5. CASE Recv \/ Select
  <2>1. lpc \in {"recv", "select"} /\ UNCHANGED <<backlog, done, dropped, sent>>
    BY <1>5 DEF Recv, Select, Tick
  <2>2. out = <<>>
    BY <2>1 DEF Emptied
  <2>3. \/ UNCHANGED <<queue, out, leases>>
        \/ TakeQueue("pick") \/ TakeLease("pick")
    BY <1>5 DEF Recv, Select, Tick, ChannelClosed
  <2> QED BY <2>1, <2>2, <2>3, BalanceSame, BalanceTake
<1>6. CASE PickTransport \/ Write
  BY <1>6, BalanceGive
<1>7. CASE LeaseClose \/ Cancel
  BY <1>7, BalanceSame DEF LeaseClose, Cancel
<1>8. ASSUME NEW t \in Transports, SetTransport(t) \/ Break(t) PROVE Balanced'
  BY <1>8, BalanceSame DEF SetTransport, Break
<1>9. CASE AssignTransport \/ ClearTransport
  BY <1>9, BalanceSame DEF AssignTransport, ClearTransport
<1>10. CASE CloseCAS \/ CloseSeal \/ CloseBroadcast \/ CloseReadDone \/ CloseWait \/ DestroyTransport
  BY <1>10, BalanceSame
     DEF CloseCAS, CloseSeal, CloseBroadcast, CloseReadDone, CloseWait, DestroyTransport
<1>11. CASE DestroySndQueue \/ DestroySndBacklog
  BY <1>11, BalanceDestroy
<1>12. CASE UNCHANGED vars
  BY <1>12, BalanceSame DEF vars
<1> QED
  BY <1>1, <1>2, <1>3, <1>4, <1>5, <1>6, <1>7, <1>8, <1>9, <1>10, <1>11,
     <1>12 DEF Next, LoopStep, CloseStep
----------------------------------------------------------------------------
\* Done is never taken back
LEMMA DoneGrows ==
  ASSUME IInv, IInv', [Next]_vars, NEW f \in Tracked
  PROVE  done[f] \in Nat /\ done'[f] \in Nat /\ done'[f] >= done[f]
<1> USE DEF connVars, loopVars, inputVars, sendVars, linkVars, peerVars, fateVars
<1>1. FateType /\ FateType'
  BY DEF IInv, TypeOK
<1>2. done' = done \/ \E F : Finish(F)
  <2>1. ASSUME NEW s \in Senders, SendFrame(s) \/ Enqueue(s) PROVE done' = done \/ \E F : Finish(F)
    BY <2>1 DEF SendFrame, Enqueue
  <2>2. CASE LoopStart \/ CheckClosed \/ CheckReady \/ Park \/ CheckCtx \/ LoopExit
    BY <2>2 DEF LoopStart, CheckClosed, CheckReady, Park, CheckCtx, LoopExit, Goto
  <2>3. CASE PollTick \/ Reflush \/ DrainStart \/ Flush \/ Recv \/ Select \/ PickTransport
    BY <2>3 DEF PollTick, Goto, Tick, Reflush, DrainStart, Flush, Recv, Select, PickTransport
  <2>4. CASE DrainBacklog \/ Resend \/ Write
    BY <2>4 DEF DrainBacklog, Resend, Write
  <2>5. CASE LeaseClose \/ Cancel \/ AssignTransport \/ ClearTransport
    BY <2>5 DEF LeaseClose, Cancel, AssignTransport, ClearTransport
  <2>6. ASSUME NEW t \in Transports, SetTransport(t) \/ Break(t) PROVE done' = done
    BY <2>6 DEF SetTransport, Break
  <2>7. CASE CloseCAS \/ CloseSeal \/ CloseBroadcast \/ CloseReadDone \/ CloseWait \/ DestroyTransport
    BY <2>7 DEF CloseCAS, CloseSeal, CloseBroadcast, CloseReadDone, CloseWait, DestroyTransport
  <2>8. CASE DestroySndQueue \/ DestroySndBacklog
    BY <2>8 DEF DestroySndQueue, DestroySndBacklog
  <2>9. CASE UNCHANGED vars
    BY <2>9 DEF vars
  <2> QED
    BY <2>1, <2>2, <2>3, <2>4, <2>5, <2>6, <2>7, <2>8, <2>9 DEF Next, LoopStep, CloseStep
<1>3. CASE done' = done
  BY <1>1, <1>3 DEF FateType
<1>4. ASSUME NEW F, Finish(F) PROVE done'[f] = done[f] + Bit(f \in F)
  BY <1>1, <1>4, FinishAdds
<1>5. done[f] \in Nat /\ done'[f] \in Nat /\ \A b : Bit(b) \in {0, 1}
  BY <1>1 DEF FateType, Bit
<1> QED BY <1>2, <1>3, <1>4, <1>5

\* what a transport may be given next: a keepalive frame, or a frame not finished
LEMMA WirePut ==
  ASSUME PeerType, WrittenDone, NeverWrittenTwice,
         \A f \in Tracked : done[f] \in Nat /\ done'[f] \in Nat /\ done'[f] >= done[f],
         NEW t \in Transports, NEW x \in Frames, wire' = [wire EXCEPT ![t] = Append(@, x)],
         x \in Tracked => done[x] = 0 /\ done'[x] > 0
  PROVE  WrittenDone' /\ NeverWrittenTwice'
<1> DEFINE n == Len(wire[t]) + 1
<1>1. /\ wire \in [Transports -> Seq(Frames)] /\ n \in Nat
      /\ wire' \in [Transports -> Seq(Frames)]
      /\ DOMAIN wire[t] = 1..Len(wire[t]) /\ n \notin DOMAIN wire[t]
  BY LenProperties DEF PeerType
<1>2. \A u \in Transports : u # t => wire'[u] = wire[u]
  BY <1>1
<1>3. /\ wire'[t] = Append(wire[t], x) /\ DOMAIN wire'[t] = DOMAIN wire[t] \cup {n}
      /\ \A i \in DOMAIN wire[t] : wire'[t][i] = wire[t][i]
      /\ wire'[t][n] = x
  <2>1. wire'[t] = Append(wire[t], x) /\ wire[t] \in Seq(Frames)
    BY <1>1
  <2>2. /\ Append(wire[t], x) \in Seq(Frames) /\ Len(Append(wire[t], x)) = n
        /\ \A i \in 1..Len(wire[t]) : Append(wire[t], x)[i] = wire[t][i]
        /\ Append(wire[t], x)[n] = x
    BY <2>1, AppendProperties
  <2>3. DOMAIN Append(wire[t], x) = 1..n
    BY <2>2, LenProperties
  <2> QED BY <1>1, <2>1, <2>2, <2>3
<1> HIDE DEF n
\* a position holds what it held, or is the new one
<1>4. ASSUME NEW u \in Transports, NEW i \in DOMAIN wire'[u]
      PROVE  \/ i \in DOMAIN wire[u] /\ wire'[u][i] = wire[u][i]
             \/ u = t /\ i = n /\ wire'[u][i] = x
  BY <1>2, <1>3
<1>5. WrittenDone'
  <2> SUFFICES ASSUME NEW u \in Transports, NEW i \in DOMAIN wire'[u], wire'[u][i] \in Tracked
               PROVE  done'[wire'[u][i]] > 0
    BY DEF WrittenDone
  <2>1. CASE i \in DOMAIN wire[u] /\ wire'[u][i] = wire[u][i]
    <3>1. done[wire[u][i]] > 0
      BY <2>1 DEF WrittenDone
    <3> QED BY <2>1, <3>1
  <2>2. CASE wire'[u][i] = x
    BY <2>2
  <2> QED BY <1>4, <2>1, <2>2
<1>6. ASSUME x \in Tracked, NEW u \in Transports, NEW i \in DOMAIN wire[u]
      PROVE  wire[u][i] # x
  BY <1>6 DEF WrittenDone
<1>7. NeverWrittenTwice'
  <2> SUFFICES ASSUME NEW f \in Tracked, NEW u \in Transports, NEW v \in Transports,
                      NEW i \in DOMAIN wire'[u], NEW j \in DOMAIN wire'[v],
                      wire'[u][i] = f, wire'[v][j] = f
               PROVE  u = v /\ i = j
    BY DEF NeverWrittenTwice
  <2>1. CASE f = x
    BY <1>4, <1>6, <2>1
  <2>2. CASE f # x
    BY <1>4, <2>2 DEF NeverWrittenTwice
  <2> QED BY <2>1, <2>2
<1> QED BY <1>5, <1>7

\* Balanced: a frame that is in the backlog or in the hand is not finished
LEMMA NotFinished ==
  ASSUME IInv, Balanced, NEW f \in Tracked, f \in Elems(backlog) \/ f = out
  PROVE  done[f] = 0
<1>1. Places(f) \in {0, 1}
  BY DEF Balanced, Bit
<1> DEFINE a == Occurs(queue, f)
           b == Occurs(backlog, f)
           c == Bit(out = f)
           d == done[f]
           e == Bit(f \in dropped)
<1>2. a + b + c + d + e \in {0, 1} /\ a \in Nat /\ b \in Nat /\ c \in {0, 1} /\ d \in Nat /\ e \in {0, 1}
  BY <1>1, PlacesType DEF Places
<1>3. b # 0 \/ c # 0
  BY PlacesType DEF Bit
<1> HIDE DEF a, b, c, d, e
<1>4. d = 0
  BY <1>2, <1>3
<1> QED BY <1>4 DEF d

LEMMA WireStep ==
  ASSUME IInv, IInv', Balanced, WrittenDone, NeverWrittenTwice, [Next]_vars
  PROVE  WrittenDone' /\ NeverWrittenTwice'
<1> USE DEF connVars, loopVars, inputVars, sendVars, linkVars, peerVars, fateVars
<1>1. PeerType /\ FateType /\ \A f \in Tracked : done[f] \in Nat /\ done'[f] \in Nat /\ done'[f] >= done[f]
  BY DoneGrows DEF IInv, TypeOK
<1>2. CASE wire' = wire
  <2>1. NeverWrittenTwice'
    BY <1>2 DEF NeverWrittenTwice
  <2>2. WrittenDone'
    BY <1>1, <1>2 DEF WrittenDone
  <2> QED BY <2>1, <2>2
<1>3. ASSUME NEW pc, Tick(pc) PROVE WrittenDone' /\ NeverWrittenTwice'
  <2>1. CASE Put(tp, <<Ticker, ticks + 1>>, TRUE)
    <3>1. <<Ticker, ticks + 1>> \in Frames \ Tracked
      BY <1>3, FrameKinds, TrackedFrames DEF Tick, IInv, TypeOK, InputType
    <3>2. tp \in Transports /\ wire' = [wire EXCEPT ![tp] = Append(@, <<Ticker, ticks + 1>>)]
      BY <2>1 DEF Put, MayAccept
    <3> QED BY <1>1, <3>1, <3>2, WirePut
  <2>2. CASE wire' = wire
    BY <1>2, <2>2
  <2> QED BY <1>3, <2>1, <2>2 DEF Tick, Fail
<1>4. ASSUME NEW x \in Tracked, NEW t, NEW b, Put(t, x, b), Finish({x}), done[x] = 0
      PROVE  WrittenDone' /\ NeverWrittenTwice'
  <2>1. t \in Transports /\ wire' = [wire EXCEPT ![t] = Append(@, x)]
    BY <1>4 DEF Put, MayAccept
  <2>2. done'[x] = 1
    <3>1. done'[x] = done[x] + Bit(x \in {x})
      BY <1>1, <1>4, FinishAdds
    <3> QED BY <1>4, <3>1 DEF Bit
  <2>3. x \in Frames
    BY FrameKinds
  <2>4. x \in Tracked => done[x] = 0 /\ done'[x] > 0
    BY <1>4, <2>2
  <2> QED BY <1>1, <2>1, <2>3, <2>4, WirePut
<1>5. CASE Resend
  <2>1. Finish({Head(backlog)}) /\ (Put(stp, Head(backlog), FALSE) \/ wire' = wire)
    BY <1>5 DEF Resend, Fail
  <2>2. Head(backlog) \in Tracked /\ Head(backlog) \in Elems(backlog)
    <3>1. backlog \in Seq(Tracked) /\ backlog # <<>>
      BY <1>5 DEF IInv, TypeOK, QueueType, Resend, LoopHolds
    <3>2. Head(backlog) = backlog[1] /\ 1 \in DOMAIN backlog /\ Head(backlog) \in Tracked
      BY <3>1
    <3> QED BY <3>2 DEF Elems
  <2>3. done[Head(backlog)] = 0
    BY <2>2, NotFinished
  <2> QED BY <1>2, <1>4, <2>1, <2>2, <2>3
<1>6. CASE Write
  <2>1. out \in Tracked
    BY <1>6 DEF IInv, Write, LoopHolds
  <2>2. done[out] = 0
    BY <2>1, NotFinished
  <2> QED BY <1>2, <1>4, <1>6, <2>1, <2>2 DEF Write, Fail
<1>7. ASSUME NEW s \in Senders, SendFrame(s) \/ Enqueue(s) PROVE wire' = wire
  BY <1>7 DEF SendFrame, Enqueue
<1>8. CASE LoopStart \/ CheckClosed \/ CheckReady \/ Park \/ CheckCtx \/ LoopExit
  BY <1>2, <1>8 DEF LoopStart, CheckClosed, CheckReady, Park, CheckCtx, LoopExit, Goto
<1>9. CASE PollTick
  BY <1>2, <1>3, <1>9 DEF PollTick, Goto
<1>10. CASE Select
  BY <1>2, <1>3, <1>10 DEF Select
<1>11. CASE Reflush \/ DrainStart \/ Flush \/ Recv \/ PickTransport \/ DrainBacklog
  BY <1>2, <1>11 DEF Reflush, DrainStart, Flush, Recv, PickTransport, DrainBacklog, FlushTo, Fail
<1>12. CASE LeaseClose \/ Cancel \/ AssignTransport \/ ClearTransport
  BY <1>2, <1>12 DEF LeaseClose, Cancel, AssignTransport, ClearTransport
<1>13. ASSUME NEW t \in Transports, SetTransport(t) \/ Break(t) PROVE wire' = wire
  BY <1>13 DEF SetTransport, Break
<1>14. CASE CloseCAS \/ CloseStep
  BY <1>2, <1>14 DEF CloseCAS, CloseStep, CloseSeal, CloseBroadcast, CloseReadDone, CloseWait,
                     DestroyTransport, DestroySndQueue, DestroySndBacklog
<1>15. CASE UNCHANGED vars
  BY <1>2, <1>15 DEF vars
<1> QED
  BY <1>2, <1>5, <1>6, <1>7, <1>8, <1>9, <1>10, <1>11, <1>12, <1>13, <1>14, <1>15
     DEF Next, LoopStep

LEMMA OnceInit == Init => OnceInv
<1> SUFFICES ASSUME Init PROVE OnceInv
  OBVIOUS
<1>1. /\ queue = <<>> /\ backlog = <<>> /\ out = <<>> /\ leases = 0 /\ dropped = {} /\ cpc = "idle"
      /\ sent = [s \in Senders |-> 0] /\ done = [f \in Tracked |-> 0]
      /\ wire = [u \in Transports |-> <<>>]
  BY DEF Init
<1>2. Emptied
  BY <1>1 DEF Emptied
<1>3. WrittenDone /\ NeverWrittenTwice
  <2>1. \A t \in Transports : DOMAIN wire[t] = {}
    BY <1>1
  <2> QED BY <2>1 DEF WrittenDone, NeverWrittenTwice
<1>4. ASSUME NEW f \in Tracked PROVE Places(f) = Bit(Handed(f))
  <2>1. Occurs(queue, f) = 0 /\ Occurs(backlog, f) = 0 /\ done[f] = 0
    BY <1>1, OccursNone
  <2>2. Bit(out = f) = 0 /\ Bit(f \in dropped) = 0
    BY <1>1, TrackedFrames DEF Bit
  <2>3. ~Handed(f)
    <3>1. f[2] \in Nat \ {0} /\ (f[1] = Lessor \/ f[1] \in Senders)
      BY TrackedFrames
    <3> QED BY <1>1, <3>1 DEF Handed
  <2> QED BY <2>1, <2>2, <2>3 DEF Places, Bit
<1> QED BY <1>2, <1>3, <1>4 DEF OnceInv, Balanced

LEMMA OnceGives == IInv /\ SyncOK /\ OnceInv => EachOnce
<1> SUFFICES ASSUME IInv, SyncOK, OnceInv PROVE AccountedOnce
  BY DEF OnceInv, EachOnce
<1> SUFFICES ASSUME NEW f \in Tracked
             PROVE  cpc = "returned" /\ Handed(f) /\ f \notin dropped => done[f] = 1
  BY DEF OnceInv, Balanced, Places, AccountedOnce
<1> SUFFICES ASSUME cpc = "returned", Handed(f), f \notin dropped PROVE done[f] = 1
  OBVIOUS
<1>1. Places(f) = 1
  BY DEF OnceInv, Balanced, Bit
<1>2. queue = <<>> /\ backlog = <<>> /\ out = <<>>
  BY DEF OnceInv, Emptied, SyncOK, DestroyExclusive, Destroying
<1>3. Occurs(queue, f) = 0 /\ Occurs(backlog, f) = 0
  BY <1>2, OccursNone
<1>4. Bit(out = f) = 0 /\ Bit(f \in dropped) = 0
  BY <1>2, TrackedFrames DEF Bit
<1> QED BY <1>1, <1>3, <1>4, PlacesType DEF Places

\* Wherever sendFrame, drain, the resends and Close send it, a frame is in one
\* place and finished once, and no two writes of it reach a connection: the
\* loop finishes what a transport took before it can be queued again.
THEOREM EachFrameOnce == Spec => []EachOnce
<1>1. Spec => []SyncOK
  BY InitSync, SyncStep, PTL DEF Spec
<1>2. Spec => []IInv
  BY <1>1, InitIInv, StepIInv, PTL DEF Spec
<1>3. IInv /\ SyncOK /\ IInv' /\ OnceInv /\ [Next]_vars => OnceInv'
  BY BalanceStep, EmptiedStep, WireStep DEF OnceInv
<1> QED
  BY <1>1, <1>2, <1>3, OnceInit, OnceGives, PTL DEF Spec
----------------------------------------------------------------------------
\* a simple socket uses one connection; once a write to it failed, none succeeds,
\* and only then is there a backlog
OneConnection ==
  /\ KeepsTransport /\ ready /\ lpc \notin {"park", "parked"}
  /\ lpc \in {"resend", "reflush", "write"} => stp = Attached
  /\ \A u \in Transports : u # Attached => health[u] = "new" /\ wire[u] = <<>>
  /\ backlog # <<>> \/ lpc \in {"resend", "reflush"} => health[Attached] = "failed"

\* a write or a flush touches that connection only, and none repairs it
LEMMA OnlyAttached ==
  ASSUME PeerType, Attached # NoTp,
         (\E f, b : Put(Attached, f, b)) \/ FlushTo(Attached)
  PROVE  /\ \A u \in Transports : u # Attached => health'[u] = health[u] /\ wire'[u] = wire[u]
         /\ health[Attached] = "failed" => health'[Attached] = "failed" /\ UNCHANGED wire
         /\ health'[Attached] = "up" => health[Attached] = "up"
<1>1. Attached \in Transports /\ health \in [Transports -> {"new", "up", "broken", "failed"}]
      /\ wire \in [Transports -> Seq(Frames)]
  BY DEF PeerType
<1>2. CASE \E f, b : Put(Attached, f, b)
  BY <1>1, <1>2 DEF Put, MayAccept
<1>3. CASE Fail(Attached)
  BY <1>1, <1>3 DEF Fail
<1>4. CASE FlushTo(Attached) /\ ~Fail(Attached)
  BY <1>1, <1>4 DEF FlushTo, MayAccept
<1> QED BY <1>2, <1>3, <1>4

LEMMA ConnectionStep ==
  ASSUME Attached # NoTp, ~Resumable, IInv, OneConnection, [Next]_vars
  PROVE  OneConnection'
<1>0. /\ KeepsTransport /\ KeepsTransport' /\ tp = Attached /\ kpc = "up" /\ Attached \in Transports
      /\ PeerType
  BY KeepsStep DEF OneConnection, KeepsTransport, IInv, TypeOK
<1> USE DEF connVars, loopVars, inputVars, sendVars, linkVars, peerVars, fateVars
<1> DEFINE Same == /\ \A u \in Transports : u # Attached => health'[u] = health[u] /\ wire'[u] = wire[u]
                   /\ health[Attached] = "failed" => health'[Attached] = "failed"
<1>1. ASSUME UNCHANGED <<ready, stp, backlog>>, Same,
             lpc' \in {"park", "resend", "reflush", "write", "parked"} => lpc' = lpc
      PROVE  OneConnection'
  BY <1>0, <1>1 DEF OneConnection
<1>2. (\E f, b : Put(Attached, f, b)) \/ FlushTo(Attached) \/ UNCHANGED peerVars => Same
  BY <1>0, OnlyAttached
<1>3. Fail(Attached) => Same
  BY <1>2 DEF FlushTo
<1>4. ASSUME NEW s \in Senders, SendFrame(s) \/ Enqueue(s) PROVE OneConnection'
  <2>1. UNCHANGED <<ready, stp, backlog, lpc, health, wire>>
    BY <1>4 DEF SendFrame, Enqueue
  <2> QED BY <1>1, <2>1
<1>5. CASE LoopStart \/ CheckClosed \/ CheckReady \/ Park \/ CheckCtx \/ LoopExit
  <2>1. UNCHANGED <<ready, stp, backlog, health, wire>>
    BY <1>5 DEF LoopStart, CheckClosed, CheckReady, Park, CheckCtx, LoopExit, Goto
  <2>2. lpc' \notin {"park", "resend", "reflush", "write", "parked"}
    BY <1>5 DEF LoopStart, CheckClosed, CheckReady, Park, CheckCtx, LoopExit, Goto, OneConnection
  <2> QED BY <1>1, <2>1, <2>2
<1>6. CASE PollTick \/ Select \/ Recv
  <2>1. UNCHANGED <<ready, stp, backlog>> /\ lpc' \in {"backlog", "check", "pick", "exit", "select"}
    BY <1>6 DEF PollTick, Select, Recv, Goto, Tick, TakeQueue, TakeLease, ChannelClosed
  <2>2. Same
    <3>1. \A pc : Tick(pc) => Same
      BY <1>0, <1>2, <1>3 DEF Tick
    <3>2. UNCHANGED peerVars \/ \E pc : Tick(pc)
      BY <1>6 DEF PollTick, Select, Recv, Goto
    <3> QED BY <1>2, <3>1, <3>2
  <2> QED BY <1>1, <2>1, <2>2
<1>7. CASE DrainBacklog
  <2>1. UNCHANGED <<ready, backlog, health, wire>>
    BY <1>0, <1>7 DEF DrainBacklog
  <2>2. \/ lpc' \in {"select", "drain"} /\ stp' = stp
        \/ lpc' = "resend" /\ stp' = Attached /\ backlog # <<>>
    <3>1. AfterBacklog \in {"select", "drain"}
      BY DEF AfterBacklog
    <3>2. CASE backlog = <<>>
      <4>1. backlog = <<>> \/ tp = NoTp
        BY <3>2
      <4>2. lpc' = AfterBacklog /\ stp' = stp
        BY <1>7, <4>1, Zenon DEF DrainBacklog
      <4> QED BY <3>1, <4>2
    <3>3. CASE backlog # <<>>
      BY <1>0, <1>7, <3>3 DEF DrainBacklog
    <3> QED BY <3>2, <3>3
  <2> QED BY <1>0, <2>1, <2>2 DEF OneConnection
<1>8. CASE Resend \/ Reflush
  <2>1. /\ stp = Attached /\ health[Attached] = "failed" /\ UNCHANGED <<ready, stp>>
        /\ lpc' \in {"resend", "reflush", "select", "drain"}
    BY <1>8 DEF OneConnection, Resend, Reflush, AfterBacklog
  <2>2. Same
    BY <1>2, <1>3, <1>8, <2>1 DEF Resend, Reflush
  <2> QED BY <1>0, <2>1, <2>2 DEF OneConnection
<1>9. CASE DrainStart
  BY <1>1, <1>9 DEF DrainStart
<1>10. CASE PickTransport
  <2>1. UNCHANGED <<ready, backlog, health, wire>> /\ stp' = Attached /\ lpc' = "write"
    BY <1>0, <1>10 DEF PickTransport
  <2> QED BY <1>0, <2>1 DEF OneConnection
<1>11. CASE Write
  <2>1. stp = Attached /\ UNCHANGED <<ready, stp>> /\ lpc' \in {"check", "recv", "flush", "select"}
    BY <1>11 DEF Write, NextFrame, AfterFrame, AfterDrain, OneConnection
  <2>2. Same
    BY <1>2, <1>3, <1>11, <2>1 DEF Write
  <2>3. UNCHANGED backlog \/ health'[Attached] = "failed"
    BY <1>0, <1>11, <2>1 DEF Write, Fail
  <2> QED BY <1>0, <2>1, <2>2, <2>3 DEF OneConnection
<1>12. CASE Flush
  <2>1. UNCHANGED <<ready, stp, backlog>> /\ lpc' \in {"check", "select"} /\ FlushTo(Attached)
    BY <1>0, <1>12 DEF Flush, AfterDrain
  <2> QED BY <1>1, <1>2, <2>1
<1>13. CASE LeaseClose \/ Cancel
  BY <1>1, <1>13 DEF LeaseClose, Cancel
<1>14. ASSUME NEW t \in Transports, SetTransport(t) \/ Break(t) PROVE OneConnection'
  <2>1. Break(t)
    BY <1>0, <1>14 DEF SetTransport
  <2>2. t = Attached /\ health[Attached] = "up"
    BY <2>1 DEF Break, OneConnection
  <2>3. Same
    BY <1>0, <2>1, <2>2 DEF Break, PeerType
  <2> QED BY <1>1, <2>1, <2>3 DEF Break
<1>15. CASE AssignTransport \/ ClearTransport
  BY <1>0, <1>15 DEF AssignTransport, ClearTransport
<1>16. CASE CloseCAS \/ CloseSeal \/ CloseReadDone \/ CloseWait \/ DestroySndQueue
  BY <1>1, <1>16 DEF CloseCAS, CloseSeal, CloseReadDone, CloseWait, DestroySndQueue
<1>17. CASE CloseBroadcast
  <2>1. UNCHANGED <<ready, stp, backlog, health, wire>> /\ lpc' = lpc
    BY <1>17 DEF CloseBroadcast, Wake, OneConnection
  <2> QED BY <1>1, <2>1
<1>18. CASE DestroyTransport
  <2>1. Same
    BY <1>0, <1>18 DEF DestroyTransport, PeerType
  <2> QED BY <1>1, <1>18, <2>1 DEF DestroyTransport
<1>19. CASE DestroySndBacklog
  BY <1>0, <1>19 DEF DestroySndBacklog, OneConnection
<1>20. CASE UNCHANGED vars
  BY <1>1, <1>20 DEF vars
<1> QED
  BY <1>4, <1>5, <1>6, <1>7, <1>8, <1>9, <1>10, <1>11, <1>12, <1>13, <1>14, <1>15,
     <1>16, <1>17, <1>18, <1>19, <1>20 DEF Next, LoopStep, CloseStep
----------------------------------------------------------------------------
\* what the peer has of a healthy connection: everything written
Clean == health[Attached] = "up" => flushed[Attached] = Len(wire[Attached])

\* a cycle of drain that wrote something has at least its length of frames left
\* in the queue: it does not wait before the flush
FlushDue ==
  /\ lpc \in {"start", "check", "ready", "ctx", "tick", "backlog", "drain", "select"} => Clean
  /\ lpc = "recv" => /\ cycle > 0 /\ (flush \/ Clean)
                     /\ cycle <= Len(queue) \/ (cycle = 1 /\ ~flush)
  /\ lpc \in {"pick", "write"} => /\ cycle > 0 => (flush \/ Clean) /\ cycle - 1 <= Len(queue)
                                  /\ cycle = 0 => Clean

LEMMA CleanKept ==
  ASSUME PeerType, Attached # NoTp, Clean,
         \/ UNCHANGED <<health, wire, flushed>>
         \/ UNCHANGED <<wire, flushed>> /\ (health'[Attached] = "up" => health[Attached] = "up")
  PROVE  Clean'
  BY DEF Clean

\* a flush, a write with flush and a failure leave nothing in the buffer of a
\* connection that is up
LEMMA CleanMade ==
  ASSUME PeerType, Attached # NoTp,
         (\E f : Put(Attached, f, TRUE)) \/ FlushTo(Attached)
  PROVE  Clean'
<1>1. Attached \in Transports /\ health \in [Transports -> {"new", "up", "broken", "failed"}]
      /\ wire \in [Transports -> Seq(Frames)] /\ flushed \in [Transports -> Nat]
  BY DEF PeerType
<1>2. ASSUME NEW f, Put(Attached, f, TRUE) PROVE Clean'
  <2>1. wire'[Attached] = Append(wire[Attached], f) /\ flushed'[Attached] = Len(wire[Attached]) + 1
    BY <1>1, <1>2 DEF Put
  <2>2. wire[Attached] \in Seq(Frames)
    BY <1>1
  <2>3. Len(Append(wire[Attached], f)) = Len(wire[Attached]) + 1
    BY <2>2
  <2> QED BY <2>1, <2>3 DEF Clean
<1>3. CASE Fail(Attached)
  BY <1>1, <1>3 DEF Fail, Clean
<1>4. CASE FlushTo(Attached) /\ ~Fail(Attached)
  BY <1>1, <1>4 DEF FlushTo, Clean
<1> QED BY <1>2, <1>3, <1>4

LEMMA FlushStep ==
  ASSUME Attached # NoTp, ~Resumable, IInv, SyncOK, OneConnection, FlushDue, [Next]_vars
  PROVE  FlushDue'
<1>0. /\ tp = Attached /\ kpc = "up" /\ Attached \in Transports
      /\ PeerType /\ LoopType /\ queue \in Seq(Tracked) /\ Len(queue) \in Nat /\ cycle \in Nat
  BY DEF OneConnection, KeepsTransport, IInv, TypeOK, LoopType, QueueType
<1> USE DEF connVars, loopVars, inputVars, sendVars, linkVars, peerVars, fateVars
<1> DEFINE Quiet == UNCHANGED <<wire, flushed>> /\ (health'[Attached] = "up" => health[Attached] = "up")
<1>1. Clean /\ Quiet => Clean'
  BY <1>0, CleanKept
\* steps of the others: the queue may grow
<1>2. ASSUME UNCHANGED <<cycle, flush>>, Quiet, lpc' = lpc,
             queue' = queue \/ (queue' \in Seq(Tracked) /\ Len(queue') = Len(queue) + 1)
      PROVE  FlushDue'
  <2>1. Len(queue') \in Nat /\ Len(queue') >= Len(queue)
    BY <1>0, <1>2
  <2> HIDE DEF Quiet
  <2> QED BY <1>0, <1>1, <1>2, <2>1 DEF FlushDue
<1>3. ASSUME NEW s \in Senders, SendFrame(s) \/ Enqueue(s) PROVE FlushDue'
  <2>1. UNCHANGED <<cycle, flush, lpc, health, wire, flushed>>
    BY <1>3 DEF SendFrame, Enqueue
  <2>2. queue' = queue \/ (queue' = Append(queue, Current(s)) /\ Current(s) \in Tracked)
    BY <1>3, FrameKinds DEF SendFrame, Enqueue, IInv, TypeOK, CallerType, CallersOwe
  <2>3. queue' = queue \/ (queue' \in Seq(Tracked) /\ Len(queue') = Len(queue) + 1)
    BY <1>0, <2>2
  <2> QED BY <1>2, <2>1, <2>3
\* steps of the loop between places where everything is flushed
<1>4. ASSUME lpc' \notin {"recv", "pick", "write"},
             lpc' \in {"exit", "stopped", "resend", "reflush", "flush"} \/ Clean'
      PROVE  FlushDue'
  BY <1>4 DEF FlushDue
<1>5. CASE LoopStart \/ CheckClosed \/ CheckReady \/ Park \/ CheckCtx \/ LoopExit
  <2>1. UNCHANGED <<health, wire, flushed>>
    BY <1>5 DEF LoopStart, CheckClosed, CheckReady, Park, CheckCtx, LoopExit, Goto
  <2>2. \/ lpc \in {"start", "check", "ready", "ctx"} /\ lpc' \in {"check", "exit", "ready", "ctx", "tick", "backlog"}
        \/ lpc' = "stopped"
    BY <1>5 DEF LoopStart, CheckClosed, CheckReady, Park, CheckCtx, LoopExit, Goto, OneConnection
  <2> QED BY <1>1, <1>4, <2>1, <2>2 DEF FlushDue
<1>6. ASSUME NEW pc \in {"backlog", "check"}, Tick(pc), Clean PROVE FlushDue'
  <2>1. Clean'
    <3>1. Fail(tp) => FlushTo(Attached)
      BY <1>0 DEF FlushTo
    <3> QED BY <1>0, <1>6, <3>1, CleanMade DEF Tick
  <2>2. lpc' = pc
    BY <1>6 DEF Tick
  <2> QED BY <1>4, <2>1, <2>2
<1>7. CASE PollTick
  <2>1. Clean
    BY <1>7 DEF PollTick, Goto, FlushDue
  <2>2. CASE Goto("tick", "backlog")
    BY <1>1, <1>4, <2>1, <2>2 DEF Goto
  <2> QED BY <1>6, <1>7, <2>1, <2>2 DEF PollTick
<1>8. CASE DrainBacklog
  <2>1. Clean /\ UNCHANGED <<health, wire, flushed>> /\ lpc' \in {"select", "drain", "resend"}
    BY <1>8 DEF DrainBacklog, AfterBacklog, FlushDue
  <2> QED BY <1>1, <1>4, <2>1
<1>9. CASE Resend \/ Reflush
  <2>1. stp = Attached /\ health[Attached] = "failed" /\ lpc' \in {"resend", "reflush", "select", "drain"}
    BY <1>9 DEF OneConnection, Resend, Reflush, AfterBacklog
  <2>2. health'[Attached] = "failed"
    BY <1>0, <1>9, <2>1, OnlyAttached DEF Resend, Reflush, FlushTo
  <2> QED BY <1>4, <2>1, <2>2 DEF Clean
<1>10. CASE DrainStart
  <2>1. Clean' /\ lpc' = "recv" /\ flush' = FALSE /\ queue' = queue
    BY <1>1, <1>10 DEF DrainStart, FlushDue
  <2>2. cycle' > 0 /\ (cycle' <= Len(queue) \/ cycle' = 1)
    <3>1. CASE queue = <<>>
      BY <1>10, <3>1 DEF DrainStart
    <3>2. CASE queue # <<>>
      BY <1>0, <1>10, <3>2, EmptySeq DEF DrainStart
    <3> QED BY <3>1, <3>2
  <2> QED BY <2>1, <2>2 DEF FlushDue
<1>11. CASE Recv
  <2>1. /\ lpc = "recv" /\ UNCHANGED <<cycle, flush, health, wire, flushed>>
        /\ cycle > 0 /\ (flush \/ Clean) /\ (cycle <= Len(queue) \/ (cycle = 1 /\ ~flush))
    BY <1>11 DEF Recv, FlushDue
  <2>2. flush' \/ Clean' \/ (flush /\ ~flush')
    BY <1>1, <2>1
  <2>3. CASE TakeQueue("pick") \/ TakeLease("pick")
    <3>1. lpc' = "pick" /\ Len(queue') \in Nat /\ Len(queue') >= Len(queue) - 1
      <4>1. CASE queue' = queue
        BY <1>0, <2>3, <4>1 DEF TakeQueue, TakeLease
      <4>2. CASE queue # <<>> /\ queue' = Tail(queue)
        <5>1. Len(queue') = Len(queue) - 1 /\ Len(queue') \in Nat
          BY <1>0, <4>2, HeadTailProperties, LenProperties
        <5> QED BY <2>3, <5>1, <1>0 DEF TakeQueue, TakeLease
      <4> QED BY <2>3, <4>1, <4>2 DEF TakeQueue, TakeLease
    <3>2. cycle' > 0 /\ cycle' - 1 <= Len(queue')
      BY <1>0, <2>1, <3>1
    <3> QED BY <2>1, <2>2, <3>1, <3>2 DEF FlushDue
  <2>4. CASE ChannelClosed("select") /\ HasKeepalive
    <3>1. queue = <<>> /\ lpc' = "select"
      BY <2>1, <2>4 DEF ChannelClosed
    <3>2. ~flush
      BY <1>0, <2>1, <3>1
    <3> QED BY <1>1, <1>4, <2>1, <3>1, <3>2
  <2>5. CASE ChannelClosed("exit")
    BY <1>4, <2>5 DEF ChannelClosed
  <2> QED BY <1>11, <2>3, <2>4, <2>5 DEF Recv
<1>12. CASE Select
  <2>1. Clean
    BY <1>12 DEF Select, FlushDue
  <2>2. CASE ~Tick("check")
    <3>1. lpc' \in {"pick", "exit"} /\ cycle' = 0 /\ UNCHANGED <<health, wire, flushed>>
      BY <1>12, <2>2 DEF Select, TakeQueue, TakeLease, ChannelClosed
    <3> QED BY <1>1, <2>1, <3>1 DEF FlushDue
  <2> QED BY <1>6, <2>1, <2>2
<1>13. CASE PickTransport
  <2>1. lpc = "pick" /\ lpc' = "write" /\ UNCHANGED <<cycle, flush, queue, health, wire, flushed>>
    BY <1>0, <1>13 DEF PickTransport
  <2> QED BY <1>1, <2>1 DEF FlushDue
<1>14. CASE Write
  <2>1. lpc = "write" /\ stp = Attached /\ UNCHANGED queue
    BY <1>14 DEF Write, OneConnection
  <2>2. CASE cycle = 0
    <3>1. lpc' = "check"
      BY <1>14, <2>2 DEF Write, NextFrame
    <3>2. Clean'
      BY <1>0, <1>14, <2>1, <2>2, CleanMade DEF Write, FlushTo
    <3> QED BY <1>4, <3>1, <3>2
  <2>3. CASE cycle > 0
    <3>1. cycle' = cycle - 1 /\ cycle - 1 \in Nat /\ cycle - 1 <= Len(queue')
      BY <1>0, <1>14, <2>1, <2>3 DEF Write, NextFrame, FlushDue
    <3>2. flush' \/ Clean'
      <4>1. CASE Fail(stp)
        BY <1>0, <2>1, <4>1, CleanMade DEF FlushTo
      <4> QED BY <1>14, <2>3, <4>1 DEF Write, NextFrame
    <3>3. lpc' = IF cycle - 1 > 0 THEN "recv" ELSE IF flush' THEN "flush" ELSE AfterDrain
      <4>1. \A fl : NextFrame(fl) => lpc' = IF cycle - 1 > 0 THEN "recv" ELSE IF flush' THEN "flush" ELSE AfterDrain
        BY <2>3 DEF NextFrame, AfterFrame
      <4> QED BY <1>14, <4>1 DEF Write
    <3>4. CASE cycle - 1 > 0
      BY <3>1, <3>2, <3>3, <3>4 DEF FlushDue
    <3>5. CASE ~(cycle - 1 > 0)
      BY <3>1, <3>2, <3>3, <3>5 DEF FlushDue, AfterDrain
    <3> QED BY <3>4, <3>5
  <2> QED BY <1>0, <2>2, <2>3
<1>15. CASE Flush
  <2>1. FlushTo(Attached) /\ lpc' \in {"select", "check"}
    BY <1>0, <1>15 DEF Flush, AfterDrain
  <2> QED BY <1>0, <1>4, <2>1, CleanMade
<1>16. CASE LeaseClose \/ Cancel
  BY <1>2, <1>16 DEF LeaseClose, Cancel
<1>17. ASSUME NEW t \in Transports, SetTransport(t) \/ Break(t) PROVE FlushDue'
  <2>1. Break(t) /\ Quiet
    BY <1>0, <1>17 DEF SetTransport, Break, PeerType
  <2> QED BY <1>2, <2>1 DEF Break
<1>18. CASE AssignTransport \/ ClearTransport
  BY <1>0, <1>18 DEF AssignTransport, ClearTransport
<1>19. CASE CloseCAS \/ CloseSeal \/ CloseReadDone \/ CloseWait \/ DestroySndBacklog
  BY <1>2, <1>19 DEF CloseCAS, CloseSeal, CloseReadDone, CloseWait, DestroySndBacklog
<1>20. CASE CloseBroadcast
  <2>1. lpc' = lpc
    BY <1>20 DEF CloseBroadcast, Wake, OneConnection
  <2> QED BY <1>2, <1>20, <2>1 DEF CloseBroadcast
<1>21. CASE DestroyTransport
  <2>1. Quiet
    BY <1>0, <1>21 DEF DestroyTransport, PeerType
  <2> QED BY <1>2, <1>21, <2>1 DEF DestroyTransport
<1>22. CASE DestroySndQueue
  <2>1. lpc \notin {"recv", "pick", "write"} /\ lpc' = lpc /\ UNCHANGED <<health, wire, flushed>>
    BY <1>22 DEF DestroySndQueue, SyncOK, DestroyExclusive, Destroying
  <2> QED BY <1>1, <2>1 DEF FlushDue
<1>23. CASE UNCHANGED vars
  BY <1>2, <1>23 DEF vars
<1> QED
  BY <1>3, <1>5, <1>7, <1>8, <1>9, <1>10, <1>11, <1>12, <1>13, <1>14, <1>15, <1>16,
     <1>17, <1>18, <1>19, <1>20, <1>21, <1>22, <1>23 DEF Next, LoopStep, CloseStep
----------------------------------------------------------------------------
\* of two frames of one origin the first was handed over first
Precedes(f, g) == f[1] = g[1] => f[2] < g[2]

\* connection, hand and queue hold each origin's frames in the order it handed
\* them over; the queue holds frames of senders only
LineOrder ==
  /\ \A i, j \in DOMAIN wire[Attached] : i < j => Precedes(wire[Attached][i], wire[Attached][j])
  /\ \A i, j \in DOMAIN queue : i < j => Precedes(queue[i], queue[j])
  /\ \A i \in DOMAIN wire[Attached], j \in DOMAIN queue : Precedes(wire[Attached][i], queue[j])
  /\ out # <<>> => /\ \A i \in DOMAIN wire[Attached] : Precedes(wire[Attached][i], out)
                   /\ \A j \in DOMAIN queue : Precedes(out, queue[j])
  /\ \A j \in DOMAIN queue : queue[j][1] \in Senders
  /\ \A i \in DOMAIN wire[Attached] : wire[Attached][i][1] = Ticker => wire[Attached][i][2] <= ticks

\* a frame that is somewhere was handed over
LEMMA SomewhereHanded ==
  ASSUME IInv, OnceInv, NEW f \in Tracked,
         f \in Elems(queue) \/ f = out \/ (\E t \in Transports : f \in Elems(wire[t]))
  PROVE  Handed(f)
<1>1. Places(f) = Bit(Handed(f))
  BY DEF OnceInv, Balanced
<1> DEFINE a == Occurs(queue, f)
           b == Occurs(backlog, f)
           c == Bit(out = f)
           d == done[f]
           e == Bit(f \in dropped)
<1>2. a + b + c + d + e = Bit(Handed(f)) /\ a \in Nat /\ b \in Nat /\ c \in {0, 1} /\ d \in Nat /\ e \in {0, 1}
  BY <1>1, PlacesType DEF Places
<1>3. a # 0 \/ c # 0 \/ d # 0
  <2>1. CASE f \in Elems(queue)
    BY <2>1, PlacesType
  <2>2. CASE f = out
    BY <2>2 DEF Bit
  <2>3. CASE \E t \in Transports : f \in Elems(wire[t])
    BY <2>3 DEF OnceInv, WrittenDone, Elems
  <2> QED BY <2>1, <2>2, <2>3
<1> HIDE DEF a, b, c, d, e
<1>4. Bit(Handed(f)) # 0
  BY <1>2, <1>3
<1> QED BY <1>4 DEF Bit

\* so the next frame of an origin comes after all of them
LEMMA NextComesLast ==
  ASSUME IInv, OnceInv, Attached # NoTp
  PROVE  /\ \A s \in Senders :
              /\ \A i \in DOMAIN wire[Attached] : Precedes(wire[Attached][i], Current(s))
              /\ \A j \in DOMAIN queue : Precedes(queue[j], Current(s))
              /\ out # <<>> => Precedes(out, Current(s))
         /\ \A i \in DOMAIN wire[Attached] : Precedes(wire[Attached][i], <<Lessor, leases + 1>>)
<1>0. /\ queue \in Seq(Tracked) /\ wire \in [Transports -> Seq(Frames)] /\ Attached \in Transports
      /\ sent \in [Senders -> Nat] /\ leases \in Nat /\ out \in Tracked \cup {<<>>}
  BY DEF IInv, TypeOK, QueueType, PeerType, CallerType, InputType, LoopType
<1>1. ASSUME NEW f \in Tracked, Handed(f)
      PROVE  /\ \A s \in Senders : Precedes(f, Current(s))
             /\ Precedes(f, <<Lessor, leases + 1>>)
  <2>1. f[2] \in Nat
    BY TrackedFrames
  <2>2. ASSUME NEW s \in Senders, f[1] = s PROVE f[2] < sent[s] + 1
    <3>1. f[2] <= sent[s]
      BY <1>1, <2>2 DEF Handed
    <3>2. sent[s] \in Nat
      BY <1>0
    <3> QED BY <2>1, <3>1, <3>2
  <2>3. ASSUME f[1] = Lessor PROVE f[2] < leases + 1
    <3>1. f[2] <= leases
      BY <1>1, <2>3 DEF Handed
    <3> QED BY <1>0, <2>1, <3>1
  <2>4. \A s \in Senders : Precedes(f, Current(s))
    BY <2>2 DEF Precedes, Current
  <2>5. Precedes(f, <<Lessor, leases + 1>>)
    BY <2>3 DEF Precedes
  <2> QED BY <2>4, <2>5
<1>2. ASSUME NEW i \in DOMAIN wire[Attached]
      PROVE  /\ \A s \in Senders : Precedes(wire[Attached][i], Current(s))
             /\ Precedes(wire[Attached][i], <<Lessor, leases + 1>>)
  <2>1. wire[Attached][i] \in Frames
    BY <1>0
  <2>2. CASE wire[Attached][i] \in Tracked
    <3>1. Handed(wire[Attached][i])
      BY <1>0, <2>2, SomewhereHanded DEF Elems
    <3> QED BY <1>1, <2>2, <3>1
  <2>3. CASE wire[Attached][i] \in TickF
    <3>1. wire[Attached][i][1] = Ticker
      BY <2>3 DEF TickF
    <3> QED BY <3>1 DEF Precedes, Current
  <2> QED BY <2>1, <2>2, <2>3 DEF Frames
<1>3. ASSUME NEW j \in DOMAIN queue, NEW s \in Senders PROVE Precedes(queue[j], Current(s))
  <2>1. queue[j] \in Tracked
    BY <1>0
  <2>2. Handed(queue[j])
    BY <2>1, SomewhereHanded DEF Elems
  <2> QED BY <1>1, <2>1, <2>2
<1>4. ASSUME out # <<>>, NEW s \in Senders PROVE Precedes(out, Current(s))
  <2>1. out \in Tracked
    BY <1>0, <1>4
  <2> QED BY <1>1, <2>1, SomewhereHanded
<1> QED BY <1>2, <1>3, <1>4

\* appending to the connection what comes after all that it holds
LEMMA LineWrite ==
  ASSUME IInv, Attached # NoTp, LineOrder, NEW x \in Frames,
         wire'[Attached] = Append(wire[Attached], x),
         UNCHANGED queue, out' = out \/ out' = <<>>,
         \A i \in DOMAIN wire[Attached] : Precedes(wire[Attached][i], x),
         \A j \in DOMAIN queue : Precedes(x, queue[j]),
         out' # <<>> => Precedes(x, out),
         ticks' \in Nat /\ ticks \in Nat /\ ticks <= ticks', x[1] = Ticker => x[2] <= ticks'
  PROVE  LineOrder'
<1> DEFINE w == wire[Attached]
           n == Len(w) + 1
<1>1. w \in Seq(Frames) /\ \A i \in DOMAIN w : w[i][2] \in Int
  <2>1. w \in Seq(Frames)
    BY DEF IInv, TypeOK, PeerType
  <2>2. \A f \in Frames : f[2] \in Int
    BY TrackedFrames DEF Frames, TickF
  <2> QED BY <2>1, <2>2
<1>2. /\ DOMAIN w = 1..Len(w) /\ Len(w) \in Nat
      /\ DOMAIN Append(w, x) = 1..n /\ \A i \in DOMAIN w : Append(w, x)[i] = w[i]
      /\ Append(w, x)[n] = x
  <2>1. /\ Append(w, x) \in Seq(Frames) /\ Len(Append(w, x)) = n /\ Len(w) \in Nat
        /\ DOMAIN w = 1..Len(w)
        /\ \A i \in 1..Len(w) : Append(w, x)[i] = w[i]
        /\ Append(w, x)[n] = x
    BY <1>1, AppendProperties, LenProperties
  <2> QED BY <2>1, LenProperties
<1> DEFINE v == wire'[Attached]
<1>3. /\ DOMAIN v = 1..n /\ v[n] = x /\ \A i \in DOMAIN w : v[i] = w[i]
      /\ \A i \in DOMAIN v : i # n => i \in DOMAIN w
  BY <1>2
<1>4. ASSUME NEW i \in DOMAIN v, NEW j \in DOMAIN v, i < j PROVE Precedes(v[i], v[j])
  <2>1. i \in DOMAIN w
    BY <1>2, <1>3, <1>4
  <2>2. CASE j = n
    BY <1>3, <2>1, <2>2
  <2>3. CASE j # n
    BY <1>3, <1>4, <2>1, <2>3 DEF LineOrder
  <2> QED BY <2>2, <2>3
<1>5. ASSUME NEW i \in DOMAIN v
      PROVE  /\ \A j \in DOMAIN queue : Precedes(v[i], queue[j])
             /\ out' # <<>> => Precedes(v[i], out')
             /\ v[i][1] = Ticker => v[i][2] <= ticks'
  <2>1. CASE i = n
    BY <1>3, <2>1
  <2>2. CASE i # n
    <3>1. i \in DOMAIN w /\ v[i] = w[i]
      BY <1>3, <2>2
    <3>2. \A j \in DOMAIN queue : Precedes(w[i], queue[j])
      BY <3>1 DEF LineOrder
    <3>3. out' # <<>> => Precedes(w[i], out')
      BY <3>1 DEF LineOrder
    <3>4. w[i][1] = Ticker => w[i][2] <= ticks'
      <4>1. w[i][1] = Ticker => w[i][2] <= ticks
        BY <3>1 DEF LineOrder
      <4>2. w[i][2] \in Int
        BY <1>1, <3>1
      <4> HIDE DEF w
      <4> QED BY <4>1, <4>2
    <3> QED BY <3>1, <3>2, <3>3, <3>4
  <2> QED BY <2>1, <2>2
<1> HIDE DEF w, n
<1>6. /\ \A i, j \in DOMAIN wire'[Attached] : i < j => Precedes(wire'[Attached][i], wire'[Attached][j])
      /\ \A i \in DOMAIN wire'[Attached], j \in DOMAIN queue' : Precedes(wire'[Attached][i], queue'[j])
      /\ \A i \in DOMAIN wire'[Attached] : wire'[Attached][i][1] = Ticker => wire'[Attached][i][2] <= ticks'
      /\ out' # <<>> => \A i \in DOMAIN wire'[Attached] : Precedes(wire'[Attached][i], out')
  BY <1>4, <1>5
<1>7. /\ \A i, j \in DOMAIN queue' : i < j => Precedes(queue'[i], queue'[j])
      /\ \A j \in DOMAIN queue' : queue'[j][1] \in Senders
      /\ out' # <<>> => \A j \in DOMAIN queue' : Precedes(out', queue'[j])
  BY DEF LineOrder
<1> QED BY <1>6, <1>7 DEF LineOrder

LEMMA LineSame ==
  ASSUME IInv, Attached # NoTp, LineOrder, wire'[Attached] = wire[Attached],
         UNCHANGED queue, out' = out \/ out' = <<>>, ticks' = ticks \/ ticks' = ticks + 1
  PROVE  LineOrder'
<1>1. ASSUME NEW i \in DOMAIN wire[Attached], wire[Attached][i][1] = Ticker
      PROVE  wire[Attached][i][2] <= ticks'
  <2>1. wire[Attached][i] \in Frames /\ ticks \in Nat
    BY DEF IInv, TypeOK, PeerType, InputType
  <2>2. wire[Attached][i][2] \in Int
    BY <2>1, TrackedFrames DEF Frames, TickF
  <2>3. wire[Attached][i][2] <= ticks
    BY <1>1 DEF LineOrder
  <2> QED BY <2>1, <2>2, <2>3
<1> QED BY <1>1 DEF LineOrder

\* receiving from the queue, or offering the next lease
LEMMA LineTake ==
  ASSUME IInv, OnceInv, Attached # NoTp, LineOrder, out = <<>>,
         NEW pc, TakeQueue(pc) \/ TakeLease(pc), UNCHANGED <<wire, ticks>>
  PROVE  LineOrder'
<1>0. queue \in Seq(Tracked)
  BY DEF IInv, TypeOK, QueueType
<1>1. CASE TakeQueue(pc)
  <2> DEFINE t == Tail(queue)
  <2>1. queue # <<>> /\ out' = Head(queue) /\ queue' = t
    BY <1>1 DEF TakeQueue
  <2>2. /\ Head(queue) = queue[1] /\ 1 \in DOMAIN queue
        /\ \A j \in DOMAIN t : t[j] = queue[j + 1] /\ j + 1 \in DOMAIN queue /\ 1 < j + 1 /\ j \in Nat
    <3>1. /\ t \in Seq(Tracked) /\ Len(queue) \in Nat /\ Len(queue) > 0 /\ Len(t) = Len(queue) - 1
          /\ \A j \in 1..Len(t) : t[j] = queue[j + 1]
          /\ Head(queue) = queue[1]
      BY <1>0, <2>1, HeadTailProperties, EmptySeq, LenProperties
    <3>2. DOMAIN t = 1..Len(t) /\ DOMAIN queue = 1..Len(queue)
      BY <1>0, <3>1, LenProperties
    <3> HIDE DEF t
    <3> QED BY <3>1, <3>2
  <2> HIDE DEF t
  <2>3. \A i, j \in DOMAIN t : i < j => Precedes(t[i], t[j])
    <3> SUFFICES ASSUME NEW i \in DOMAIN t, NEW j \in DOMAIN t, i < j PROVE Precedes(t[i], t[j])
      OBVIOUS
    <3>1. i + 1 \in DOMAIN queue /\ j + 1 \in DOMAIN queue /\ i + 1 < j + 1
      BY <2>2
    <3>2. Precedes(queue[i + 1], queue[j + 1])
      BY <3>1 DEF LineOrder
    <3> QED BY <2>2, <3>2
  <2>4. /\ \A i \in DOMAIN wire[Attached], j \in DOMAIN t : Precedes(wire[Attached][i], t[j])
        /\ \A i \in DOMAIN wire[Attached] : Precedes(wire[Attached][i], out')
        /\ \A j \in DOMAIN t : Precedes(out', t[j]) /\ t[j][1] \in Senders
    BY <2>1, <2>2 DEF LineOrder
  <2> QED BY <2>1, <2>3, <2>4 DEF LineOrder
<1>2. CASE TakeLease(pc)
  <2>1. out' = <<Lessor, leases + 1>> /\ UNCHANGED queue
    BY <1>2 DEF TakeLease
  <2>2. \A i \in DOMAIN wire[Attached] : Precedes(wire[Attached][i], out')
    BY <2>1, NextComesLast
  <2>3. \A j \in DOMAIN queue : Precedes(out', queue[j])
    BY <2>1 DEF LineOrder, Precedes
  <2> QED BY <2>1, <2>2, <2>3 DEF LineOrder
<1> QED BY <1>1, <1>2

LEMMA LineEnqueue ==
  ASSUME IInv, OnceInv, Attached # NoTp, LineOrder, NEW s \in Senders,
         queue' = Append(queue, Current(s)), Current(s) \in Tracked, UNCHANGED <<wire, out, ticks>>
  PROVE  LineOrder'
<1> DEFINE n == Len(queue) + 1
           x == Current(s)
           q == Append(queue, x)
<1>1. /\ DOMAIN queue = 1..Len(queue) /\ Len(queue) \in Nat
      /\ DOMAIN q = 1..n /\ \A i \in DOMAIN queue : q[i] = queue[i]
      /\ q[n] = x
  <2>1. queue \in Seq(Tracked)
    BY DEF IInv, TypeOK, QueueType
  <2>2. /\ q \in Seq(Tracked) /\ Len(q) = n /\ Len(queue) \in Nat
        /\ DOMAIN queue = 1..Len(queue)
        /\ \A i \in 1..Len(queue) : q[i] = queue[i]
        /\ q[n] = x
    BY <2>1, AppendProperties, LenProperties
  <2> QED BY <2>2, LenProperties
<1>2. \A j \in DOMAIN q : (j = n /\ q[j] = x) \/ (j \in DOMAIN queue /\ q[j] = queue[j])
  BY <1>1
<1>3. /\ \A i \in DOMAIN wire[Attached] : Precedes(wire[Attached][i], x)
      /\ \A j \in DOMAIN queue : Precedes(queue[j], x)
      /\ out # <<>> => Precedes(out, x)
      /\ x[1] \in Senders
  BY NextComesLast DEF Current
<1>4. ASSUME NEW i \in DOMAIN q, NEW j \in DOMAIN q, i < j PROVE Precedes(q[i], q[j])
  <2>1. i \in DOMAIN queue /\ q[i] = queue[i]
    BY <1>1, <1>4
  <2>2. CASE j = n
    BY <1>1, <1>3, <2>1, <2>2
  <2>3. CASE j \in DOMAIN queue /\ q[j] = queue[j]
    BY <1>4, <2>1, <2>3 DEF LineOrder
  <2> QED BY <1>2, <2>2, <2>3
<1> HIDE DEF n, x
<1>5. ASSUME NEW j \in DOMAIN q
      PROVE  /\ \A i \in DOMAIN wire[Attached] : Precedes(wire[Attached][i], q[j])
             /\ out # <<>> => Precedes(out, q[j])
             /\ q[j][1] \in Senders
  BY <1>2, <1>3 DEF LineOrder
<1>6. queue' = q
  BY DEF x
<1> HIDE DEF q
<1> QED BY <1>4, <1>5, <1>6 DEF LineOrder

LEMMA LineStep ==
  ASSUME Attached # NoTp, IInv, SyncOK, OnceInv, OneConnection, LineOrder, [Next]_vars
  PROVE  LineOrder'
<1>0. /\ tp = Attached /\ kpc = "up" /\ Attached \in Transports
      /\ PeerType /\ wire \in [Transports -> Seq(Frames)] /\ ticks \in Nat
  BY DEF OneConnection, KeepsTransport, IInv, TypeOK, PeerType, InputType
<1> USE DEF connVars, loopVars, inputVars, sendVars, linkVars, peerVars, fateVars
<1>1. UNCHANGED <<queue, wire, out, ticks>> => LineOrder'
  BY LineSame
<1>2. ASSUME NEW s \in Senders, SendFrame(s) \/ Enqueue(s) PROVE LineOrder'
  <2>1. UNCHANGED <<wire, out, ticks>>
    BY <1>2 DEF SendFrame, Enqueue
  <2>2. queue' = queue \/ (queue' = Append(queue, Current(s)) /\ Current(s) \in Tracked)
    BY <1>2, FrameKinds DEF SendFrame, Enqueue, IInv, TypeOK, CallerType, CallersOwe
  <2> QED BY <1>1, <2>1, <2>2, LineEnqueue
<1>3. CASE LoopStart \/ CheckClosed \/ CheckReady \/ Park \/ CheckCtx \/ LoopExit
  BY <1>1, <1>3 DEF LoopStart, CheckClosed, CheckReady, Park, CheckCtx, LoopExit, Goto
<1>4. ASSUME NEW pc, Tick(pc), lpc \in {"tick", "select"} PROVE LineOrder'
  <2>1. out = <<>> /\ UNCHANGED <<queue, out>> /\ ticks' = ticks + 1
    BY <1>4 DEF Tick, OnceInv, Emptied
  <2>2. CASE Put(tp, <<Ticker, ticks + 1>>, TRUE)
    <3> DEFINE x == <<Ticker, ticks + 1>>
    <3>1. x \in Frames
      BY <1>4, FrameKinds DEF Tick, IInv, TypeOK, InputType
    <3>2. wire'[Attached] = Append(wire[Attached], x)
      BY <1>0, <2>2 DEF Put
    <3>3. ASSUME NEW i \in DOMAIN wire[Attached] PROVE Precedes(wire[Attached][i], x)
      <4>1. wire[Attached][i] \in Frames
        BY <1>0
      <4>2. wire[Attached][i][2] \in Int
        BY <4>1, TrackedFrames DEF Frames, TickF
      <4>3. wire[Attached][i][1] = Ticker => wire[Attached][i][2] <= ticks
        BY DEF LineOrder
      <4> QED BY <1>0, <4>2, <4>3 DEF Precedes
    <3>4. ASSUME NEW j \in DOMAIN queue PROVE Precedes(x, queue[j])
      BY DEF LineOrder, Precedes
    <3>5. ticks' \in Nat /\ ticks <= ticks' /\ x[2] <= ticks'
      BY <1>0, <2>1
    <3> HIDE DEF x
    <3> QED BY <1>0, <2>1, <3>1, <3>2, <3>3, <3>4, <3>5, LineWrite
  <2>3. CASE wire' = wire
    BY <2>1, <2>3, LineSame
  <2> QED BY <1>4, <2>2, <2>3 DEF Tick, Fail
<1>5. CASE PollTick
  BY <1>1, <1>4, <1>5 DEF PollTick, Goto
<1>6. CASE Recv
  <2>1. out = <<>> /\ UNCHANGED <<wire, ticks>>
    BY <1>6 DEF Recv, OnceInv, Emptied
  <2> QED BY <1>1, <1>6, <2>1, LineTake DEF Recv, ChannelClosed
<1>7. CASE Select
  <2>1. out = <<>> /\ lpc = "select"
    BY <1>7 DEF Select, OnceInv, Emptied
  <2>2. CASE Tick("check")
    BY <1>4, <2>1, <2>2
  <2>3. CASE ~Tick("check")
    <3>1. UNCHANGED <<wire, ticks>> /\ (TakeQueue("pick") \/ TakeLease("pick") \/ ChannelClosed("exit"))
      BY <1>7, <2>3 DEF Select
    <3> QED BY <1>1, <2>1, <3>1, LineTake DEF ChannelClosed
  <2> QED BY <2>2, <2>3
<1>8. CASE DrainBacklog \/ DrainStart
  BY <1>1, <1>8 DEF DrainBacklog, DrainStart
<1>9. CASE Resend
  <2>1. stp = Attached /\ health[Attached] = "failed"
    BY <1>9 DEF OneConnection, Resend
  <2>2. UNCHANGED <<queue, out, ticks, wire>>
    BY <1>0, <1>9, <2>1, OnlyAttached DEF Resend, FlushTo
  <2> QED BY <1>1, <2>2
<1>10. CASE Reflush \/ Flush
  BY <1>1, <1>10 DEF Reflush, Flush, FlushTo, Fail
<1>11. CASE PickTransport
  BY <1>0, <1>1, <1>11 DEF PickTransport
<1>12. CASE Write
  <2>1. lpc = "write" /\ stp = Attached /\ UNCHANGED <<queue, ticks>> /\ out' = <<>>
    BY <1>12 DEF OneConnection, Write, NextFrame
  <2>2. out \in Tracked /\ out \in Frames /\ out # <<>> /\ out[1] # Ticker
    <3>1. out \in Tracked /\ out # <<>>
      BY <2>1, TrackedFrames DEF IInv, LoopHolds
    <3>2. out[1] # Ticker
      BY <3>1, TrackedFrames
    <3> QED BY <3>1, <3>2, FrameKinds
  <2>3. CASE wire' = wire
    BY <2>1, <2>3, LineSame
  <2>4. CASE wire'[Attached] = Append(wire[Attached], out)
    <3>1. /\ \A i \in DOMAIN wire[Attached] : Precedes(wire[Attached][i], out)
          /\ \A j \in DOMAIN queue : Precedes(out, queue[j])
      BY <2>2 DEF LineOrder
    <3>2. ticks' \in Nat /\ ticks <= ticks'
      BY <1>0, <2>1
    <3> QED BY <1>0, <2>1, <2>2, <2>4, <3>1, <3>2, LineWrite
  <2> QED BY <1>0, <1>12, <2>1, <2>3, <2>4 DEF Write, Put, Fail
<1>13. CASE LeaseClose \/ Cancel
  BY <1>1, <1>13 DEF LeaseClose, Cancel
<1>14. ASSUME NEW t \in Transports, SetTransport(t) \/ Break(t) PROVE LineOrder'
  BY <1>1, <1>14 DEF SetTransport, Break
<1>15. CASE AssignTransport \/ ClearTransport
  BY <1>1, <1>15 DEF AssignTransport, ClearTransport
<1>16. CASE DestroySndQueue
  <2>1. queue' = <<>> /\ UNCHANGED <<wire, out, ticks>>
    BY <1>16 DEF DestroySndQueue
  <2>2. DOMAIN queue' = {}
    BY <2>1
  <2> QED BY <2>1, <2>2 DEF LineOrder
<1>17. CASE CloseCAS \/ CloseSeal \/ CloseBroadcast \/ CloseReadDone \/ CloseWait
            \/ DestroyTransport \/ DestroySndBacklog
  BY <1>1, <1>17 DEF CloseCAS, CloseSeal, CloseBroadcast, CloseReadDone, CloseWait,
                     DestroyTransport, DestroySndBacklog
<1>18. CASE UNCHANGED vars
  BY <1>1, <1>18 DEF vars
<1> QED
  BY <1>2, <1>3, <1>5, <1>6, <1>7, <1>8, <1>9, <1>10, <1>11, <1>12, <1>13, <1>14,
     <1>15, <1>16, <1>17, <1>18 DEF Next, LoopStep, CloseStep

LEMMA SimpleInit ==
  Attached # NoTp /\ Init => OneConnection /\ FlushDue /\ LineOrder
<1> SUFFICES ASSUME Attached # NoTp, Init PROVE OneConnection /\ FlushDue /\ LineOrder
  OBVIOUS
<1>1. /\ tp = Attached /\ ready = (Attached # NoTp) /\ kpc = "up" /\ dropped = {} /\ lpc = "start"
      /\ queue = <<>> /\ backlog = <<>> /\ out = <<>> /\ Attached \in Transports
  BY DEF Init
<1>2. /\ health = [u \in Transports |-> IF u = Attached THEN "up" ELSE "new"]
      /\ wire = [u \in Transports |-> <<>>] /\ flushed = [u \in Transports |-> 0]
  BY DEF Init
<1>3. OneConnection
  BY <1>1, <1>2 DEF OneConnection, KeepsTransport
<1>4. FlushDue
  BY <1>1, <1>2 DEF FlushDue, Clean
<1>5. LineOrder
  BY <1>1, <1>2 DEF LineOrder
<1> QED BY <1>3, <1>4, <1>5

LEMMA SimpleGives ==
  ASSUME Attached # NoTp, IInv, OneConnection, FlushDue, LineOrder
  PROVE  PeerSees
<1>1. SenderOrder
  <2> SUFFICES ASSUME NEW t \in Transports, NEW i \in DOMAIN wire[t], NEW j \in DOMAIN wire[t],
                      i < j, wire[t][i][1] = wire[t][j][1]
               PROVE  wire[t][i][2] < wire[t][j][2]
    BY DEF SenderOrder
  <2>1. t = Attached
    BY DEF OneConnection
  <2> QED BY <2>1 DEF LineOrder, Precedes
<1>2. FlushedWhenWaiting
  <2> SUFFICES ASSUME Waiting, NEW t \in Transports, health[t] = "up"
               PROVE  flushed[t] = Len(wire[t])
    BY DEF FlushedWhenWaiting
  <2>1. t = Attached
    BY DEF OneConnection
  <2>2. Clean
    <3>1. CASE lpc = "select"
      BY <3>1 DEF FlushDue
    <3>2. CASE lpc = "recv" /\ queue = <<>>
      <4>1. cycle \in Nat /\ Len(queue) = 0
        BY <3>2 DEF IInv, TypeOK, LoopType
      <4> QED BY <3>2, <4>1 DEF FlushDue
    <3> QED BY <3>1, <3>2 DEF Waiting, OneConnection
  <2> QED BY <2>1, <2>2 DEF Clean
<1> QED BY <1>1, <1>2 DEF PeerSees

\* On a simple socket the peer gets each sender's frames in order, and whenever
\* the loop waits it has them all: drain counts a cycle of its queue, and
\* flushes at the end of the cycle that wrote.
THEOREM SimplePeerSees ==
  ASSUME Attached # NoTp, ~Resumable
  PROVE  Spec => []PeerSees
<1>1. Spec => []SyncOK
  BY InitSync, SyncStep, PTL DEF Spec
<1>2. Spec => []IInv
  BY <1>1, InitIInv, StepIInv, PTL DEF Spec
<1>3. IInv /\ SyncOK /\ IInv' /\ OnceInv /\ [Next]_vars => OnceInv'
  BY BalanceStep, EmptiedStep, WireStep DEF OnceInv
<1>4. Init => OneConnection /\ FlushDue /\ LineOrder
  BY SimpleInit
<1>5. IInv /\ SyncOK /\ OnceInv /\ OneConnection /\ FlushDue /\ LineOrder /\ [Next]_vars
        => OneConnection' /\ FlushDue' /\ LineOrder'
  BY ConnectionStep, FlushStep, LineStep
<1>6. IInv /\ OneConnection /\ FlushDue /\ LineOrder => PeerSees
  BY SimpleGives
<1> QED
  BY <1>1, <1>2, <1>3, <1>4, <1>5, <1>6, OnceInit, PTL DEF Spec
============================================================================
