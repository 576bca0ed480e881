----------------------------- MODULE WriteLoop -----------------------------
(***************************************************************************)
(* The outgoing half of a DuplexConnection (internal/socket/duplex.go):    *)
(* request and response goroutines hand frames to sendFrame, one goroutine *)
(* runs LoopWrite, the owner of the socket attaches and detaches           *)
(* transports, and anyone may call Close.                                  *)
(*                                                                         *)
(* A frame is <<origin, number>>.  Each sender hands over its frames one   *)
(* after the other.  Lease frames come from the lease channel and          *)
(* keepalive frames from the ticker, both inside the write loop.           *)
(***************************************************************************)
EXTENDS Integers, Sequences, FiniteSets

CONSTANTS
  Senders,       \* goroutines that call sendFrame
  PerSender,     \* bound: how many frames each sender hands over
  Lessor,        \* origin of lease frames
  NumLeases,     \* bound: leases offered; 0 when the socket has no lease factory
  Ticker,        \* origin of keepalive frames
  MaxTicks,      \* bound: ticks of the keepaliver
  HasKeepalive,  \* client sockets have a Keepaliver, server sockets none
  Transports,    \* the connections a socket may be given in its life
  NoTp,          \* dc.tp == nil
  Attached,      \* the transport given before LoopWrite starts, or NoTp
  Resumable,     \* whether the owner ever calls clearTransport
  QueueCap       \* _outChanSize

ASSUME WriteLoopAssumption ==
  /\ PerSender \in [Senders -> Nat] /\ NumLeases \in Nat /\ MaxTicks \in Nat
  /\ QueueCap \in Nat \ {0}
  /\ HasKeepalive \in BOOLEAN /\ Resumable \in BOOLEAN
  /\ NoTp \notin Transports /\ Attached \in Transports \cup {NoTp}
  /\ Lessor \notin Senders /\ Ticker \notin Senders /\ Lessor # Ticker

Sent      == UNION {{s} \X (1..PerSender[s]) : s \in Senders}     \* what sendFrame is called with
LeaseF    == {Lessor} \X (1..NumLeases)
TickF     == {Ticker} \X (1..MaxTicks)
Tracked   == Sent \cup LeaseF              \* frames that may enter the backlog
Frames    == Tracked \cup TickF

VARIABLES
  closed, sealed, queue, backlog, tp, ready, writeDone,  \* DuplexConnection
  lpc, out, stp, cycle, flush,                           \* LoopWrite
  leases, leaseOpen, ticks, cancelled,                   \* its other inputs
  cpc,                                                   \* Close
  spc, sent,                                             \* sendFrame callers
  kpc, ktp,                                              \* SetTransport
  health, wire, flushed,                                 \* the transports
  done, dropped                                          \* fate of the frames

connVars  == <<closed, sealed, tp, ready, writeDone>>
loopVars  == <<lpc, out, stp, cycle, flush>>
inputVars == <<leases, leaseOpen, ticks, cancelled>>
sendVars  == <<spc, sent>>
linkVars  == <<kpc, ktp>>
peerVars  == <<health, wire, flushed>>
fateVars  == <<done, dropped>>
vars == <<connVars, queue, backlog, loopVars, inputVars, cpc, sendVars,
          linkVars, peerVars, fateVars>>

LoopPCs == {"start", "check", "ready", "park", "parked", "ctx", "tick",
            "backlog", "resend", "reflush", "drain", "recv", "pick", "write",
            "flush", "select", "exit", "stopped"}
ClosePCs == {"idle", "seal", "broadcast", "readDone", "wait", "transport",
             "queue", "backlog", "returned"}

Init ==
  /\ closed = FALSE /\ sealed = FALSE /\ queue = <<>> /\ backlog = <<>>
  /\ tp = Attached /\ ready = (Attached # NoTp) /\ writeDone = "nil"
  /\ lpc = "start" /\ out = <<>> /\ stp = NoTp /\ cycle = 0 /\ flush = FALSE
  /\ leases = 0 /\ leaseOpen = (NumLeases > 0) /\ ticks = 0 /\ cancelled = FALSE
  /\ cpc = "idle"
  /\ spc = [s \in Senders |-> "idle"] /\ sent = [s \in Senders |-> 0]
  /\ kpc = (IF Attached = NoTp THEN "down" ELSE "up") /\ ktp = Attached
  /\ health = [u \in Transports |-> IF u = Attached THEN "up" ELSE "new"]
  /\ wire = [u \in Transports |-> <<>>] /\ flushed = [u \in Transports |-> 0]
  /\ done = [f \in Tracked |-> 0] /\ dropped = {}

Finish(F) == done' = [f \in Tracked |-> IF f \in F THEN done[f] + 1 ELSE done[f]]
Elems(s)  == {s[i] : i \in DOMAIN s}

(***************************************************************************)
(* The connection under a Transport.  A healthy one takes every write; one *)
(* the peer left, or that was closed, may still take some into its buffer  *)
(* until an error shows, and bufio.Writer repeats that error ever after.   *)
(***************************************************************************)
MayAccept(t) == t \in {u \in Transports : health[u] \in {"up", "broken"}}
MayFail(t) == t \in {NoTp} \cup {u \in Transports : health[u] \in {"broken", "failed"}}

Fail(t) ==
  /\ MayFail(t)
  /\ health' = [u \in Transports |-> IF u = t THEN "failed" ELSE health[u]]
  /\ UNCHANGED <<wire, flushed>>

Put(t, f, flushing) ==
  /\ MayAccept(t)
  /\ wire' = [wire EXCEPT ![t] = Append(@, f)]
  /\ flushed' = IF flushing THEN [flushed EXCEPT ![t] = Len(wire[t]) + 1] ELSE flushed
  /\ UNCHANGED health

FlushTo(t) ==
  \/ /\ MayAccept(t)
     /\ flushed' = [flushed EXCEPT ![t] = Len(wire[t])]
     /\ UNCHANGED <<health, wire>>
  \/ Fail(t)

----------------------------------------------------------------------------
(* sendFrame *)

Current(s) == <<s, sent[s] + 1>>

SendFrame(s) ==
  /\ spc[s] = "idle" /\ sent[s] < PerSender[s]
  /\ IF closed
       THEN /\ Finish({Current(s)})
            /\ sent' = [sent EXCEPT ![s] = @ + 1]
            /\ UNCHANGED spc
       ELSE /\ spc' = [spc EXCEPT ![s] = "enqueue"]
            /\ UNCHANGED <<sent, done>>
  /\ UNCHANGED <<connVars, queue, backlog, loopVars, inputVars, cpc, linkVars,
                 peerVars, dropped>>

\* fault: one frame more than the channel holds
EnqueueBeyondCap(s) ==
  /\ spc[s] = "enqueue" /\ ~sealed /\ Len(queue) <= QueueCap
  /\ queue' = Append(queue, Current(s))
  /\ sent' = [sent EXCEPT ![s] = @ + 1]
  /\ spc' = [spc EXCEPT ![s] = "idle"]
  /\ UNCHANGED <<connVars, backlog, loopVars, inputVars, cpc, linkVars,
                 peerVars, fateVars>>

\* dc.sndQueue <- f: blocks while the channel is full, panics once it is closed
Enqueue(s) ==
  /\ spc[s] = "enqueue"
  /\ \/ /\ sealed
        /\ Finish({Current(s)})
        /\ UNCHANGED queue
     \/ /\ ~sealed /\ Len(queue) < QueueCap
        /\ queue' = Append(queue, Current(s))
        /\ UNCHANGED done
  /\ sent' = [sent EXCEPT ![s] = @ + 1]
  /\ spc' = [spc EXCEPT ![s] = "idle"]
  /\ UNCHANGED <<connVars, backlog, loopVars, inputVars, cpc, linkVars,
                 peerVars, dropped>>

----------------------------------------------------------------------------
(* LoopWrite *)

LoopStart ==
  /\ lpc = "start"
  /\ writeDone' = "open"
  /\ lpc' = "check"
  /\ UNCHANGED <<closed, sealed, queue, backlog, tp, ready, out, stp, cycle,
                 flush, inputVars, cpc, sendVars, linkVars, peerVars, fateVars>>

Goto(from, to) ==
  /\ lpc = from
  /\ lpc' = to
  /\ UNCHANGED <<connVars, queue, backlog, out, stp, cycle, flush, inputVars,
                 cpc, sendVars, linkVars, peerVars, fateVars>>

CheckClosed == Goto("check", IF closed THEN "exit" ELSE "ready")
CheckReady  == Goto("ready", IF ready THEN "ctx" ELSE "park")
Park        == Goto("park", "parked")
CheckCtx    == Goto("ctx", IF cancelled THEN "exit"
                           ELSE IF HasKeepalive THEN "tick" ELSE "backlog")

\* closing leaseCtx closes the lease channel; the deferred close(writeDone) is last
LoopExit ==
  /\ lpc = "exit"
  /\ lpc' = "stopped"
  /\ writeDone' = "closed"
  /\ UNCHANGED <<closed, sealed, queue, backlog, tp, ready, out, stp, cycle,
                 flush, inputVars, cpc, sendVars, linkVars, peerVars, fateVars>>

\* the poll of keepaliver.C() at the head of a round: the frame goes out at
\* once or, when it cannot, is forgotten
Tick(to) ==
  /\ ticks < MaxTicks
  /\ ticks' = ticks + 1
  /\ lpc' = to
  /\ \/ tp # NoTp /\ (Put(tp, <<Ticker, ticks + 1>>, TRUE) \/ Fail(tp))
     \/ tp = NoTp /\ UNCHANGED peerVars
  /\ UNCHANGED <<connVars, queue, backlog, out, stp, cycle, flush, leases,
                 leaseOpen, cancelled, cpc, sendVars, linkVars, fateVars>>

PollTick == \/ lpc = "tick" /\ Tick("backlog")
            \/ Goto("tick", "backlog")

\* the drain that follows drainBacklog: client loops enter it only when the
\* queue holds something, and wait in the select of drainWithKeepalive
AfterBacklog == IF HasKeepalive /\ queue = <<>> THEN "select" ELSE "drain"
AfterDrain   == IF HasKeepalive THEN "select" ELSE "check"

\* drainBacklog: without a transport its deferred reset discards the backlog
DrainBacklog ==
  /\ lpc = "backlog"
  /\ IF backlog = <<>> \/ tp = NoTp
       THEN lpc' = AfterBacklog /\ UNCHANGED stp
       ELSE lpc' = "resend" /\ stp' = tp
  /\ dropped' = IF tp = NoTp THEN dropped \cup Elems(backlog) ELSE dropped
  /\ backlog' = IF tp = NoTp THEN <<>> ELSE backlog
  /\ UNCHANGED <<connVars, queue, out, cycle, flush, inputVars, cpc, sendVars,
                 linkVars, peerVars, done>>

\* fault: the backlog is not emptied as it is sent
ResendKeepsBacklog ==
  /\ lpc = "resend"
  /\ Put(stp, Head(backlog), FALSE) \/ Fail(stp)
  /\ Finish({Head(backlog)})
  /\ lpc' = "reflush"
  /\ UNCHANGED <<connVars, queue, backlog, out, stp, cycle, flush, inputVars,
                 cpc, sendVars, linkVars, dropped>>

\* one frame of the backlog: finished by Send, or by the loop when Send fails
Resend ==
  /\ lpc = "resend"
  /\ Put(stp, Head(backlog), FALSE) \/ Fail(stp)
  /\ Finish({Head(backlog)})
  /\ backlog' = Tail(backlog)
  /\ lpc' = IF Len(backlog) = 1 THEN "reflush" ELSE "resend"
  /\ UNCHANGED <<connVars, queue, out, stp, cycle, flush, inputVars, cpc,
                 sendVars, linkVars, dropped>>

Reflush ==
  /\ lpc = "reflush"
  /\ FlushTo(stp)
  /\ lpc' = AfterBacklog
  /\ UNCHANGED <<connVars, queue, backlog, out, stp, cycle, flush, inputVars,
                 cpc, sendVars, linkVars, fateVars>>

DrainStart ==
  /\ lpc = "drain"
  /\ cycle' = IF queue = <<>> THEN 1 ELSE Len(queue)
  /\ flush' = FALSE
  /\ lpc' = "recv"
  /\ UNCHANGED <<connVars, queue, backlog, out, stp, inputVars, cpc, sendVars,
                 linkVars, peerVars, fateVars>>

\* receiving from the send queue, in drain ("recv") or in the client's select
TakeQueue(next) ==
  /\ queue # <<>>
  /\ out' = Head(queue) /\ queue' = Tail(queue)
  /\ lpc' = next
  /\ UNCHANGED <<leases, leaseOpen>>

TakeLease(next) ==
  /\ leaseOpen /\ leases < NumLeases
  /\ out' = <<Lessor, leases + 1>> /\ leases' = leases + 1
  /\ lpc' = next
  /\ UNCHANGED <<queue, leaseOpen>>

\* a closed channel makes drain return false, which ends the loop
\* (the client's loop ignores it, and meets it again in its select)
ChannelClosed(next) ==
  /\ \/ sealed /\ queue = <<>>
     \/ NumLeases > 0 /\ ~leaseOpen /\ (lpc = "recv" => ~HasKeepalive)
  /\ lpc' = next
  /\ UNCHANGED <<out, queue, leases, leaseOpen>>

Recv ==
  /\ lpc = "recv"
  /\ \/ TakeQueue("pick")
     \/ ~HasKeepalive /\ TakeLease("pick")
     \/ ChannelClosed(IF HasKeepalive THEN "select" ELSE "exit")
  /\ UNCHANGED <<connVars, backlog, stp, cycle, flush, ticks, cancelled, cpc,
                 sendVars, linkVars, peerVars, fateVars>>

\* the select of drainWithKeepalive and drainWithKeepaliveAndLease; cycle = 0
\* marks a frame that is sent with flush = true, outside of drain
Select ==
  /\ lpc = "select"
  /\ \/ Tick("check")
     \/ /\ TakeQueue("pick") \/ TakeLease("pick") \/ ChannelClosed("exit")
        /\ cycle' = 0
        /\ UNCHANGED <<connVars, backlog, stp, flush, ticks, cancelled, cpc,
                       sendVars, linkVars, peerVars, fateVars>>

\* fault: drain forgets to flush
AfterFrameNoFlush(c, fl) == IF c > 0 THEN "recv" ELSE AfterDrain
AfterFrame(c, fl) == IF c > 0 THEN "recv" ELSE IF fl THEN "flush" ELSE AfterDrain

\* what follows the frame in hand: the next of the cycle, the flush, or the loop
NextFrame(fl) ==
  /\ cycle' = IF cycle = 0 THEN 0 ELSE cycle - 1
  /\ flush' = fl
  /\ lpc' = IF cycle = 0 THEN "check" ELSE AfterFrame(cycle - 1, fl)
  /\ out' = <<>>

\* drainOne reads the transport under the lock and uses it after releasing it
PickTransport ==
  /\ lpc = "pick"
  /\ IF tp = NoTp
       THEN backlog' = Append(backlog, out) /\ NextFrame(flush) /\ UNCHANGED stp
       ELSE stp' = tp /\ lpc' = "write" /\ UNCHANGED <<backlog, out, cycle, flush>>
  /\ UNCHANGED <<connVars, queue, inputVars, cpc, sendVars, linkVars, peerVars,
                 fateVars>>

Write ==
  /\ lpc = "write"
  /\ \/ /\ Put(stp, out, cycle = 0)
        /\ Finish({out})
        /\ NextFrame(cycle > 0)
        /\ UNCHANGED backlog
     \/ /\ Fail(stp)
        /\ backlog' = Append(backlog, out)
        /\ NextFrame(flush)
        /\ UNCHANGED done
  /\ UNCHANGED <<connVars, queue, stp, inputVars, cpc, sendVars, linkVars, dropped>>

\* dc.tp is read here without the lock, whichever transport the frames took
Flush ==
  /\ lpc = "flush"
  /\ FlushTo(tp)
  /\ lpc' = AfterDrain
  /\ UNCHANGED <<connVars, queue, backlog, out, stp, cycle, flush, inputVars,
                 cpc, sendVars, linkVars, fateVars>>

\* the lease goroutine closes its channel, and the context may be cancelled
LeaseClose ==
  /\ leaseOpen /\ cancelled
  /\ leaseOpen' = FALSE
  /\ UNCHANGED <<connVars, queue, backlog, loopVars, leases, ticks, cancelled,
                 cpc, sendVars, linkVars, peerVars, fateVars>>

Cancel ==
  /\ ~cancelled
  /\ cancelled' = TRUE
  /\ UNCHANGED <<connVars, queue, backlog, loopVars, leases, leaseOpen, ticks,
                 cpc, sendVars, linkVars, peerVars, fateVars>>

LoopStep ==
  \/ LoopStart \/ CheckClosed \/ CheckReady \/ Park \/ CheckCtx \/ PollTick
  \/ DrainBacklog \/ Resend \/ Reflush \/ DrainStart \/ Recv \/ Select
  \/ PickTransport \/ Write \/ Flush \/ LoopExit

----------------------------------------------------------------------------
(* SetTransport and clearTransport *)

\* ready.CAS(false, true) comes before the transport is stored
SetTransport(t) ==
  /\ kpc = "down" /\ health[t] = "new" /\ ~ready
  /\ ready' = TRUE
  /\ ktp' = t /\ kpc' = "assign"
  /\ health' = [health EXCEPT ![t] = "up"]
  /\ UNCHANGED <<closed, sealed, tp, writeDone, queue, backlog, loopVars,
                 inputVars, cpc, sendVars, wire, flushed, fateVars>>

\* cond.Signal and cond.Broadcast wake the loop only if it already waits
Wake == lpc' = IF lpc = "parked" THEN "ctx" ELSE lpc

AssignTransport ==
  /\ kpc = "assign"
  /\ tp' = ktp
  /\ Wake
  /\ kpc' = "up"
  /\ UNCHANGED <<closed, sealed, ready, writeDone, queue, backlog, out, stp,
                 cycle, flush, inputVars, cpc, sendVars, ktp, peerVars, fateVars>>

\* the peer leaves, the lifetime runs out, the network fails
Break(t) ==
  /\ health[t] = "up"
  /\ health' = [health EXCEPT ![t] = "broken"]
  /\ UNCHANGED <<connVars, queue, backlog, loopVars, inputVars, cpc, sendVars,
                 linkVars, wire, flushed, fateVars>>

\* called by the owner once Transport.Start has returned
ClearTransport ==
  /\ Resumable /\ kpc = "up" /\ health[ktp] # "up"
  /\ tp' = NoTp /\ ready' = FALSE
  /\ kpc' = "down"
  /\ UNCHANGED <<closed, sealed, writeDone, queue, backlog, loopVars, inputVars,
                 cpc, sendVars, ktp, peerVars, fateVars>>

----------------------------------------------------------------------------
(* Close.  A second caller loses the CAS and returns at once. *)

CloseCAS ==
  /\ cpc = "idle" /\ ~closed
  /\ closed' = TRUE
  /\ cpc' = "seal"
  /\ UNCHANGED <<sealed, tp, ready, writeDone, queue, backlog, loopVars,
                 inputVars, sendVars, linkVars, peerVars, fateVars>>

\* fault: the channel stays open
CloseLeavesOpen ==
  /\ cpc = "seal"
  /\ cpc' = "broadcast"
  /\ UNCHANGED <<connVars, queue, backlog, loopVars, inputVars, sendVars,
                 linkVars, peerVars, fateVars>>

CloseSeal ==
  /\ cpc = "seal"
  /\ sealed' = TRUE
  /\ cpc' = "broadcast"
  /\ UNCHANGED <<closed, tp, ready, writeDone, queue, backlog, loopVars,
                 inputVars, sendVars, linkVars, peerVars, fateVars>>

CloseBroadcast ==
  /\ cpc = "broadcast"
  /\ Wake
  /\ cpc' = "readDone"
  /\ UNCHANGED <<connVars, queue, backlog, out, stp, cycle, flush, inputVars,
                 sendVars, linkVars, peerVars, fateVars>>

\* fault: Close does not wait for the write loop
CloseWaitsForNobody ==
  /\ cpc = "readDone"
  /\ cpc' = "transport"
  /\ UNCHANGED <<connVars, queue, backlog, loopVars, inputVars, sendVars,
                 linkVars, peerVars, fateVars>>

\* waits for the write loop only if it has begun
CloseReadDone ==
  /\ cpc = "readDone"
  /\ cpc' = IF writeDone = "nil" THEN "transport" ELSE "wait"
  /\ UNCHANGED <<connVars, queue, backlog, loopVars, inputVars, sendVars,
                 linkVars, peerVars, fateVars>>

CloseWait ==
  /\ cpc = "wait" /\ writeDone = "closed"
  /\ cpc' = "transport"
  /\ UNCHANGED <<connVars, queue, backlog, loopVars, inputVars, sendVars,
                 linkVars, peerVars, fateVars>>

DestroyTransport ==
  /\ cpc = "transport"
  /\ health' = [t \in Transports |-> IF t = tp /\ health[t] = "up" THEN "broken"
                                                                   ELSE health[t]]
  /\ cpc' = "queue"
  /\ UNCHANGED <<connVars, queue, backlog, loopVars, inputVars, sendVars,
                 linkVars, wire, flushed, fateVars>>

\* fault: the frames left in the channel are forgotten
ForgetSndQueue ==
  /\ cpc = "queue"
  /\ queue' = <<>>
  /\ cpc' = "backlog"
  /\ UNCHANGED <<connVars, backlog, loopVars, inputVars, sendVars, linkVars,
                 peerVars, fateVars>>

DestroySndQueue ==
  /\ cpc = "queue"
  /\ Finish(Elems(queue))
  /\ queue' = <<>>
  /\ cpc' = "backlog"
  /\ UNCHANGED <<connVars, backlog, loopVars, inputVars, sendVars, linkVars,
                 peerVars, dropped>>

DestroySndBacklog ==
  /\ cpc = "backlog"
  /\ Finish(Elems(backlog))
  /\ backlog' = <<>>
  /\ cpc' = "returned"
  /\ UNCHANGED <<connVars, queue, loopVars, inputVars, sendVars, linkVars,
                 peerVars, dropped>>

CloseStep ==
  \/ CloseSeal \/ CloseBroadcast \/ CloseReadDone \/ CloseWait
  \/ DestroyTransport \/ DestroySndQueue \/ DestroySndBacklog

Next ==
  \/ \E s \in Senders : SendFrame(s) \/ Enqueue(s)
  \/ LoopStep \/ LeaseClose \/ Cancel
  \/ \E t \in Transports : SetTransport(t) \/ Break(t)
  \/ AssignTransport \/ ClearTransport
  \/ CloseCAS \/ CloseStep

(***************************************************************************)
(* Every goroutine that can run runs: the write loop, a caller inside      *)
(* sendFrame, inside SetTransport or inside Close.  Starting a request,    *)
(* a disconnect, a reconnect or a cancellation is never owed, but the      *)
(* owner closes the socket when its write loop has ended: Start of the     *)
(* server sockets does, and the simple client's transport shares the       *)
(* cancelled context.  The resumable client goes on reconnecting instead.  *)
(***************************************************************************)
Fairness ==
  /\ WF_vars(LoopStep)
  /\ \A s \in Senders : WF_vars(Enqueue(s))
  /\ WF_vars(AssignTransport)
  /\ WF_vars(CloseStep)
  /\ ~(HasKeepalive /\ Resumable) => WF_vars(lpc = "stopped" /\ CloseCAS)

Spec     == Init /\ [][Next]_vars
FairSpec == Spec /\ Fairness
----------------------------------------------------------------------------
(* What must hold *)

ConnType ==
  /\ closed \in BOOLEAN /\ sealed \in BOOLEAN /\ ready \in BOOLEAN
  /\ tp \in Transports \cup {NoTp} /\ writeDone \in {"nil", "open", "closed"}
QueueType ==
  /\ queue \in Seq(Tracked) /\ Len(queue) <= QueueCap
  /\ backlog \in Seq(Tracked)
LoopType ==
  /\ lpc \in LoopPCs /\ out \in Tracked \cup {<<>>}
  /\ stp \in Transports \cup {NoTp} /\ cycle \in Nat /\ flush \in BOOLEAN
InputType ==
  /\ leases \in 0..NumLeases /\ leaseOpen \in BOOLEAN
  /\ ticks \in 0..MaxTicks /\ cancelled \in BOOLEAN
CallerType ==
  /\ cpc \in ClosePCs
  /\ spc \in [Senders -> {"idle", "enqueue"}]
  /\ sent \in [Senders -> Nat] /\ \A s \in Senders : sent[s] <= PerSender[s]
  /\ kpc \in {"down", "assign", "up"} /\ ktp \in Transports \cup {NoTp}
PeerType ==
  /\ health \in [Transports -> {"new", "up", "broken", "failed"}]
  /\ wire \in [Transports -> Seq(Frames)] /\ flushed \in [Transports -> Nat]
FateType == done \in [Tracked -> Nat] /\ dropped \subseteq Tracked

\* Every variable keeps its type: the channel never holds more than its
\* capacity and every pc is a place of the code it stands for.
TypeOK == ConnType /\ QueueType /\ LoopType /\ InputType /\ CallerType /\ PeerType /\ FateType

\* Close tears down the transport, the queue and the backlog without a lock
\* that LoopWrite takes: it may do so only when the write loop has ended, or has
\* yet to begin and will end at its first check.  This is what reading
\* writeDone after the CAS, and setting it before the check, are for.
Destroying == cpc \in {"transport", "queue", "backlog", "returned"}
DestroyExclusive ==
  Destroying => lpc \in {"start", "check", "exit", "stopped"}

\* A frame handed over is in one place: the queue, the backlog, the loop's
\* hand, finished once (Done called), or discarded by drainBacklog.  A second
\* Done would put the frame twice into its pool; a frame nowhere would leave
\* whoever waits for Done waiting.  Once Close has returned it is finished or
\* discarded.
Occurs(s, f) == Cardinality({i \in DOMAIN s : s[i] = f})
Bit(b) == IF b THEN 1 ELSE 0
Handed(f) == IF f[1] = Lessor THEN f[2] <= leases ELSE f[2] <= sent[f[1]]
AccountedOnce ==
  \A f \in Tracked :
    /\ Occurs(queue, f) + Occurs(backlog, f) + Bit(out = f) + done[f] + Bit(f \in dropped)
         = Bit(Handed(f))
    /\ cpc = "returned" /\ Handed(f) /\ f \notin dropped => done[f] = 1

\* No frame is written twice, on one transport or on two: what a transport
\* took is finished and never put into the backlog for the next one.
NeverWrittenTwice ==
  \A f \in Tracked : \A t, u \in Transports :
    \A i \in DOMAIN wire[t], j \in DOMAIN wire[u] :
      wire[t][i] = f /\ wire[u][j] = f => t = u /\ i = j

\* One place for each frame, and one connection: AccountedOnce, NeverWrittenTwice.
EachOnce == AccountedOnce /\ NeverWrittenTwice

\* When the loop waits, for a frame or for a transport, nothing it wrote sits
\* in the buffer of a healthy connection: the peer has seen it, though drain
\* flushes whatever transport is attached by then.
Waiting == lpc \in {"select", "parked"} \/ (lpc = "recv" /\ queue = <<>>)
FlushedWhenWaiting ==
  Waiting => \A t \in Transports : health[t] = "up" => flushed[t] = Len(wire[t])

\* On a connection the frames of one sender keep the order in which it handed
\* them over (a payload after its request, one fragment after the other).
SenderOrder ==
  \A t \in Transports : \A i, j \in DOMAIN wire[t] :
    i < j /\ wire[t][i][1] = wire[t][j][1] => wire[t][i][2] < wire[t][j][2]

\* What the peer sees of a connection: SenderOrder and FlushedWhenWaiting.
PeerSees == SenderOrder /\ FlushedWhenWaiting

\* Close returns: it gets past the wait for the write loop.
CloseReturns == closed ~> cpc = "returned"

\* Close returns, unless the write loop went to sleep after the broadcast that
\* should have woken it: it tests ready without the lock and then waits.
CloseReturnsUnlessMissed ==
  closed ~> (cpc = "returned" \/ (cpc = "wait" /\ lpc = "parked"))

\* Whoever hands a frame over gets out of sendFrame, even from a full queue,
\* and if it waits for the frame's Done it is released.
Called(f) == Handed(f) \/ (f[1] \in Senders /\ spc[f[1]] = "enqueue" /\ f = Current(f[1]))
EveryFrameDone == \A f \in Tracked : Called(f) ~> done[f] = 1
============================================================================
