---------------------------- MODULE ResumeClient ----------------------------
(***************************************************************************)
(* The client socket with resume (resumable_client_socket.go): connect,    *)
(* the goroutine it starts for each connection, which calls connect again, *)
(* the answer to RESUME and its timeout, and Close, from whichever of its  *)
(* four places comes first.                                                *)
(*                                                                         *)
(* Connections are numbered; the first carries SETUP, the others RESUME if *)
(* the client has a token and SETUP again if its generator gave none.      *)
(* What Close does besides closing the attached transport is WriteLoop's,  *)
(* what Start does is TransportReader's.                                   *)
(*                                                                         *)
(* Clients_proofs extends this module, Balancer and ServerSessions         *)
(* together, so no two of the three give anything the same name.           *)
(***************************************************************************)
EXTENDS Integers

CONSTANT MaxTransports   \* connections the transporter gives before it only fails

ASSUME ResumeClientAssumption == MaxTransports \in Nat \ {0}

\* the last number is that of the connect that finds no peer any more
Attempts == 1..(MaxTransports + 1)

VARIABLES
  hasToken,         \* the client has a token
  conpc,            \* of each number: connect
  rpc,              \* the goroutine of its connection
  conn,             \* the connection
  sent,             \* its SETUP or RESUME was written
  resumed,          \* RESUME_OK received: the first closes resumeErr, another panics
  connects,         \* "counting", or "closing" once it is negative
  once,             \* sync.Once of the socket: "free", "running" or "done"
  isReady, attached \* of the DuplexConnection: ready, and its transport or 0

duplexVars == <<isReady, attached>>
clientVars == <<hasToken, conpc, rpc, conn, sent, resumed, connects, once, duplexVars>>

ClientInit ==
  /\ hasToken \in BOOLEAN
  /\ conpc = [i \in Attempts |-> IF i = 1 THEN "begin" ELSE "none"]
  /\ rpc = [i \in Attempts |-> "none"] /\ conn = [i \in Attempts |-> "none"]
  /\ sent = [i \in Attempts |-> FALSE] /\ resumed = [i \in Attempts |-> 0]
  /\ connects = "counting" /\ once = "free"
  /\ isReady = FALSE /\ attached = 0

\* connect the first time: SETUP
First(i) == i = 1 \/ ~hasToken

Connect(i, from, to) == conpc[i] = from /\ conpc' = [conpc EXCEPT ![i] = to]
Reader(i, from, to)  == rpc[i] = from /\ rpc' = [rpc EXCEPT ![i] = to]

----------------------------------------------------------------------------
(* connect *)

\* fault: a connect does not look whether the client is closing
IncUnchecked(i) ==
  /\ Connect(i, "begin", "create")
  /\ UNCHANGED <<hasToken, rpc, conn, sent, resumed, connects, once, duplexVars>>

Inc(i) ==
  /\ Connect(i, "begin", IF connects = "closing" THEN "close" ELSE "create")
  /\ UNCHANGED <<hasToken, rpc, conn, sent, resumed, connects, once, duplexVars>>

\* fault: the goroutine starts whether or not there is a connection
CreateTransportEitherWay(i) ==
  /\ rpc' = [rpc EXCEPT ![i] = "reading"]
  /\ \/ /\ i <= MaxTransports
        /\ Connect(i, "create", "send")
        /\ conn' = [conn EXCEPT ![i] = "open"]
     \/ Connect(i, "create", IF i = 1 THEN "done" ELSE "retry") /\ UNCHANGED conn
  /\ UNCHANGED <<hasToken, sent, resumed, connects, once, duplexVars>>

\* createTransport, and the goroutine of the connection; a failure is retried
\* except for the first, which fails Setup
CreateTransport(i) ==
  /\ \/ /\ i <= MaxTransports
        /\ Connect(i, "create", "send")
        /\ conn' = [conn EXCEPT ![i] = "open"] /\ rpc' = [rpc EXCEPT ![i] = "reading"]
     \/ Connect(i, "create", IF i = 1 THEN "done" ELSE "retry") /\ UNCHANGED <<conn, rpc>>
  /\ UNCHANGED <<hasToken, sent, resumed, connects, once, duplexVars>>

\* after the delay, connect calls itself
Retry(i) ==
  /\ Connect(i, "retry", "begin")
  /\ UNCHANGED <<hasToken, rpc, conn, sent, resumed, connects, once, duplexVars>>

\* SETUP, whose transport is attached even when the write failed, or RESUME
Send(i) ==
  /\ \/ /\ conn[i] = "open" /\ sent' = [sent EXCEPT ![i] = TRUE]
        /\ Connect(i, "send", IF First(i) THEN "attach" ELSE "wait")
     \/ Connect(i, "send", IF First(i) THEN "attach" ELSE "destroy") /\ UNCHANGED sent
  /\ UNCHANGED <<hasToken, rpc, conn, resumed, connects, once, duplexVars>>

\* the ten seconds have passed
Timeout(i) ==
  /\ Connect(i, "wait", "destroy")
  /\ UNCHANGED <<hasToken, rpc, conn, sent, resumed, connects, once, duplexVars>>

Resumed(i) ==
  /\ resumed[i] > 0 /\ Connect(i, "wait", "attach")
  /\ UNCHANGED <<hasToken, rpc, conn, sent, resumed, connects, once, duplexVars>>

\* the handler of the rejection meets connect on the channel resumeErr
Rejected(i) ==
  /\ Connect(i, "wait", "rejected") /\ Reader(i, "rejecting", "ending")
  /\ UNCHANGED <<hasToken, conn, sent, resumed, connects, once, duplexVars>>

\* markAsClosing, then connect, which closes
MarkRejected(i) ==
  /\ Connect(i, "rejected", "begin") /\ connects' = "closing"
  /\ UNCHANGED <<hasToken, rpc, conn, sent, resumed, once, duplexVars>>

Attached(i) == IF sent[i] THEN "done" ELSE "destroy"

\* SetTransport: ready.CAS, then the assignment
SetTransport(i) ==
  /\ Connect(i, "attach", IF isReady THEN Attached(i) ELSE "assign")
  /\ isReady' = TRUE
  /\ UNCHANGED <<hasToken, rpc, conn, sent, resumed, connects, once, attached>>

AssignTransport(i) ==
  /\ Connect(i, "assign", Attached(i)) /\ attached' = i
  /\ UNCHANGED <<hasToken, rpc, conn, sent, resumed, connects, once, isReady>>

----------------------------------------------------------------------------
(* The goroutine of a connection *)

\* RESUME_OK.  Closing resumeErr a second time panics: the goroutine runs what it
\* deferred, as if it had ended, and then the process exits
AcceptResume(i) ==
  /\ ~First(i) /\ sent[i] /\ conn[i] = "open" /\ resumed[i] < 2
  /\ Reader(i, "reading", IF resumed[i] = 0 THEN "reading" ELSE "ending")
  /\ resumed' = [resumed EXCEPT ![i] = @ + 1]
  /\ UNCHANGED <<hasToken, conpc, conn, sent, connects, once, duplexVars>>

\* REJECTED_RESUME: the handler waits for connect to receive it, for ever once
\* connect has timed out; after RESUME_OK the send panics, is recovered, and the
\* goroutine ends as after any error
RejectResume(i) ==
  /\ ~First(i) /\ sent[i] /\ conn[i] = "open" /\ resumed[i] = 0
  /\ Reader(i, "reading", "rejecting")
  /\ UNCHANGED <<hasToken, conpc, conn, sent, resumed, connects, once, duplexVars>>

\* any error of stream 0 on a connection that was set up
Fatal(i) ==
  /\ First(i) /\ sent[i] /\ conn[i] = "open" /\ Reader(i, "reading", "ending")
  /\ connects' = "closing"
  /\ UNCHANGED <<hasToken, conpc, conn, sent, resumed, once, duplexVars>>

\* EOF, an error, the deadline, another error of stream 0, a frame without handler
EndReading(i) ==
  /\ Reader(i, "reading", "ending")
  /\ UNCHANGED <<hasToken, conpc, conn, sent, resumed, connects, once, duplexVars>>

\* fault: Start returns and leaves the connection open
StartReturnsOpen(i) ==
  /\ Reader(i, "ending", "clear")
  /\ UNCHANGED <<hasToken, conpc, conn, sent, resumed, connects, once, duplexVars>>

\* Start closes its connection
StartReturns(i) ==
  /\ Reader(i, "ending", "clear") /\ conn' = [conn EXCEPT ![i] = "closed"]
  /\ UNCHANGED <<hasToken, conpc, sent, resumed, connects, once, duplexVars>>

ClearTransport(i) ==
  /\ Reader(i, "clear", "test") /\ attached' = 0 /\ isReady' = FALSE
  /\ UNCHANGED <<hasToken, conpc, conn, sent, resumed, connects, once>>

\* isClosed
Test(i) ==
  /\ Reader(i, "test", IF connects = "closing" THEN "close" ELSE "sleep")
  /\ UNCHANGED <<hasToken, conpc, conn, sent, resumed, connects, once, duplexVars>>

Reconnect(i) ==
  /\ Reader(i, "sleep", "done") /\ Connect(i + 1, "none", "begin")
  /\ UNCHANGED <<hasToken, conn, sent, resumed, connects, once, duplexVars>>

----------------------------------------------------------------------------
(* Close *)

\* Close and close(false), inside once
RunClose(marks) ==
  /\ once = "free" /\ once' = "running"
  /\ connects' = IF marks THEN "closing" ELSE connects
  /\ UNCHANGED <<hasToken, conpc, rpc, conn, sent, resumed, duplexVars>>

UserClose == RunClose(TRUE)
SelfClose ==
  \/ \E i \in Attempts : (conpc[i] = "close" \/ rpc[i] = "close") /\ RunClose(TRUE)
  \/ \E i \in Attempts : conpc[i] = "destroy" /\ RunClose(FALSE)

\* destroyTransport, once the write loop has ended
Cut ==
  /\ once = "running" /\ once' = "done"
  /\ conn' = [i \in Attempts |-> IF i = attached THEN "closed" ELSE conn[i]]
  /\ UNCHANGED <<hasToken, conpc, rpc, sent, resumed, connects, duplexVars>>

\* whoever comes second waits for the first
CloseReturns(i) ==
  /\ once = "done"
  /\ \/ Connect(i, "close", "done") /\ UNCHANGED rpc
     \/ Connect(i, "destroy", "done") /\ UNCHANGED rpc
     \/ Reader(i, "close", "done") /\ UNCHANGED conpc
  /\ UNCHANGED <<hasToken, conn, sent, resumed, connects, once, duplexVars>>
----------------------------------------------------------------------------

Connecting(i) ==
  \/ Inc(i) \/ CreateTransport(i) \/ Retry(i) \/ Send(i) \/ Timeout(i)
  \/ Resumed(i) \/ Rejected(i) \/ MarkRejected(i)
  \/ SetTransport(i) \/ AssignTransport(i)
Returning(i) ==
  \/ StartReturns(i) \/ ClearTransport(i) \/ Test(i) \/ Reconnect(i)

ClientNext ==
  \/ \E i \in Attempts :
       Connecting(i) \/ Returning(i) \/ CloseReturns(i)
       \/ AcceptResume(i) \/ RejectResume(i) \/ Fatal(i) \/ EndReading(i)
  \/ UserClose \/ SelfClose \/ Cut

(***************************************************************************)
(* Goroutines run, timers fire, and a read of a connection that was closed *)
(* ends.  The peer owes nothing, and nobody has to call Close.             *)
(***************************************************************************)
ClientFairness ==
  /\ \A i \in Attempts :
       /\ WF_clientVars(Connecting(i)) /\ WF_clientVars(Returning(i))
       /\ WF_clientVars(CloseReturns(i))
       /\ WF_clientVars(conn[i] = "closed" /\ EndReading(i))
  /\ WF_clientVars(SelfClose) /\ WF_clientVars(Cut)

ClientSpec     == ClientInit /\ [][ClientNext]_clientVars
ClientFairSpec == ClientSpec /\ ClientFairness
----------------------------------------------------------------------------

\* Every variable keeps its type; a goroutine and its connection begin together.
ClientTypeOK ==
  /\ hasToken \in BOOLEAN
  /\ \A i \in Attempts :
       /\ conpc[i] \in {"none", "begin", "create", "retry", "send", "wait", "rejected",
                        "attach", "assign", "close", "destroy", "done"}
       /\ rpc[i] \in {"none", "reading", "rejecting", "ending", "clear", "test", "sleep",
                      "close", "done"}
       /\ conn[i] \in {"none", "open", "closed"}
       /\ sent[i] \in BOOLEAN /\ resumed[i] \in 0..2
       /\ rpc[i] = "none" <=> conn[i] = "none"
  /\ connects \in {"counting", "closing"} /\ once \in {"free", "running", "done"}
  /\ isReady \in BOOLEAN /\ attached \in 0..MaxTransports

\* A connection that had ended when its connect attached it, or is about to.
Stale ==
  \/ attached # 0 /\ conn[attached] = "closed"
  \/ \E k \in Attempts : conpc[k] = "assign" /\ conn[k] = "closed"

OneOpen == \A i, j \in Attempts : conn[i] = "open" /\ conn[j] = "open" => i = j

\* One connection is open at a time, though several connects may be under way,
\* and the socket writes to the one that was set up or resumed, unless a
\* connection that ended before it was attached holds its place.
OneConnection ==
  /\ OneOpen
  /\ \A i \in Attempts :
       once = "free" /\ conpc[i] = "done" /\ sent[i] /\ conn[i] = "open" =>
         attached = i \/ Stale

\* Close did not find the connection attached, and the peer keeps it open
KeptOpen(i) == conn[i] = "open" /\ rpc[i] = "reading"

\* REJECTED_RESUME came after the timeout, or connect had not received it yet when
\* it timed out: its handler blocks the goroutine, and Start never returns
Stranded(i) == conpc[i] = "done" /\ rpc[i] = "rejecting"

AtRest(i) == conpc[i] \in {"none", "done"} /\ rpc[i] \in {"none", "done"}

Panicked == \E i \in Attempts : resumed[i] = 2

\* A connection that was lost is followed by another connect for as long as the
\* client is not closing; and then every connect and every goroutine ends, but for
\* those of connections that are KeptOpen and of handlers that are Stranded; a
\* second RESUME_OK ends the process instead.
GoesOnOrEnds ==
  /\ \A i \in 1..MaxTransports :
       conn[i] = "closed" ~> (connects = "closing" \/ conpc[i + 1] # "none" \/ Panicked)
  /\ connects = "closing" ~>
       \/ once = "done" /\ \A i \in Attempts :
            AtRest(i) \/ (conpc[i] \in {"none", "done"} /\ KeptOpen(i)) \/ Stranded(i)
       \/ Panicked
============================================================================
