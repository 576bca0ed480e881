--------------------------- MODULE ServerSessions ---------------------------
(***************************************************************************)
(* The server's connections and its sessions (server.go, internal/session, *)
(* resumable_server_socket.go): each accepted connection has a goroutine   *)
(* that reads the first frame, sets a socket up or resumes one, runs the   *)
(* transport, and in the end closes the socket or pauses it and pushes a   *)
(* session; one goroutine sweeps the sessions whose deadline has passed.   *)
(*                                                                         *)
(* A socket bears the name of the connection that set it up, a session     *)
(* that of the connection that pushed it: each does so at most once.       *)
(* Time is what is left of each session; one tick takes one unit from all. *)
(***************************************************************************)
EXTENDS Integers, FiniteSets

CONSTANTS
  Conns,      \* the connections the server accepts
  Tokens,     \* resume tokens
  None,       \* no token, no connection, no session
  Duration    \* resumeOpts.sessionDuration

ASSUME SessionAssumption ==
  /\ None \notin Conns \cup Tokens
  /\ Duration \in Nat \ {0}

VARIABLES
  cpc,        \* where the goroutine of a connection is
  open,       \* the connection is open
  held,       \* the socket in its socketChan
  token, tp, ready, closed,   \* of each socket
  heap,       \* Manager.h: sessions by deadline
  map,        \* Manager.m: session of a token
  left,       \* time left to each session
  kpc, hand,  \* doCleanSession, and the session it has popped
  busy,       \* the session that the goroutine of this sweep is closing
  dying       \* sessions that goroutines of this and earlier sweeps are closing

connVars  == <<cpc, open, held>>
sockVars  == <<token, tp, ready, closed>>
smVars    == <<heap, map>>
cleanVars == <<kpc, hand, busy, dying>>
vars == <<connVars, sockVars, smVars, left, cleanVars>>

ConnPCs == {"new", "accepting", "resuming", "attaching", "serving", "ended", "pausing", "gone"}

Init ==
  /\ cpc = [c \in Conns |-> "new"] /\ open = [c \in Conns |-> TRUE]
  /\ held = [c \in Conns |-> None]
  /\ token = [s \in Conns |-> None] /\ tp = [s \in Conns |-> None]
  /\ ready = [s \in Conns |-> FALSE] /\ closed = [s \in Conns |-> FALSE]
  /\ heap = {} /\ map = [k \in Tokens |-> None]
  /\ left = [c \in Conns |-> 0]
  /\ kpc = "wait" /\ hand = None /\ busy = None /\ dying = {}

Move(c, to) == cpc' = [cpc EXCEPT ![c] = to]

----------------------------------------------------------------------------
(* Manager *)

Push(x) ==
  /\ heap' = heap \cup {x}
  /\ map' = [map EXCEPT ![token[held[x]]] = x]

Earliest(x) == x \in heap /\ \A y \in heap : left[x] <= left[y]

\* whichever session of the token the map has, its entry goes
Pop(x) ==
  /\ Earliest(x)
  /\ heap' = heap \ {x}
  /\ map' = [map EXCEPT ![token[held[x]]] = None]

----------------------------------------------------------------------------
(* The goroutine of a connection *)

\* no first frame, a frame of another type, or a setup that is refused at once
Refuse(c) ==
  /\ cpc[c] = "new"
  /\ Move(c, "gone") /\ open' = [open EXCEPT ![c] = FALSE]
  /\ UNCHANGED <<held, sockVars, smVars, left, cleanVars>>

\* doSetup of a resumable socket: the token may not be that of a session
SetupResumable(c, k) ==
  /\ cpc[c] = "new"
  /\ IF map[k] # None
       THEN /\ Move(c, "gone") /\ open' = [open EXCEPT ![c] = FALSE]
            /\ UNCHANGED token
       ELSE /\ Move(c, "accepting") /\ token' = [token EXCEPT ![c] = k]
            /\ UNCHANGED open
  /\ UNCHANGED <<held, tp, ready, closed, smVars, left, cleanVars>>

SetupSimple(c) ==
  /\ cpc[c] = "new"
  /\ Move(c, "accepting")
  /\ UNCHANGED <<open, held, sockVars, smVars, left, cleanVars>>

\* the acceptor returns a responder, and the socket its transport
Accept(c) ==
  /\ cpc[c] = "accepting"
  /\ tp' = [tp EXCEPT ![c] = c] /\ ready' = [ready EXCEPT ![c] = TRUE]
  /\ held' = [held EXCEPT ![c] = c]
  /\ Move(c, "serving")
  /\ UNCHANGED <<open, token, closed, smVars, left, cleanVars>>

\* the acceptor returns an error
Reject(c) ==
  /\ cpc[c] = "accepting"
  /\ Move(c, "gone") /\ open' = [open EXCEPT ![c] = FALSE]
  /\ UNCHANGED <<held, sockVars, smVars, left, cleanVars>>

\* doResume: the session is looked up and stays where it is; an unknown token
\* is answered with an error, and the connection runs until it ends
Resume(c, k) ==
  /\ cpc[c] = "new"
  /\ IF map[k] # None
       THEN held' = [held EXCEPT ![c] = held[map[k]]] /\ Move(c, "resuming")
       ELSE Move(c, "serving") /\ UNCHANGED held
  /\ UNCHANGED <<open, sockVars, smVars, left, cleanVars>>

\* SetTransport: ready.CAS fails if the socket has a transport, and nobody asks
TryReady(c) ==
  /\ cpc[c] = "resuming"
  /\ ready' = [ready EXCEPT ![held[c]] = TRUE]
  /\ Move(c, IF ready[held[c]] THEN "serving" ELSE "attaching")
  /\ UNCHANGED <<open, held, token, tp, closed, smVars, left, cleanVars>>

Attach(c) ==
  /\ cpc[c] = "attaching"
  /\ tp' = [tp EXCEPT ![held[c]] = c]
  /\ Move(c, "serving")
  /\ UNCHANGED <<open, held, token, ready, closed, smVars, left, cleanVars>>

\* Transport.Start returns, and has closed the connection
End(c) ==
  /\ cpc[c] = "serving"
  /\ Move(c, "ended") /\ open' = [open EXCEPT ![c] = FALSE]
  /\ UNCHANGED <<held, sockVars, smVars, left, cleanVars>>

\* BaseSocket.Close, down to destroyTransport
Close(s) ==
  /\ closed' = [closed EXCEPT ![s] = TRUE]
  /\ open' = [c \in Conns |-> open[c] /\ (closed[s] \/ tp[s] # c)]

\* the deferred function: no socket, or one that has no token
Release(c) ==
  /\ cpc[c] = "ended" /\ (held[c] # None => token[held[c]] = None)
  /\ IF held[c] = None THEN UNCHANGED <<closed, open>> ELSE Close(held[c])
  /\ Move(c, "gone")
  /\ UNCHANGED <<held, token, tp, ready, smVars, left, cleanVars>>

\* fault: the transport is not cleared
PauseKeepsTransport(c) ==
  /\ cpc[c] = "ended" /\ held[c] # None /\ token[held[c]] # None
  /\ Move(c, "pausing")
  /\ UNCHANGED <<open, held, sockVars, smVars, left, cleanVars>>

\* clearTransport, whoever the transport is
Pause(c) ==
  /\ cpc[c] = "ended" /\ held[c] # None /\ token[held[c]] # None
  /\ tp' = [tp EXCEPT ![held[c]] = None] /\ ready' = [ready EXCEPT ![held[c]] = FALSE]
  /\ Move(c, "pausing")
  /\ UNCHANGED <<open, held, token, closed, smVars, left, cleanVars>>

\* fault: a session is pushed without its time
StoreTimeless(c) ==
  /\ cpc[c] = "pausing"
  /\ heap' = heap \cup {c} /\ UNCHANGED map
  /\ left' = [left EXCEPT ![c] = Duration + 1]
  /\ Move(c, "gone")
  /\ UNCHANGED <<open, held, sockVars, cleanVars>>

Store(c) ==
  /\ cpc[c] = "pausing"
  /\ left' = [left EXCEPT ![c] = Duration]
  /\ Push(c)
  /\ Move(c, "gone")
  /\ UNCHANGED <<open, held, sockVars, cleanVars>>

\* the application, or a write loop that ends, closes an accepted socket
CloseSocket(s) ==
  /\ held[s] = s /\ ~closed[s]
  /\ Close(s)
  /\ UNCHANGED <<cpc, held, token, tp, ready, smVars, left, cleanVars>>

----------------------------------------------------------------------------
(* The cleaner *)

\* time passes
Tick ==
  /\ \E x \in Conns : left[x] > 0
  /\ left' = [x \in Conns |-> IF left[x] > 0 THEN left[x] - 1 ELSE 0]
  /\ UNCHANGED <<connVars, sockVars, smVars, cleanVars>>

Sweep ==
  /\ kpc = "wait" /\ heap # {}
  /\ kpc' = "sweep"
  /\ UNCHANGED <<connVars, sockVars, smVars, left, hand, busy, dying>>

PopEarliest ==
  /\ kpc = "sweep"
  /\ \/ /\ heap = {} /\ kpc' = "wait" /\ busy' = None
        /\ UNCHANGED <<smVars, hand>>
     \/ \E x \in heap :
          /\ Pop(x)
          /\ hand' = x /\ kpc' = "check" /\ UNCHANGED busy
  /\ UNCHANGED <<connVars, sockVars, left, dying>>

\* fault: a session that is not dead is forgotten
ForgetLive ==
  /\ kpc = "check" /\ left[hand] > 0
  /\ hand' = None /\ busy' = None /\ kpc' = "wait"
  /\ UNCHANGED <<connVars, sockVars, smVars, left, dying>>

PushBack ==
  /\ kpc = "check" /\ left[hand] > 0
  /\ Push(hand)
  /\ hand' = None /\ busy' = None /\ kpc' = "wait"
  /\ UNCHANGED <<connVars, sockVars, left, dying>>

\* the channel has no buffer: the goroutine must have closed the one before
HandOver ==
  /\ kpc = "check" /\ left[hand] = 0 /\ busy = None
  /\ dying' = dying \cup {hand} /\ busy' = hand
  /\ hand' = None /\ kpc' = "sweep"
  /\ UNCHANGED <<connVars, sockVars, smVars, left>>

Closed(x) ==
  /\ dying' = dying \ {x}
  /\ busy' = IF busy = x THEN None ELSE busy

\* fault: a dead session is not closed
BuryDead(x) ==
  /\ x \in dying
  /\ Closed(x)
  /\ UNCHANGED <<connVars, sockVars, smVars, left, kpc, hand>>

CloseDead(x) ==
  /\ x \in dying
  /\ Close(held[x])
  /\ Closed(x)
  /\ UNCHANGED <<cpc, held, token, tp, ready, smVars, left, kpc, hand>>

Clean == Sweep \/ PopEarliest \/ PushBack \/ HandOver

----------------------------------------------------------------------------

Handle(c) ==
  \/ Accept(c) \/ Reject(c) \/ TryReady(c) \/ Attach(c)
  \/ Release(c) \/ Pause(c) \/ Store(c)

Next ==
  \/ \E c \in Conns : Refuse(c) \/ SetupSimple(c) \/ Handle(c) \/ End(c) \/ CloseSocket(c)
  \/ \E c \in Conns, k \in Tokens : SetupResumable(c, k) \/ Resume(c, k)
  \/ Tick \/ Clean \/ \E x \in Conns : CloseDead(x)

(***************************************************************************)
(* Time passes, the ticker of the cleaner fires, and goroutines run.  A    *)
(* transport ends when its connection was closed under it; otherwise it    *)
(* ends only if the peer so wishes.                                        *)
(***************************************************************************)
Fairness ==
  /\ WF_vars(Tick) /\ WF_vars(Clean)
  /\ \A c \in Conns : WF_vars(Handle(c)) /\ WF_vars(~open[c] /\ End(c)) /\ WF_vars(CloseDead(c))

Spec     == Init /\ [][Next]_vars
FairSpec == Spec /\ Fairness
----------------------------------------------------------------------------

ConnType ==
  /\ cpc \in [Conns -> ConnPCs] /\ open \in [Conns -> BOOLEAN]
  /\ held \in [Conns -> Conns \cup {None}]
SocketType ==
  /\ token \in [Conns -> Tokens \cup {None}] /\ tp \in [Conns -> Conns \cup {None}]
  /\ ready \in [Conns -> BOOLEAN] /\ closed \in [Conns -> BOOLEAN]
SessionType ==
  /\ heap \subseteq Conns /\ map \in [Tokens -> Conns \cup {None}]
  /\ left \in [Conns -> 0..Duration]
  /\ kpc \in {"wait", "sweep", "check"} /\ hand \in Conns \cup {None} /\ busy \in dying \cup {None}
  /\ dying \subseteq Conns

\* Every variable keeps its type, and no session outlives its duration.
TypeOK == ConnType /\ SocketType /\ SessionType

Carried(s) == \E c \in Conns : held[c] = s /\ cpc[c] # "gone"
Sessions   == heap \cup dying \cup {hand}

\* A socket that was accepted is never forgotten: it is closed, or a connection
\* will close or pause it in the end, or a session of it awaits the cleaner.
NoOrphan ==
  \A s \in Conns :
    held[s] = s /\ ~closed[s] => Carried(s) \/ \E x \in Sessions : x # None /\ held[x] = s

\* What the map has for a token is a session of that token in the heap.  And a
\* client that comes back finds its paused socket, if no other client set up the
\* same token, unless the cleaner has a session of it in its hand.
Shared(s) == \E u \in Conns \ {s} : token[u] = token[s]
ManagerAgrees ==
  /\ \A k \in Tokens : map[k] # None => map[k] \in heap /\ token[held[map[k]]] = k
  /\ \A s \in Conns :
       held[s] = s /\ token[s] # None /\ ~closed[s] /\ ~Carried(s) /\ ~Shared(s) =>
         \/ map[token[s]] # None /\ held[map[token[s]]] = s
         \/ \E x \in dying \cup {hand} : x # None /\ held[x] = s

\* A socket writes to no connection that its goroutine has let go of: what it
\* has to send waits for the client's return instead.
AttachedIsCurrent ==
  \A s \in Conns : tp[s] # None =>
    held[tp[s]] = s /\ (token[s] # None => cpc[tp[s]] \in {"serving", "ended"})

\* A client that never comes back does not keep its socket alive: a paused
\* socket is closed, or resumed.
PausedEnds ==
  \A s \in Conns : (held[s] = s /\ ~Carried(s)) ~> (closed[s] \/ Carried(s))

\* Of the sockets with an open connection the cleaner closes only those whose
\* client has resumed them: doResume leaves the session of the pause behind.
ReapedOnlyResumed ==
  \A x \in dying : LET s == held[x] IN
    tp[s] # None /\ open[tp[s]] /\ ~closed[s] => tp[s] # s

\* Sockets and sessions are in step: NoOrphan, ManagerAgrees, ReapedOnlyResumed.
InStep == NoOrphan /\ ManagerAgrees /\ ReapedOnlyResumed
============================================================================
