----------------------------- MODULE Requester -----------------------------
(***************************************************************************)
(* The requests of one socket from the caller's side: the lease, the       *)
(* stream id, the callback, the frames and the memory of the payloads      *)
(* (base_socket.go, leaser.go, stream_id.go, and FireAndForget,            *)
(* MetadataPush, RequestResponse, RequestStream and RequestChannel of      *)
(* duplex.go).  Of a stream's items and of what a channel does once its    *)
(* request is sent the modules RequestStream, RequestChannel and           *)
(* ReleaseQueue have the rest.                                             *)
(*                                                                         *)
(* Each caller forwards one payload that it holds, as a broker does: it    *)
(* gives its own reference back when the call has returned.  The frames    *)
(* point into the payload until they are written.                          *)
(***************************************************************************)
EXTENDS Integers, Sequences, FiniteSets

CONSTANTS
  Calls,        \* goroutines, each with one request
  HalfSeed,     \* _halfSeed: 2^30 in the code
  IsServer,     \* serverStreamIDs or clientStreamIDs
  Starts,       \* in what situations the requests are made
  MaxLeases,    \* bound: leases that arrive
  Tickets       \* numberOfRequests of each

Kinds == {"response", "stream", "channel", "fnf", "push"}
Ids == 0..(2 * HalfSeed - 1)

\* the id of a seed, and whether it is of the first lap
IdOf(s) == (IF IsServer THEN 2 * s ELSE 2 * s - 1) % (2 * HalfSeed)
FirstLap(s) == s <= HalfSeed

\* A situation: what each caller asks for and whether its payload is split into
\* fragments, whether there is a leaser, how many ids have been given out
\* (modulo the laps) and which of their streams live on.  A lap has a free id
\* for each caller: 2^30 requests at once are out of reach.
Situation(s) ==
  /\ s.kind \in [Calls -> Kinds] /\ s.split \in [Calls -> BOOLEAN]
  /\ \A c \in Calls : s.kind[c] = "push" => ~s.split[c]
  /\ s.leased \in BOOLEAN /\ s.seed \in 0..(2 * HalfSeed)
  /\ s.live \subseteq {IdOf(i) : i \in 1..s.seed}
  /\ Cardinality(s.live) + Cardinality(Calls) <= HalfSeed

ASSUME RequesterAssumption ==
  /\ IsFiniteSet(Calls) /\ HalfSeed \in Nat \ {0} /\ IsServer \in BOOLEAN
  /\ MaxLeases \in Nat /\ Tickets \in Nat \ {0}
  /\ \A s \in Starts : Situation(s)

VARIABLES
  kind, split, pc, frag,               \* the calls
  leased, init, deadline, tickets,     \* leaser; leased says whether there is one
  over, leases, rpc,                   \* deadlines up to over have passed; refresh
  allowed, granted,                    \* histories: calls allowed, tickets handed out
  seed, sid, older, messages,          \* StreamID; the ids, those of older streams; messages, as <<id, caller>>
  refs, owned,                         \* references to a payload; the caller's is one of them
  queue, closed, sealed,               \* sndQueue, dc.closed, sndQueue is closed
  sink, cache, answer, fin,            \* requestResponseCallback, its answer, onFinally
  arrival,                             \* how far the answer has got
  copy, twice,                         \* stopWithError's copy of cache; answers it released
  epc, todo, cur                       \* Close, the callbacks it has to stop and stops

callVars  == <<kind, split, pc, frag>>
leaseVars == <<leased, init, deadline, tickets, over, leases, rpc, granted>>
idVars    == <<seed, sid, older>>
memVars   == <<refs, owned>>
sendVars  == <<queue, closed, sealed>>
backVars  == <<sink, cache, answer, fin, arrival, copy, twice>>
endVars   == <<epc, todo, cur>>
vars == <<callVars, leaseVars, allowed, idVars, messages, memVars, sendVars, backVars, endVars>>

Old    == "old"      \* the caller of a stream that lives on from an earlier lap
Closer == "closer"   \* the goroutine in Close

ASSUME NamesAssumption == {Old, Closer} \cap Calls = {}

Init ==
  /\ \E s \in Starts :
       /\ kind = s.kind /\ split = s.split /\ leased = s.leased /\ seed = s.seed
       /\ older = s.live /\ messages = {<<i, Old>> : i \in s.live}
  /\ pc = [c \in Calls |-> "start"] /\ frag = [c \in Calls |-> 1]
  /\ init = FALSE /\ deadline = 0 /\ tickets = 0
  /\ over = 0 /\ leases = 0 /\ rpc = "idle" /\ allowed = 0 /\ granted = 0
  /\ sid = [c \in Calls |-> 0]
  /\ refs = [c \in Calls |-> 1] /\ owned = [c \in Calls |-> TRUE]
  /\ queue = <<>> /\ closed = FALSE /\ sealed = FALSE
  /\ sink = [c \in Calls |-> "none"] /\ cache = [c \in Calls |-> FALSE]
  /\ answer = [c \in Calls |-> 0] /\ fin = [c \in Calls |-> "none"]
  /\ arrival = [c \in Calls |-> "none"]
  /\ copy = [x \in Calls \cup {Closer} |-> FALSE] /\ twice = {}
  /\ epc = "open" /\ todo = {} /\ cur = Old

Goto(c, from, to) == pc[c] = from /\ pc' = [pc EXCEPT ![c] = to]

----------------------------------------------------------------------------
(* leaser: refresh by the reading goroutine, allow by the callers *)

RefreshDeadline ==
  /\ leased /\ rpc = "idle" /\ leases < MaxLeases
  /\ leases' = leases + 1 /\ deadline' = leases + 1 /\ rpc' = "tickets"
  /\ UNCHANGED <<callVars, leased, init, tickets, over, granted, allowed, idVars, messages,
                 memVars, sendVars, backVars, endVars>>

RefreshTickets ==
  /\ rpc = "tickets" /\ rpc' = "init"
  /\ tickets' = Tickets /\ granted' = granted + Tickets
  /\ UNCHANGED <<callVars, leased, init, deadline, over, leases, allowed, idVars, messages,
                 memVars, sendVars, backVars, endVars>>

RefreshInit ==
  /\ rpc = "init" /\ rpc' = "idle" /\ init' = TRUE
  /\ UNCHANGED <<callVars, leased, deadline, tickets, over, leases, granted, allowed, idVars,
                 messages, memVars, sendVars, backVars, endVars>>

Expire ==
  /\ over < leases /\ over' = over + 1
  /\ UNCHANGED <<callVars, leased, init, deadline, tickets, leases, rpc, granted, allowed, idVars,
                 messages, memVars, sendVars, backVars, endVars>>

\* FireAndForget logs the refusal and goes on
Refused(c) == IF kind[c] = "fnf" THEN "id" ELSE "returned"

Start(c) ==
  /\ Goto(c, "start", IF kind[c] = "push" THEN "closed?"
                      ELSE IF ~leased THEN (IF kind[c] = "fnf" THEN "id" ELSE "closed?")
                      ELSE IF init THEN "deadline" ELSE Refused(c))
  /\ UNCHANGED <<kind, split, frag, leaseVars, allowed, idVars, messages, memVars, sendVars, backVars, endVars>>

TestDeadline(c) ==
  /\ Goto(c, "deadline", IF deadline <= over THEN Refused(c) ELSE "ticket")
  /\ UNCHANGED <<kind, split, frag, leaseVars, allowed, idVars, messages, memVars, sendVars, backVars, endVars>>

\* fault: the last ticket is given to one more
OneTooMany(n) == n < -1

NoneLeft(n) == n < 0

TakeTicket(c) ==
  /\ Goto(c, "ticket", IF NoneLeft(tickets - 1) THEN Refused(c)
                       ELSE IF kind[c] = "fnf" THEN "id" ELSE "closed?")
  /\ tickets' = tickets - 1
  /\ allowed' = IF NoneLeft(tickets - 1) THEN allowed ELSE allowed + 1
  /\ UNCHANGED <<kind, split, frag, leased, init, deadline, over, leases, rpc, granted, idVars, messages,
                 memVars, sendVars, backVars, endVars>>

----------------------------------------------------------------------------
(* stream id and callback *)

\* RequestResponse and MetadataPush ask whether the socket is closed
TestClosed(c) ==
  /\ Goto(c, "closed?", IF closed THEN "returned" ELSE IF kind[c] = "push" THEN "send" ELSE "id")
  /\ UNCHANGED <<kind, split, frag, leaseVars, allowed, idVars, messages, memVars, sendVars, backVars, endVars>>

\* fault: the ids of a later lap are not looked up
NeverTaken(s) == FALSE

Taken(s) == ~FirstLap(s) /\ \E c \in Calls \cup {Old} : <<IdOf(s), c>> \in messages

\* where a call goes on with its id; the callback of a channel is registered by its
\* sending flux, after the request
AfterId(c) == CASE kind[c] = "fnf" -> "incref"
                [] kind[c] = "channel" -> "demand"
                [] OTHER -> "register"

\* the seed of a later lap is kept as one of the second: its id is the same
NextStreamID(c) ==
  LET s == IF seed = 2 * HalfSeed THEN HalfSeed + 1 ELSE seed + 1 IN
  /\ Goto(c, "id", IF Taken(s) THEN "id" ELSE AfterId(c))
  /\ seed' = s
  /\ sid' = IF Taken(s) THEN sid ELSE [sid EXCEPT ![c] = IdOf(s)]
  /\ UNCHANGED <<older, kind, split, frag, leaseVars, allowed, messages, memVars, sendVars, backVars, endVars>>

\* sync.Map: the callback of an earlier stream with this id is replaced
Register(c) ==
  /\ Goto(c, "register", IF kind[c] = "stream" THEN "demand" ELSE "incref")
  /\ messages' = {m \in messages : m[1] # sid[c]} \cup {<<sid[c], c>>}
  /\ sink' = [sink EXCEPT ![c] = "open"]
  /\ UNCHANGED <<kind, split, frag, leaseVars, allowed, idVars, memVars, sendVars, cache, answer,
                 fin, arrival, copy, twice, endVars>>

\* DoOnRequest: a stream or a channel is requested by its subscriber's first
\* demand, if that comes; its caller has the payload until then
Demand(c) ==
  /\ \E p \in {"incref", "returned"} : Goto(c, "demand", p)
  /\ UNCHANGED <<kind, split, frag, leaseVars, allowed, idVars, messages, memVars, sendVars, backVars, endVars>>

IncRef(c) ==
  /\ Goto(c, "incref", "send")
  /\ refs' = [refs EXCEPT ![c] = @ + 1]
  /\ UNCHANGED <<kind, split, frag, leaseVars, allowed, idVars, messages, owned, sendVars, backVars, endVars>>

----------------------------------------------------------------------------
(* the frames *)

Fragments(c) == IF split[c] THEN 2 ELSE 1

\* fault: the first fragment gives the reference back
HookedFirst(c, i) == kind[c] # "push" /\ i = 1 /\ ~(kind[c] = "fnf" /\ split[c])

\* the frame whose Done gives the reference back: the last one
Hooked(c, i) == kind[c] # "push" /\ i = Fragments(c) /\ ~(kind[c] = "fnf" /\ split[c])

Done(f) == IF f.hook THEN [refs EXCEPT ![f.call] = @ - 1] ELSE refs

Frame(c) == [call |-> c, i |-> frag[c], hook |-> Hooked(c, frag[c])]

\* the next fragment, if there is one
Resumed(c) == IF frag[c] < Fragments(c) THEN "next" ELSE "returned"

\* a request-response, a stream or a channel
Answerable(c) == kind[c] \notin {"fnf", "push"}

\* where a call goes on after a frame; a request that failed stops its callback
After(c, ok) ==
  IF ~ok /\ Answerable(c) THEN "kill"
  ELSE Resumed(c)

\* fault: sendFrame forgets the frame when the socket is closed
Forgotten(f) == refs

Dropped(f) == Done(f)

\* a split fire-and-forget releases its payload before the last fragment is sent
SendClosed(c) ==
  /\ Goto(c, "send", IF closed THEN After(c, FALSE) ELSE "put")
  /\ LET early == kind[c] = "fnf" /\ split[c] /\ frag[c] = Fragments(c) IN
       refs' = IF early THEN [refs EXCEPT ![c] = @ - 1]
               ELSE IF closed THEN Dropped(Frame(c)) ELSE refs
  /\ UNCHANGED <<kind, split, frag, leaseVars, allowed, idVars, messages, owned, sendVars, backVars, endVars>>

\* a send on the closed channel panics, and is recovered from
Put(c) ==
  /\ Goto(c, "put", After(c, ~sealed))
  /\ IF sealed THEN refs' = Done(Frame(c)) /\ UNCHANGED queue
               ELSE queue' = Append(queue, Frame(c)) /\ UNCHANGED refs
  /\ UNCHANGED <<kind, split, frag, leaseVars, allowed, idVars, messages, owned, closed, sealed, backVars, endVars>>

NextFragment(c) ==
  /\ Goto(c, "next", "send")
  /\ frag' = [frag EXCEPT ![c] = @ + 1]
  /\ UNCHANGED <<kind, split, leaseVars, allowed, idVars, messages, memVars, sendVars, backVars, endVars>>

\* the caller gives its reference back
OwnerRelease(c) ==
  /\ pc[c] = "returned" /\ owned[c]
  /\ owned' = [owned EXCEPT ![c] = FALSE]
  /\ refs' = [refs EXCEPT ![c] = @ - 1]
  /\ UNCHANGED <<callVars, leaseVars, allowed, idVars, messages, sendVars, backVars, endVars>>

\* LoopWrite: a frame is written, which reads its payload, and done with; after
\* Close has sealed the queue the loop may end with frames left in it
WriteOne ==
  /\ queue # <<>> /\ epc \in {"open", "seal", "loop"}
  /\ queue' = Tail(queue) /\ refs' = Done(Head(queue))
  /\ LET f == Head(queue) IN
       arrival' = IF kind[f.call] \in {"response", "stream"} /\ f.i = Fragments(f.call)
                  THEN [arrival EXCEPT ![f.call] = "asked"] ELSE arrival
  /\ UNCHANGED <<callVars, leaseVars, allowed, idVars, messages, owned, closed, sealed, sink, cache,
                 answer, fin, copy, twice, endVars>>

----------------------------------------------------------------------------
(* the answer to a request-response; for a stream, the frame that ends it *)

Terminated(c, how) ==
  IF sink[c] = "open"
    THEN sink' = [sink EXCEPT ![c] = how] /\ fin' = [fin EXCEPT ![c] = "release"]
    ELSE UNCHANGED <<sink, fin>>

\* onFramePayload, onFrameError: without a callback the frame is released
Arrive(c) ==
  /\ arrival[c] = "asked"
  /\ IF <<sid[c], c>> \in messages
       THEN /\ arrival' = [arrival EXCEPT ![c] = "found"]
            /\ answer' = [answer EXCEPT ![c] = IF kind[c] = "response" THEN 1 ELSE 0]
       ELSE arrival' = [arrival EXCEPT ![c] = "seen"] /\ UNCHANGED answer
  /\ UNCHANGED <<callVars, leaseVars, allowed, idVars, messages, memVars, sendVars, sink, cache,
                 fin, copy, twice, endVars>>

Cache(c) ==
  /\ kind[c] = "response" /\ arrival[c] = "found" /\ arrival' = [arrival EXCEPT ![c] = "cached"]
  /\ cache' = [cache EXCEPT ![c] = TRUE]
  /\ UNCHANGED <<callVars, leaseVars, allowed, idVars, messages, memVars, sendVars, sink, answer,
                 fin, copy, twice, endVars>>

Success(c) ==
  /\ arrival[c] = (IF kind[c] = "stream" THEN "found" ELSE "cached")
  /\ arrival' = [arrival EXCEPT ![c] = "seen"]
  /\ Terminated(c, "success")
  /\ UNCHANGED <<callVars, leaseVars, allowed, idVars, messages, memVars, sendVars, cache, answer,
                 copy, twice, endVars>>

\* the caller's subscriber cancels, that of a stream also while it is requested
Cancel(c) ==
  /\ sink[c] = "open" /\ (kind[c] = "response" => pc[c] = "returned")
  /\ Terminated(c, "cancel")
  /\ UNCHANGED <<callVars, leaseVars, allowed, idVars, messages, memVars, sendVars, cache, answer,
                 arrival, copy, twice, endVars>>

\* onFinally: TryRelease(handler.cache), CANCEL if that was it, unregister
Finally(c) ==
  /\ fin[c] = "release" /\ fin' = [fin EXCEPT ![c] = "unregister"]
  /\ answer' = IF cache[c] THEN [answer EXCEPT ![c] = @ - 1] ELSE answer
  /\ UNCHANGED <<callVars, leaseVars, allowed, idVars, messages, memVars, sendVars, sink, cache,
                 arrival, copy, twice, endVars>>

Unregister(c) ==
  /\ fin[c] = "unregister" /\ fin' = [fin EXCEPT ![c] = "done"]
  /\ messages' = {m \in messages : m[1] # sid[c]}
  /\ UNCHANGED <<callVars, leaseVars, allowed, idVars, memVars, sendVars, sink, cache, answer,
                 arrival, copy, twice, endVars>>

\* stopWithError has a value receiver: the callback is copied, with the cache it
\* has by then, the sink ends, and the copy's cache is released.  x stops c's.
Stop(x, c) == copy' = [copy EXCEPT ![x] = cache[c]] /\ Terminated(c, "error")
Stopped(x, c) ==
  /\ answer' = IF copy[x] THEN [answer EXCEPT ![c] = @ - 1] ELSE answer
  /\ twice' = IF copy[x] THEN twice \cup {c} ELSE twice
  /\ copy' = [copy EXCEPT ![x] = FALSE]

\* killCallback, by a call whose frame was not sent
Kill(c) ==
  /\ IF <<sid[c], c>> \in messages
       THEN Goto(c, "kill", "killed") /\ Stop(c, c)
       ELSE Goto(c, "kill", Resumed(c)) /\ UNCHANGED <<copy, sink, fin>>
  /\ UNCHANGED <<kind, split, frag, leaseVars, allowed, idVars, messages, memVars, sendVars, cache,
                 answer, arrival, twice, endVars>>

Killed(c) ==
  /\ Goto(c, "killed", Resumed(c)) /\ Stopped(c, c)
  /\ UNCHANGED <<kind, split, frag, leaseVars, allowed, idVars, messages, memVars, sendVars, sink,
                 cache, fin, arrival, endVars>>

----------------------------------------------------------------------------
(* Close; WriteLoop has more of it *)

Close ==
  /\ epc = "open" /\ epc' = "seal" /\ closed' = TRUE
  /\ UNCHANGED <<callVars, leaseVars, allowed, idVars, messages, memVars, queue, sealed, backVars, todo, cur>>

Seal ==
  /\ epc = "seal" /\ epc' = "loop" /\ sealed' = TRUE
  /\ UNCHANGED <<callVars, leaseVars, allowed, idVars, messages, memVars, queue, closed, backVars, todo, cur>>

\* the write loop has ended, it may have left frames
LoopEnded ==
  /\ epc = "loop" /\ epc' = "handlers"
  /\ todo' = {m[2] : m \in messages} \ {Old}
  /\ UNCHANGED <<callVars, leaseVars, allowed, idVars, messages, memVars, sendVars, backVars, cur>>

\* destroyHandler ranges over messages: what has been unregistered is passed over
StopNext(c) ==
  /\ epc = "handlers" /\ c \in todo /\ todo' = todo \ {c}
  /\ IF <<sid[c], c>> \in messages
       THEN epc' = "stopping" /\ cur' = c /\ Stop(Closer, c)
       ELSE UNCHANGED <<epc, cur, copy, sink, fin>>
  /\ UNCHANGED <<callVars, leaseVars, allowed, idVars, messages, memVars, sendVars, cache, answer, arrival, twice>>

StopOver ==
  /\ epc = "stopping" /\ epc' = "handlers" /\ cur' = Old
  /\ Stopped(Closer, cur)
  /\ UNCHANGED <<callVars, leaseVars, allowed, idVars, messages, memVars, sendVars, sink, cache, fin, arrival, todo>>

DestroySndQueue ==
  /\ epc = "handlers" /\ todo = {}
  /\ IF queue = <<>> THEN epc' = "returned" /\ UNCHANGED <<queue, refs>>
                     ELSE queue' = Tail(queue) /\ refs' = Done(Head(queue)) /\ UNCHANGED epc
  /\ UNCHANGED <<callVars, leaseVars, allowed, idVars, messages, owned, closed, sealed, backVars, todo, cur>>

LeaseStep == RefreshDeadline \/ RefreshTickets \/ RefreshInit \/ Expire
CallStep(c) ==
  \/ Start(c) \/ TestDeadline(c) \/ TakeTicket(c) \/ TestClosed(c)
  \/ NextStreamID(c) \/ Register(c) \/ Demand(c) \/ IncRef(c)
  \/ SendClosed(c) \/ Put(c) \/ NextFragment(c) \/ Kill(c) \/ Killed(c) \/ OwnerRelease(c)
AnswerStep(c) == Cache(c) \/ Success(c) \/ Finally(c) \/ Unregister(c)
CloseStep == Seal \/ LoopEnded \/ StopOver \/ DestroySndQueue

Next ==
  \/ LeaseStep \/ WriteOne \/ Close \/ CloseStep
  \/ \E c \in Calls : CallStep(c) \/ AnswerStep(c) \/ Arrive(c) \/ Cancel(c) \/ StopNext(c)

Spec == Init /\ [][Next]_vars

\* the goroutines go on: the callers, the write loop, Close once it is called
FairSpec ==
  /\ Spec
  /\ WF_vars(WriteOne) /\ WF_vars(CloseStep)
  /\ \A c \in Calls : WF_vars(CallStep(c)) /\ WF_vars(AnswerStep(c)) /\ WF_vars(StopNext(c))

----------------------------------------------------------------------------
(* Properties *)

TypeOK ==
  /\ kind \in [Calls -> Kinds] /\ split \in [Calls -> BOOLEAN] /\ frag \in [Calls -> 1..2]
  /\ pc \in [Calls -> {"start", "deadline", "ticket", "closed?", "id", "register", "demand",
                       "incref", "send", "put", "next", "kill", "killed", "returned"}]
  /\ leased \in BOOLEAN /\ init \in BOOLEAN /\ deadline \in 0..MaxLeases /\ tickets \in Int
  /\ over \in 0..MaxLeases /\ leases \in 0..MaxLeases /\ rpc \in {"idle", "tickets", "init"}
  /\ allowed \in Nat /\ granted \in Nat
  /\ seed \in 0..(2 * HalfSeed) /\ sid \in [Calls -> Ids] /\ older \subseteq Ids
  /\ messages \subseteq Ids \X (Calls \cup {Old})
  /\ refs \in [Calls -> Int] /\ owned \in [Calls -> BOOLEAN]
  /\ queue \in Seq([call : Calls, i : 1..2, hook : BOOLEAN])
  /\ closed \in BOOLEAN /\ sealed \in BOOLEAN
  /\ sink \in [Calls -> {"none", "open", "success", "cancel", "error"}]
  /\ cache \in [Calls -> BOOLEAN] /\ answer \in [Calls -> Int]
  /\ fin \in [Calls -> {"none", "release", "unregister", "done"}]
  /\ arrival \in [Calls -> {"none", "asked", "found", "cached", "seen"}]
  /\ copy \in [Calls \cup {Closer} -> BOOLEAN] /\ twice \subseteq Calls
  /\ epc \in {"open", "seal", "loop", "handlers", "stopping", "returned"}
  /\ todo \subseteq Calls /\ cur \in Calls \cup {Old}

\* Whatever the refresh and the callers interleave, no more requests are allowed
\* than leases have given tickets, and none before the first lease.
WithinLease == allowed <= granted

\* No request takes the id of a stream that lives, in whatever lap: the callback
\* of one is never replaced by another's.
IdsApart ==
  /\ \A m, n \in messages : m[1] = n[1] => m = n
  /\ \A i \in older : <<i, Old>> \in messages
  /\ \A c \in Calls : (sink[c] = "open" /\ fin[c] = "none") => <<sid[c], c>> \in messages

\* Requests are let out as the lease and the ids allow: WithinLease, IdsApart.
Admitted == TypeOK /\ WithinLease /\ IdsApart

\* A frame that waits to be written points into a payload that has not been
\* released, but for a metadata push, which takes no reference, a split
\* fire-and-forget, which gives its up before its last fragment, and another split
\* request whose last fragment came after the socket was closed.  An answer is
\* released by onFinally once, and by stopWithError again if it ran.
Memory ==
  /\ \A c \in Calls : refs[c] >= 0
  /\ \A i \in 1..Len(queue) : LET c == queue[i].call IN
       (kind[c] # "push" /\ (split[c] => Answerable(c) /\ ~closed)) => refs[c] > 0
  /\ \A c \in Calls : (answer[c] < 0 => c \in twice) /\ answer[c] >= -1
  /\ \A c \in Calls : sink[c] = "success" /\ fin[c] = "done" => answer[c] <= 0

\* In the end every payload is given back, the socket open or closed.
GivenBack == \A c \in Calls : <>[](refs[c] = 0)
=============================================================================
