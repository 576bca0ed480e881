-------------------------- MODULE Requester_proofs --------------------------
(***************************************************************************)
(* Proofs about Requester, for any number of callers, ids and leases: the  *)
(* requests are let out as the lease and the ids allow (Admitted), and the *)
(* payloads are referred to as long as they are needed (Memory).           *)
(*                                                                         *)
(* The ids: the seed does not come round to an id before the call that     *)
(* picked it has registered it, for all the ids in between would have to   *)
(* be in use, and there are fewer streams than ids (Window).  The memory:  *)
(* the references to a payload are counted out to its caller, to its call  *)
(* and to the frame whose Done returns the last one (Counted).             *)
(***************************************************************************)
EXTENDS Requester, FiniteSetTheorems, TLAPS

----------------------------------------------------------------------------
(* The types *)

PCs == {"start", "deadline", "ticket", "closed?", "id", "register", "demand", "incref", "send", "put", "next",
        "kill", "killed", "returned"}
QFrame == [call : Calls, i : 1..2, hook : BOOLEAN]

CallType ==
  /\ kind \in [Calls -> Kinds] /\ split \in [Calls -> BOOLEAN] /\ frag \in [Calls -> 1..2] /\ pc \in [Calls -> PCs]
  /\ \A c \in Calls : frag[c] <= Fragments(c) /\ (pc[c] = "next" => frag[c] < Fragments(c))
LeaseType ==
  /\ leased \in BOOLEAN /\ init \in BOOLEAN /\ deadline \in 0..MaxLeases /\ tickets \in Int
  /\ over \in 0..MaxLeases /\ leases \in 0..MaxLeases /\ rpc \in {"idle", "tickets", "init"}
  /\ allowed \in Nat /\ granted \in Nat
IdType ==
  /\ seed \in 0..(2 * HalfSeed) /\ sid \in [Calls -> Ids] /\ older \subseteq Ids
  /\ messages \subseteq Ids \X (Calls \cup {Old})
SendType ==
  /\ refs \in [Calls -> Int] /\ owned \in [Calls -> BOOLEAN]
  /\ queue \in Seq(QFrame) /\ closed \in BOOLEAN /\ sealed \in BOOLEAN
BackType ==
  /\ sink \in [Calls -> {"none", "open", "success", "cancel", "error"}]
  /\ cache \in [Calls -> BOOLEAN] /\ answer \in [Calls -> Int]
  /\ fin \in [Calls -> {"none", "release", "unregister", "done"}]
  /\ arrival \in [Calls -> {"none", "asked", "found", "cached", "seen"}]
  /\ copy \in [Calls \cup {Closer} -> BOOLEAN] /\ twice \subseteq Calls
EndType ==
  /\ epc \in {"open", "seal", "loop", "handlers", "stopping", "returned"}
  /\ todo \subseteq Calls /\ cur \in Calls \cup {Old} /\ (epc = "stopping" => cur \in Calls)
Types == CallType /\ LeaseType /\ IdType /\ SendType /\ BackType /\ EndType

\* Tickets that are left and calls that were allowed: no more than were granted.
LeaseInv == allowed <= granted /\ allowed + tickets <= granted

----------------------------------------------------------------------------
(* The stream ids *)

\* the calls that have no id yet
NotYet == {"start", "deadline", "ticket", "closed?", "id"}
Picked(c) == pc[c] \notin NotYet

\* the call has a callback, from its registration on; it is about to have one
Open(c)  == sink[c] # "none" /\ fin[c] # "done"
Alive(c) == pc[c] = "register" \/ Open(c)

\* a metadata push has no id; only a request-response and a stream have a callback
\* here, after their id, and it ends once
Stages ==
  \A c \in Calls :
    /\ pc[c] \in {"deadline", "ticket", "id", "incref"} => kind[c] # "push"
    /\ pc[c] \in {"register", "demand", "kill", "killed"} => Answerable(c)
    /\ pc[c] = "register" \/ sink[c] # "none" => kind[c] \in {"response", "stream"}
    /\ pc[c] \in NotYet \cup {"register"} => sink[c] = "none"
    /\ sink[c] \in {"none", "open"} <=> fin[c] = "none"

\* the ids are more than there are streams
Few == IsFiniteSet(older) /\ Cardinality(older) + Cardinality(Calls) <= HalfSeed

Owners ==
  /\ \A m \in messages : \/ m[2] = Old /\ m[1] \in older
                         \/ m[2] \in Calls /\ m[1] = sid[m[2]] /\ Picked(m[2])
  /\ \A m, n \in messages : m[1] = n[1] => m = n
  /\ \A i \in older : <<i, Old>> \in messages
  /\ \A c \in Calls : Open(c) => <<sid[c], c>> \in messages

Apart ==
  /\ \A c \in Calls : Alive(c) => sid[c] \notin older
  /\ \A c, d \in Calls : c # d /\ Alive(c) /\ Alive(d) => sid[c] # sid[d]

\* the seed, within the lap; the next; those after the k-th up to the r-th
Turn(s)     == IF s = 0 THEN HalfSeed ELSE IF s > HalfSeed THEN s - HalfSeed ELSE s
NextTurn(r) == IF r = HalfSeed THEN 1 ELSE r + 1
Since(k, r) == IF k <= r THEN (k + 1)..r ELSE ((k + 1)..HalfSeed) \cup (1..r)

\* in the first lap every id is of a seed that was used
FirstIds ==
  seed <= HalfSeed =>
    /\ \A i \in older : \E r \in 1..seed : i = IdOf(r)
    /\ \A c \in Calls : Alive(c) => \E r \in 1..seed : sid[c] = IdOf(r)

InUse(i) == i \in older \/ \E e \in Calls : Picked(e) /\ i = sid[e]

\* the ids since one that is not yet in the table were in use: the seed does not
\* come round to it before it is
Window ==
  \A d \in Calls : pc[d] = "register" =>
    \E k \in 1..HalfSeed : sid[d] = IdOf(k) /\ \A j \in Since(k, Turn(seed)) : InUse(IdOf(j))

IdInv == Stages /\ Few /\ Owners /\ Apart /\ FirstIds /\ Window

----------------------------------------------------------------------------
(* The references *)

Early(c) == kind[c] = "fnf" /\ split[c]

\* the call has a reference besides its caller's; the last frame in the queue has
Holding(c) ==
  /\ kind[c] # "push" /\ pc[c] \in {"send", "put", "next", "kill", "killed"}
  /\ IF Early(c) THEN frag[c] = 1 \/ pc[c] = "send"
                 ELSE frag[c] < Fragments(c) \/ pc[c] \in {"send", "put"}
Waiting(c) == \E p \in 1..Len(queue) : queue[p].call = c /\ queue[p].hook

\* the call is past its last frame, or past its first one
LastGone(c)  == pc[c] = "returned" /\ arrival[c] = "none"
FirstGone(c) ==
  /\ pc[c] \in {"send", "put", "next", "kill", "killed", "returned"}
  /\ frag[c] = 1 => pc[c] \notin {"send", "put"}

\* frames are queued in their order, each once; the last one when its call returns
FrameGone(f) ==
  /\ f.i <= Fragments(f.call) /\ (f.hook <=> Hooked(f.call, f.i))
  /\ IF f.i = Fragments(f.call) THEN LastGone(f.call) ELSE FirstGone(f.call)
Queued ==
  /\ \A p \in 1..Len(queue) : FrameGone(queue[p])
  /\ \A p, q \in 1..Len(queue) : p < q /\ queue[p].call = queue[q].call => queue[p].i < queue[q].i

\* while the socket is open, the frames of a split request have their payload
Covered ==
  \A p \in 1..Len(queue) : LET c == queue[p].call IN
    Answerable(c) /\ ~closed => Holding(c) \/ Waiting(c)

\* what a payload is referred to by: its caller, its call, a frame in the queue
Owed(c) == refs[c] - (IF owned[c] THEN 1 ELSE 0) - (IF Holding(c) THEN 1 ELSE 0)
Lent    == \A c \in Calls : ~owned[c] => pc[c] = "returned"
Counted == \A c \in Calls : Owed(c) = IF Waiting(c) THEN 1 ELSE 0

ClosingInv == (sealed => closed) /\ (epc # "open" <=> closed)

RefInv == Queued /\ Covered /\ Lent /\ Counted /\ ClosingInv

----------------------------------------------------------------------------
(* The answers *)

\* nothing is cached before the answer; a payload of it was released at most
\* once by onFinally and once by stopWithError
Answered(c) ==
  /\ arrival[c] # "none" => pc[c] = "returned" /\ kind[c] \in {"response", "stream"}
  /\ kind[c] # "response" => answer[c] = 0 /\ ~cache[c] /\ arrival[c] # "cached"
  /\ arrival[c] \in {"none", "asked"} => answer[c] = 0 /\ ~cache[c]
  /\ arrival[c] = "found" => (kind[c] = "response" => answer[c] = 1) /\ ~cache[c]
  /\ arrival[c] = "cached" => cache[c]
  /\ sink[c] = "success" /\ kind[c] = "response" => cache[c]
  /\ ~cache[c] => answer[c] \in 0..1
  /\ cache[c] => answer[c] <= 1 /\
       answer[c] >= 1 - (IF fin[c] \in {"unregister", "done"} THEN 1 ELSE 0) - (IF c \in twice THEN 1 ELSE 0)
  /\ sink[c] = "success" /\ fin[c] \in {"unregister", "done"} => answer[c] <= 0

\* a call that failed has no answer to release, Close stops each callback once
Stops ==
  /\ \A c \in Calls : ~copy[c]
  /\ copy[Closer] => epc = "stopping" /\ cache[cur] /\ cur \notin twice
  /\ \A c \in twice : epc \notin {"open", "seal", "loop"} /\ c \notin todo
  /\ epc = "stopping" => cur \notin todo

AnswerInv == (\A c \in Calls : Answered(c)) /\ Stops

----------------------------------------------------------------------------
(* Ids and queues *)

\* The id of a seed is that of its turn, and each turn of a lap has its own.
LEMMA IdAt ==
  ASSUME NEW s \in 1..(2 * HalfSeed)
  PROVE  Turn(s) \in 1..HalfSeed /\ IdOf(s) = IdOf(Turn(s)) /\ IdOf(s) \in Ids
<1> DEFINE H == HalfSeed
<1>1. H \in Nat \ {0} /\ s \in 1..(2 * H) /\ IsServer \in BOOLEAN
  BY RequesterAssumption
<1> HIDE DEF H
<1>2. IdOf(s) \in 0..(2 * H - 1)
  <2>1. \A x \in Int : x % (2 * H) \in 0..(2 * H - 1)
    BY <1>1
  <2>2. 2 * s \in Int /\ 2 * s - 1 \in Int
    BY <1>1
  <2> QED BY <2>1, <2>2 DEF IdOf, H
<1>3. CASE s <= H
  BY <1>1, <1>2, <1>3 DEF Turn, Ids, H
<1>4. CASE s > H
  <2> DEFINE r == s - H
  <2>1. r \in 1..H /\ Turn(s) = r
    BY <1>1, <1>4 DEF Turn, H
  <2> DEFINE n == 2 * H
  <2>2. n \in Nat \ {0} /\ 2 * s = 2 * r + n /\ 2 * s - 1 = (2 * r - 1) + n
    BY <1>1
  <2>3. 2 * r - 1 \in 0..(n - 1) /\ (r # H => 2 * r \in 0..(n - 1)) /\ (r = H => 2 * r = n)
    BY <1>1, <2>1
  <2> HIDE DEF r, n
  <2>4. \A x \in 0..(n - 1) : x % n = x
    BY <2>2
  <2>5. \A x \in 0..(n - 1) : (x + n) % n = x
    BY <2>2
  <2>6. n % n = 0 /\ (n + n) % n = 0
    BY <2>2
  <2>7. (2 * s) % n = (2 * r) % n /\ (2 * s - 1) % n = (2 * r - 1) % n
    BY <2>2, <2>3, <2>4, <2>5, <2>6
  <2>8. IdOf(s) = IdOf(r)
    BY <2>7 DEF IdOf, H, n
  <2> QED BY <1>2, <2>1, <2>8 DEF Ids, H
<1> QED BY <1>1, <1>3, <1>4

\* Two turns of a lap have different ids.
LEMMA IdsDiffer ==
  ASSUME NEW r \in 1..HalfSeed, NEW q \in 1..HalfSeed, IdOf(r) = IdOf(q)
  PROVE  r = q
<1> DEFINE H == HalfSeed
<1>1. H \in Nat \ {0} /\ r \in 1..H /\ q \in 1..H /\ IsServer \in BOOLEAN
  BY RequesterAssumption
<1> HIDE DEF H
<1>2. \A x \in 1..H : IdOf(x) = IF IsServer THEN (IF x = H THEN 0 ELSE 2 * x) ELSE 2 * x - 1
  <2> TAKE x \in 1..H
  <2>1. \A n \in Nat \ {0}, i \in Nat : (i < n => i % n = i) /\ n % n = 0
    OBVIOUS
  <2>2. 2 * H \in Nat \ {0} /\ 2 * x \in Nat /\ 2 * x - 1 \in Nat /\ 2 * x - 1 < 2 * H /\ (x # H => 2 * x < 2 * H)
    BY <1>1
  <2>3. (2 * x - 1) % (2 * H) = 2 * x - 1 /\ (x # H => (2 * x) % (2 * H) = 2 * x) /\ (2 * H) % (2 * H) = 0
    BY <2>1, <2>2
  <2> QED BY <2>3 DEF IdOf, H
<1> QED BY <1>1, <1>2

\* The frames that stay in the queue are frames, and so is one that comes.
LEMMA QueueTypes ==
  ASSUME queue \in Seq(QFrame)
  PROVE  /\ \A f \in QFrame : Append(queue, f) \in Seq(QFrame)
         /\ queue # <<>> => Tail(queue) \in Seq(QFrame) /\ Head(queue) \in QFrame
OBVIOUS

----------------------------------------------------------------------------
(* The types *)

\* Each step keeps the types, part by part.
LEMMA CallTypeStep == CallType /\ [Next]_vars => CallType'
<1> SUFFICES ASSUME CallType, [Next]_vars PROVE CallType'
  OBVIOUS
<1> USE DEF vars, callVars, leaseVars, idVars, memVars, sendVars, backVars, endVars, CallType, PCs, Kinds,
    Fragments
<1>1. CASE LeaseStep
  BY <1>1 DEF LeaseStep, RefreshDeadline, RefreshTickets, RefreshInit, Expire
<1>2. ASSUME NEW c \in Calls, Start(c) \/ TestDeadline(c) \/ TakeTicket(c) \/ TestClosed(c) PROVE CallType'
  BY <1>2 DEF Start, TestDeadline, TakeTicket, TestClosed, Refused, Goto, NoneLeft
<1>3. ASSUME NEW c \in Calls, NextStreamID(c) PROVE CallType'
  BY <1>3 DEF NextStreamID, AfterId, Goto
<1>4. ASSUME NEW c \in Calls, Register(c) PROVE CallType'
  BY <1>4 DEF Register, Goto
<1>5. ASSUME NEW c \in Calls, Demand(c) \/ IncRef(c) PROVE CallType'
  BY <1>5 DEF Demand, IncRef, Goto
<1>6. ASSUME NEW c \in Calls, SendClosed(c) PROVE CallType'
  BY <1>6 DEF SendClosed, Goto, After, Answerable, Resumed, Dropped, Done, Frame
<1>7. ASSUME NEW c \in Calls, Put(c) PROVE CallType'
  BY <1>7 DEF Put, Goto, After, Answerable, Resumed, Done, Frame
<1>8. ASSUME NEW c \in Calls, NextFragment(c) PROVE CallType'
  BY <1>8 DEF NextFragment, Goto
<1>9. ASSUME NEW c \in Calls, Kill(c) PROVE CallType'
  BY <1>9 DEF Kill, Goto, Resumed, Stop, Terminated
<1>10. ASSUME NEW c \in Calls, Killed(c) PROVE CallType'
  BY <1>10 DEF Killed, Goto, Resumed, Stopped
<1>11. ASSUME NEW c \in Calls, OwnerRelease(c) PROVE CallType'
  BY <1>11 DEF OwnerRelease
<1>12. CASE WriteOne
  BY <1>12 DEF WriteOne, Done
<1>13. ASSUME NEW c \in Calls, Arrive(c) \/ Cache(c) \/ Success(c) \/ Cancel(c) PROVE CallType'
  BY <1>13 DEF Arrive, Cache, Success, Cancel, Terminated
<1>14. ASSUME NEW c \in Calls, Finally(c) \/ Unregister(c) PROVE CallType'
  BY <1>14 DEF Finally, Unregister
<1>15. CASE Close \/ Seal \/ LoopEnded
  BY <1>15 DEF Close, Seal, LoopEnded
<1>16. ASSUME NEW c \in Calls, StopNext(c) PROVE CallType'
  BY <1>16 DEF StopNext, Stop, Terminated
<1>17. CASE StopOver
  BY <1>17 DEF StopOver, Stopped
<1>18. CASE DestroySndQueue
  BY <1>18 DEF DestroySndQueue, Done
<1>19. CASE UNCHANGED vars
  BY <1>19
<1> QED
  BY <1>1, <1>2, <1>3, <1>4, <1>5, <1>6, <1>7, <1>8, <1>9, <1>10, <1>11, <1>12,
     <1>13, <1>14, <1>15, <1>16, <1>17, <1>18, <1>19 DEF Next, CallStep, AnswerStep, CloseStep

LEMMA LeaseTypeStep == LeaseType /\ [Next]_vars => LeaseType'
<1> SUFFICES ASSUME LeaseType, [Next]_vars PROVE LeaseType'
  OBVIOUS
<1> USE DEF vars, callVars, leaseVars, idVars, memVars, sendVars, backVars, endVars, LeaseType
<1>1. CASE LeaseStep
  <2>1. MaxLeases \in Nat /\ Tickets \in Nat
    BY RequesterAssumption
  <2>2. CASE RefreshDeadline
    BY <2>1, <2>2 DEF RefreshDeadline
  <2>3. CASE RefreshTickets
    BY <2>1, <2>3 DEF RefreshTickets
  <2>4. CASE RefreshInit
    BY <2>1, <2>4 DEF RefreshInit
  <2>5. CASE Expire
    BY <2>1, <2>5 DEF Expire
  <2> QED BY <1>1, <2>2, <2>3, <2>4, <2>5 DEF LeaseStep
<1>2. ASSUME NEW c \in Calls, Start(c) \/ TestDeadline(c) \/ TakeTicket(c) \/ TestClosed(c) PROVE LeaseType'
  BY <1>2 DEF Start, TestDeadline, TakeTicket, TestClosed, Refused, Goto, NoneLeft
<1>3. ASSUME NEW c \in Calls, NextStreamID(c) PROVE LeaseType'
  BY <1>3 DEF NextStreamID, AfterId, Goto
<1>4. ASSUME NEW c \in Calls, Register(c) PROVE LeaseType'
  BY <1>4 DEF Register, Goto
<1>5. ASSUME NEW c \in Calls, Demand(c) \/ IncRef(c) PROVE LeaseType'
  BY <1>5 DEF Demand, IncRef, Goto
<1>6. ASSUME NEW c \in Calls, SendClosed(c) PROVE LeaseType'
  BY <1>6 DEF SendClosed, Goto, After, Answerable, Resumed, Dropped, Done, Frame
<1>7. ASSUME NEW c \in Calls, Put(c) PROVE LeaseType'
  BY <1>7 DEF Put, Goto, After, Answerable, Resumed, Done, Frame
<1>8. ASSUME NEW c \in Calls, NextFragment(c) PROVE LeaseType'
  BY <1>8 DEF NextFragment, Goto
<1>9. ASSUME NEW c \in Calls, Kill(c) PROVE LeaseType'
  BY <1>9 DEF Kill, Goto, Resumed, Stop, Terminated
<1>10. ASSUME NEW c \in Calls, Killed(c) PROVE LeaseType'
  BY <1>10 DEF Killed, Goto, Resumed, Stopped
<1>11. ASSUME NEW c \in Calls, OwnerRelease(c) PROVE LeaseType'
  BY <1>11 DEF OwnerRelease
<1>12. CASE WriteOne
  BY <1>12 DEF WriteOne, Done
<1>13. ASSUME NEW c \in Calls, Arrive(c) \/ Cache(c) \/ Success(c) \/ Cancel(c) PROVE LeaseType'
  BY <1>13 DEF Arrive, Cache, Success, Cancel, Terminated
<1>14. ASSUME NEW c \in Calls, Finally(c) \/ Unregister(c) PROVE LeaseType'
  BY <1>14 DEF Finally, Unregister
<1>15. CASE Close \/ Seal \/ LoopEnded
  BY <1>15 DEF Close, Seal, LoopEnded
<1>16. ASSUME NEW c \in Calls, StopNext(c) PROVE LeaseType'
  BY <1>16 DEF StopNext, Stop, Terminated
<1>17. CASE StopOver
  BY <1>17 DEF StopOver, Stopped
<1>18. CASE DestroySndQueue
  BY <1>18 DEF DestroySndQueue, Done
<1>19. CASE UNCHANGED vars
  BY <1>19
<1> QED
  BY <1>1, <1>2, <1>3, <1>4, <1>5, <1>6, <1>7, <1>8, <1>9, <1>10, <1>11, <1>12,
     <1>13, <1>14, <1>15, <1>16, <1>17, <1>18, <1>19 DEF Next, CallStep, AnswerStep, CloseStep

LEMMA IdTypeStep == IdType /\ CallType /\ [Next]_vars => IdType'
<1> SUFFICES ASSUME IdType, CallType, [Next]_vars PROVE IdType'
  OBVIOUS
<1> USE DEF vars, callVars, leaseVars, idVars, memVars, sendVars, backVars, endVars, IdType, CallType
<1>1. CASE LeaseStep
  BY <1>1 DEF LeaseStep, RefreshDeadline, RefreshTickets, RefreshInit, Expire
<1>2. ASSUME NEW c \in Calls, Start(c) \/ TestDeadline(c) \/ TakeTicket(c) \/ TestClosed(c) PROVE IdType'
  BY <1>2 DEF Start, TestDeadline, TakeTicket, TestClosed, Refused, Goto, NoneLeft
<1>3. ASSUME NEW c \in Calls, NextStreamID(c) PROVE IdType'
  <2> DEFINE s == IF seed = 2 * HalfSeed THEN HalfSeed + 1 ELSE seed + 1
  <2>1. s \in 1..(2 * HalfSeed)
    BY RequesterAssumption
  <2>2. IdOf(s) \in Ids
    BY <2>1, IdAt
  <2>3. seed' = s /\ (sid' = sid \/ sid' = [sid EXCEPT ![c] = IdOf(s)]) /\ UNCHANGED <<older, messages>>
    BY <1>3 DEF NextStreamID
  <2> HIDE DEF s
  <2>4. s \in 0..(2 * HalfSeed)
    BY <2>1
  <2> QED BY <2>2, <2>3, <2>4
<1>4. ASSUME NEW c \in Calls, Register(c) PROVE IdType'
  BY <1>4 DEF Register, Goto
<1>5. ASSUME NEW c \in Calls, Demand(c) \/ IncRef(c) PROVE IdType'
  BY <1>5 DEF Demand, IncRef, Goto
<1>6. ASSUME NEW c \in Calls, SendClosed(c) PROVE IdType'
  BY <1>6 DEF SendClosed, Goto, After, Answerable, Resumed, Dropped, Done, Frame
<1>7. ASSUME NEW c \in Calls, Put(c) PROVE IdType'
  BY <1>7 DEF Put, Goto, After, Answerable, Resumed, Done, Frame
<1>8. ASSUME NEW c \in Calls, NextFragment(c) PROVE IdType'
  BY <1>8 DEF NextFragment, Goto
<1>9. ASSUME NEW c \in Calls, Kill(c) PROVE IdType'
  BY <1>9 DEF Kill, Goto, Resumed, Stop, Terminated
<1>10. ASSUME NEW c \in Calls, Killed(c) PROVE IdType'
  BY <1>10 DEF Killed, Goto, Resumed, Stopped
<1>11. ASSUME NEW c \in Calls, OwnerRelease(c) PROVE IdType'
  BY <1>11 DEF OwnerRelease
<1>12. CASE WriteOne
  BY <1>12 DEF WriteOne, Done
<1>13. ASSUME NEW c \in Calls, Arrive(c) \/ Cache(c) \/ Success(c) \/ Cancel(c) PROVE IdType'
  BY <1>13 DEF Arrive, Cache, Success, Cancel, Terminated
<1>14. ASSUME NEW c \in Calls, Finally(c) \/ Unregister(c) PROVE IdType'
  BY <1>14 DEF Finally, Unregister
<1>15. CASE Close \/ Seal \/ LoopEnded
  BY <1>15 DEF Close, Seal, LoopEnded
<1>16. ASSUME NEW c \in Calls, StopNext(c) PROVE IdType'
  BY <1>16 DEF StopNext, Stop, Terminated
<1>17. CASE StopOver
  BY <1>17 DEF StopOver, Stopped
<1>18. CASE DestroySndQueue
  BY <1>18 DEF DestroySndQueue, Done
<1>19. CASE UNCHANGED vars
  BY <1>19
<1> QED
  BY <1>1, <1>2, <1>3, <1>4, <1>5, <1>6, <1>7, <1>8, <1>9, <1>10, <1>11, <1>12,
     <1>13, <1>14, <1>15, <1>16, <1>17, <1>18, <1>19 DEF Next, CallStep, AnswerStep, CloseStep

LEMMA SendTypeStep == SendType /\ CallType /\ [Next]_vars => SendType'
<1> SUFFICES ASSUME SendType, CallType, [Next]_vars PROVE SendType'
  OBVIOUS
<1> USE DEF vars, callVars, leaseVars, idVars, memVars, sendVars, backVars, endVars, SendType, CallType,
    Fragments, Hooked
<1>1. CASE LeaseStep
  BY <1>1 DEF LeaseStep, RefreshDeadline, RefreshTickets, RefreshInit, Expire
<1>2. ASSUME NEW c \in Calls, Start(c) \/ TestDeadline(c) \/ TakeTicket(c) \/ TestClosed(c) PROVE SendType'
  BY <1>2 DEF Start, TestDeadline, TakeTicket, TestClosed, Refused, Goto, NoneLeft
<1>3. ASSUME NEW c \in Calls, NextStreamID(c) PROVE SendType'
  BY <1>3 DEF NextStreamID, AfterId, Goto
<1>4. ASSUME NEW c \in Calls, Register(c) PROVE SendType'
  BY <1>4 DEF Register, Goto
<1>5. ASSUME NEW c \in Calls, Demand(c) \/ IncRef(c) PROVE SendType'
  BY <1>5 DEF Demand, IncRef, Goto
<1>6. ASSUME NEW c \in Calls, SendClosed(c) PROVE SendType'
  BY <1>6 DEF SendClosed, Goto, After, Answerable, Resumed, Dropped, Done, Frame
<1>7. ASSUME NEW c \in Calls, Put(c) PROVE SendType'
  <2>1. Frame(c) \in QFrame
    BY DEF Frame, QFrame, Kinds
  <2>2. Append(queue, Frame(c)) \in Seq(QFrame)
    BY <2>1, QueueTypes
  <2>3. Done(Frame(c)) \in [Calls -> Int]
    BY <2>1 DEF Done, QFrame
  <2> QED BY <1>7, <2>2, <2>3 DEF Put
<1>8. ASSUME NEW c \in Calls, NextFragment(c) PROVE SendType'
  BY <1>8 DEF NextFragment, Goto
<1>9. ASSUME NEW c \in Calls, Kill(c) PROVE SendType'
  BY <1>9 DEF Kill, Goto, Resumed, Stop, Terminated
<1>10. ASSUME NEW c \in Calls, Killed(c) PROVE SendType'
  BY <1>10 DEF Killed, Goto, Resumed, Stopped
<1>11. ASSUME NEW c \in Calls, OwnerRelease(c) PROVE SendType'
  BY <1>11 DEF OwnerRelease
<1>12. CASE WriteOne
  <2>1. Tail(queue) \in Seq(QFrame) /\ Head(queue) \in QFrame
    BY <1>12, QueueTypes DEF WriteOne
  <2>2. Done(Head(queue)) \in [Calls -> Int]
    BY <2>1 DEF Done, QFrame
  <2> QED BY <1>12, <2>1, <2>2 DEF WriteOne
<1>13. ASSUME NEW c \in Calls, Arrive(c) \/ Cache(c) \/ Success(c) \/ Cancel(c) PROVE SendType'
  BY <1>13 DEF Arrive, Cache, Success, Cancel, Terminated
<1>14. ASSUME NEW c \in Calls, Finally(c) \/ Unregister(c) PROVE SendType'
  BY <1>14 DEF Finally, Unregister
<1>15. CASE Close \/ Seal \/ LoopEnded
  BY <1>15 DEF Close, Seal, LoopEnded
<1>16. ASSUME NEW c \in Calls, StopNext(c) PROVE SendType'
  BY <1>16 DEF StopNext, Stop, Terminated
<1>17. CASE StopOver
  BY <1>17 DEF StopOver, Stopped
<1>18. CASE DestroySndQueue
  <2>1. queue # <<>> => Tail(queue) \in Seq(QFrame) /\ Head(queue) \in QFrame
    BY QueueTypes
  <2>2. queue # <<>> => Done(Head(queue)) \in [Calls -> Int]
    BY <2>1 DEF Done, QFrame
  <2> QED BY <1>18, <2>1, <2>2 DEF DestroySndQueue
<1>19. CASE UNCHANGED vars
  BY <1>19
<1> QED
  BY <1>1, <1>2, <1>3, <1>4, <1>5, <1>6, <1>7, <1>8, <1>9, <1>10, <1>11, <1>12,
     <1>13, <1>14, <1>15, <1>16, <1>17, <1>18, <1>19 DEF Next, CallStep, AnswerStep, CloseStep

LEMMA BackTypeStep == BackType /\ EndType /\ [Next]_vars => BackType'
<1> SUFFICES ASSUME BackType, EndType, [Next]_vars PROVE BackType'
  OBVIOUS
<1> USE DEF vars, callVars, leaseVars, idVars, memVars, sendVars, backVars, endVars, BackType, EndType
<1>1. CASE LeaseStep
  BY <1>1 DEF LeaseStep, RefreshDeadline, RefreshTickets, RefreshInit, Expire
<1>2. ASSUME NEW c \in Calls, Start(c) \/ TestDeadline(c) \/ TakeTicket(c) \/ TestClosed(c) PROVE BackType'
  BY <1>2 DEF Start, TestDeadline, TakeTicket, TestClosed, Refused, Goto, NoneLeft
<1>3. ASSUME NEW c \in Calls, NextStreamID(c) PROVE BackType'
  BY <1>3 DEF NextStreamID, AfterId, Goto
<1>4. ASSUME NEW c \in Calls, Register(c) PROVE BackType'
  BY <1>4 DEF Register, Goto
<1>5. ASSUME NEW c \in Calls, Demand(c) \/ IncRef(c) PROVE BackType'
  BY <1>5 DEF Demand, IncRef, Goto
<1>6. ASSUME NEW c \in Calls, SendClosed(c) PROVE BackType'
  BY <1>6 DEF SendClosed, Goto, After, Answerable, Resumed, Dropped, Done, Frame
<1>7. ASSUME NEW c \in Calls, Put(c) PROVE BackType'
  BY <1>7 DEF Put, Goto, After, Answerable, Resumed, Done, Frame
<1>8. ASSUME NEW c \in Calls, NextFragment(c) PROVE BackType'
  BY <1>8 DEF NextFragment, Goto
<1>9. ASSUME NEW c \in Calls, Kill(c) PROVE BackType'
  BY <1>9 DEF Kill, Goto, Resumed, Stop, Terminated
<1>10. ASSUME NEW c \in Calls, Killed(c) PROVE BackType'
  BY <1>10 DEF Killed, Goto, Resumed, Stopped
<1>11. ASSUME NEW c \in Calls, OwnerRelease(c) PROVE BackType'
  BY <1>11 DEF OwnerRelease
<1>12. CASE WriteOne
  BY <1>12 DEF WriteOne, Done
<1>13. ASSUME NEW c \in Calls, Arrive(c) \/ Cache(c) \/ Success(c) \/ Cancel(c) PROVE BackType'
  <2>1. CASE Arrive(c)
    BY <2>1 DEF Arrive
  <2>2. CASE Cache(c) \/ Success(c) \/ Cancel(c)
    BY <2>2 DEF Cache, Success, Cancel, Terminated
  <2> QED BY <1>13, <2>1, <2>2
<1>14. ASSUME NEW c \in Calls, Finally(c) \/ Unregister(c) PROVE BackType'
  BY <1>14 DEF Finally, Unregister
<1>15. CASE Close \/ Seal \/ LoopEnded
  BY <1>15 DEF Close, Seal, LoopEnded
<1>16. ASSUME NEW c \in Calls, StopNext(c) PROVE BackType'
  BY <1>16 DEF StopNext, Stop, Terminated
<1>17. CASE StopOver
  BY <1>17 DEF StopOver, Stopped
<1>18. CASE DestroySndQueue
  BY <1>18 DEF DestroySndQueue, Done
<1>19. CASE UNCHANGED vars
  BY <1>19
<1> QED
  BY <1>1, <1>2, <1>3, <1>4, <1>5, <1>6, <1>7, <1>8, <1>9, <1>10, <1>11, <1>12,
     <1>13, <1>14, <1>15, <1>16, <1>17, <1>18, <1>19 DEF Next, CallStep, AnswerStep, CloseStep

LEMMA EndTypeStep == EndType /\ IdType /\ [Next]_vars => EndType'
<1> SUFFICES ASSUME EndType, IdType, [Next]_vars PROVE EndType'
  OBVIOUS
<1> USE DEF vars, callVars, leaseVars, idVars, memVars, sendVars, backVars, endVars, EndType, IdType
<1>1. CASE LeaseStep
  BY <1>1 DEF LeaseStep, RefreshDeadline, RefreshTickets, RefreshInit, Expire
<1>2. ASSUME NEW c \in Calls, Start(c) \/ TestDeadline(c) \/ TakeTicket(c) \/ TestClosed(c) PROVE EndType'
  BY <1>2 DEF Start, TestDeadline, TakeTicket, TestClosed, Refused, Goto, NoneLeft
<1>3. ASSUME NEW c \in Calls, NextStreamID(c) PROVE EndType'
  BY <1>3 DEF NextStreamID, AfterId, Goto
<1>4. ASSUME NEW c \in Calls, Register(c) PROVE EndType'
  BY <1>4 DEF Register, Goto
<1>5. ASSUME NEW c \in Calls, Demand(c) \/ IncRef(c) PROVE EndType'
  BY <1>5 DEF Demand, IncRef, Goto
<1>6. ASSUME NEW c \in Calls, SendClosed(c) PROVE EndType'
  BY <1>6 DEF SendClosed, Goto, After, Answerable, Resumed, Dropped, Done, Frame
<1>7. ASSUME NEW c \in Calls, Put(c) PROVE EndType'
  BY <1>7 DEF Put, Goto, After, Answerable, Resumed, Done, Frame
<1>8. ASSUME NEW c \in Calls, NextFragment(c) PROVE EndType'
  BY <1>8 DEF NextFragment, Goto
<1>9. ASSUME NEW c \in Calls, Kill(c) PROVE EndType'
  BY <1>9 DEF Kill, Goto, Resumed, Stop, Terminated
<1>10. ASSUME NEW c \in Calls, Killed(c) PROVE EndType'
  BY <1>10 DEF Killed, Goto, Resumed, Stopped
<1>11. ASSUME NEW c \in Calls, OwnerRelease(c) PROVE EndType'
  BY <1>11 DEF OwnerRelease
<1>12. CASE WriteOne
  BY <1>12 DEF WriteOne, Done
<1>13. ASSUME NEW c \in Calls, Arrive(c) \/ Cache(c) \/ Success(c) \/ Cancel(c) PROVE EndType'
  BY <1>13 DEF Arrive, Cache, Success, Cancel, Terminated
<1>14. ASSUME NEW c \in Calls, Finally(c) \/ Unregister(c) PROVE EndType'
  BY <1>14 DEF Finally, Unregister
<1>15. CASE Close \/ Seal \/ LoopEnded
  BY <1>15 DEF Close, Seal, LoopEnded
<1>16. ASSUME NEW c \in Calls, StopNext(c) PROVE EndType'
  BY <1>16 DEF StopNext, Stop, Terminated
<1>17. CASE StopOver
  BY <1>17 DEF StopOver, Stopped
<1>18. CASE DestroySndQueue
  BY <1>18 DEF DestroySndQueue, Done
<1>19. CASE UNCHANGED vars
  BY <1>19
<1> QED
  BY <1>1, <1>2, <1>3, <1>4, <1>5, <1>6, <1>7, <1>8, <1>9, <1>10, <1>11, <1>12,
     <1>13, <1>14, <1>15, <1>16, <1>17, <1>18, <1>19 DEF Next, CallStep, AnswerStep, CloseStep

LEMMA TypesStep == Types /\ [Next]_vars => Types'
  BY CallTypeStep, LeaseTypeStep, IdTypeStep, SendTypeStep, BackTypeStep, EndTypeStep DEF Types

LEMMA TypesInit == Init => Types
<1> SUFFICES ASSUME Init PROVE Types
  OBVIOUS
<1>1. PICK s \in Starts : kind = s.kind /\ split = s.split /\ leased = s.leased /\ seed = s.seed
                         /\ older = s.live /\ messages = {<<i, Old>> : i \in s.live}
  BY DEF Init
<1>2. Situation(s)
  BY RequesterAssumption
<1>3. CallType
  BY <1>1, <1>2 DEF Init, CallType, Situation, PCs, Fragments
<1>4. LeaseType
  <2>1. 0 \in 0..MaxLeases /\ 0 \in Int /\ 0 \in Nat
    BY RequesterAssumption
  <2>2. leased \in BOOLEAN
    BY <1>1, <1>2 DEF Situation
  <2> QED BY <2>1, <2>2 DEF Init, LeaseType
<1>5. IdType
  <2>1. \A i \in 1..s.seed : IdOf(i) \in Ids
    <3>1. s.seed \in 0..(2 * HalfSeed)
      BY <1>2 DEF Situation
    <3>2. \A i \in 1..s.seed : i \in 1..(2 * HalfSeed)
      BY <3>1, RequesterAssumption
    <3> QED BY <3>2, IdAt
  <2>2. older \subseteq Ids
    BY <1>1, <1>2, <2>1 DEF Situation
  <2>3. messages \subseteq Ids \X (Calls \cup {Old})
    BY <1>1, <2>2
  <2>4. 0 \in Ids
    BY RequesterAssumption DEF Ids
  <2> QED BY <1>1, <1>2, <2>2, <2>3, <2>4 DEF Init, IdType, Situation
<1>6. SendType
  <2>1. queue \in Seq(QFrame)
    BY DEF Init
  <2>2. refs \in [Calls -> Int] /\ owned \in [Calls -> BOOLEAN]
    BY DEF Init
  <2>3. closed \in BOOLEAN /\ sealed \in BOOLEAN
    BY DEF Init
  <2> QED BY <2>1, <2>2, <2>3 DEF SendType
<1>7. BackType
  BY DEF Init, BackType
<1>8. EndType
  BY DEF Init, EndType
<1> QED BY <1>3, <1>4, <1>5, <1>6, <1>7, <1>8 DEF Types

LEMMA TypesShow == Types => TypeOK
  BY DEF Types, CallType, LeaseType, IdType, SendType, BackType, EndType, TypeOK, PCs, QFrame

\* A call is allowed only for a ticket that was there; a lease that comes replaces what
\* is left of the one before, and never adds to it.
LEMMA LeaseInvStep == LeaseType /\ LeaseInv /\ [Next]_vars => LeaseInv'
<1> SUFFICES ASSUME LeaseType, LeaseInv, [Next]_vars PROVE LeaseInv'
  OBVIOUS
<1> USE DEF vars, callVars, leaseVars, idVars, memVars, sendVars, backVars, endVars, LeaseType, LeaseInv
<1>1. CASE LeaseStep
  <2>1. CASE RefreshTickets
    BY <2>1, RequesterAssumption DEF RefreshTickets
  <2>2. CASE RefreshDeadline \/ RefreshInit \/ Expire
    BY <2>2 DEF RefreshDeadline, RefreshInit, Expire
  <2> QED BY <1>1, <2>1, <2>2 DEF LeaseStep
<1>2. ASSUME NEW c \in Calls, Start(c) \/ TestDeadline(c) \/ TakeTicket(c) \/ TestClosed(c) PROVE LeaseInv'
  BY <1>2 DEF Start, TestDeadline, TakeTicket, TestClosed, Refused, Goto, NoneLeft
<1>3. ASSUME NEW c \in Calls, NextStreamID(c) PROVE LeaseInv'
  BY <1>3 DEF NextStreamID, AfterId, Goto
<1>4. ASSUME NEW c \in Calls, Register(c) PROVE LeaseInv'
  BY <1>4 DEF Register, Goto
<1>5. ASSUME NEW c \in Calls, Demand(c) \/ IncRef(c) PROVE LeaseInv'
  BY <1>5 DEF Demand, IncRef, Goto
<1>6. ASSUME NEW c \in Calls, SendClosed(c) PROVE LeaseInv'
  BY <1>6 DEF SendClosed, Goto, After, Answerable, Resumed, Dropped, Done, Frame
<1>7. ASSUME NEW c \in Calls, Put(c) PROVE LeaseInv'
  BY <1>7 DEF Put, Goto, After, Answerable, Resumed, Done, Frame
<1>8. ASSUME NEW c \in Calls, NextFragment(c) PROVE LeaseInv'
  BY <1>8 DEF NextFragment, Goto
<1>9. ASSUME NEW c \in Calls, Kill(c) PROVE LeaseInv'
  BY <1>9 DEF Kill, Goto, Resumed, Stop, Terminated
<1>10. ASSUME NEW c \in Calls, Killed(c) PROVE LeaseInv'
  BY <1>10 DEF Killed, Goto, Resumed, Stopped
<1>11. ASSUME NEW c \in Calls, OwnerRelease(c) PROVE LeaseInv'
  BY <1>11 DEF OwnerRelease
<1>12. CASE WriteOne
  BY <1>12 DEF WriteOne, Done
<1>13. ASSUME NEW c \in Calls, Arrive(c) \/ Cache(c) \/ Success(c) \/ Cancel(c) PROVE LeaseInv'
  BY <1>13 DEF Arrive, Cache, Success, Cancel, Terminated
<1>14. ASSUME NEW c \in Calls, Finally(c) \/ Unregister(c) PROVE LeaseInv'
  BY <1>14 DEF Finally, Unregister
<1>15. CASE Close \/ Seal \/ LoopEnded
  BY <1>15 DEF Close, Seal, LoopEnded
<1>16. ASSUME NEW c \in Calls, StopNext(c) PROVE LeaseInv'
  BY <1>16 DEF StopNext, Stop, Terminated
<1>17. CASE StopOver
  BY <1>17 DEF StopOver, Stopped
<1>18. CASE DestroySndQueue
  BY <1>18 DEF DestroySndQueue, Done
<1>19. CASE UNCHANGED vars
  BY <1>19
<1> QED
  BY <1>1, <1>2, <1>3, <1>4, <1>5, <1>6, <1>7, <1>8, <1>9, <1>10, <1>11, <1>12,
     <1>13, <1>14, <1>15, <1>16, <1>17, <1>18, <1>19 DEF Next, CallStep, AnswerStep, CloseStep

----------------------------------------------------------------------------
(* The ids *)

\* There are not enough streams to use every id: the caller that looks for one has none.
LEMMA OneIsFree ==
  ASSUME Few, IdType, NEW c \in Calls, ~Picked(c)
  PROVE  \E j \in 1..HalfSeed : ~InUse(IdOf(j))
<1> SUFFICES ASSUME \A j \in 1..HalfSeed : InUse(IdOf(j)) PROVE FALSE
  OBVIOUS
<1> DEFINE E == Calls \ {c}
           T == {sid[e] : e \in E}
           U == older \cup T
           f == [e \in E |-> sid[e]]
           g == [j \in 1..HalfSeed |-> IdOf(j)]
<1>1. HalfSeed \in Nat /\ IsFiniteSet(Calls) /\ IsFiniteSet(older) /\ Cardinality(older) + Cardinality(Calls) <= HalfSeed
  BY RequesterAssumption DEF Few
<1>2. IsFiniteSet(E) /\ Cardinality(E) = Cardinality(Calls) - 1
  BY <1>1, FS_RemoveElement
<1>3. IsFiniteSet(T) /\ Cardinality(T) <= Cardinality(E)
  <2>1. f \in Surjection(E, T)
    BY DEF Surjection
  <2> HIDE DEF f, T, E
  <2> QED BY <1>2, <2>1, FS_Surjection
<1>4. IsFiniteSet(U) /\ Cardinality(U) <= Cardinality(older) + Cardinality(T)
  <2> HIDE DEF T
  <2>1. IsFiniteSet(U) /\ Cardinality(U) = Cardinality(older) + Cardinality(T) - Cardinality(older \cap T)
    BY <1>1, <1>3, FS_Union
  <2>2. Cardinality(older \cap T) \in Nat /\ Cardinality(older) \in Nat /\ Cardinality(T) \in Nat
    BY <1>1, <1>3, FS_Intersection, FS_CardinalityType
  <2> QED BY <2>1, <2>2
<1>5. g \in Injection(1..HalfSeed, U)
  <2>1. \A j \in 1..HalfSeed : IdOf(j) \in U
    BY DEF InUse
  <2> HIDE DEF U
  <2>2. g \in [1..HalfSeed -> U]
    BY <2>1
  <2>3. \A r, q \in 1..HalfSeed : g[r] = g[q] => r = q
    BY IdsDiffer
  <2> HIDE DEF g
  <2> QED BY <2>2, <2>3 DEF Injection, IsInjective
<1> HIDE DEF g, U, T, E
<1>6. Cardinality(1..HalfSeed) <= Cardinality(U)
  BY <1>4, <1>5, FS_Injection
<1>7. Cardinality(1..HalfSeed) = HalfSeed
  BY <1>1, FS_Interval, RequesterAssumption
<1>8. Cardinality(Calls) \in Nat /\ Cardinality(older) \in Nat /\ Cardinality(T) \in Nat /\ Cardinality(U) \in Nat
  BY <1>1, <1>3, <1>4, FS_CardinalityType
<1> QED BY <1>1, <1>2, <1>3, <1>4, <1>6, <1>7, <1>8

NextSeed == IF seed = 2 * HalfSeed THEN HalfSeed + 1 ELSE seed + 1

\* The seed goes from turn to turn; what came since a turn grows by each, until
\* only that turn itself is left.
LEMMA Turns ==
  ASSUME IdType, NEW k \in 1..HalfSeed
  PROVE  LET r == Turn(seed)   q == NextTurn(r) IN
           /\ r \in 1..HalfSeed /\ q \in 1..HalfSeed /\ q = Turn(NextSeed) /\ NextSeed \in 1..(2 * HalfSeed)
           /\ q # k => \A j \in Since(k, q) : j = q \/ j \in Since(k, r)
           /\ q = k => \A j \in 1..HalfSeed : j = k \/ j \in Since(k, r)
           /\ Since(q, q) = {}
<1> DEFINE H == HalfSeed
<1>1. H \in Nat \ {0} /\ seed \in 0..(2 * H) /\ k \in 1..H
  BY RequesterAssumption DEF IdType
<1> DEFINE r == Turn(seed)   q == NextTurn(r)
<1>2. r \in 1..H
  BY <1>1 DEF Turn
<1>3. q = Turn(NextSeed) /\ NextSeed \in 1..(2 * H)
  BY <1>1 DEF Turn, NextTurn, NextSeed
<1>4. q \in 1..H /\ q = IF r = H THEN 1 ELSE r + 1
  BY <1>1, <1>2 DEF NextTurn
<1> HIDE DEF r, q, H
<1>5. q # k => \A j \in Since(k, q) : j = q \/ j \in Since(k, r)
  BY <1>1, <1>2, <1>4 DEF Since, H
<1>6. q = k => \A j \in 1..H : j = k \/ j \in Since(k, r)
  BY <1>1, <1>2, <1>4 DEF Since, H
<1>7. Since(q, q) = {}
  BY <1>1, <1>4 DEF Since, H
<1> QED BY <1>2, <1>3, <1>4, <1>5, <1>6, <1>7 DEF H, r, q

\* The id of the next seed, if it is not taken, is that of no stream that lives, in
\* the table or about to be.
LEMMA PickIsFresh ==
  ASSUME Types, IdInv, NEW c \in Calls, ~Picked(c), ~Taken(NextSeed)
  PROVE  IdOf(NextSeed) \notin older /\ \A d \in Calls : Alive(d) => sid[d] # IdOf(NextSeed)
<1> DEFINE s == NextSeed   H == HalfSeed
<1>1. H \in Nat \ {0} /\ seed \in 0..(2 * H) /\ s \in 1..(2 * H) /\ Turn(s) \in 1..H /\ IdOf(s) = IdOf(Turn(s))
      /\ Turn(s) = NextTurn(Turn(seed)) /\ s = IF seed = 2 * H THEN H + 1 ELSE seed + 1
  <2>1. 1 \in 1..H /\ IdType
    BY RequesterAssumption DEF Types
  <2>2. s \in 1..(2 * H) /\ Turn(s) = NextTurn(Turn(seed))
    BY <2>1, Turns
  <2> QED BY <2>1, <2>2, IdAt, RequesterAssumption DEF IdType, NextSeed
<1> HIDE DEF s, H
<1>2. CASE s <= H
  <2>1. seed <= HalfSeed /\ s = seed + 1 /\ s \in 1..H
    BY <1>1, <1>2 DEF H
  <2>2. \A r \in 1..seed : IdOf(r) # IdOf(s)
    <3> TAKE r \in 1..seed
    <3>1. r \in 1..H /\ r # s
      BY <1>1, <2>1
    <3> QED BY <2>1, <3>1, IdsDiffer DEF H
  <2> QED BY <2>1, <2>2 DEF IdInv, FirstIds, s
<1>3. CASE s > H
  <2>1. \A e \in Calls \cup {Old} : <<IdOf(s), e>> \notin messages
    BY <1>1, <1>3 DEF Taken, FirstLap, s, H
  <2>2. IdOf(s) \notin older
    BY <2>1 DEF IdInv, Owners
  <2>3. ASSUME NEW d \in Calls, Alive(d), sid[d] = IdOf(s)
        PROVE  FALSE
    <3>1. pc[d] = "register"
      BY <2>1, <2>3 DEF IdInv, Owners, Alive
    <3>2. PICK k \in 1..HalfSeed : sid[d] = IdOf(k) /\ \A j \in Since(k, Turn(seed)) : InUse(IdOf(j))
      BY <3>1 DEF IdInv, Window
    <3>3. k = NextTurn(Turn(seed))
      BY <1>1, <2>3, <3>2, IdsDiffer DEF H
    <3>4. \A j \in 1..HalfSeed : j = k \/ j \in Since(k, Turn(seed))
      BY <3>3, Turns DEF Types
    <3>5. InUse(IdOf(k))
      BY <3>1, <3>2 DEF InUse, Picked, NotYet
    <3> QED BY <3>2, <3>4, <3>5, OneIsFree DEF IdInv, Types
  <2> QED BY <2>2, <2>3 DEF s
<1> QED BY <1>1, <1>2, <1>3

\* The stages of a call: what it is at each of them.
LEMMA StagesStep == CallType /\ BackType /\ EndType /\ Stages /\ [Next]_vars => Stages'
<1> SUFFICES ASSUME CallType, BackType, EndType, Stages, [Next]_vars PROVE Stages'
  OBVIOUS
<1> USE DEF vars, callVars, leaseVars, idVars, memVars, sendVars, backVars, endVars, CallType, BackType,
    EndType, Stages, PCs, Kinds, NotYet, Fragments, Answerable
<1>1. CASE LeaseStep
  BY <1>1 DEF LeaseStep, RefreshDeadline, RefreshTickets, RefreshInit, Expire
<1>2. ASSUME NEW c \in Calls, Start(c) \/ TestDeadline(c) \/ TakeTicket(c) \/ TestClosed(c) PROVE Stages'
  BY <1>2 DEF Start, TestDeadline, TakeTicket, TestClosed, Refused, Goto, NoneLeft
<1>3. ASSUME NEW c \in Calls, NextStreamID(c) PROVE Stages'
  BY <1>3 DEF NextStreamID, AfterId, Goto
<1>4. ASSUME NEW c \in Calls, Register(c) PROVE Stages'
  BY <1>4 DEF Register, Goto
<1>5. ASSUME NEW c \in Calls, Demand(c) \/ IncRef(c) PROVE Stages'
  BY <1>5 DEF Demand, IncRef, Goto
<1>6. ASSUME NEW c \in Calls, SendClosed(c) PROVE Stages'
  BY <1>6 DEF SendClosed, Goto, After, Answerable, Resumed, Dropped, Done, Frame
<1>7. ASSUME NEW c \in Calls, Put(c) PROVE Stages'
  BY <1>7 DEF Put, Goto, After, Answerable, Resumed, Done, Frame
<1>8. ASSUME NEW c \in Calls, NextFragment(c) PROVE Stages'
  BY <1>8 DEF NextFragment, Goto
<1>9. ASSUME NEW c \in Calls, Kill(c) PROVE Stages'
  BY <1>9 DEF Kill, Goto, Resumed, Stop, Terminated
<1>10. ASSUME NEW c \in Calls, Killed(c) PROVE Stages'
  BY <1>10 DEF Killed, Goto, Resumed, Stopped
<1>11. ASSUME NEW c \in Calls, OwnerRelease(c) PROVE Stages'
  BY <1>11 DEF OwnerRelease
<1>12. CASE WriteOne
  BY <1>12 DEF WriteOne, Done
<1>13. ASSUME NEW c \in Calls, Arrive(c) \/ Cache(c) \/ Success(c) \/ Cancel(c) PROVE Stages'
  BY <1>13 DEF Arrive, Cache, Success, Cancel, Terminated
<1>14. ASSUME NEW c \in Calls, Finally(c) \/ Unregister(c) PROVE Stages'
  BY <1>14 DEF Finally, Unregister
<1>15. CASE Close \/ Seal \/ LoopEnded
  BY <1>15 DEF Close, Seal, LoopEnded
<1>16. ASSUME NEW c \in Calls, StopNext(c) PROVE Stages'
  BY <1>16 DEF StopNext, Stop, Terminated
<1>17. CASE StopOver
  BY <1>17 DEF StopOver, Stopped
<1>18. CASE DestroySndQueue
  BY <1>18 DEF DestroySndQueue, Done
<1>19. CASE UNCHANGED vars
  BY <1>19
<1> QED
  BY <1>1, <1>2, <1>3, <1>4, <1>5, <1>6, <1>7, <1>8, <1>9, <1>10, <1>11, <1>12,
     <1>13, <1>14, <1>15, <1>16, <1>17, <1>18, <1>19 DEF Next, CallStep, AnswerStep, CloseStep

\* The table has one entry for each id, and each is that of the call it names.
LEMMA OwnersStep == Types /\ IdInv /\ [Next]_vars => Owners'
<1> SUFFICES ASSUME Types, IdInv, [Next]_vars PROVE Owners'
  OBVIOUS
<1> USE DEF vars, callVars, leaseVars, idVars, memVars, sendVars, backVars, endVars, Types, CallType,
    IdType, BackType, EndType, IdInv, Stages, Owners, Apart, Picked, Open, Alive, NotYet, PCs, Kinds
<1>1. CASE LeaseStep
  BY <1>1 DEF LeaseStep, RefreshDeadline, RefreshTickets, RefreshInit, Expire
<1>2. ASSUME NEW c \in Calls, Start(c) \/ TestDeadline(c) \/ TakeTicket(c) \/ TestClosed(c) PROVE Owners'
  BY <1>2 DEF Start, TestDeadline, TakeTicket, TestClosed, Refused, Goto, NoneLeft
<1>3. ASSUME NEW c \in Calls, NextStreamID(c) PROVE Owners'
  BY <1>3 DEF NextStreamID, AfterId, Goto
<1>4. ASSUME NEW c \in Calls, Register(c) PROVE Owners'
  BY <1>4 DEF Register, Goto
<1>5. ASSUME NEW c \in Calls, Demand(c) \/ IncRef(c) PROVE Owners'
  BY <1>5 DEF Demand, IncRef, Goto
<1>6. ASSUME NEW c \in Calls, SendClosed(c) PROVE Owners'
  BY <1>6 DEF SendClosed, Goto, After, Answerable, Resumed, Dropped, Done, Frame
<1>7. ASSUME NEW c \in Calls, Put(c) PROVE Owners'
  BY <1>7 DEF Put, Goto, After, Answerable, Resumed, Done, Frame
<1>8. ASSUME NEW c \in Calls, NextFragment(c) PROVE Owners'
  BY <1>8 DEF NextFragment, Goto
<1>9. ASSUME NEW c \in Calls, Kill(c) PROVE Owners'
  BY <1>9 DEF Kill, Goto, Resumed, Stop, Terminated
<1>10. ASSUME NEW c \in Calls, Killed(c) PROVE Owners'
  BY <1>10 DEF Killed, Goto, Resumed, Stopped
<1>11. ASSUME NEW c \in Calls, OwnerRelease(c) PROVE Owners'
  BY <1>11 DEF OwnerRelease
<1>12. CASE WriteOne
  BY <1>12 DEF WriteOne, Done
<1>13. ASSUME NEW c \in Calls, Arrive(c) \/ Cache(c) \/ Success(c) \/ Cancel(c) PROVE Owners'
  BY <1>13 DEF Arrive, Cache, Success, Cancel, Terminated
<1>14. ASSUME NEW c \in Calls, Finally(c) \/ Unregister(c) PROVE Owners'
  BY <1>14 DEF Finally, Unregister
<1>15. CASE Close \/ Seal \/ LoopEnded
  BY <1>15 DEF Close, Seal, LoopEnded
<1>16. ASSUME NEW c \in Calls, StopNext(c) PROVE Owners'
  BY <1>16 DEF StopNext, Stop, Terminated
<1>17. CASE StopOver
  BY <1>17 DEF StopOver, Stopped
<1>18. CASE DestroySndQueue
  BY <1>18 DEF DestroySndQueue, Done
<1>19. CASE UNCHANGED vars
  BY <1>19
<1> QED
  BY <1>1, <1>2, <1>3, <1>4, <1>5, <1>6, <1>7, <1>8, <1>9, <1>10, <1>11, <1>12,
     <1>13, <1>14, <1>15, <1>16, <1>17, <1>18, <1>19 DEF Next, CallStep, AnswerStep, CloseStep

\* A call that picks an id picks one that no live call has: PickIsFresh.
LEMMA ApartStep == Types /\ IdInv /\ [Next]_vars => Apart'
<1> SUFFICES ASSUME Types, IdInv, [Next]_vars PROVE Apart'
  OBVIOUS
<1> USE DEF vars, callVars, leaseVars, idVars, memVars, sendVars, backVars, endVars, Types, CallType,
    IdType, BackType, EndType, IdInv, Stages, Apart, Picked, Open, Alive, NotYet, PCs, Kinds
<1>1. CASE LeaseStep
  BY <1>1 DEF LeaseStep, RefreshDeadline, RefreshTickets, RefreshInit, Expire
<1>2. ASSUME NEW c \in Calls, Start(c) \/ TestDeadline(c) \/ TakeTicket(c) \/ TestClosed(c) PROVE Apart'
  BY <1>2 DEF Start, TestDeadline, TakeTicket, TestClosed, Refused, Goto, NoneLeft
<1>3. ASSUME NEW c \in Calls, NextStreamID(c) PROVE Apart'
  <2> DEFINE s == NextSeed
  <2>1. /\ pc[c] = "id" /\ seed' = s /\ kind[c] # "push" /\ UNCHANGED <<older, kind, sink, fin, messages>>
        /\ IF Taken(s) THEN UNCHANGED <<sid, pc>>
           ELSE /\ sid' = [sid EXCEPT ![c] = IdOf(s)]
                /\ pc' = [pc EXCEPT ![c] = AfterId(c)]
    BY <1>3 DEF NextStreamID, AfterId, Goto, NextSeed
  <2>2. ~Taken(s) => IdOf(s) \notin older /\ \A d \in Calls : Alive(d) => sid[d] # IdOf(s)
    <3>1. ~Picked(c)
      BY <2>1 DEF Picked, NotYet
    <3> QED BY <3>1, PickIsFresh
  <2> HIDE DEF s
  <2> QED BY <2>1, <2>2
<1>4. ASSUME NEW c \in Calls, Register(c) PROVE Apart'
  BY <1>4 DEF Register, Goto
<1>5. ASSUME NEW c \in Calls, Demand(c) \/ IncRef(c) PROVE Apart'
  BY <1>5 DEF Demand, IncRef, Goto
<1>6. ASSUME NEW c \in Calls, SendClosed(c) PROVE Apart'
  BY <1>6 DEF SendClosed, Goto, After, Answerable, Resumed, Dropped, Done, Frame
<1>7. ASSUME NEW c \in Calls, Put(c) PROVE Apart'
  BY <1>7 DEF Put, Goto, After, Answerable, Resumed, Done, Frame
<1>8. ASSUME NEW c \in Calls, NextFragment(c) PROVE Apart'
  BY <1>8 DEF NextFragment, Goto
<1>9. ASSUME NEW c \in Calls, Kill(c) PROVE Apart'
  BY <1>9 DEF Kill, Goto, Resumed, Stop, Terminated
<1>10. ASSUME NEW c \in Calls, Killed(c) PROVE Apart'
  BY <1>10 DEF Killed, Goto, Resumed, Stopped
<1>11. ASSUME NEW c \in Calls, OwnerRelease(c) PROVE Apart'
  BY <1>11 DEF OwnerRelease
<1>12. CASE WriteOne
  BY <1>12 DEF WriteOne, Done
<1>13. ASSUME NEW c \in Calls, Arrive(c) \/ Cache(c) \/ Success(c) \/ Cancel(c) PROVE Apart'
  BY <1>13 DEF Arrive, Cache, Success, Cancel, Terminated
<1>14. ASSUME NEW c \in Calls, Finally(c) \/ Unregister(c) PROVE Apart'
  BY <1>14 DEF Finally, Unregister
<1>15. CASE Close \/ Seal \/ LoopEnded
  BY <1>15 DEF Close, Seal, LoopEnded
<1>16. ASSUME NEW c \in Calls, StopNext(c) PROVE Apart'
  BY <1>16 DEF StopNext, Stop, Terminated
<1>17. CASE StopOver
  BY <1>17 DEF StopOver, Stopped
<1>18. CASE DestroySndQueue
  BY <1>18 DEF DestroySndQueue, Done
<1>19. CASE UNCHANGED vars
  BY <1>19
<1> QED
  BY <1>1, <1>2, <1>3, <1>4, <1>5, <1>6, <1>7, <1>8, <1>9, <1>10, <1>11, <1>12,
     <1>13, <1>14, <1>15, <1>16, <1>17, <1>18, <1>19 DEF Next, CallStep, AnswerStep, CloseStep

\* In the first lap an id that is picked is that of the seed, which only grows.
LEMMA FirstIdsStep == Types /\ IdInv /\ [Next]_vars => FirstIds'
<1> SUFFICES ASSUME Types, IdInv, [Next]_vars PROVE FirstIds'
  OBVIOUS
<1> USE DEF vars, callVars, leaseVars, idVars, memVars, sendVars, backVars, endVars, Types, CallType,
    IdType, BackType, EndType, IdInv, Stages, FirstIds, Picked, Open, Alive, NotYet, PCs, Kinds
<1>1. CASE LeaseStep
  BY <1>1 DEF LeaseStep, RefreshDeadline, RefreshTickets, RefreshInit, Expire
<1>2. ASSUME NEW c \in Calls, Start(c) \/ TestDeadline(c) \/ TakeTicket(c) \/ TestClosed(c) PROVE FirstIds'
  BY <1>2 DEF Start, TestDeadline, TakeTicket, TestClosed, Refused, Goto, NoneLeft
<1>3. ASSUME NEW c \in Calls, NextStreamID(c) PROVE FirstIds'
  <2> DEFINE s == NextSeed
  <2>1. /\ pc[c] = "id" /\ seed' = s /\ kind[c] # "push" /\ UNCHANGED <<older, kind, sink, fin, messages>>
        /\ IF Taken(s) THEN UNCHANGED <<sid, pc>>
           ELSE /\ sid' = [sid EXCEPT ![c] = IdOf(s)]
                /\ pc' = [pc EXCEPT ![c] = AfterId(c)]
    BY <1>3 DEF NextStreamID, AfterId, Goto, NextSeed
  <2>2. ~Taken(s) => IdOf(s) \notin older /\ \A d \in Calls : Alive(d) => sid[d] # IdOf(s)
    <3>1. ~Picked(c)
      BY <2>1 DEF Picked, NotYet
    <3> QED BY <3>1, PickIsFresh
  <2> HIDE DEF s
  <2> SUFFICES ASSUME s <= HalfSeed PROVE FirstIds'
    BY <2>1 DEF FirstIds
  <2>3. HalfSeed \in Nat /\ seed \in Nat /\ seed <= HalfSeed /\ s = seed + 1 /\ 1 <= s
    BY RequesterAssumption DEF NextSeed, s
  <2>4. \A r \in 1..seed : r \in 1..s
    BY <2>3
  <2>5. \A i \in older : \E r \in 1..s : i = IdOf(r)
    BY <2>3, <2>4
  <2>6. \A d \in Calls : Alive(d) => \E r \in 1..s : sid[d] = IdOf(r)
    BY <2>3, <2>4
  <2>7. s \in 1..s
    BY <2>3
  <2> QED BY <2>1, <2>5, <2>6, <2>7
<1>4. ASSUME NEW c \in Calls, Register(c) PROVE FirstIds'
  BY <1>4 DEF Register, Goto
<1>5. ASSUME NEW c \in Calls, Demand(c) \/ IncRef(c) PROVE FirstIds'
  BY <1>5 DEF Demand, IncRef, Goto
<1>6. ASSUME NEW c \in Calls, SendClosed(c) PROVE FirstIds'
  BY <1>6 DEF SendClosed, Goto, After, Answerable, Resumed, Dropped, Done, Frame
<1>7. ASSUME NEW c \in Calls, Put(c) PROVE FirstIds'
  BY <1>7 DEF Put, Goto, After, Answerable, Resumed, Done, Frame
<1>8. ASSUME NEW c \in Calls, NextFragment(c) PROVE FirstIds'
  BY <1>8 DEF NextFragment, Goto
<1>9. ASSUME NEW c \in Calls, Kill(c) PROVE FirstIds'
  BY <1>9 DEF Kill, Goto, Resumed, Stop, Terminated
<1>10. ASSUME NEW c \in Calls, Killed(c) PROVE FirstIds'
  BY <1>10 DEF Killed, Goto, Resumed, Stopped
<1>11. ASSUME NEW c \in Calls, OwnerRelease(c) PROVE FirstIds'
  BY <1>11 DEF OwnerRelease
<1>12. CASE WriteOne
  BY <1>12 DEF WriteOne, Done
<1>13. ASSUME NEW c \in Calls, Arrive(c) \/ Cache(c) \/ Success(c) \/ Cancel(c) PROVE FirstIds'
  BY <1>13 DEF Arrive, Cache, Success, Cancel, Terminated
<1>14. ASSUME NEW c \in Calls, Finally(c) \/ Unregister(c) PROVE FirstIds'
  BY <1>14 DEF Finally, Unregister
<1>15. CASE Close \/ Seal \/ LoopEnded
  BY <1>15 DEF Close, Seal, LoopEnded
<1>16. ASSUME NEW c \in Calls, StopNext(c) PROVE FirstIds'
  BY <1>16 DEF StopNext, Stop, Terminated
<1>17. CASE StopOver
  BY <1>17 DEF StopOver, Stopped
<1>18. CASE DestroySndQueue
  BY <1>18 DEF DestroySndQueue, Done
<1>19. CASE UNCHANGED vars
  BY <1>19
<1> QED
  BY <1>1, <1>2, <1>3, <1>4, <1>5, <1>6, <1>7, <1>8, <1>9, <1>10, <1>11, <1>12,
     <1>13, <1>14, <1>15, <1>16, <1>17, <1>18, <1>19 DEF Next, CallStep, AnswerStep, CloseStep

\* The seed goes over ids in use, and never over the one that is not yet in the table:
\* then all the others would be in use (OneIsFree).
LEMMA WindowStep == Types /\ IdInv /\ [Next]_vars => Window'
<1> SUFFICES ASSUME Types, IdInv, [Next]_vars PROVE Window'
  OBVIOUS
<1> USE DEF vars, callVars, leaseVars, idVars, memVars, sendVars, backVars, endVars, Types, CallType,
    IdType, BackType, EndType, IdInv, Stages, Window, InUse, Picked, NotYet, PCs, Kinds
<1>1. CASE LeaseStep
  BY <1>1 DEF LeaseStep, RefreshDeadline, RefreshTickets, RefreshInit, Expire
<1>2. ASSUME NEW c \in Calls, Start(c) \/ TestDeadline(c) \/ TakeTicket(c) \/ TestClosed(c) PROVE Window'
  BY <1>2 DEF Start, TestDeadline, TakeTicket, TestClosed, Refused, Goto, NoneLeft
<1>3. ASSUME NEW c \in Calls, NextStreamID(c) PROVE Window'
  <2> DEFINE s == NextSeed
  <2>1. /\ pc[c] = "id" /\ seed' = s /\ kind[c] # "push" /\ UNCHANGED <<older, kind, sink, fin, messages>>
        /\ IF Taken(s) THEN UNCHANGED <<sid, pc>>
           ELSE /\ sid' = [sid EXCEPT ![c] = IdOf(s)]
                /\ pc' = [pc EXCEPT ![c] = AfterId(c)]
    BY <1>3 DEF NextStreamID, AfterId, Goto, NextSeed
  <2>2. ~Taken(s) => IdOf(s) \notin older /\ \A d \in Calls : Alive(d) => sid[d] # IdOf(s)
    <3>1. ~Picked(c)
      BY <2>1 DEF Picked, NotYet
    <3> QED BY <3>1, PickIsFresh
  <2> HIDE DEF s
  <2> DEFINE r == Turn(seed)   q == Turn(s)
  <2>3. q \in 1..HalfSeed /\ IdOf(s) = IdOf(q) /\ Since(q, q) = {} /\ q = NextTurn(r)
    <3>1. 1 \in 1..HalfSeed
      BY RequesterAssumption
    <3>2. s \in 1..(2 * HalfSeed) /\ q = NextTurn(r)
      BY <3>1, Turns DEF s
    <3>3. Since(q, q) = {}
      BY <3>1, <3>2, Turns
    <3> QED BY <3>2, <3>3, IdAt
  <2>4. Turn(seed') = q
    BY <2>1
  <2>5. ASSUME NEW i, InUse(i) PROVE InUse(i)'
    BY <2>1, <2>5
  <2>6. PICK i : i = IdOf(s) /\ InUse(i)'
    <3> PICK i : i = IdOf(s)
      OBVIOUS
    <3>1. CASE Taken(s)
      <4>1. PICK e \in Calls \cup {Old} : <<IdOf(s), e>> \in messages
        BY <3>1 DEF Taken
      <4>2. InUse(i)
        BY <4>1 DEF Owners
      <4> QED BY <4>2, <2>5
    <3>2. CASE ~Taken(s)
      <4>1. sid'[c] = i /\ pc'[c] \in {"incref", "demand", "register"}
        BY <2>1, <3>2 DEF AfterId
      <4> QED BY <4>1
    <3>3. InUse(i)'
      BY <3>1, <3>2
    <3> QED BY <3>3
  <2> HIDE DEF q
  <2>7. ASSUME NEW d \in Calls, pc'[d] = "register"
        PROVE  \E k \in 1..HalfSeed : sid'[d] = IdOf(k) /\ \A j \in Since(k, q) : InUse(IdOf(j))'
    <3>1. CASE d = c
      <4>1. sid'[d] = IdOf(q)
        BY <2>1, <2>3, <2>7, <3>1
      <4> QED BY <2>3, <4>1
    <3>2. CASE d # c
      <4>1. pc[d] = "register" /\ sid'[d] = sid[d]
        BY <2>1, <2>7, <3>2
      <4>2. PICK k \in 1..HalfSeed : sid[d] = IdOf(k) /\ \A j \in Since(k, r) : InUse(IdOf(j))
        BY <4>1
      <4>3. q # k
        <5> SUFFICES ASSUME q = k PROVE FALSE
          OBVIOUS
        <5>1. \A j \in 1..HalfSeed : j = k \/ j \in Since(k, r)
          BY <2>3, Turns
        <5>2. InUse(IdOf(k))
          BY <4>1, <4>2
        <5>3. \A j \in 1..HalfSeed : InUse(IdOf(j))
          BY <4>2, <5>1, <5>2
        <5>4. ~Picked(c)
          BY <2>1
        <5> QED BY <5>3, <5>4, OneIsFree
      <4>4. \A j \in Since(k, q) : j = q \/ j \in Since(k, r)
        BY <2>3, <4>3, Turns
      <4>5. \A j \in Since(k, q) : InUse(IdOf(j))'
        BY <2>3, <2>5, <2>6, <4>2, <4>4
      <4> QED BY <4>1, <4>2, <4>5
    <3> QED BY <3>1, <3>2
  <2> QED BY <2>4, <2>7
<1>4. ASSUME NEW c \in Calls, Register(c) PROVE Window'
  BY <1>4 DEF Register, Goto
<1>5. ASSUME NEW c \in Calls, Demand(c) \/ IncRef(c) PROVE Window'
  BY <1>5 DEF Demand, IncRef, Goto
<1>6. ASSUME NEW c \in Calls, SendClosed(c) PROVE Window'
  BY <1>6 DEF SendClosed, Goto, After, Answerable, Resumed, Dropped, Done, Frame
<1>7. ASSUME NEW c \in Calls, Put(c) PROVE Window'
  BY <1>7 DEF Put, Goto, After, Answerable, Resumed, Done, Frame
<1>8. ASSUME NEW c \in Calls, NextFragment(c) PROVE Window'
  BY <1>8 DEF NextFragment, Goto
<1>9. ASSUME NEW c \in Calls, Kill(c) PROVE Window'
  BY <1>9 DEF Kill, Goto, Resumed, Stop, Terminated
<1>10. ASSUME NEW c \in Calls, Killed(c) PROVE Window'
  BY <1>10 DEF Killed, Goto, Resumed, Stopped
<1>11. ASSUME NEW c \in Calls, OwnerRelease(c) PROVE Window'
  BY <1>11 DEF OwnerRelease
<1>12. CASE WriteOne
  BY <1>12 DEF WriteOne, Done
<1>13. ASSUME NEW c \in Calls, Arrive(c) \/ Cache(c) \/ Success(c) \/ Cancel(c) PROVE Window'
  BY <1>13 DEF Arrive, Cache, Success, Cancel, Terminated
<1>14. ASSUME NEW c \in Calls, Finally(c) \/ Unregister(c) PROVE Window'
  BY <1>14 DEF Finally, Unregister
<1>15. CASE Close \/ Seal \/ LoopEnded
  BY <1>15 DEF Close, Seal, LoopEnded
<1>16. ASSUME NEW c \in Calls, StopNext(c) PROVE Window'
  BY <1>16 DEF StopNext, Stop, Terminated
<1>17. CASE StopOver
  BY <1>17 DEF StopOver, Stopped
<1>18. CASE DestroySndQueue
  BY <1>18 DEF DestroySndQueue, Done
<1>19. CASE UNCHANGED vars
  BY <1>19
<1> QED
  BY <1>1, <1>2, <1>3, <1>4, <1>5, <1>6, <1>7, <1>8, <1>9, <1>10, <1>11, <1>12,
     <1>13, <1>14, <1>15, <1>16, <1>17, <1>18, <1>19 DEF Next, CallStep, AnswerStep, CloseStep

LEMMA IdInvStep == Types /\ IdInv /\ [Next]_vars => IdInv'
<1> SUFFICES ASSUME Types, IdInv, [Next]_vars PROVE IdInv'
  OBVIOUS
<1>1. UNCHANGED older
  <2> USE DEF vars, idVars
  <2>1. CASE LeaseStep
    BY <2>1 DEF LeaseStep, RefreshDeadline, RefreshTickets, RefreshInit, Expire
  <2>2. ASSUME NEW c \in Calls, CallStep(c) PROVE UNCHANGED older
    BY <2>2 DEF CallStep, Start, TestDeadline, TakeTicket, TestClosed, NextStreamID, Register, Demand,
        IncRef, SendClosed, Put, NextFragment, Kill, Killed, OwnerRelease
  <2>3. ASSUME NEW c \in Calls, AnswerStep(c) \/ Arrive(c) \/ Cancel(c) \/ StopNext(c) PROVE UNCHANGED older
    BY <2>3 DEF AnswerStep, Cache, Success, Finally, Unregister, Arrive, Cancel, StopNext
  <2>4. CASE WriteOne \/ Close \/ CloseStep
    BY <2>4 DEF WriteOne, Close, CloseStep, Seal, LoopEnded, StopOver, DestroySndQueue
  <2> QED BY <2>1, <2>2, <2>3, <2>4 DEF Next
<1>2. Few'
  BY <1>1 DEF IdInv, Few
<1> QED BY <1>2, StagesStep, OwnersStep, ApartStep, FirstIdsStep, WindowStep DEF Types, IdInv

LEMMA IdInvInit == Init => IdInv
<1> SUFFICES ASSUME Init PROVE IdInv
  OBVIOUS
<1>1. PICK s \in Starts : seed = s.seed /\ older = s.live /\ messages = {<<i, Old>> : i \in s.live}
  BY DEF Init
<1>2. Situation(s)
  BY RequesterAssumption
<1>3. /\ pc = [c \in Calls |-> "start"] /\ sink = [c \in Calls |-> "none"] /\ fin = [c \in Calls |-> "none"]
  BY DEF Init
<1>4. Stages
  BY <1>3 DEF Stages
<1>5. Few
  <2>1. older \subseteq Ids /\ Ids = 0..(2 * HalfSeed - 1) /\ 2 * HalfSeed - 1 \in Int
    BY TypesInit, RequesterAssumption DEF Types, IdType, Ids
  <2>2. IsFiniteSet(Ids)
    BY <2>1, FS_Interval
  <2>3. IsFiniteSet(older)
    BY <2>1, <2>2, FS_Subset
  <2> QED BY <1>1, <1>2, <2>3 DEF Few, Situation
<1>6. Owners
  BY <1>1, <1>3 DEF Owners, Open
<1>7. Apart
  BY <1>3 DEF Apart, Alive, Open
<1>8. FirstIds
  BY <1>1, <1>2, <1>3 DEF FirstIds, Situation, Alive, Open
<1>9. Window
  BY <1>3 DEF Window
<1> QED BY <1>4, <1>5, <1>6, <1>7, <1>8, <1>9 DEF IdInv

\* Whatever the number of callers and of ids, however often the ids wrap round, and
\* whatever refresh and the callers interleave: no more requests are allowed than
\* leases have granted, and no request takes the id of a stream that lives.
THEOREM RequestsAdmitted == Spec => []Admitted
<1> DEFINE I == Types /\ LeaseInv /\ IdInv
<1>1. Init => I
  <2>1. Init => LeaseInv
    BY DEF Init, LeaseInv
  <2> QED BY <2>1, TypesInit, IdInvInit
<1>2. I /\ [Next]_vars => I'
  BY TypesStep, LeaseInvStep, IdInvStep DEF Types
<1>3. I => Admitted
  <2>1. LeaseInv => WithinLease
    BY DEF LeaseInv, WithinLease
  <2>2. IdInv => IdsApart
    BY DEF IdInv, Owners, IdsApart, Open
  <2> QED BY <2>1, <2>2, TypesShow DEF Admitted
<1> QED BY <1>1, <1>2, <1>3, PTL DEF Spec

----------------------------------------------------------------------------
(* The queue and the references *)

\* The queue is sealed after the socket is closed.
LEMMA ClosingStep == EndType /\ SendType /\ ClosingInv /\ [Next]_vars => ClosingInv'
<1> SUFFICES ASSUME EndType, SendType, ClosingInv, [Next]_vars PROVE ClosingInv'
  OBVIOUS
<1> USE DEF vars, callVars, leaseVars, idVars, memVars, sendVars, backVars, endVars, EndType, SendType,
    ClosingInv
<1>1. CASE LeaseStep
  BY <1>1 DEF LeaseStep, RefreshDeadline, RefreshTickets, RefreshInit, Expire
<1>2. ASSUME NEW c \in Calls, Start(c) \/ TestDeadline(c) \/ TakeTicket(c) \/ TestClosed(c) PROVE ClosingInv'
  BY <1>2 DEF Start, TestDeadline, TakeTicket, TestClosed, Refused, Goto, NoneLeft
<1>3. ASSUME NEW c \in Calls, NextStreamID(c) PROVE ClosingInv'
  BY <1>3 DEF NextStreamID, AfterId, Goto
<1>4. ASSUME NEW c \in Calls, Register(c) PROVE ClosingInv'
  BY <1>4 DEF Register, Goto
<1>5. ASSUME NEW c \in Calls, Demand(c) \/ IncRef(c) PROVE ClosingInv'
  BY <1>5 DEF Demand, IncRef, Goto
<1>6. ASSUME NEW c \in Calls, SendClosed(c) PROVE ClosingInv'
  BY <1>6 DEF SendClosed, Goto, After, Answerable, Resumed, Dropped, Done, Frame
<1>7. ASSUME NEW c \in Calls, Put(c) PROVE ClosingInv'
  BY <1>7 DEF Put, Goto, After, Answerable, Resumed, Done, Frame
<1>8. ASSUME NEW c \in Calls, NextFragment(c) PROVE ClosingInv'
  BY <1>8 DEF NextFragment, Goto
<1>9. ASSUME NEW c \in Calls, Kill(c) PROVE ClosingInv'
  BY <1>9 DEF Kill, Goto, Resumed, Stop, Terminated
<1>10. ASSUME NEW c \in Calls, Killed(c) PROVE ClosingInv'
  BY <1>10 DEF Killed, Goto, Resumed, Stopped
<1>11. ASSUME NEW c \in Calls, OwnerRelease(c) PROVE ClosingInv'
  BY <1>11 DEF OwnerRelease
<1>12. CASE WriteOne
  BY <1>12 DEF WriteOne, Done
<1>13. ASSUME NEW c \in Calls, Arrive(c) \/ Cache(c) \/ Success(c) \/ Cancel(c) PROVE ClosingInv'
  BY <1>13 DEF Arrive, Cache, Success, Cancel, Terminated
<1>14. ASSUME NEW c \in Calls, Finally(c) \/ Unregister(c) PROVE ClosingInv'
  BY <1>14 DEF Finally, Unregister
<1>15. CASE Close \/ Seal \/ LoopEnded
  <2>1. CASE Close
    BY <2>1 DEF Close
  <2>2. CASE Seal
    BY <2>2 DEF Seal
  <2>3. CASE LoopEnded
    BY <2>3 DEF LoopEnded
  <2> QED BY <1>15, <2>1, <2>2, <2>3
<1>16. ASSUME NEW c \in Calls, StopNext(c) PROVE ClosingInv'
  BY <1>16 DEF StopNext, Stop, Terminated
<1>17. CASE StopOver
  BY <1>17 DEF StopOver, Stopped
<1>18. CASE DestroySndQueue
  BY <1>18 DEF DestroySndQueue, Done
<1>19. CASE UNCHANGED vars
  BY <1>19
<1> QED
  BY <1>1, <1>2, <1>3, <1>4, <1>5, <1>6, <1>7, <1>8, <1>9, <1>10, <1>11, <1>12,
     <1>13, <1>14, <1>15, <1>16, <1>17, <1>18, <1>19 DEF Next, CallStep, AnswerStep, CloseStep

\* A call that is past a frame stays past it.
Moved(c) == /\ FirstGone(c) => FirstGone(c)'
            /\ LastGone(c) => LastGone(c)' \/ (WriteOne /\ Head(queue).call = c /\ Head(queue).i = Fragments(c))
            /\ UNCHANGED <<kind, split>>

LEMMA CallsMove == CallType /\ BackType /\ AnswerInv /\ [Next]_vars => (\A d \in Calls : Moved(d))
<1> SUFFICES ASSUME CallType, BackType, AnswerInv, [Next]_vars PROVE (\A d \in Calls : Moved(d))
  OBVIOUS
<1> USE DEF Moved, vars, callVars, leaseVars, idVars, memVars, sendVars, backVars, endVars, CallType,
    BackType, PCs, Kinds, AnswerInv, Answered, FirstGone, LastGone, Fragments
<1>1. CASE LeaseStep
  BY <1>1 DEF LeaseStep, RefreshDeadline, RefreshTickets, RefreshInit, Expire
<1>2. ASSUME NEW c \in Calls, Start(c) \/ TestDeadline(c) \/ TakeTicket(c) \/ TestClosed(c)
      PROVE (\A d \in Calls : Moved(d))
  BY <1>2 DEF Start, TestDeadline, TakeTicket, TestClosed, Refused, Goto, NoneLeft
<1>3. ASSUME NEW c \in Calls, NextStreamID(c) PROVE (\A d \in Calls : Moved(d))
  BY <1>3 DEF NextStreamID, AfterId, Goto
<1>4. ASSUME NEW c \in Calls, Register(c) PROVE (\A d \in Calls : Moved(d))
  BY <1>4 DEF Register, Goto
<1>5. ASSUME NEW c \in Calls, Demand(c) \/ IncRef(c) PROVE (\A d \in Calls : Moved(d))
  BY <1>5 DEF Demand, IncRef, Goto
<1>6. ASSUME NEW c \in Calls, SendClosed(c) PROVE (\A d \in Calls : Moved(d))
  BY <1>6 DEF SendClosed, Goto, After, Answerable, Resumed, Dropped, Done, Frame
<1>7. ASSUME NEW c \in Calls, Put(c) PROVE (\A d \in Calls : Moved(d))
  BY <1>7 DEF Put, Goto, After, Answerable, Resumed, Done, Frame
<1>8. ASSUME NEW c \in Calls, NextFragment(c) PROVE (\A d \in Calls : Moved(d))
  BY <1>8 DEF NextFragment, Goto
<1>9. ASSUME NEW c \in Calls, Kill(c) PROVE (\A d \in Calls : Moved(d))
  BY <1>9 DEF Kill, Goto, Resumed, Stop, Terminated
<1>10. ASSUME NEW c \in Calls, Killed(c) PROVE (\A d \in Calls : Moved(d))
  BY <1>10 DEF Killed, Goto, Resumed, Stopped
<1>11. ASSUME NEW c \in Calls, OwnerRelease(c) PROVE (\A d \in Calls : Moved(d))
  BY <1>11 DEF OwnerRelease
<1>12. CASE WriteOne
  BY <1>12 DEF WriteOne, Done
<1>13. ASSUME NEW c \in Calls, Arrive(c) \/ Cache(c) \/ Success(c) \/ Cancel(c)
      PROVE (\A d \in Calls : Moved(d))
  BY <1>13 DEF Arrive, Cache, Success, Cancel, Terminated
<1>14. ASSUME NEW c \in Calls, Finally(c) \/ Unregister(c) PROVE (\A d \in Calls : Moved(d))
  BY <1>14 DEF Finally, Unregister
<1>15. CASE Close \/ Seal \/ LoopEnded
  BY <1>15 DEF Close, Seal, LoopEnded
<1>16. ASSUME NEW c \in Calls, StopNext(c) PROVE (\A d \in Calls : Moved(d))
  BY <1>16 DEF StopNext, Stop, Terminated
<1>17. CASE StopOver
  BY <1>17 DEF StopOver, Stopped
<1>18. CASE DestroySndQueue
  BY <1>18 DEF DestroySndQueue, Done
<1>19. CASE UNCHANGED vars
  BY <1>19
<1> QED
  BY <1>1, <1>2, <1>3, <1>4, <1>5, <1>6, <1>7, <1>8, <1>9, <1>10, <1>11, <1>12,
     <1>13, <1>14, <1>15, <1>16, <1>17, <1>18, <1>19 DEF Next, CallStep, AnswerStep, CloseStep

\* A frame is appended by Put, and taken off the front.
Enqueued == \E c \in Calls : Put(c) /\ ~sealed /\ queue' = Append(queue, Frame(c))
Dequeued == (WriteOne \/ DestroySndQueue) /\ queue # <<>> /\ queue' = Tail(queue)

\* The queue grows by Put alone.
LEMMA QueueMoves == [Next]_vars => UNCHANGED queue \/ Enqueued \/ Dequeued
<1> SUFFICES ASSUME [Next]_vars PROVE UNCHANGED queue \/ Enqueued \/ Dequeued
  OBVIOUS
<1> USE DEF vars, callVars, leaseVars, idVars, memVars, sendVars, backVars, endVars
<1>1. CASE LeaseStep
  BY <1>1 DEF LeaseStep, RefreshDeadline, RefreshTickets, RefreshInit, Expire
<1>2. ASSUME NEW c \in Calls, CallStep(c) PROVE UNCHANGED queue \/ Enqueued
  <2>1. CASE Put(c)
    BY <2>1 DEF Put, Enqueued
  <2> QED
    BY <1>2, <2>1 DEF CallStep, Start, TestDeadline, TakeTicket, TestClosed, NextStreamID, Register,
                      Demand, IncRef, SendClosed, NextFragment, Kill, Killed, OwnerRelease
<1>3. ASSUME NEW c \in Calls, AnswerStep(c) \/ Arrive(c) \/ Cancel(c) \/ StopNext(c) PROVE UNCHANGED queue
  BY <1>3 DEF AnswerStep, Cache, Success, Finally, Unregister, Arrive, Cancel, StopNext
<1>4. CASE WriteOne
  BY <1>4 DEF WriteOne, Dequeued
<1>5. CASE Close \/ Seal \/ LoopEnded \/ StopOver
  BY <1>5 DEF Close, Seal, LoopEnded, StopOver
<1>6. CASE DestroySndQueue
  <2>1. CASE queue = <<>>
    BY <1>6, <2>1 DEF DestroySndQueue
  <2>2. CASE queue # <<>>
    BY <1>6, <2>2 DEF DestroySndQueue, Dequeued
  <2> QED BY <2>1, <2>2
<1>7. CASE UNCHANGED vars
  BY <1>7
<1> QED BY <1>1, <1>2, <1>3, <1>4, <1>5, <1>6, <1>7 DEF Next, CloseStep

LEMMA Appended ==
  ASSUME NEW q \in Seq(QFrame), NEW f \in QFrame
  PROVE  LET r == Append(q, f) IN
         /\ Len(r) = Len(q) + 1 /\ r[Len(q) + 1] = f /\ \A p \in 1..Len(q) : r[p] = q[p]
  OBVIOUS

LEMMA Tailed ==
  ASSUME NEW q \in Seq(QFrame), q # <<>>
  PROVE  LET r == Tail(q) IN
         /\ Len(r) = Len(q) - 1 /\ \A p \in 1..Len(r) : r[p] = q[p + 1] /\ p + 1 \in 1..Len(q)
         /\ Len(q) \in Nat \ {0} /\ Head(q) = q[1] /\ r # q
  OBVIOUS

LEMMA InQueue == ASSUME SendType, NEW p \in 1..Len(queue) PROVE queue[p] \in QFrame
  BY DEF SendType

LEMMA FrameType == ASSUME CallType, NEW c \in Calls PROVE Frame(c) \in QFrame
  BY DEF CallType, Frame, QFrame, Hooked

\* A frame stays behind its call, but for the last one, which is answered.
LEMMA GoneOn ==
  ASSUME CallType, NEW f \in QFrame, FrameGone(f), Moved(f.call),
      ~(WriteOne /\ Head(queue).call = f.call /\ Head(queue).i = Fragments(f.call))
  PROVE  (FrameGone(f))'
<1>1. f.call \in Calls
  BY DEF QFrame
<1>2. UNCHANGED <<Fragments(f.call), Hooked(f.call, f.i)>>
  BY <1>1 DEF Moved, CallType, Fragments, Hooked
<1> QED
  BY <1>1, <1>2 DEF FrameGone, Moved

\* The frames of one call: the last one is behind the others.
LEMMA LastIsLast ==
  ASSUME SendType, CallType, Queued, NEW p \in 1..Len(queue), NEW q \in 1..Len(queue), p < q,
      queue[p].call = queue[q].call
  PROVE  queue[p].i # Fragments(queue[q].call) /\ ~queue[p].hook
<1>1. queue[p] \in QFrame /\ queue[q] \in QFrame
  BY InQueue
<1>2. queue[p].i < queue[q].i /\ queue[q].i <= Fragments(queue[q].call)
  BY DEF Queued, FrameGone
<1>3. queue[p].i # Fragments(queue[q].call)
  BY <1>1, <1>2 DEF QFrame, CallType, Fragments
<1> QED
  BY <1>3 DEF Queued, FrameGone, Hooked

\* What a waiting frame says of its call.
LEMMA WaitingLast ==
  ASSUME SendType, CallType, Queued, NEW c \in Calls, Waiting(c)
  PROVE  LastGone(c) /\ kind[c] # "push" /\ ~Early(c) /\ ~Holding(c)
<1>1. PICK p \in 1..Len(queue) : queue[p].call = c /\ queue[p].hook
  BY DEF Waiting
<1>2. Hooked(c, queue[p].i) /\ LastGone(c)
  BY <1>1 DEF Queued, FrameGone, Hooked
<1> QED
  BY <1>2 DEF Hooked, Early, Holding, LastGone

LEMMA WaitingSame == ASSUME UNCHANGED queue PROVE \A d \in Calls : (Waiting(d)' <=> Waiting(d))
  BY DEF Waiting

LEMMA WaitingMore ==
  ASSUME SendType, CallType, NEW c \in Calls, queue' = Append(queue, Frame(c))
  PROVE  \A d \in Calls : (Waiting(d)' <=> Waiting(d) \/ (d = c /\ Hooked(c, frag[c])))
<1> DEFINE n == Len(queue)
<1>1. /\ n \in Nat /\ Len(queue') = n + 1 /\ queue'[n + 1] = Frame(c)
      /\ \A p \in 1..n : queue'[p] = queue[p]
  BY FrameType, Appended DEF SendType
<1>2. Frame(c).call = c /\ (Frame(c).hook <=> Hooked(c, frag[c]))
  BY DEF Frame, Hooked
<1> HIDE DEF n
<1>3. 1..(n + 1) = (1..n) \cup {n + 1}
  BY <1>1
<1>4. ASSUME NEW d \in Calls PROVE (Waiting(d)' <=> Waiting(d) \/ (d = c /\ Hooked(c, frag[c])))
  <2>1. Waiting(d)' <=> \E p \in 1..(n + 1) : queue'[p].call = d /\ queue'[p].hook
    BY <1>1 DEF Waiting
  <2>2. Waiting(d) <=> \E p \in 1..n : queue[p].call = d /\ queue[p].hook
    BY DEF Waiting, n
  <2> QED BY <2>1, <2>2, <1>1, <1>2, <1>3
<1> QED BY <1>4

LEMMA WaitingLess ==
  ASSUME SendType, CallType, Queued, queue # <<>>, queue' = Tail(queue)
  PROVE  /\ Head(queue) \in QFrame
         /\ \A d \in Calls : (Waiting(d)' <=> Waiting(d) /\ ~(d = Head(queue).call /\ Head(queue).hook))
<1> DEFINE n == Len(queue)
<1>1. /\ n \in Nat \ {0} /\ Len(queue') = n - 1 /\ Head(queue) = queue[1]
      /\ \A p \in 1..(n - 1) : queue'[p] = queue[p + 1] /\ p + 1 \in 1..n
  BY Tailed DEF SendType
<1>2. Head(queue) \in QFrame
  BY <1>1, InQueue
<1>3. ASSUME NEW d \in Calls
      PROVE  (Waiting(d)' <=> Waiting(d) /\ ~(d = Head(queue).call /\ Head(queue).hook))
  <2>1. ASSUME Waiting(d)' PROVE Waiting(d) /\ ~(d = Head(queue).call /\ Head(queue).hook)
    <3>1. PICK p \in 1..(n - 1) : queue'[p].call = d /\ queue'[p].hook
      BY <2>1, <1>1 DEF Waiting
    <3>2. p + 1 \in 1..n /\ queue[p + 1].call = d /\ queue[p + 1].hook
      BY <3>1, <1>1
    <3>3. ~(d = queue[1].call /\ queue[1].hook)
      <4>1. 1 \in 1..Len(queue) /\ p + 1 \in 1..Len(queue) /\ 1 < p + 1
        BY <1>1, <3>2
      <4> QED BY <4>1, <3>2, LastIsLast
    <3> QED BY <3>2, <3>3, <1>1 DEF Waiting
  <2>2. ASSUME Waiting(d), ~(d = Head(queue).call /\ Head(queue).hook) PROVE Waiting(d)'
    <3>1. PICK q \in 1..n : queue[q].call = d /\ queue[q].hook
      BY <2>2 DEF Waiting
    <3>2. q # 1
      BY <3>1, <2>2, <1>1
    <3> HIDE DEF n
    <3>3. q - 1 \in 1..(n - 1) /\ (q - 1) + 1 = q
      BY <3>1, <3>2, <1>1
    <3>4. queue'[q - 1] = queue[q]
      BY <3>3, <1>1
    <3> QED BY <3>1, <3>3, <3>4, <1>1 DEF Waiting
  <2> QED BY <2>1, <2>2
<1> QED BY <1>2, <1>3

\* The frame that Put appends is one its call is past.
LEMMA PutGone ==
  ASSUME CallType, BackType, AnswerInv, NEW c \in Calls, Put(c), ~sealed
  PROVE  (FrameGone(Frame(c)))'
<1>1. pc[c] = "put" /\ pc' = [pc EXCEPT ![c] = Resumed(c)] /\ UNCHANGED <<kind, split, frag, arrival>>
  BY DEF Put, Goto, After, callVars, backVars
<1>2. arrival[c] = "none"
  BY <1>1 DEF AnswerInv, Answered
<1>3. /\ Frame(c)'.call = c /\ Frame(c)'.i = frag[c]
      /\ (Frame(c)'.hook <=> Hooked(c, frag[c]))
      /\ (Hooked(c, frag[c])' <=> Hooked(c, frag[c])) /\ Fragments(c)' = Fragments(c)
  BY <1>1 DEF Frame, Hooked, Fragments
<1>4. frag[c] <= Fragments(c) /\ frag[c] \in 1..2 /\ Fragments(c) \in 1..2
  BY DEF CallType, Fragments
<1>5. CASE frag[c] = Fragments(c)
  <2>1. pc'[c] = "returned"
    BY <1>1, <1>5, <1>4 DEF Resumed, CallType
  <2>2. LastGone(c)'
    BY <2>1, <1>1, <1>2 DEF LastGone
  <2> QED BY <2>2, <1>1, <1>3, <1>4, <1>5 DEF FrameGone
<1>6. CASE frag[c] < Fragments(c)
  <2>1. pc'[c] = "next"
    BY <1>1, <1>6, <1>4 DEF Resumed, CallType
  <2>2. FirstGone(c)'
    BY <2>1 DEF FirstGone
  <2> QED BY <2>2, <1>1, <1>3, <1>4, <1>6 DEF FrameGone
<1> QED BY <1>4, <1>5, <1>6

\* The frames stay in their order, and each behind its call.
LEMMA QueuedStep == CallType /\ SendType /\ BackType /\ AnswerInv /\ Queued /\ [Next]_vars => Queued'
<1> SUFFICES ASSUME CallType, SendType, BackType, AnswerInv, Queued, [Next]_vars PROVE Queued'
  OBVIOUS
<1>1. \A d \in Calls : Moved(d)
  BY CallsMove
<1>2. ASSUME NEW p \in 1..Len(queue), ~(WriteOne /\ Head(queue).call = queue[p].call
                                         /\ Head(queue).i = Fragments(queue[p].call)),
             NEW f, f = queue[p]
      PROVE  (FrameGone(f))'
  <2>1. f \in QFrame /\ FrameGone(f)
    BY <1>2, InQueue DEF Queued
  <2> QED BY <2>1, <1>1, <1>2, GoneOn DEF QFrame
<1>3. CASE UNCHANGED queue
  <2>1. ~WriteOne
    BY <1>3, Tailed DEF WriteOne, SendType
  <2>2. ASSUME NEW p \in 1..Len(queue') PROVE (FrameGone(queue[p]))'
    <3>1. PICK f : f = queue[p]
      OBVIOUS
    <3>2. queue'[p] = f /\ (FrameGone(f))'
      BY <1>2, <1>3, <2>1, <3>1
    <3> QED BY <3>2
  <2> QED BY <1>3, <2>2 DEF Queued
<1>4. CASE Enqueued
  <2>1. PICK c \in Calls : Put(c) /\ ~sealed /\ queue' = Append(queue, Frame(c))
    BY <1>4 DEF Enqueued
  <2>2. PICK n \in Nat : n = Len(queue)
    BY DEF SendType
  <2>3. /\ Len(queue') = n + 1 /\ queue'[n + 1] = Frame(c) /\ \A p \in 1..n : queue'[p] = queue[p]
    BY <2>1, <2>2, FrameType, Appended DEF SendType
  <2>4. ~WriteOne
    BY <2>1, Tailed DEF WriteOne, SendType
  <2>5. UNCHANGED Frame(c)
    BY <2>1 DEF Put, Frame, Hooked, Fragments
  <2>6. \A p \in 1..(n + 1) : p \in 1..n \/ p = n + 1
    BY <2>2
  <2>7. ASSUME NEW p \in 1..Len(queue') PROVE (FrameGone(queue[p]))'
    <3>1. CASE p \in 1..n
      <4>1. PICK f : f = queue[p]
        OBVIOUS
      <4>2. queue'[p] = f /\ (FrameGone(f))'
        BY <1>2, <2>2, <2>3, <2>4, <3>1, <4>1
      <4> QED BY <4>2
    <3>2. CASE p = n + 1
      BY <2>1, <2>3, <2>5, <3>2, PutGone
    <3> QED BY <2>3, <2>6, <3>1, <3>2
  <2>8. ASSUME NEW p \in 1..Len(queue'), NEW q \in 1..Len(queue'), p < q, queue'[p].call = queue'[q].call
        PROVE  queue'[p].i < queue'[q].i
    <3>1. p \in 1..n
      BY <2>8, <2>3, <2>2
    <3>2. CASE q \in 1..n
      BY <3>1, <3>2, <2>8, <2>3, <2>2 DEF Queued
    <3>3. CASE q = n + 1
      <4>1. queue[p] \in QFrame /\ FrameGone(queue[p]) /\ queue[p].call = c /\ queue'[q].i = frag[c] /\ queue'[p] = queue[p]
        BY <3>1, <3>3, <2>8, <2>3, <2>2, InQueue DEF Queued, Frame
      <4>2. pc[c] = "put"
        BY <2>1 DEF Put, Goto
      <4>3. queue[p].i # Fragments(c) /\ queue[p].i <= Fragments(c) /\ FirstGone(c)
        BY <4>1, <4>2 DEF FrameGone, LastGone
      <4>4. queue[p].i = 1
        BY <4>1, <4>3 DEF QFrame, Fragments
      <4>5. frag[c] = 2
        BY <4>2, <4>3 DEF FirstGone, CallType
      <4> QED BY <4>1, <4>4, <4>5
    <3> QED BY <2>3, <2>6, <3>2, <3>3
  <2> QED BY <2>7, <2>8 DEF Queued
<1>5. CASE Dequeued
  <2>1. PICK n \in Nat : n = Len(queue)
    BY DEF SendType
  <2>2. queue # <<>> /\ queue' = Tail(queue)
    BY <1>5 DEF Dequeued
  <2>3. /\ n # 0 /\ Len(queue') = n - 1 /\ Head(queue) = queue[1]
        /\ \A p \in 1..(n - 1) : queue'[p] = queue[p + 1] /\ p + 1 \in 1..n
    BY <2>1, <2>2, Tailed DEF SendType
  <2>4. ASSUME NEW p \in 1..Len(queue') PROVE (FrameGone(queue[p]))'
    <3>1. PICK q \in 1..Len(queue) : q = p + 1
      BY <2>1, <2>3
    <3>2. ~(Head(queue).call = queue[q].call /\ Head(queue).i = Fragments(queue[q].call))
      <4>1. 1 \in 1..Len(queue) /\ 1 < q
        BY <3>1, <2>3, <2>1
      <4> QED BY <4>1, <2>3, LastIsLast
    <3>3. PICK f : f = queue[q]
      OBVIOUS
    <3>4. queue'[p] = f /\ (FrameGone(f))'
      BY <1>2, <2>3, <3>1, <3>2, <3>3
    <3> QED BY <3>4
  <2>5. ASSUME NEW p \in 1..Len(queue'), NEW q \in 1..Len(queue'), p < q, queue'[p].call = queue'[q].call
        PROVE  queue'[p].i < queue'[q].i
    <3>1. p + 1 \in 1..n /\ q + 1 \in 1..n /\ p + 1 < q + 1
      BY <2>5, <2>3, <2>1
    <3> QED BY <3>1, <2>5, <2>3, <2>1 DEF Queued
  <2> QED BY <2>4, <2>5 DEF Queued
<1> QED BY <1>3, <1>4, <1>5, QueueMoves

\* A caller gives its reference back when its call has returned.
LEMMA LentStep == CallType /\ SendType /\ Lent /\ [Next]_vars => Lent'
<1> SUFFICES ASSUME CallType, SendType, Lent, [Next]_vars PROVE Lent'
  OBVIOUS
<1> USE DEF vars, callVars, leaseVars, idVars, memVars, sendVars, backVars, endVars, CallType, SendType,
    PCs, Kinds, Lent
<1>1. CASE LeaseStep
  BY <1>1 DEF LeaseStep, RefreshDeadline, RefreshTickets, RefreshInit, Expire
<1>2. ASSUME NEW c \in Calls, Start(c) \/ TestDeadline(c) \/ TakeTicket(c) \/ TestClosed(c) PROVE Lent'
  BY <1>2 DEF Start, TestDeadline, TakeTicket, TestClosed, Refused, Goto, NoneLeft
<1>3. ASSUME NEW c \in Calls, NextStreamID(c) PROVE Lent'
  BY <1>3 DEF NextStreamID, AfterId, Goto
<1>4. ASSUME NEW c \in Calls, Register(c) PROVE Lent'
  BY <1>4 DEF Register, Goto
<1>5. ASSUME NEW c \in Calls, Demand(c) \/ IncRef(c) PROVE Lent'
  BY <1>5 DEF Demand, IncRef, Goto
<1>6. ASSUME NEW c \in Calls, SendClosed(c) PROVE Lent'
  BY <1>6 DEF SendClosed, Goto, After, Answerable, Resumed, Dropped, Done, Frame
<1>7. ASSUME NEW c \in Calls, Put(c) PROVE Lent'
  BY <1>7 DEF Put, Goto, After, Answerable, Resumed, Done, Frame
<1>8. ASSUME NEW c \in Calls, NextFragment(c) PROVE Lent'
  BY <1>8 DEF NextFragment, Goto
<1>9. ASSUME NEW c \in Calls, Kill(c) PROVE Lent'
  BY <1>9 DEF Kill, Goto, Resumed, Stop, Terminated
<1>10. ASSUME NEW c \in Calls, Killed(c) PROVE Lent'
  BY <1>10 DEF Killed, Goto, Resumed, Stopped
<1>11. ASSUME NEW c \in Calls, OwnerRelease(c) PROVE Lent'
  BY <1>11 DEF OwnerRelease
<1>12. CASE WriteOne
  BY <1>12 DEF WriteOne, Done
<1>13. ASSUME NEW c \in Calls, Arrive(c) \/ Cache(c) \/ Success(c) \/ Cancel(c) PROVE Lent'
  BY <1>13 DEF Arrive, Cache, Success, Cancel, Terminated
<1>14. ASSUME NEW c \in Calls, Finally(c) \/ Unregister(c) PROVE Lent'
  BY <1>14 DEF Finally, Unregister
<1>15. CASE Close \/ Seal \/ LoopEnded
  BY <1>15 DEF Close, Seal, LoopEnded
<1>16. ASSUME NEW c \in Calls, StopNext(c) PROVE Lent'
  BY <1>16 DEF StopNext, Stop, Terminated
<1>17. CASE StopOver
  BY <1>17 DEF StopOver, Stopped
<1>18. CASE DestroySndQueue
  BY <1>18 DEF DestroySndQueue, Done
<1>19. CASE UNCHANGED vars
  BY <1>19
<1> QED
  BY <1>1, <1>2, <1>3, <1>4, <1>5, <1>6, <1>7, <1>8, <1>9, <1>10, <1>11, <1>12,
     <1>13, <1>14, <1>15, <1>16, <1>17, <1>18, <1>19 DEF Next, CallStep, AnswerStep, CloseStep

\* What a step does to the references: nothing, or it gives the last frame of a
\* call its own, or takes it back.
Settled == UNCHANGED queue /\ \A d \in Calls : Owed(d)' = Owed(d)
Lends   == \E c \in Calls :
             /\ Put(c) /\ ~sealed /\ queue' = Append(queue, Frame(c))
             /\ \A d \in Calls : Owed(d)' = IF d = c /\ Hooked(c, frag[c]) THEN Owed(d) + 1 ELSE Owed(d)
Returns == /\ Dequeued
           /\ \A d \in Calls : Owed(d)' = IF d = Head(queue).call /\ Head(queue).hook THEN Owed(d) - 1 ELSE Owed(d)
RefsMove == Settled \/ Lends \/ Returns

\* Each action, but for Put and what takes a frame off, moves what is owed nowhere.
LEMMA RefsMoves == CallType /\ SendType /\ Stages /\ Lent /\ [Next]_vars => RefsMove
<1> SUFFICES ASSUME CallType, SendType, Stages, Lent, [Next]_vars PROVE RefsMove
  OBVIOUS
<1> USE DEF vars, callVars, leaseVars, idVars, memVars, sendVars, backVars, endVars, CallType, SendType,
    PCs, Kinds, Stages, Lent, Owed, Holding, Early, Fragments
<1>1. CASE LeaseStep
  <2>1. Settled
    BY <1>1 DEF Settled, LeaseStep, RefreshDeadline, RefreshTickets, RefreshInit, Expire
  <2> QED BY <2>1 DEF RefsMove
<1>2. ASSUME NEW c \in Calls, Start(c) \/ TestDeadline(c) \/ TakeTicket(c) \/ TestClosed(c) PROVE RefsMove
  <2>1. Settled
    BY <1>2 DEF Settled, Start, TestDeadline, TakeTicket, TestClosed, Refused, Goto, NoneLeft
  <2> QED BY <2>1 DEF RefsMove
<1>3. ASSUME NEW c \in Calls, NextStreamID(c) PROVE RefsMove
  <2>1. Settled
    BY <1>3 DEF Settled, NextStreamID, AfterId, Goto
  <2> QED BY <2>1 DEF RefsMove
<1>4. ASSUME NEW c \in Calls, Register(c) PROVE RefsMove
  <2>1. Settled
    BY <1>4 DEF Settled, Register, Goto
  <2> QED BY <2>1 DEF RefsMove
<1>5. ASSUME NEW c \in Calls, Demand(c) \/ IncRef(c) PROVE RefsMove
  <2>1. ASSUME Demand(c) PROVE Settled
    <3>1. /\ pc[c] = "demand" /\ pc'[c] \in {"incref", "returned"} /\ \A d \in Calls : d # c => pc'[d] = pc[d]
          /\ UNCHANGED <<kind, split, frag, refs, owned, queue>>
      BY <2>1 DEF Demand, Goto
    <3> QED BY <3>1 DEF Settled
  <2>2. ASSUME IncRef(c) PROVE Settled
    BY <2>2 DEF Settled, IncRef, Goto
  <2> QED BY <1>5, <2>1, <2>2 DEF RefsMove
<1>6. ASSUME NEW c \in Calls, SendClosed(c) PROVE RefsMove
  <2> USE <1>6 DEF SendClosed, Goto
  <2>1. \A d \in Calls : d # c => Owed(d)' = Owed(d)
    BY DEF Dropped, Done, Frame
  <2>2. pc' = [pc EXCEPT ![c] = IF closed THEN After(c,
      FALSE) ELSE "put"] /\ pc[c] = "send" /\ owned'[c] = owned[c]
    OBVIOUS
  <2>3. ASSUME kind[c] = "fnf" /\ split[c] /\ frag[c] = Fragments(c) PROVE Owed(c)' = Owed(c)
    <3>1. refs'[c] = refs[c] - 1
      BY <2>3
    <3>2. Holding(c) /\ ~Holding(c)'
      BY <2>2, <2>3 DEF After, Answerable, Resumed
    <3> HIDE DEF Holding
    <3> QED BY <3>1, <3>2, <2>2
  <2>4. ASSUME ~(kind[c] = "fnf" /\ split[c] /\ frag[c] = Fragments(c)) /\ ~closed
        PROVE  Owed(c)' = Owed(c)
    <3>1. refs'[c] = refs[c] /\ pc'[c] = "put"
      BY <2>4
    <3>2. Holding(c) <=> Holding(c)'
      BY <3>1, <2>2, <2>4
    <3> HIDE DEF Holding
    <3> QED BY <3>1, <3>2, <2>2
  <2>5. ASSUME ~(kind[c] = "fnf" /\ split[c] /\ frag[c] = Fragments(c)) /\ closed
        PROVE  Owed(c)' = Owed(c)
    <3>1. CASE Hooked(c, frag[c])
      <4>1. refs'[c] = refs[c] - 1
        BY <2>5, <3>1 DEF Dropped, Done, Frame
      <4>2. Holding(c) /\ ~Holding(c)'
        BY <2>2, <2>5, <3>1 DEF Hooked, After, Answerable, Resumed
      <4> HIDE DEF Holding
      <4> QED BY <4>1, <4>2, <2>2
    <3>2. CASE ~Hooked(c, frag[c])
      <4>1. refs'[c] = refs[c]
        BY <2>5, <3>2 DEF Dropped, Done, Frame
      <4>2. Holding(c) <=> Holding(c)'
        BY <2>2, <2>5, <3>2 DEF Hooked, After, Answerable, Resumed
      <4> HIDE DEF Holding
      <4> QED BY <4>1, <4>2, <2>2
    <3> QED BY <3>1, <3>2
  <2>6. Owed(c)' = Owed(c) /\ UNCHANGED queue
    <3> HIDE DEF Owed
    <3> QED BY <2>3, <2>4, <2>5 DEF sendVars
  <2>7. Settled
    <3> HIDE DEF Owed
    <3> QED BY <2>1, <2>6 DEF Settled
  <2> QED BY <2>7 DEF RefsMove
<1>7. ASSUME NEW c \in Calls, Put(c) PROVE RefsMove
  <2> USE <1>7 DEF Put, Goto
  <2>1. pc' = [pc EXCEPT ![c] = After(c, ~sealed)] /\ pc[c] = "put" /\ owned'[c] = owned[c]
    OBVIOUS
  <2>2. \A d \in Calls : d # c => Owed(d)' = Owed(d)
    BY DEF Done, Frame
  <2>3. Holding(c) <=> kind[c] # "push" /\ ~(Early(c) /\ frag[c] = 2)
    BY <2>1
  <2>4. Holding(c)' <=> Holding(c) /\ ~Hooked(c, frag[c])
    BY <2>1, <2>3 DEF Hooked, After, Answerable, Resumed
  <2>5. Hooked(c, frag[c]) => Holding(c)
    BY <2>3 DEF Hooked
  <2>6. CASE sealed
    <3>1. refs'[c] = IF Hooked(c, frag[c]) THEN refs[c] - 1 ELSE refs[c]
      BY <2>6 DEF Done, Frame
    <3>2. Settled
      <4>1. CASE Hooked(c, frag[c])
        BY <4>1, <3>1, <2>1, <2>2, <2>4, <2>5, <2>6 DEF Settled
      <4>2. CASE ~Hooked(c, frag[c])
        BY <4>2, <3>1, <2>1, <2>2, <2>4, <2>5, <2>6 DEF Settled
      <4> QED BY <4>1, <4>2
    <3> QED BY <3>2 DEF RefsMove
  <2>7. CASE ~sealed
    <3>1. refs'[c] = refs[c] /\ queue' = Append(queue, Frame(c))
      BY <2>7
    <3>2. Owed(c)' = IF Hooked(c, frag[c]) THEN Owed(c) + 1 ELSE Owed(c)
      <4>1. CASE Hooked(c, frag[c])
        BY <4>1, <3>1, <2>1, <2>4, <2>5
      <4>2. CASE ~Hooked(c, frag[c])
        BY <4>2, <3>1, <2>1, <2>4, <2>5
      <4> QED BY <4>1, <4>2
    <3>3. \A d \in Calls : Owed(d)' = IF d = c /\ Hooked(c, frag[c]) THEN Owed(d) + 1 ELSE Owed(d)
      <4> HIDE DEF Owed
      <4> QED BY <2>2, <3>2
    <3>4. Lends
      <4> HIDE DEF Owed
      <4> QED BY <2>7, <3>1, <3>3 DEF Lends
    <3> QED BY <3>4 DEF RefsMove
  <2> QED BY <2>6, <2>7
<1>8. ASSUME NEW c \in Calls, NextFragment(c) PROVE RefsMove
  <2>1. Settled
    BY <1>8 DEF Settled, NextFragment, Goto
  <2> QED BY <2>1 DEF RefsMove
<1>9. ASSUME NEW c \in Calls, Kill(c) PROVE RefsMove
  <2>1. Settled
    BY <1>9 DEF Settled, Kill, Goto, Resumed, Stop, Terminated
  <2> QED BY <2>1 DEF RefsMove
<1>10. ASSUME NEW c \in Calls, Killed(c) PROVE RefsMove
  <2>1. Settled
    BY <1>10 DEF Settled, Killed, Goto, Resumed, Stopped
  <2> QED BY <2>1 DEF RefsMove
<1>11. ASSUME NEW c \in Calls, OwnerRelease(c) PROVE RefsMove
  <2>1. Settled
    BY <1>11 DEF Settled, OwnerRelease
  <2> QED BY <2>1 DEF RefsMove
<1>12. CASE WriteOne
  <2>1. Head(queue) \in QFrame
    BY <1>12, InQueue, Tailed DEF WriteOne
  <2>2. Returns
    BY <1>12, <2>1 DEF WriteOne, Dequeued, Returns, Done, QFrame
  <2> QED BY <2>2 DEF RefsMove
<1>13. ASSUME NEW c \in Calls, Arrive(c) \/ Cache(c) \/ Success(c) \/ Cancel(c) PROVE RefsMove
  <2>1. Settled
    BY <1>13 DEF Settled, Arrive, Cache, Success, Cancel, Terminated
  <2> QED BY <2>1 DEF RefsMove
<1>14. ASSUME NEW c \in Calls, Finally(c) \/ Unregister(c) PROVE RefsMove
  <2>1. Settled
    BY <1>14 DEF Settled, Finally, Unregister
  <2> QED BY <2>1 DEF RefsMove
<1>15. CASE Close \/ Seal \/ LoopEnded
  <2>1. Settled
    BY <1>15 DEF Settled, Close, Seal, LoopEnded
  <2> QED BY <2>1 DEF RefsMove
<1>16. ASSUME NEW c \in Calls, StopNext(c) PROVE RefsMove
  <2>1. Settled
    BY <1>16 DEF Settled, StopNext, Stop, Terminated
  <2> QED BY <2>1 DEF RefsMove
<1>17. CASE StopOver
  <2>1. Settled
    BY <1>17 DEF Settled, StopOver, Stopped
  <2> QED BY <2>1 DEF RefsMove
<1>18. CASE DestroySndQueue
  <2>1. CASE queue = <<>>
    <3>1. Settled
      BY <1>18, <2>1 DEF DestroySndQueue, Settled
    <3> QED BY <3>1 DEF RefsMove
  <2>2. CASE queue # <<>>
    <3>1. Head(queue) \in QFrame
      BY <2>2, InQueue, Tailed
    <3>2. Returns
      BY <1>18, <2>2, <3>1 DEF DestroySndQueue, Dequeued, Returns, Done, QFrame
    <3> QED BY <3>2 DEF RefsMove
  <2> QED BY <2>1, <2>2
<1>19. CASE UNCHANGED vars
  <2>1. Settled
    BY <1>19 DEF Settled
  <2> QED BY <2>1 DEF RefsMove
<1> QED
  BY <1>1, <1>2, <1>3, <1>4, <1>5, <1>6, <1>7, <1>8, <1>9, <1>10, <1>11, <1>12,
     <1>13, <1>14, <1>15, <1>16, <1>17, <1>18, <1>19 DEF Next, CallStep, AnswerStep, CloseStep

\* Of a request that holds its payload while the socket is open.
Keeps(d) == Answerable(d) /\ ~closed' /\ Holding(d) =>
              Holding(d)' \/ (Put(d) /\ ~sealed /\ queue' = Append(queue, Frame(d)) /\ Hooked(d, frag[d]))

\* A request gives up its payload with its last frame.
LEMMA CallsKeep == CallType /\ SendType /\ ClosingInv /\ [Next]_vars => (\A d \in Calls : Keeps(d))
<1> SUFFICES ASSUME CallType, SendType, ClosingInv, [Next]_vars PROVE (\A d \in Calls : Keeps(d))
  OBVIOUS
<1> USE DEF vars, callVars, leaseVars, idVars, memVars, sendVars, backVars, endVars, CallType, SendType,
    PCs, Kinds, ClosingInv, Keeps, Holding, Early, Fragments
<1>1. CASE LeaseStep
  BY <1>1 DEF LeaseStep, RefreshDeadline, RefreshTickets, RefreshInit, Expire
<1>2. ASSUME NEW c \in Calls, Start(c) \/ TestDeadline(c) \/ TakeTicket(c) \/ TestClosed(c)
      PROVE (\A d \in Calls : Keeps(d))
  BY <1>2 DEF Start, TestDeadline, TakeTicket, TestClosed, Refused, Goto, NoneLeft
<1>3. ASSUME NEW c \in Calls, NextStreamID(c) PROVE (\A d \in Calls : Keeps(d))
  BY <1>3 DEF NextStreamID, AfterId, Goto
<1>4. ASSUME NEW c \in Calls, Register(c) PROVE (\A d \in Calls : Keeps(d))
  BY <1>4 DEF Register, Goto
<1>5. ASSUME NEW c \in Calls, Demand(c) \/ IncRef(c) PROVE (\A d \in Calls : Keeps(d))
  BY <1>5 DEF Demand, IncRef, Goto
<1>6. ASSUME NEW c \in Calls, SendClosed(c) PROVE (\A d \in Calls : Keeps(d))
  BY <1>6 DEF SendClosed, Goto, After, Answerable, Resumed, Dropped, Done, Frame
<1>7. ASSUME NEW c \in Calls, Put(c) PROVE (\A d \in Calls : Keeps(d))
  <2> USE <1>7 DEF Put, Goto
  <2>1. pc' = [pc EXCEPT ![c] = After(c, ~sealed)] /\ pc[c] = "put"
    OBVIOUS
  <2>2. Keeps(c)
    <3>1. CASE sealed
      BY <3>1
    <3>2. CASE ~sealed /\ Hooked(c, frag[c])
      BY <3>2
    <3>3. CASE ~sealed /\ ~Hooked(c, frag[c])
      BY <3>3, <2>1 DEF After, Answerable, Resumed, Hooked
    <3> QED BY <3>1, <3>2, <3>3
  <2>3. ASSUME NEW d \in Calls, d # c PROVE Keeps(d)
    BY <2>3
  <2> HIDE DEF Keeps
  <2> QED BY <2>2, <2>3
<1>8. ASSUME NEW c \in Calls, NextFragment(c) PROVE (\A d \in Calls : Keeps(d))
  BY <1>8 DEF NextFragment, Goto
<1>9. ASSUME NEW c \in Calls, Kill(c) PROVE (\A d \in Calls : Keeps(d))
  BY <1>9 DEF Kill, Goto, Resumed, Stop, Terminated
<1>10. ASSUME NEW c \in Calls, Killed(c) PROVE (\A d \in Calls : Keeps(d))
  BY <1>10 DEF Killed, Goto, Resumed, Stopped
<1>11. ASSUME NEW c \in Calls, OwnerRelease(c) PROVE (\A d \in Calls : Keeps(d))
  BY <1>11 DEF OwnerRelease
<1>12. CASE WriteOne
  BY <1>12 DEF WriteOne, Done
<1>13. ASSUME NEW c \in Calls, Arrive(c) \/ Cache(c) \/ Success(c) \/ Cancel(c)
      PROVE (\A d \in Calls : Keeps(d))
  BY <1>13 DEF Arrive, Cache, Success, Cancel, Terminated
<1>14. ASSUME NEW c \in Calls, Finally(c) \/ Unregister(c) PROVE (\A d \in Calls : Keeps(d))
  BY <1>14 DEF Finally, Unregister
<1>15. CASE Close \/ Seal \/ LoopEnded
  BY <1>15 DEF Close, Seal, LoopEnded
<1>16. ASSUME NEW c \in Calls, StopNext(c) PROVE (\A d \in Calls : Keeps(d))
  BY <1>16 DEF StopNext, Stop, Terminated
<1>17. CASE StopOver
  BY <1>17 DEF StopOver, Stopped
<1>18. CASE DestroySndQueue
  BY <1>18 DEF DestroySndQueue, Done
<1>19. CASE UNCHANGED vars
  BY <1>19
<1> QED
  BY <1>1, <1>2, <1>3, <1>4, <1>5, <1>6, <1>7, <1>8, <1>9, <1>10, <1>11, <1>12,
     <1>13, <1>14, <1>15, <1>16, <1>17, <1>18, <1>19 DEF Next, CallStep, AnswerStep, CloseStep

LEMMA ClosedStays == SendType /\ [Next]_vars => (closed => closed')
<1> SUFFICES ASSUME SendType, [Next]_vars PROVE (closed => closed')
  OBVIOUS
<1> USE DEF vars, callVars, leaseVars, idVars, memVars, sendVars, backVars, endVars, SendType
<1>1. CASE LeaseStep
  BY <1>1 DEF LeaseStep, RefreshDeadline, RefreshTickets, RefreshInit, Expire
<1>2. ASSUME NEW c \in Calls, Start(c) \/ TestDeadline(c) \/ TakeTicket(c) \/ TestClosed(c)
      PROVE (closed => closed')
  BY <1>2 DEF Start, TestDeadline, TakeTicket, TestClosed, Refused, Goto, NoneLeft
<1>3. ASSUME NEW c \in Calls, NextStreamID(c) PROVE (closed => closed')
  BY <1>3 DEF NextStreamID, AfterId, Goto
<1>4. ASSUME NEW c \in Calls, Register(c) PROVE (closed => closed')
  BY <1>4 DEF Register, Goto
<1>5. ASSUME NEW c \in Calls, Demand(c) \/ IncRef(c) PROVE (closed => closed')
  BY <1>5 DEF Demand, IncRef, Goto
<1>6. ASSUME NEW c \in Calls, SendClosed(c) PROVE (closed => closed')
  BY <1>6 DEF SendClosed, Goto, After, Answerable, Resumed, Dropped, Done, Frame
<1>7. ASSUME NEW c \in Calls, Put(c) PROVE (closed => closed')
  BY <1>7 DEF Put, Goto, After, Answerable, Resumed, Done, Frame
<1>8. ASSUME NEW c \in Calls, NextFragment(c) PROVE (closed => closed')
  BY <1>8 DEF NextFragment, Goto
<1>9. ASSUME NEW c \in Calls, Kill(c) PROVE (closed => closed')
  BY <1>9 DEF Kill, Goto, Resumed, Stop, Terminated
<1>10. ASSUME NEW c \in Calls, Killed(c) PROVE (closed => closed')
  BY <1>10 DEF Killed, Goto, Resumed, Stopped
<1>11. ASSUME NEW c \in Calls, OwnerRelease(c) PROVE (closed => closed')
  BY <1>11 DEF OwnerRelease
<1>12. CASE WriteOne
  BY <1>12 DEF WriteOne, Done
<1>13. ASSUME NEW c \in Calls, Arrive(c) \/ Cache(c) \/ Success(c) \/ Cancel(c) PROVE (closed => closed')
  BY <1>13 DEF Arrive, Cache, Success, Cancel, Terminated
<1>14. ASSUME NEW c \in Calls, Finally(c) \/ Unregister(c) PROVE (closed => closed')
  BY <1>14 DEF Finally, Unregister
<1>15. CASE Close \/ Seal \/ LoopEnded
  BY <1>15 DEF Close, Seal, LoopEnded
<1>16. ASSUME NEW c \in Calls, StopNext(c) PROVE (closed => closed')
  BY <1>16 DEF StopNext, Stop, Terminated
<1>17. CASE StopOver
  BY <1>17 DEF StopOver, Stopped
<1>18. CASE DestroySndQueue
  BY <1>18 DEF DestroySndQueue, Done
<1>19. CASE UNCHANGED vars
  BY <1>19
<1> QED
  BY <1>1, <1>2, <1>3, <1>4, <1>5, <1>6, <1>7, <1>8, <1>9, <1>10, <1>11, <1>12,
     <1>13, <1>14, <1>15, <1>16, <1>17, <1>18, <1>19 DEF Next, CallStep, AnswerStep, CloseStep

\* The last frame of a call takes over the reference of its call.
LEMMA CountedStep ==
  CallType /\ SendType /\ Stages /\ Lent /\ Queued /\ Counted /\ [Next]_vars => Counted'
<1> SUFFICES ASSUME CallType, SendType, Stages, Lent, Queued, Counted, [Next]_vars PROVE Counted'
  OBVIOUS
<1>1. Settled \/ Lends \/ Returns
  BY RefsMoves DEF RefsMove
<1>2. CASE Settled
  <2>1. \A d \in Calls : Owed(d)' = Owed(d) /\ (Waiting(d)' <=> Waiting(d))
    BY <1>2, WaitingSame DEF Settled
  <2> HIDE DEF Owed, Waiting
  <2> QED BY <2>1 DEF Counted
<1>3. CASE Lends
  <2>1. PICK c \in Calls :
          /\ Put(c) /\ ~sealed /\ queue' = Append(queue, Frame(c))
          /\ \A d \in Calls : Owed(d)' = IF d = c /\ Hooked(c, frag[c]) THEN Owed(d) + 1 ELSE Owed(d)
    BY <1>3 DEF Lends
  <2>2. \A d \in Calls : (Waiting(d)' <=> Waiting(d) \/ (d = c /\ Hooked(c, frag[c])))
    BY <2>1, WaitingMore
  <2>3. ~Waiting(c)
    BY <2>1, WaitingLast DEF Put, Goto, LastGone
  <2>4. ASSUME NEW d \in Calls PROVE Owed(d)' = IF Waiting(d)' THEN 1 ELSE 0
    <3>1. Owed(d) = IF Waiting(d) THEN 1 ELSE 0
      BY DEF Counted
    <3>2. CASE d = c /\ Hooked(c, frag[c])
      <4>1. Owed(d) = 0 /\ Owed(d)' = Owed(d) + 1 /\ Waiting(d)'
        BY <3>1, <3>2, <2>1, <2>2, <2>3
      <4> QED BY <4>1
    <3>3. CASE ~(d = c /\ Hooked(c, frag[c]))
      <4>1. Owed(d)' = Owed(d) /\ (Waiting(d)' <=> Waiting(d))
        BY <3>3, <2>1, <2>2
      <4> QED BY <3>1, <4>1
    <3> QED BY <3>2, <3>3
  <2> QED BY <2>4 DEF Counted
<1>4. CASE Returns
  <2>1. /\ queue # <<>> /\ queue' = Tail(queue)
        /\ \A d \in Calls : Owed(d)' = IF d = Head(queue).call /\ Head(queue).hook THEN Owed(d) - 1 ELSE Owed(d)
    BY <1>4 DEF Returns, Dequeued
  <2>2. /\ Head(queue) \in QFrame
        /\ \A d \in Calls : (Waiting(d)' <=> Waiting(d) /\ ~(d = Head(queue).call /\ Head(queue).hook))
    BY <2>1, WaitingLess
  <2>3. Head(queue).hook => Waiting(Head(queue).call)
    <3>1. 1 \in 1..Len(queue) /\ Head(queue) = queue[1]
      BY <2>1, Tailed DEF SendType
    <3> QED BY <3>1 DEF Waiting
  <2>4. ASSUME NEW d \in Calls PROVE Owed(d)' = IF Waiting(d)' THEN 1 ELSE 0
    <3>1. Owed(d) = IF Waiting(d) THEN 1 ELSE 0
      BY DEF Counted
    <3>2. CASE d = Head(queue).call /\ Head(queue).hook
      <4>1. Owed(d) = 1 /\ Owed(d)' = Owed(d) - 1 /\ ~Waiting(d)'
        BY <3>1, <3>2, <2>1, <2>2, <2>3
      <4> QED BY <4>1
    <3>3. CASE ~(d = Head(queue).call /\ Head(queue).hook)
      <4>1. Owed(d)' = Owed(d) /\ (Waiting(d)' <=> Waiting(d))
        BY <3>3, <2>1, <2>2
      <4> QED BY <3>1, <4>1
    <3> QED BY <3>2, <3>3
  <2> QED BY <2>4 DEF Counted
<1> QED BY <1>1, <1>2, <1>3, <1>4

\* A request that holds its payload, or whose last frame waits.
Held(c) == Holding(c) \/ Waiting(c)

LEMMA HeldOn ==
  ASSUME CallType, SendType, Queued, ClosingInv, [Next]_vars,
         NEW c \in Calls, Answerable(c), ~closed', Held(c),
         ~(Dequeued /\ Head(queue).call = c /\ Head(queue).hook)
  PROVE  Held(c)'
<1>1. CASE Holding(c)
  <2>1. Holding(c)' \/ (Put(c) /\ ~sealed /\ queue' = Append(queue, Frame(c)) /\ Hooked(c, frag[c]))
    BY <1>1, CallsKeep DEF Keeps
  <2>2. CASE Holding(c)'
    BY <2>2 DEF Held
  <2>3. CASE queue' = Append(queue, Frame(c)) /\ Hooked(c, frag[c])
    BY <2>3, WaitingMore DEF Held
  <2> QED BY <2>1, <2>2, <2>3
<1>2. CASE Waiting(c)
  <2>1. CASE UNCHANGED queue
    BY <1>2, <2>1, WaitingSame DEF Held
  <2>2. CASE Enqueued
    BY <1>2, <2>2, WaitingMore DEF Held, Enqueued
  <2>3. CASE Dequeued
    BY <1>2, <2>3, WaitingLess DEF Held, Dequeued
  <2> QED BY <2>1, <2>2, <2>3, QueueMoves
<1> QED BY <1>1, <1>2 DEF Held

\* While the socket is open, the fragments of a request are held.
LEMMA CoveredStep ==
  CallType /\ SendType /\ BackType /\ AnswerInv /\ Queued /\ ClosingInv /\ Covered /\ [Next]_vars => Covered'
<1> SUFFICES ASSUME CallType, SendType, BackType, AnswerInv, Queued, ClosingInv, Covered, [Next]_vars
             PROVE  Covered'
  OBVIOUS
<1>1. ASSUME NEW p \in 1..Len(queue'), NEW c \in Calls, c = queue'[p].call, Answerable(c)', ~closed'
      PROVE  Held(c)'
  <2>1. Answerable(c) /\ ~closed
    BY <1>1, CallsMove, ClosedStays DEF Moved, CallType, Answerable
  <2>2. ASSUME NEW q \in 1..Len(queue), queue[q].call = c PROVE Held(c)
    BY <2>1, <2>2 DEF Covered, Held
  <2>3. CASE UNCHANGED queue
    <3>1. ~Dequeued
      BY <2>3, Tailed DEF Dequeued, SendType
    <3> QED BY <1>1, <2>1, <2>2, <2>3, <3>1, HeldOn
  <2>4. CASE Enqueued
    <3>1. PICK d \in Calls : Put(d) /\ ~sealed /\ queue' = Append(queue, Frame(d))
      BY <2>4 DEF Enqueued
    <3>2. PICK n \in Nat : n = Len(queue)
      BY DEF SendType
    <3>3. Len(queue') = n + 1 /\ queue'[n + 1] = Frame(d) /\ \A r \in 1..n : queue'[r] = queue[r]
      BY <3>1, <3>2, FrameType, Appended DEF SendType
    <3>4. ~Dequeued
      BY <3>1, <3>2, <3>3, Tailed DEF Dequeued, SendType
    <3>5. Held(c)
      <4>1. CASE p \in 1..n
        BY <4>1, <1>1, <2>2, <3>2, <3>3
      <4>2. CASE p = n + 1
        <5>1. c = d /\ pc[c] = "put"
          BY <4>2, <1>1, <3>1, <3>3 DEF Frame, Put, Goto
        <5> QED BY <5>1, <2>1 DEF Held, Holding, Early, Answerable
      <4> QED BY <1>1, <3>2, <3>3, <4>1, <4>2
    <3> QED BY <1>1, <2>1, <3>4, <3>5, HeldOn
  <2>5. CASE Dequeued
    <3>1. PICK n \in Nat : n = Len(queue)
      BY DEF SendType
    <3>2. /\ n # 0 /\ Len(queue') = n - 1 /\ Head(queue) = queue[1]
          /\ \A r \in 1..(n - 1) : queue'[r] = queue[r + 1] /\ r + 1 \in 1..n
      BY <2>5, <3>1, Tailed DEF Dequeued, SendType
    <3>3. PICK q \in 1..Len(queue) : q = p + 1
      BY <1>1, <3>1, <3>2
    <3>4. queue[q].call = c
      BY <1>1, <3>2, <3>3
    <3>5. ~(Head(queue).call = c /\ Head(queue).hook)
      <4>1. 1 \in 1..Len(queue) /\ 1 < q
        BY <1>1, <3>1, <3>2, <3>3
      <4> QED BY <4>1, <3>2, <3>4, LastIsLast
    <3> QED BY <1>1, <2>1, <2>2, <3>4, <3>5, HeldOn
  <2> QED BY <2>3, <2>4, <2>5, QueueMoves
<1>2. ASSUME NEW p \in 1..Len(queue') PROVE queue'[p].call \in Calls
  <2>1. SendType'
    BY SendTypeStep
  <2>2. queue' \in Seq(QFrame)
    BY <2>1 DEF SendType
  <2>3. queue'[p] \in QFrame
    BY <1>2, <2>2
  <2> QED BY <2>3 DEF QFrame
<1> QED BY <1>1, <1>2 DEF Covered, Held

LEMMA RefInvStep ==
  CallType /\ SendType /\ BackType /\ EndType /\ AnswerInv /\ Stages /\ RefInv /\ [Next]_vars => RefInv'
  BY QueuedStep, CoveredStep, LentStep, CountedStep, ClosingStep DEF RefInv

LEMMA RefInvInit == Init => RefInv
<1> SUFFICES ASSUME Init PROVE RefInv
  OBVIOUS
<1>1. Len(queue) = 0 /\ \A c \in Calls : pc[c] = "start" /\ refs[c] = 1 /\ owned[c]
  BY DEF Init
<1>2. \A c \in Calls : ~Waiting(c) /\ ~Holding(c)
  BY <1>1 DEF Waiting, Holding
<1>3. Queued /\ Covered
  BY <1>1 DEF Queued, Covered
<1>4. Lent /\ ClosingInv
  BY <1>1 DEF Init, Lent, ClosingInv
<1>5. Counted
  BY <1>1, <1>2 DEF Counted, Owed
<1> QED BY <1>3, <1>4, <1>5 DEF RefInv

----------------------------------------------------------------------------
(* The answers, and the payloads *)

\* one half of AnswerInv
AllAnswered == \A c \in Calls : Answered(c)

\* An answer is released by onFinally once and by stopWithError once.
LEMMA AnsweredStep ==
  CallType /\ SendType /\ BackType /\ EndType /\ Stages /\ Queued /\ AllAnswered /\ Stops /\ [Next]_vars
    => AllAnswered'
<1> SUFFICES ASSUME CallType, SendType, BackType, EndType, Stages, Queued, AllAnswered, Stops, [Next]_vars
      PROVE AllAnswered'
  OBVIOUS
<1> USE DEF vars, callVars, leaseVars, idVars, memVars, sendVars, backVars, endVars, CallType, BackType,
    EndType, PCs, Kinds, Stages, AllAnswered, Answered, Stops
<1>1. CASE LeaseStep
  BY <1>1 DEF LeaseStep, RefreshDeadline, RefreshTickets, RefreshInit, Expire
<1>2. ASSUME NEW c \in Calls, Start(c) \/ TestDeadline(c) \/ TakeTicket(c) \/ TestClosed(c) PROVE AllAnswered'
  BY <1>2 DEF Start, TestDeadline, TakeTicket, TestClosed, Refused, Goto, NoneLeft
<1>3. ASSUME NEW c \in Calls, NextStreamID(c) PROVE AllAnswered'
  BY <1>3 DEF NextStreamID, AfterId, Goto
<1>4. ASSUME NEW c \in Calls, Register(c) PROVE AllAnswered'
  BY <1>4 DEF Register, Goto
<1>5. ASSUME NEW c \in Calls, Demand(c) \/ IncRef(c) PROVE AllAnswered'
  BY <1>5 DEF Demand, IncRef, Goto
<1>6. ASSUME NEW c \in Calls, SendClosed(c) PROVE AllAnswered'
  BY <1>6 DEF SendClosed, Goto, After, Answerable, Resumed, Dropped, Done, Frame
<1>7. ASSUME NEW c \in Calls, Put(c) PROVE AllAnswered'
  BY <1>7 DEF Put, Goto, After, Answerable, Resumed, Done, Frame
<1>8. ASSUME NEW c \in Calls, NextFragment(c) PROVE AllAnswered'
  BY <1>8 DEF NextFragment, Goto
<1>9. ASSUME NEW c \in Calls, Kill(c) PROVE AllAnswered'
  BY <1>9 DEF Kill, Goto, Resumed, Stop, Terminated
<1>10. ASSUME NEW c \in Calls, Killed(c) PROVE AllAnswered'
  BY <1>10 DEF Killed, Goto, Resumed, Stopped
<1>11. ASSUME NEW c \in Calls, OwnerRelease(c) PROVE AllAnswered'
  BY <1>11 DEF OwnerRelease
<1>12. CASE WriteOne
  <2>1. queue # <<>> /\ UNCHANGED <<kind, pc, cache, answer, sink, fin, twice>>
    BY <1>12 DEF WriteOne
  <2>2. 1 \in 1..Len(queue) /\ Head(queue) = queue[1] /\ queue[1] \in QFrame
    BY <2>1, Tailed, InQueue DEF SendType
  <2>3. PICK f \in QFrame : f = Head(queue)
    BY <2>2
  <2>4. CASE kind[f.call] \in {"response", "stream"} /\ f.i = Fragments(f.call)
    <3>1. f.call \in Calls /\ LastGone(f.call)
      BY <2>2, <2>3, <2>4 DEF Queued, FrameGone, QFrame
    <3>2. arrival' = [arrival EXCEPT ![f.call] = "asked"]
      BY <1>12, <2>3, <2>4 DEF WriteOne
    <3> QED BY <2>1, <2>4, <3>1, <3>2 DEF LastGone
  <2>5. CASE ~(kind[f.call] \in {"response", "stream"} /\ f.i = Fragments(f.call))
    <3>1. arrival' = arrival
      BY <1>12, <2>3, <2>5 DEF WriteOne
    <3> QED BY <2>1, <3>1
  <2> QED BY <2>4, <2>5
<1>13. ASSUME NEW c \in Calls, Arrive(c) \/ Cache(c) \/ Success(c) \/ Cancel(c) PROVE AllAnswered'
  BY <1>13 DEF Arrive, Cache, Success, Cancel, Terminated
<1>14. ASSUME NEW c \in Calls, Finally(c) \/ Unregister(c) PROVE AllAnswered'
  BY <1>14 DEF Finally, Unregister
<1>15. CASE Close \/ Seal \/ LoopEnded
  BY <1>15 DEF Close, Seal, LoopEnded
<1>16. ASSUME NEW c \in Calls, StopNext(c) PROVE AllAnswered'
  BY <1>16 DEF StopNext, Stop, Terminated
<1>17. CASE StopOver
  BY <1>17 DEF StopOver, Stopped
<1>18. CASE DestroySndQueue
  BY <1>18 DEF DestroySndQueue, Done
<1>19. CASE UNCHANGED vars
  BY <1>19
<1> QED
  BY <1>1, <1>2, <1>3, <1>4, <1>5, <1>6, <1>7, <1>8, <1>9, <1>10, <1>11, <1>12,
     <1>13, <1>14, <1>15, <1>16, <1>17, <1>18, <1>19 DEF Next, CallStep, AnswerStep, CloseStep

\* Close passes each callback once, and a call that failed has no answer to release.
LEMMA StopsStep ==
  CallType /\ SendType /\ BackType /\ EndType /\ IdType /\ Stages /\ AllAnswered /\ Stops /\ [Next]_vars
    => Stops'
<1> SUFFICES ASSUME CallType, SendType, BackType, EndType, IdType, Stages, AllAnswered, Stops, [Next]_vars
      PROVE Stops'
  OBVIOUS
<1> USE DEF vars, callVars, leaseVars, idVars, memVars, sendVars, backVars, endVars, CallType, BackType,
    EndType, PCs, Kinds, Stages, AllAnswered, Answered, Stops, IdType
<1>1. CASE LeaseStep
  BY <1>1 DEF LeaseStep, RefreshDeadline, RefreshTickets, RefreshInit, Expire
<1>2. ASSUME NEW c \in Calls, Start(c) \/ TestDeadline(c) \/ TakeTicket(c) \/ TestClosed(c) PROVE Stops'
  BY <1>2 DEF Start, TestDeadline, TakeTicket, TestClosed, Refused, Goto, NoneLeft
<1>3. ASSUME NEW c \in Calls, NextStreamID(c) PROVE Stops'
  BY <1>3 DEF NextStreamID, AfterId, Goto
<1>4. ASSUME NEW c \in Calls, Register(c) PROVE Stops'
  BY <1>4 DEF Register, Goto
<1>5. ASSUME NEW c \in Calls, Demand(c) \/ IncRef(c) PROVE Stops'
  BY <1>5 DEF Demand, IncRef, Goto
<1>6. ASSUME NEW c \in Calls, SendClosed(c) PROVE Stops'
  BY <1>6 DEF SendClosed, Goto, After, Answerable, Resumed, Dropped, Done, Frame
<1>7. ASSUME NEW c \in Calls, Put(c) PROVE Stops'
  BY <1>7 DEF Put, Goto, After, Answerable, Resumed, Done, Frame
<1>8. ASSUME NEW c \in Calls, NextFragment(c) PROVE Stops'
  BY <1>8 DEF NextFragment, Goto
<1>9. ASSUME NEW c \in Calls, Kill(c) PROVE Stops'
  BY <1>9 DEF Kill, Goto, Resumed, Stop, Terminated
<1>10. ASSUME NEW c \in Calls, Killed(c) PROVE Stops'
  BY <1>10 DEF Killed, Goto, Resumed, Stopped
<1>11. ASSUME NEW c \in Calls, OwnerRelease(c) PROVE Stops'
  BY <1>11 DEF OwnerRelease
<1>12. CASE WriteOne
  BY <1>12 DEF WriteOne, Done
<1>13. ASSUME NEW c \in Calls, Arrive(c) \/ Cache(c) \/ Success(c) \/ Cancel(c) PROVE Stops'
  BY <1>13 DEF Arrive, Cache, Success, Cancel, Terminated
<1>14. ASSUME NEW c \in Calls, Finally(c) \/ Unregister(c) PROVE Stops'
  BY <1>14 DEF Finally, Unregister
<1>15. CASE Close \/ Seal \/ LoopEnded
  BY <1>15 DEF Close, Seal, LoopEnded
<1>16. ASSUME NEW c \in Calls, StopNext(c) PROVE Stops'
  <2>2. CASE <<sid[c], c>> \in messages
    <3>1. /\ epc = "handlers" /\ c \in todo /\ todo' = todo \ {c} /\ UNCHANGED <<twice, cache>>
          /\ epc' = "stopping" /\ cur' = c /\ copy' = [copy EXCEPT ![Closer] = cache[c]]
      BY <1>16, <2>2 DEF StopNext, Stop
    <3>2. \A d \in Calls : copy'[d] = copy[d]
      BY <3>1, NamesAssumption
    <3> QED BY <3>1, <3>2, NamesAssumption
  <2>3. CASE <<sid[c], c>> \notin messages
    BY <1>16, <2>3 DEF StopNext
  <2> QED BY <2>2, <2>3
<1>17. CASE StopOver
  BY <1>17 DEF StopOver, Stopped
<1>18. CASE DestroySndQueue
  BY <1>18 DEF DestroySndQueue, Done
<1>19. CASE UNCHANGED vars
  BY <1>19
<1> QED
  BY <1>1, <1>2, <1>3, <1>4, <1>5, <1>6, <1>7, <1>8, <1>9, <1>10, <1>11, <1>12,
     <1>13, <1>14, <1>15, <1>16, <1>17, <1>18, <1>19 DEF Next, CallStep, AnswerStep, CloseStep

LEMMA AnswerInvStep ==
  CallType /\ SendType /\ BackType /\ EndType /\ IdType /\ Stages /\ Queued /\ AnswerInv /\ [Next]_vars => AnswerInv'
  BY AnsweredStep, StopsStep DEF AnswerInv, AllAnswered

LEMMA AnswerInvInit == Init => AnswerInv
  BY NamesAssumption DEF Init, AnswerInv, Answered, Stops

\* what Memory rests on
MemInv == Stages /\ RefInv /\ AnswerInv

\* Memory, from the counts.
LEMMA MemInvShows == Types /\ MemInv => Memory
<1> SUFFICES ASSUME Types, MemInv PROVE Memory
  OBVIOUS
<1> USE DEF Types, MemInv, RefInv
<1>1. ASSUME NEW c \in Calls PROVE refs[c] >= 0 /\ (Holding(c) \/ Waiting(c) => refs[c] > 0)
  <2>1. Waiting(c) => ~Holding(c)
    BY WaitingLast
  <2>2. Owed(c) = (IF Waiting(c) THEN 1 ELSE 0) /\ refs[c] \in Int
    BY DEF Counted, SendType
  <2>3. refs[c] = (IF owned[c] THEN 1 ELSE 0) + (IF Holding(c) THEN 1 ELSE 0) + (IF Waiting(c) THEN 1 ELSE 0)
    <3> HIDE DEF Types, MemInv, RefInv
    <3>1. Owed(c) = refs[c] - (IF owned[c] THEN 1 ELSE 0) - (IF Holding(c) THEN 1 ELSE 0)
      BY DEF Owed
    <3> QED BY <2>2, <3>1
  <2> HIDE DEF Types, MemInv, RefInv
  <2> QED BY <2>1, <2>2, <2>3
<1>2. ASSUME NEW i \in 1..Len(queue), NEW c \in Calls, c = queue[i].call, kind[c] # "push",
             split[c] => Answerable(c) /\ ~closed
      PROVE  refs[c] > 0
  <2>1. CASE split[c]
    BY <1>1, <1>2, <2>1 DEF Covered
  <2>2. CASE ~split[c]
    <3>1. queue[i] \in QFrame /\ FrameGone(queue[i])
      BY InQueue DEF Queued
    <3>2. queue[i].i = 1
      BY <1>2, <2>2, <3>1 DEF FrameGone, Fragments, QFrame
    <3>3. queue[i].hook
      BY <1>2, <2>2, <3>1, <3>2 DEF FrameGone, Hooked, Fragments
    <3> QED BY <1>1, <1>2, <3>3 DEF Waiting
  <2> QED BY <2>1, <2>2
<1>3. \A i \in 1..Len(queue) : queue[i].call \in Calls
  BY InQueue DEF QFrame
<1>4. ASSUME NEW c \in Calls PROVE (answer[c] < 0 => c \in twice) /\ answer[c] >= -1
  <2>1. answer[c] \in Int /\ Answered(c)
    BY DEF AnswerInv, BackType
  <2>2. CASE ~cache[c]
    BY <2>1, <2>2 DEF Answered
  <2>3. CASE cache[c]
    BY <2>1, <2>3 DEF Answered
  <2> QED BY <2>2, <2>3
<1>5. ASSUME NEW c \in Calls, sink[c] = "success", fin[c] = "done" PROVE answer[c] <= 0
  BY <1>5 DEF AnswerInv, Answered
<1> QED BY <1>1, <1>2, <1>3, <1>4, <1>5 DEF Memory

\* For any number of callers, and wherever Close falls: no reference is given back
\* that was not taken, and a frame in the queue points into a payload that is held,
\* but for the kinds that Memory names.  onFinally releases an answer once.
THEOREM PayloadsHeld == Spec => []Memory
<1>1. Init => Types /\ MemInv
  BY TypesInit, IdInvInit, RefInvInit, AnswerInvInit DEF MemInv, IdInv
<1>2. Types /\ MemInv /\ [Next]_vars => Types' /\ MemInv'
  BY TypesStep, StagesStep, RefInvStep, AnswerInvStep DEF MemInv, RefInv, Types
<1>3. Types /\ MemInv => Memory
  BY MemInvShows
<1> QED BY <1>1, <1>2, <1>3, PTL DEF Spec
=============================================================================
