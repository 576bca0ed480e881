------------------------------ MODULE Balancer ------------------------------
(***************************************************************************)
(* A group's balancer of clients (balancer/round_robin.go, group.go, with  *)
(* common.Cond and the closers of a client's BaseSocket): goroutines that  *)
(* put clients under a label, goroutines that ask for the next client and  *)
(* wait while there is none, clients that close and leave, and one call of *)
(* Group.Close.                                                            *)
(*                                                                         *)
(* Balancer.Close copies the slice of sockets without the lock.  remove    *)
(* shifts the same array in place, so the array is modelled, with what     *)
(* lies beyond its length; a full array is replaced by a larger one.       *)
(*                                                                         *)
(* Clients_proofs extends this module, ResumeClient and ServerSessions     *)
(* together, so no two of the three give anything the same name.           *)
(***************************************************************************)
EXTENDS Integers, Sequences, SequencesExt

CONSTANTS
  Puts,      \* the calls of PutLabel, as <<label, client>>, each made at most once
  Callers,   \* goroutines that call Next
  SeqValues, \* the number of values of seq, 2^32 in the code
  Nobody     \* no client

ASSUME BalancerAssumption ==
  /\ SeqValues \in Nat \ {0}
  /\ \A p \in Puts : p = <<p[1], p[2]>>
  /\ Nobody \notin {p[2] : p \in Puts}

Clients == {p[2] : p \in Puts}

VARIABLES
  gm,                   \* Group.m: "empty", "made" or "nil"
  seq, keys, slots, len,\* the balancer; slots is the array behind sockets
  mu,                   \* the call of PutLabel that holds the write lock, or {}
  ppc, wpc,             \* PutLabel, Next
  cl, closers, todo,    \* clients: their close, handlers registered and left to run
  gpc, bpc,             \* Group.Close, Balancer.Close
  view, size, clone,    \* the slice that Balancer.Close copies, and the copy
  told,                 \* entries that OnLeave was told of
  round, late, atClose, torn  \* histories that the properties speak about

ringVars     == <<seq, keys, slots, len, mu>>
callVars     == <<ppc, wpc>>
memberVars   == <<cl, closers, todo>>
endVars      == <<gpc, bpc, view, size, clone, atClose>>
balancerVars == <<gm, ringVars, callVars, memberVars, endVars, told, round, late, torn>>

OwnArray == <<>>    \* view: the array that the balancer itself has

BalancerInit ==
  /\ gm = "empty"
  /\ seq = 0 /\ keys = <<>> /\ slots = <<>> /\ len = 0 /\ mu = {}
  /\ ppc = [p \in Puts |-> "idle"]
  /\ wpc = [w \in Callers |-> "idle"]
  /\ cl = [c \in Clients |-> "open"]
  /\ closers = [c \in Clients |-> 0] /\ todo = [c \in Clients |-> 0]
  /\ gpc = "idle" /\ bpc = "idle" /\ view = OwnArray /\ size = 0 /\ clone = <<>>
  /\ told = {} /\ round = <<>> /\ late = {} /\ atClose = {} /\ torn = FALSE

Sockets == SubSeq(slots, 1, len)
Entries == {<<keys[i], slots[i]>> : i \in 1..len}

----------------------------------------------------------------------------
(* Group.Get *)

\* the balancer is made at the first Get; after Close, Get panics
Get(to, at) ==
  /\ gpc # "closing"
  /\ IF gm = "nil" THEN to = "panicked" /\ UNCHANGED gm ELSE to = at /\ gm' = "made"

GetForPut(p) ==
  /\ ppc[p] = "idle"
  /\ \E to \in {"got", "panicked"} :
       Get(to, "got") /\ ppc' = [ppc EXCEPT ![p] = to]
  /\ UNCHANGED <<ringVars, wpc, memberVars, endVars, told, round, late, torn>>

GetForNext(w) ==
  /\ wpc[w] = "idle"
  /\ \E to \in {"asking", "panicked"} :
       Get(to, "asking") /\ wpc' = [wpc EXCEPT ![w] = to]
  /\ UNCHANGED <<ringVars, ppc, memberVars, endVars, told, round, late, torn>>

----------------------------------------------------------------------------
(* PutLabel, under the write lock *)

\* append: in place while the array has room, else into one twice as large
Appended(c) ==
  IF len < Len(slots)
    THEN [slots EXCEPT ![len + 1] = c]
    ELSE Append(slots, c) \o [i \in 1..(IF len = 0 THEN 0 ELSE len - 1) |-> Nobody]

\* fault: the length is taken before the append
WakesLate(n) == n = 2

Wakes(n) == n = 1

\* Cond: the channel that the waiting calls hold is closed, the next one is new
Broadcast == wpc' = [w \in Callers |-> IF wpc[w] = "waiting" THEN "notified" ELSE wpc[w]]

PutAppend(p) ==
  /\ ppc[p] = "got" /\ mu = {}
  /\ IF p[1] \in Range(keys)
       THEN /\ ppc' = [ppc EXCEPT ![p] = "refused"]
            /\ UNCHANGED <<ringVars, view, round, wpc>>
       ELSE /\ ppc' = [ppc EXCEPT ![p] = "registering"] /\ mu' = {p}
            /\ keys' = Append(keys, p[1])
            /\ slots' = Appended(p[2]) /\ len' = len + 1
            \* a copier keeps the array that was left behind
            /\ view' = IF len = Len(slots) /\ size > 0 /\ view = OwnArray
                       THEN slots ELSE view
            /\ IF Wakes(len + 1) THEN Broadcast ELSE UNCHANGED wpc
            /\ round' = <<>>
            /\ UNCHANGED seq
  /\ UNCHANGED <<gm, memberVars, gpc, bpc, size, clone, atClose, told, late, torn>>

\* client.OnClose, which does not look whether the client has closed
PutRegister(p) ==
  /\ ppc[p] = "registering"
  /\ ppc' = [ppc EXCEPT ![p] = "in"] /\ mu' = {}
  /\ closers' = [closers EXCEPT ![p[2]] = @ + 1]
  /\ late' = IF cl[p[2]] \in {"open", "shut"} THEN late ELSE late \cup {p}
  /\ UNCHANGED <<gm, seq, keys, slots, len, wpc, cl, todo, endVars, told, round, torn>>

----------------------------------------------------------------------------
(* Next, under the read lock but while it waits *)

\* fault: one turn too few
ShortTurn(s, n) == s % (IF n > 1 THEN n - 1 ELSE n)

Turn(s, n) == s % n

Next1(w) ==
  /\ wpc[w] = "asking" /\ mu = {}
  /\ IF len > 0
       THEN LET s == (seq + 1) % SeqValues
                i == Turn(s, len) IN
            /\ seq' = s
            /\ round' = LET past == IF s = 0 THEN <<>> ELSE round
                            all  == Append(past, i)
                        IN  IF Len(all) > len THEN Tail(all) ELSE all
            /\ wpc' = [wpc EXCEPT ![w] = "idle"]
       ELSE /\ wpc' = [wpc EXCEPT ![w] = "waiting"]
            /\ UNCHANGED <<seq, round>>
  /\ UNCHANGED <<gm, keys, slots, len, mu, ppc, memberVars, endVars, told, late, torn>>

Wake(w) ==
  /\ wpc[w] = "notified"
  /\ wpc' = [wpc EXCEPT ![w] = "asking"]
  /\ UNCHANGED <<gm, ringVars, ppc, memberVars, endVars, told, round, late, torn>>

\* the context of the call ends
GiveUp(w) ==
  /\ wpc[w] \in {"waiting", "notified"}
  /\ wpc' = [wpc EXCEPT ![w] = "idle"]
  /\ UNCHANGED <<gm, ringVars, ppc, memberVars, endVars, told, round, late, torn>>

----------------------------------------------------------------------------
(* The close of a client: the socket, then the handlers there are by then *)

Shut(c) ==
  /\ cl[c] = "open"
  /\ cl' = [cl EXCEPT ![c] = "shut"]
  /\ UNCHANGED <<gm, ringVars, callVars, closers, todo, endVars, told, round, late, torn>>

ReadClosers(c) ==
  /\ cl[c] = "shut"
  /\ cl' = [cl EXCEPT ![c] = IF closers[c] = 0 THEN "closed" ELSE "running"]
  /\ todo' = [todo EXCEPT ![c] = closers[c]]
  /\ UNCHANGED <<gm, ringVars, callVars, closers, endVars, told, round, late, torn>>

Found(c) == {i \in 1..len : slots[i] = c /\ \A j \in 1..i : slots[j] = c => j = i}

\* remove, under the write lock
RunCloser(c) ==
  /\ cl[c] = "running" /\ mu = {}
  /\ todo' = [todo EXCEPT ![c] = @ - 1]
  /\ cl' = IF todo[c] = 1 THEN [cl EXCEPT ![c] = "closed"] ELSE cl
  /\ IF Found(c) = {}
       THEN UNCHANGED <<keys, slots, len, told, round, torn>>
       ELSE \E j \in Found(c) :
            /\ told' = told \cup {<<keys[j], c>>}
            /\ keys' = RemoveAt(keys, j)
            /\ slots' = [i \in DOMAIN slots |->
                           IF i \in j..(len - 1) THEN slots[i + 1] ELSE slots[i]]
            /\ len' = len - 1
            /\ round' = <<>>
            /\ torn' = (torn \/ bpc = "copying")
  /\ UNCHANGED <<gm, seq, mu, callVars, closers, endVars, late>>

----------------------------------------------------------------------------
(* Group.Close hands the balancer to a goroutine and waits for it; *)
(* Balancer.Close takes no lock, and only a first call does anything. *)

\* under the group's lock, which Get takes too
CloseGroup ==
  /\ gpc = "idle"
  /\ gpc' = "closing" /\ gm' = "nil"
  /\ bpc' = IF gm = "made" THEN "testing" ELSE "returned"
  /\ UNCHANGED <<ringVars, callVars, memberVars, view, size, clone, told, round, late,
                 atClose, torn>>

ReturnGroup ==
  /\ gpc = "closing" /\ bpc = "returned"
  /\ gpc' = "returned"
  /\ UNCHANGED <<gm, ringVars, callVars, memberVars, bpc, view, size, clone, told, round,
                 late, atClose, torn>>

TestEmpty ==
  /\ bpc = "testing"
  /\ bpc' = IF len < 1 THEN "returned" ELSE "slicing"
  /\ UNCHANGED <<gm, ringVars, callVars, memberVars, gpc, view, size, clone, told, round,
                 late, atClose, torn>>

\* the slice is read a second time for the copy
TakeSlice ==
  /\ bpc = "slicing"
  /\ bpc' = "copying" /\ size' = len /\ atClose' = Range(Sockets)
  /\ UNCHANGED <<gm, ringVars, callVars, memberVars, gpc, view, clone, told, round, late,
                 torn>>

\* fault: the last socket is not copied
CopiedShort(s) == Len(s) >= size - 1

Copied(s) == Len(s) = size

CopyOne ==
  /\ bpc = "copying" /\ ~Copied(clone)
  /\ LET from == IF view = OwnArray
                       THEN slots ELSE view IN
       clone' = Append(clone, from[Len(clone) + 1])
  /\ UNCHANGED <<gm, ringVars, callVars, memberVars, gpc, bpc, view, size, told, round,
                 late, atClose, torn>>

StartClosing ==
  /\ bpc = "copying" /\ Copied(clone)
  /\ bpc' = "closing" /\ size' = 0 /\ view' = OwnArray
  /\ UNCHANGED <<gm, ringVars, callVars, memberVars, gpc, clone, told, round, late,
                 atClose, torn>>

\* a goroutine for each socket of the copy; a Close that is under way is waited for
CloseOne(c) == bpc = "closing" /\ c \in Range(clone) /\ Shut(c)

AllClosed ==
  /\ bpc = "closing" /\ \A c \in Range(clone) : cl[c] = "closed"
  /\ bpc' = "returned" /\ clone' = <<>> /\ atClose' = {} /\ torn' = FALSE
  /\ UNCHANGED <<gm, ringVars, callVars, memberVars, gpc, view, size, told, round, late>>

CloseStep == ReturnGroup \/ TestEmpty \/ TakeSlice \/ CopyOne
             \/ StartClosing \/ AllClosed
ClientStep(c) == ReadClosers(c) \/ RunCloser(c)
PutStep(p) == GetForPut(p) \/ PutAppend(p) \/ PutRegister(p)

BalancerNext ==
  \/ \E p \in Puts : PutStep(p)
  \/ \E w \in Callers : GetForNext(w) \/ Next1(w) \/ Wake(w) \/ GiveUp(w)
  \/ \E c \in Clients : Shut(c) \/ ClientStep(c) \/ CloseOne(c)
  \/ CloseGroup \/ CloseStep

BalancerSpec == BalancerInit /\ [][BalancerNext]_balancerVars

\* every goroutine that can go on does; nobody has to put, to ask or to close
BalancerFairSpec ==
  /\ BalancerSpec
  /\ WF_balancerVars(CloseStep)
  /\ \A p \in Puts : WF_balancerVars(PutRegister(p))
  /\ \A w \in Callers : WF_balancerVars(Next1(w) \/ Wake(w))
  /\ \A c \in Clients : WF_balancerVars(ClientStep(c)) /\ WF_balancerVars(CloseOne(c))

----------------------------------------------------------------------------
(* Properties *)

BalancerTypeOK ==
  /\ gm \in {"empty", "made", "nil"}
  /\ seq \in 0..(SeqValues - 1) /\ len \in 0..Len(slots)
  /\ keys \in Seq({p[1] : p \in Puts}) /\ slots \in Seq(Clients \cup {Nobody})
  /\ mu \in {{}} \cup {{p} : p \in Puts}
  /\ ppc \in [Puts -> {"idle", "got", "registering", "in", "refused", "panicked"}]
  /\ wpc \in [Callers -> {"idle", "asking", "waiting", "notified", "panicked"}]
  /\ cl \in [Clients -> {"open", "shut", "running", "closed"}]
  /\ closers \in [Clients -> Nat] /\ todo \in [Clients -> Nat]
  /\ gpc \in {"idle", "closing", "returned"}
  /\ bpc \in {"idle", "testing", "slicing", "copying", "closing", "returned"}
  /\ view \in Seq(Clients \cup {Nobody}) /\ size \in Nat /\ clone \in Seq(Clients)
  /\ told \subseteq Puts /\ late \subseteq Puts /\ atClose \subseteq Clients
  /\ round \in Seq(Nat) /\ torn \in BOOLEAN

\* The labels and the sockets stay in step through every shift, no label is
\* there twice, and OnLeave hears of a client that closed, under its label.
Aligned ==
  /\ Len(keys) = len /\ Entries \subseteq Puts
  /\ \A i, j \in 1..len : keys[i] = keys[j] => i = j
  /\ \A e \in told : cl[e[2]] # "open"

\* While nobody comes or goes and seq does not wrap, as many calls of Next as
\* there are clients give each of them once, whoever makes the calls.
EachInTurn == \A i, j \in 1..Len(round) : round[i] = round[j] => i = j

\* What Close found it has closed when it returns, unless a client left while
\* the sockets were being copied: that shifts them under the copy.
ClosesAll ==
  [][bpc' = "returned" /\ ~torn => \A c \in atClose : cl[c] = "closed"]_balancerVars

\* The balancer's labels, sockets and turns agree (Aligned, EachInTurn).
Balanced == BalancerTypeOK /\ Aligned /\ EachInTurn

\* A call of Next returns if clients stay: no wake-up is lost.
NextReturns ==
  \A w \in Callers : <>[](len > 0) => (wpc[w] # "idle" ~> wpc[w] \in {"idle", "panicked"})

\* A client that closes leaves, provided its handler was registered in time.
ClosedLeaves ==
  \A p \in Puts : (ppc[p] = "in" /\ p \notin late /\ cl[p[2]] # "open") ~> p \notin Entries

\* Callers and leavers get on: NextReturns, ClosedLeaves.
GoesOn == NextReturns /\ ClosedLeaves
=============================================================================
