---------------------------- MODULE ReleaseQueue ----------------------------
(***************************************************************************)
(* How RequestChannel uses an LKQueue (internal/socket/duplex.go): each    *)
(* payload that arrives is kept in toBeReleased until the next one has     *)
(* arrived, and DoFinally, which may run on another goroutine, drains it.  *)
(* Payloads that came off the network can all be released.                 *)
(***************************************************************************)
EXTENDS LKQueue, FiniteSets

CONSTANTS
  Readers,    \* goroutines that deliver payloads
  Finisher,   \* the goroutine on which the channel ends
  Payloads    \* what each reader has to deliver, a sequence of values

ASSUME ReleaseQueueAssumption ==
  /\ Finisher \notin Readers /\ Procs = Readers \cup {Finisher}
  /\ Payloads \in [Readers -> Seq(Values)]
  /\ \A r, s \in Readers : \A i \in DOMAIN Payloads[r], j \in DOMAIN Payloads[s] :
       Payloads[r][i] = Payloads[s][j] => r = s /\ i = j

VARIABLES
  at,          \* what a goroutine does with the queue, "out" if nothing
  rest,        \* the payloads a reader has left to deliver
  registered,  \* messages has the channel's callback
  released,    \* payloads released
  sawEmpty     \* history: the queue was empty during this call of Dequeue

useVars == <<at, rest, registered, released>>
vars == <<queueVars, useVars, sawEmpty>>

Init ==
  /\ QueueInit
  /\ at = [p \in Procs |-> "out"] /\ rest = Payloads
  /\ registered = TRUE /\ released = {}
  /\ sawEmpty = [p \in Procs |-> FALSE]

Do(p, from, to) == at[p] = from /\ at' = [at EXCEPT ![p] = to]

\* the call of p returns to its caller
Return(p) ==
  /\ At(p, "back", "idle")
  /\ UNCHANGED <<listVars, localVars, mine, answer>>

ReleaseAnswer(p) ==
  released' = IF answer[p] = Nil THEN released ELSE released \cup {answer[p]}

\* onFramePayload finds the callback
Deliver(r) ==
  /\ rest[r] # <<>> /\ registered
  /\ Do(r, "out", "found")
  /\ UNCHANGED <<queueVars, rest, registered, released>>

\* DoOnNext: take out the payload before this one, release it, keep this one
OnNext(r) ==
  /\ Do(r, "found", "releasing") /\ Dequeue(r)
  /\ UNCHANGED <<rest, registered, released>>

Release(r) ==
  /\ Do(r, "releasing", "released") /\ Return(r)
  /\ ReleaseAnswer(r)
  /\ UNCHANGED <<rest, registered>>

Keep(r) ==
  /\ Do(r, "released", "keeping") /\ Enqueue(r, Head(rest[r]))
  /\ UNCHANGED <<rest, registered, released>>

Kept(r) ==
  /\ Do(r, "keeping", "out") /\ Return(r)
  /\ rest' = [rest EXCEPT ![r] = Tail(@)]
  /\ UNCHANGED <<registered, released>>

\* DoFinally: unregister, then take out and release until there is none
Finally ==
  /\ Do(Finisher, "out", "draining")
  /\ registered' = FALSE
  /\ UNCHANGED <<queueVars, rest, released>>

DrainNext ==
  /\ at[Finisher] = "draining" /\ Dequeue(Finisher)
  /\ UNCHANGED useVars

Drained ==
  /\ Do(Finisher, "draining", IF answer[Finisher] = Nil THEN "done" ELSE "draining")
  /\ Return(Finisher) /\ ReleaseAnswer(Finisher)
  /\ UNCHANGED <<rest, registered>>

Act(p) ==
  \/ QueueStep(p) /\ UNCHANGED useVars
  \/ p \in Readers /\ (Deliver(p) \/ OnNext(p) \/ Release(p) \/ Keep(p) \/ Kept(p))
  \/ p = Finisher /\ (Finally \/ DrainNext \/ Drained)

Dequeuing(p) == at[p] \in {"releasing", "draining"} /\ pc[p] # "idle"
Empty == next[head] = Nil

Next ==
  /\ \E p \in Procs : Act(p)
  /\ sawEmpty' = [p \in Procs |-> Dequeuing(p)' /\ (sawEmpty[p] \/ Empty')]

Spec == Init /\ [][Next]_vars

\* only the goroutine that ends the channel has to go on: the readers may stop
\* anywhere, between the two compare-and-swaps of Enqueue too
DrainStep == QueueStep(Finisher) \/ DrainNext \/ Drained
FairSpec == Spec /\ WF_vars(DrainStep /\ Next)

----------------------------------------------------------------------------
(* Properties *)

TypeOK ==
  /\ QueueTypeOK
  /\ at \in [Procs -> {"out", "found", "releasing", "released", "keeping", "draining", "done"}]
  /\ rest \in [Readers -> Seq(Values)] /\ registered \in BOOLEAN /\ released \subseteq Values
  /\ sawEmpty \in [Procs -> BOOLEAN]

\* What lies behind head is a queue: a value enters at its end, and the one that
\* Dequeue takes is its first (FifoQueue).
Fifo == INSTANCE FifoQueue WITH Items <- Values, items <- Contents, open <- TRUE, ended <- FALSE
TakesFirst == \A p \in Procs : head' # head /\ answer'[p] # answer[p] => answer'[p] = Contents[1]
IsFifo == Fifo!Spec /\ [][TakesFirst]_vars

\* Dequeue says that there is nothing only if there was nothing at some moment
\* of the call, and it never reads the value of a node that is not there.
AnswersRight ==
  \A p \in Procs :
    /\ Dequeuing(p) /\ pc[p] = "back" /\ answer[p] = Nil => sawEmpty[p]
    /\ pc[p] = "d:take" => ln[p] # Nil

Held(p) == IF pc[p] = "back" /\ answer[p] # Nil THEN {answer[p]} ELSE {}

\* A payload is taken out by one goroutine and released once; when the channel
\* has ended, at most one payload for each reader is left in the queue: the one
\* that was being delivered when the drain was over.
ReleasedOnce ==
  /\ \A p, q \in Procs : p # q => Held(p) \cap Held(q) = {}
  /\ \A p \in Procs : Held(p) \cap (released \cup Range(Contents)) = {}
  /\ released \cap Range(Contents) = {}
  /\ (at[Finisher] = "done" /\ \A r \in Readers : at[r] = "out") =>
        /\ Cardinality(Range(Contents)) <= Cardinality(Readers)
        /\ \A r \in Readers : \A i \in 1..(Len(Payloads[r]) - Len(rest[r])) :
              Payloads[r][i] \in released \cup Range(Contents)

\* The list and its bookkeeping of payloads: Linked, AnswersRight, ReleasedOnce.
Releases == TypeOK /\ Linked /\ AnswersRight /\ ReleasedOnce

\* The drain ends though a reader has stopped half-way: the queue is lock-free.
DrainReturns == at[Finisher] = "draining" ~> at[Finisher] = "done"
=============================================================================
