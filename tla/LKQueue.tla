------------------------------ MODULE LKQueue ------------------------------
(***************************************************************************)
(* internal/queue/LKQueue.go: a linked list with a first node whose value  *)
(* nobody wants, a head and a tail, each load and each compare-and-swap a  *)
(* step.  The tail is swung by whoever finds it behind.  Memory is not     *)
(* used again while somebody points to it, so a node has a name of its     *)
(* own: that of its value, or Dummy for the first.                         *)
(***************************************************************************)
EXTENDS Integers, Sequences, SequencesExt

CONSTANTS
  Procs,    \* the goroutines that use the queue
  Values,   \* what is put into it, each value at most once
  Dummy, Nil

ASSUME LKQueueAssumption == Dummy \notin Values /\ Nil \notin Values \cup {Dummy}

Nodes == Values \cup {Dummy}

VARIABLES
  head, tail, next,   \* LKQueue, and the next field of every node
  chain, taken,       \* histories: the nodes in the order of their linking; values taken out
  pc,                 \* where each goroutine is
  lh, lt, ln,         \* its local head, tail and next
  mine, answer        \* the value it puts; the value it has been given, or Nil

listVars  == <<head, tail, next, chain, taken>>
localVars == <<lh, lt, ln>>
queueVars == <<listVars, pc, localVars, mine, answer>>

QueuePCs == {"idle", "e:tail", "e:next", "e:check", "e:link", "e:help", "e:swing",
             "d:head", "d:tail", "d:next", "d:check", "d:help", "d:take", "back"}

QueueInit ==
  /\ head = Dummy /\ tail = Dummy /\ next = [n \in Nodes |-> Nil]
  /\ chain = <<Dummy>> /\ taken = 0
  /\ pc = [p \in Procs |-> "idle"]
  /\ lh = [p \in Procs |-> Nil] /\ lt = [p \in Procs |-> Nil] /\ ln = [p \in Procs |-> Nil]
  /\ mine = [p \in Procs |-> Nil] /\ answer = [p \in Procs |-> Nil]

\* the values in the queue, first to last: those behind the node of the value
\* that was taken last
Contents == [i \in 1..(Len(chain) - taken - 1) |-> chain[taken + 1 + i]]

Goto(p, to) == pc' = [pc EXCEPT ![p] = to]
At(p, from, to) == pc[p] = from /\ Goto(p, to)

----------------------------------------------------------------------------
(* Enqueue *)

Enqueue(p, v) ==
  /\ At(p, "idle", "e:tail")
  /\ mine' = [mine EXCEPT ![p] = v]
  /\ UNCHANGED <<listVars, localVars, answer>>

LoadTail(p) ==
  /\ At(p, "e:tail", "e:next")
  /\ lt' = [lt EXCEPT ![p] = tail]
  /\ UNCHANGED <<listVars, lh, ln, mine, answer>>

LoadNext(p) ==
  /\ At(p, "e:next", "e:check")
  /\ ln' = [ln EXCEPT ![p] = next[lt[p]]]
  /\ UNCHANGED <<listVars, lh, lt, mine, answer>>

CheckTail(p) ==
  /\ At(p, "e:check", IF lt[p] # tail THEN "e:tail"
                      ELSE IF ln[p] = Nil THEN "e:link" ELSE "e:help")
  /\ UNCHANGED <<listVars, localVars, mine, answer>>

\* fault: next of the local tail is stored, not compared and swapped
LinkBlind(p) ==
  /\ At(p, "e:link", "e:swing")
  /\ next' = [next EXCEPT ![lt[p]] = mine[p]] /\ chain' = Append(chain, mine[p])
  /\ UNCHANGED <<head, tail, taken, localVars, mine, answer>>

Link(p) ==
  /\ At(p, "e:link", IF next[lt[p]] = Nil THEN "e:swing" ELSE "e:tail")
  /\ IF next[lt[p]] = Nil
       THEN next' = [next EXCEPT ![lt[p]] = mine[p]] /\ chain' = Append(chain, mine[p])
       ELSE UNCHANGED <<next, chain>>
  /\ UNCHANGED <<head, tail, taken, localVars, mine, answer>>

Swung(p, to) == tail' = IF tail = lt[p] THEN to ELSE tail

Swing(p) ==
  /\ At(p, "e:swing", "back")
  /\ Swung(p, mine[p])
  /\ answer' = [answer EXCEPT ![p] = Nil] /\ mine' = [mine EXCEPT ![p] = Nil]
  /\ UNCHANGED <<head, next, chain, taken, localVars>>

HelpEnqueue(p) ==
  /\ At(p, "e:help", "e:tail")
  /\ Swung(p, ln[p])
  /\ UNCHANGED <<head, next, chain, taken, localVars, mine, answer>>

----------------------------------------------------------------------------
(* Dequeue *)

Dequeue(p) ==
  /\ At(p, "idle", "d:head")
  /\ UNCHANGED <<listVars, localVars, mine, answer>>

LoadHead(p) ==
  /\ At(p, "d:head", "d:tail")
  /\ lh' = [lh EXCEPT ![p] = head]
  /\ UNCHANGED <<listVars, lt, ln, mine, answer>>

LoadTailD(p) ==
  /\ At(p, "d:tail", "d:next")
  /\ lt' = [lt EXCEPT ![p] = tail]
  /\ UNCHANGED <<listVars, lh, ln, mine, answer>>

LoadNextD(p) ==
  /\ At(p, "d:next", "d:check")
  /\ ln' = [ln EXCEPT ![p] = next[lh[p]]]
  /\ UNCHANGED <<listVars, lh, lt, mine, answer>>

CheckHead(p) ==
  /\ At(p, "d:check", IF lh[p] # head THEN "d:head"
                      ELSE IF lh[p] # lt[p] THEN "d:take"
                      ELSE IF ln[p] = Nil THEN "back" ELSE "d:help")
  /\ answer' = [answer EXCEPT ![p] = Nil]
  /\ UNCHANGED <<listVars, localVars, mine>>

\* fault: a tail that is behind is left to the enqueuer
NoHelp(p) ==
  /\ At(p, "d:help", "d:head")
  /\ UNCHANGED <<listVars, localVars, mine, answer>>

HelpDequeue(p) ==
  /\ At(p, "d:help", "d:head")
  /\ Swung(p, ln[p])
  /\ UNCHANGED <<head, next, chain, taken, localVars, mine, answer>>

\* fault: the head is stored, not compared and swapped
TakeBlind(p) ==
  /\ At(p, "d:take", "back")
  /\ head' = ln[p] /\ taken' = taken + 1 /\ answer' = [answer EXCEPT ![p] = ln[p]]
  /\ UNCHANGED <<tail, next, chain, localVars, mine>>

Take(p) ==
  /\ At(p, "d:take", IF head = lh[p] THEN "back" ELSE "d:head")
  /\ IF head = lh[p]
       THEN head' = ln[p] /\ taken' = taken + 1 /\ answer' = [answer EXCEPT ![p] = ln[p]]
       ELSE UNCHANGED <<head, taken, answer>>
  /\ UNCHANGED <<tail, next, chain, localVars, mine>>

QueueStep(p) ==
  \/ LoadTail(p) \/ LoadNext(p) \/ CheckTail(p) \/ Link(p) \/ Swing(p) \/ HelpEnqueue(p)
  \/ LoadHead(p) \/ LoadTailD(p) \/ LoadNextD(p) \/ CheckHead(p) \/ HelpDequeue(p) \/ Take(p)

QueueTypeOK ==
  /\ head \in Nodes /\ tail \in Nodes /\ next \in [Nodes -> Values \cup {Nil}]
  /\ chain \in Seq(Nodes) /\ taken \in Nat
  /\ pc \in [Procs -> QueuePCs]
  /\ lh \in [Procs -> Nodes \cup {Nil}] /\ lt \in [Procs -> Nodes \cup {Nil}]
  /\ ln \in [Procs -> Values \cup {Nil}]
  /\ mine \in [Procs -> Values \cup {Nil}] /\ answer \in [Procs -> Values \cup {Nil}]

\* The pointers are what chain and taken say: next links the nodes in their
\* order, head is the node of the value taken last, tail is not before it.
Linked ==
  /\ taken < Len(chain) /\ head = chain[taken + 1]
  /\ \A i \in 1..Len(chain) : next[chain[i]] = IF i = Len(chain) THEN Nil ELSE chain[i + 1]
  /\ \E i \in (taken + 1)..Len(chain) : tail = chain[i]
=============================================================================
