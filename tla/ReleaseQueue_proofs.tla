------------------------ MODULE ReleaseQueue_proofs ------------------------
(***************************************************************************)
(* Theorems about ReleaseQueue and the lock-free queue under it: for any   *)
(* number of goroutines and values, whatever their loads and               *)
(* compare-and-swaps interleave, the list is a FIFO queue and each payload *)
(* that is taken out of it is released once.                               *)
(***************************************************************************)
EXTENDS ReleaseQueue, FiniteSetTheorems, SequenceTheorems, TLAPS

----------------------------------------------------------------------------
(* The place of a node in a chain *)

Distinct(c) == \A i, j \in 1..Len(c) : c[i] = c[j] => i = j
On(c, n)    == \E i \in 1..Len(c) : c[i] = n
Pos(c, n)   == CHOOSE i \in 1..Len(c) : c[i] = n

\* A node of a chain has a place.
LEMMA OnPos ==
  ASSUME NEW c, NEW n, On(c, n)
  PROVE  Pos(c, n) \in 1..Len(c) /\ c[Pos(c, n)] = n
BY DEF On, Pos

\* In a chain without repetition it has one.
LEMMA PosOn ==
  ASSUME NEW c, Distinct(c), NEW i \in 1..Len(c)
  PROVE  On(c, c[i]) /\ Pos(c, c[i]) = i
<1>1. On(c, c[i])
  BY DEF On
<1>2. Pos(c, c[i]) \in 1..Len(c) /\ c[Pos(c, c[i])] = c[i]
  BY <1>1, OnPos
<1> QED BY <1>1, <1>2 DEF Distinct

\* A new node at the end of a chain changes no other's place.
LEMMA AppendPos ==
  ASSUME NEW c \in Seq(Nodes), Distinct(c), NEW v \in Nodes, ~On(c, v)
  PROVE  /\ Distinct(Append(c, v))
         /\ On(Append(c, v), v) /\ Pos(Append(c, v), v) = Len(c) + 1
         /\ \A n : On(c, n) => On(Append(c, v), n) /\ Pos(Append(c, v), n) = Pos(c, n)
         /\ \A n : On(Append(c, v), n) => On(c, n) \/ n = v
<1> DEFINE d == Append(c, v)
<1>1. /\ Len(c) \in Nat /\ Len(d) = Len(c) + 1 /\ d[Len(c) + 1] = v
      /\ \A i \in 1..Len(c) : d[i] = c[i]
  OBVIOUS
<1>2. \A i \in 1..Len(c) : c[i] # v
  BY DEF On
<1>3. Distinct(d)
  BY <1>1, <1>2 DEF Distinct
<1>4. On(d, v) /\ Pos(d, v) = Len(c) + 1
  <2>1. Len(c) + 1 \in 1..Len(d)
    BY <1>1
  <2> QED BY <2>1, <1>1, <1>3, PosOn
<1>5. ASSUME NEW n, On(c, n)
      PROVE  On(d, n) /\ Pos(d, n) = Pos(c, n)
  <2>1. Pos(c, n) \in 1..Len(c) /\ c[Pos(c, n)] = n
    BY <1>5, OnPos
  <2>2. Pos(c, n) \in 1..Len(d) /\ d[Pos(c, n)] = n
    BY <2>1, <1>1
  <2> QED BY <2>2, <1>3, PosOn
<1>6. ASSUME NEW n, On(d, n)
      PROVE  On(c, n) \/ n = v
  <2>1. PICK i \in 1..Len(d) : d[i] = n
    BY <1>6 DEF On
  <2>2. i \in 1..Len(c) \/ i = Len(c) + 1
    BY <1>1
  <2> QED BY <2>1, <2>2, <1>1 DEF On
<1> QED BY <1>3, <1>4, <1>5, <1>6

----------------------------------------------------------------------------
(* The inductive invariant *)

\* chain is what the pointers are, tail is not before head, and a node that has
\* not been linked has no successor
ListInv ==
  /\ taken < Len(chain) /\ head = chain[taken + 1]
  /\ Distinct(chain)
  /\ \A i \in 1..Len(chain) : next[chain[i]] = IF i = Len(chain) THEN Nil ELSE chain[i + 1]
  /\ \A n \in Nodes : ~On(chain, n) => next[n] = Nil
  /\ On(chain, tail) /\ taken + 1 <= Pos(chain, tail)

AtTail == {"e:next", "e:check", "e:link", "e:help", "e:swing"}
AtHead == {"d:tail", "d:next", "d:check", "d:take", "d:help"}

\* what a goroutine in Enqueue knows of the tail it has loaded
EnqInv(p) ==
  /\ pc[p] \in AtTail => On(chain, lt[p])
  /\ pc[p] = "e:check" => ln[p] = Nil \/ ln[p] = next[lt[p]]
  /\ pc[p] = "e:help" => ln[p] # Nil /\ ln[p] = next[lt[p]]
  /\ pc[p] = "e:swing" => mine[p] # Nil /\ mine[p] = next[lt[p]]

\* what a goroutine in Dequeue knows of the head, the tail and the next of head
DeqInv(p) ==
  /\ pc[p] \in AtHead => On(chain, lh[p]) /\ Pos(chain, lh[p]) <= taken + 1
  /\ pc[p] \in AtHead \ {"d:tail"} =>
       /\ On(chain, lt[p]) /\ Pos(chain, lh[p]) <= Pos(chain, lt[p])
       /\ Pos(chain, lt[p]) <= Pos(chain, tail)
  /\ pc[p] = "d:check" => (ln[p] = Nil /\ lh[p] = lt[p]) \/ ln[p] = next[lh[p]]
  /\ pc[p] = "d:check" /\ lh[p] # lt[p] => ln[p] # Nil
  /\ pc[p] = "d:take" => lh[p] # lt[p] /\ ln[p] # Nil /\ ln[p] = next[lh[p]]
  /\ pc[p] = "d:help" => lh[p] = lt[p] /\ ln[p] # Nil /\ ln[p] = next[lt[p]]

InEnqueue == {"e:tail", "e:next", "e:check", "e:link", "e:help", "e:swing"}

\* who enqueues, and what: the first of its payloads
UseInv(p) ==
  /\ pc[p] \in InEnqueue => p \in Readers /\ at[p] = "keeping"
  /\ at[p] = "keeping" => pc[p] \in InEnqueue \cup {"back"}
  /\ at[p] = "releasing" => pc[p] # "idle"
  /\ p \in Readers /\ at[p] # "out" => rest[p] # <<>>
  /\ pc[p] \in InEnqueue => mine[p] = Head(rest[p])

\* whether the first payload of rest has been linked
Put(r) == at[r] = "keeping" /\ pc[r] \in {"e:swing", "back"}

\* no two payloads to come are one value, and none has been linked
FreshInv ==
  /\ \A r, s \in Readers : \A i \in 1..Len(rest[r]), j \in 1..Len(rest[s]) :
       rest[r][i] = rest[s][j] => r = s /\ i = j
  /\ \A r \in Readers : \A i \in 1..Len(rest[r]) : ~(i = 1 /\ Put(r)) => ~On(chain, rest[r][i])

UseType ==
  /\ at \in [Procs -> {"out", "found", "releasing", "released", "keeping", "draining", "done"}]
  /\ rest \in [Readers -> Seq(Values)] /\ registered \in BOOLEAN /\ released \subseteq Values

IInv ==
  /\ QueueTypeOK /\ UseType /\ ListInv /\ FreshInv
  /\ \A p \in Procs : EnqInv(p) /\ DeqInv(p) /\ UseInv(p)

----------------------------------------------------------------------------
(* What a step may do to the list that others look at *)

\* nodes keep their places and their successors, head and tail go forward
Grows ==
  /\ \A n \in Nodes : On(chain, n) =>
       /\ On(chain', n) /\ Pos(chain', n) = Pos(chain, n)
       /\ next[n] # Nil => next'[n] = next[n]
  /\ taken' \in Nat /\ taken <= taken'
  /\ Pos(chain, tail) <= Pos(chain', tail') /\ Pos(chain', tail') \in Nat

\* a goroutine that does not move
Still(q) ==
  /\ pc'[q] = pc[q] /\ lh'[q] = lh[q] /\ lt'[q] = lt[q] /\ ln'[q] = ln[q]
  /\ mine'[q] = mine[q] /\ at'[q] = at[q]
  /\ q \in Readers => rest'[q] = rest[q]

\* Positions are numbers, and the list's own nodes are nodes.
LEMMA Places ==
  ASSUME IInv
  PROVE  /\ \A n : On(chain, n) => Pos(chain, n) \in 1..Len(chain) /\ chain[Pos(chain, n)] = n
         /\ \A i \in 1..Len(chain) : On(chain, chain[i]) /\ Pos(chain, chain[i]) = i
         /\ chain \in Seq(Nodes) /\ Len(chain) \in Nat /\ taken \in Nat
         /\ On(chain, head) /\ Pos(chain, head) = taken + 1
<1>1. chain \in Seq(Nodes) /\ Len(chain) \in Nat /\ taken \in Nat
  BY DEF IInv, QueueTypeOK
<1>2. taken + 1 \in 1..Len(chain) /\ head = chain[taken + 1] /\ Distinct(chain)
  BY <1>1 DEF IInv, ListInv
<1> QED BY <1>1, <1>2, OnPos, PosOn

\* The list grows under one goroutine without any harm to the others.
LEMMA Bystander ==
  ASSUME IInv, NEW q \in Procs, Grows, Still(q)
  PROVE  EnqInv(q)' /\ DeqInv(q)' /\ UseInv(q)'
<1>1. lh[q] \in Nodes \cup {Nil} /\ lt[q] \in Nodes \cup {Nil} /\ Nil \notin Nodes
  BY LKQueueAssumption DEF IInv, QueueTypeOK, Nodes
<1>2. EnqInv(q) /\ DeqInv(q) /\ UseInv(q)
  BY DEF IInv
<1>3. chain \in Seq(Nodes) /\ \A n : On(chain, n) => Pos(chain, n) \in 1..Len(chain) /\ n \in Nodes
  <2>1. ASSUME NEW n, On(chain, n)
        PROVE  n \in Nodes
    BY <2>1, Places
  <2> QED BY <2>1, Places
<1>4. EnqInv(q)'
  BY <1>1, <1>2, <1>3 DEF EnqInv, Grows, Still, AtTail
<1>5. DeqInv(q)'
  <2>1. taken \in Nat /\ taken' >= taken
    BY Places DEF Grows
  <2>2. /\ pc'[q] = pc[q] /\ lh'[q] = lh[q] /\ lt'[q] = lt[q] /\ ln'[q] = ln[q]
        /\ pc[q] = "d:check" => ln[q] = Nil \/ ln[q] # Nil
    BY DEF Still
  <2>3. /\ pc[q] \in AtHead => lh[q] \in Nodes /\ On(chain', lh[q])
                                /\ Pos(chain', lh[q]) = Pos(chain, lh[q])
        /\ pc[q] \in AtHead \ {"d:tail"} => lt[q] \in Nodes /\ On(chain', lt[q])
                                /\ Pos(chain', lt[q]) = Pos(chain, lt[q])
    BY <1>2, <1>3 DEF DeqInv, Grows
  <2>4. /\ pc[q] \in AtHead => Pos(chain, lh[q]) \in Nat
        /\ pc[q] \in AtHead \ {"d:tail"} => Pos(chain, lt[q]) \in Nat
        /\ On(chain, tail) /\ Pos(chain, tail) \in Nat
    BY <1>2, <1>3 DEF DeqInv, IInv, ListInv
  <2>5. /\ pc[q] \in AtHead => Pos(chain', lh[q]) <= taken' + 1
        /\ pc[q] \in AtHead \ {"d:tail"} => Pos(chain', lh[q]) <= Pos(chain', lt[q])
    BY <1>2, <2>1, <2>3, <2>4 DEF DeqInv, Grows
  <2>6. \A n \in Nodes : On(chain, n) /\ next[n] # Nil => next'[n] = next[n]
    BY DEF Grows
  <2>7. pc[q] \in AtHead \ {"d:tail"} => Pos(chain', lt[q]) <= Pos(chain', tail')
    BY <1>2, <2>3, <2>4 DEF DeqInv, Grows
  <2>8. pc[q] \in AtHead => On(chain, lh[q]) /\ lh[q] \in Nodes
    BY <1>2, <1>3 DEF DeqInv
  <2>9. pc[q] = "d:check" => (ln[q] = Nil /\ lh[q] = lt[q]) \/ ln[q] = next'[lh[q]]
    <3> SUFFICES ASSUME pc[q] = "d:check", ~(ln[q] = Nil /\ lh[q] = lt[q])
                 PROVE  ln[q] = next'[lh[q]]
      OBVIOUS
    <3>1. ln[q] = next[lh[q]] /\ ln[q] # Nil
      BY <1>2 DEF DeqInv
    <3> QED BY <3>1, <2>6, <2>8 DEF AtHead
  <2>10. pc[q] = "d:take" => lh[q] # lt[q] /\ ln[q] # Nil /\ ln[q] = next'[lh[q]]
    BY <1>2, <2>6, <2>8 DEF DeqInv, AtHead
  <2>11. pc[q] = "d:help" => lh[q] = lt[q] /\ ln[q] # Nil /\ ln[q] = next'[lt[q]]
    BY <1>2, <2>6, <2>8 DEF DeqInv, AtHead
  <2> QED BY <1>2, <2>2, <2>3, <2>5, <2>7, <2>9, <2>10, <2>11 DEF DeqInv
<1>6. UseInv(q)'
  BY <1>2 DEF UseInv, Still
<1> QED BY <1>4, <1>5, <1>6

----------------------------------------------------------------------------
(* Types *)

ReaderStep(r) == Deliver(r) \/ OnNext(r) \/ Release(r) \/ Keep(r) \/ Kept(r)
FinisherStep == Finally \/ DrainNext \/ Drained

\* What a goroutine has loaded are nodes by the time it looks behind them.
LEMMA Loaded ==
  ASSUME IInv, NEW p \in Procs
  PROVE  /\ pc[p] \in AtTail => lt[p] \in Nodes
         /\ pc[p] \in AtHead => lh[p] \in Nodes
         /\ pc[p] \in AtHead \ {"d:tail"} => lt[p] \in Nodes
<1>1. \A n : On(chain, n) => n \in Nodes
  <2> SUFFICES ASSUME NEW n, On(chain, n)
               PROVE  n \in Nodes
    OBVIOUS
  <2> QED BY Places
<1>2. EnqInv(p) /\ DeqInv(p)
  BY DEF IInv
<1> QED BY <1>1, <1>2 DEF EnqInv, DeqInv

LEMMA QueueTypes ==
  ASSUME IInv, NEW p \in Procs, QueueStep(p)
  PROVE  QueueTypeOK'
<1> USE DEF Goto, At
<1>1. QueueTypeOK /\ Dummy \notin Values /\ Nil \notin Nodes
  BY LKQueueAssumption DEF IInv, Nodes
<1>2. /\ pc[p] \in AtTail => lt[p] \in Nodes
      /\ pc[p] \in AtHead => lh[p] \in Nodes
      /\ pc[p] \in AtHead \ {"d:tail"} => lt[p] \in Nodes
  BY Loaded
<1>3. EnqInv(p) /\ DeqInv(p) /\ UseInv(p)
  BY DEF IInv
<1>4. CASE LoadTail(p)
  BY <1>1, <1>4 DEF LoadTail, QueueTypeOK, QueuePCs, listVars
<1>5. CASE LoadNext(p)
  BY <1>1, <1>2, <1>5 DEF LoadNext, QueueTypeOK, QueuePCs, listVars, AtTail
<1>6. CASE CheckTail(p)
  BY <1>1, <1>6 DEF CheckTail, QueueTypeOK, QueuePCs, listVars, localVars
<1>7. CASE Link(p)
  <2>1. mine[p] \in Values /\ lt[p] \in Nodes
    BY <1>1, <1>2, <1>7, <1>3 DEF Link, UseInv, InEnqueue, IInv, UseType, QueueTypeOK, Nodes, AtTail
  <2>2. chain' \in Seq(Nodes)
    <3>1. chain' = chain \/ chain' = Append(chain, mine[p])
      BY <1>7 DEF Link
    <3>2. chain \in Seq(Nodes) /\ mine[p] \in Nodes
      BY <1>1, <2>1 DEF QueueTypeOK, Nodes
    <3> QED BY <3>1, <3>2
  <2>3. next' \in [Nodes -> Values \cup {Nil}]
    BY <2>1, <1>1, <1>7 DEF Link, QueueTypeOK
  <2>4. pc' \in [Procs -> QueuePCs]
    BY <1>1, <1>7 DEF Link, QueueTypeOK, QueuePCs
  <2> QED BY <2>2, <2>3, <2>4, <1>1, <1>7 DEF Link, QueueTypeOK, localVars
<1>8. CASE Swing(p)
  <2>1. mine[p] \in Values
    BY <1>1, <1>8, <1>3 DEF Swing, EnqInv, QueueTypeOK
  <2> QED BY <2>1, <1>1, <1>8 DEF Swing, Swung, QueueTypeOK, QueuePCs, localVars, Nodes
<1>9. CASE HelpEnqueue(p)
  <2>1. ln[p] \in Values
    BY <1>1, <1>9, <1>3 DEF HelpEnqueue, EnqInv, QueueTypeOK
  <2> QED BY <2>1, <1>1, <1>9 DEF HelpEnqueue, Swung, QueueTypeOK, QueuePCs, localVars, Nodes
<1>10. CASE LoadHead(p)
  BY <1>1, <1>10 DEF LoadHead, QueueTypeOK, QueuePCs, listVars
<1>11. CASE LoadTailD(p)
  BY <1>1, <1>11 DEF LoadTailD, QueueTypeOK, QueuePCs, listVars
<1>12. CASE LoadNextD(p)
  BY <1>1, <1>2, <1>12 DEF LoadNextD, QueueTypeOK, QueuePCs, listVars, AtHead
<1>13. CASE CheckHead(p)
  BY <1>1, <1>13 DEF CheckHead, QueueTypeOK, QueuePCs, listVars, localVars
<1>14. CASE HelpDequeue(p)
  <2>1. ln[p] \in Values
    BY <1>1, <1>14, <1>3 DEF HelpDequeue, DeqInv, QueueTypeOK
  <2> QED BY <2>1, <1>1, <1>14 DEF HelpDequeue, Swung, QueueTypeOK, QueuePCs, localVars, Nodes
<1>15. CASE Take(p)
  <2>1. ln[p] \in Values
    BY <1>1, <1>15, <1>3 DEF Take, DeqInv, QueueTypeOK
  <2> QED BY <2>1, <1>1, <1>15 DEF Take, QueueTypeOK, QueuePCs, localVars, Nodes
<1> QED BY <1>4, <1>5, <1>6, <1>7, <1>8, <1>9, <1>10, <1>11, <1>12, <1>13, <1>14, <1>15 DEF QueueStep

LEMMA ReaderTypes ==
  ASSUME IInv, NEW r \in Readers, ReaderStep(r)
  PROVE  QueueTypeOK' /\ UseType'
<1> USE DEF Do, Return, Goto, At
<1>1. QueueTypeOK /\ UseType /\ UseInv(r) /\ r \in Procs
  BY ReleaseQueueAssumption DEF IInv
<1>2. CASE Deliver(r)
  BY <1>1, <1>2 DEF Deliver, QueueTypeOK, UseType, queueVars, listVars, localVars
<1>3. CASE OnNext(r)
  BY <1>1, <1>3 DEF OnNext, Dequeue, QueueTypeOK, QueuePCs, UseType, listVars, localVars
<1>4. CASE Release(r)
  <2>1. answer[r] = Nil \/ answer[r] \in Values
    BY <1>1 DEF QueueTypeOK
  <2> QED BY <2>1, <1>1, <1>4 DEF Release, ReleaseAnswer, QueueTypeOK, QueuePCs, UseType, listVars, localVars
<1>5. CASE Keep(r)
  <2>1. rest[r] \in Seq(Values) /\ rest[r] # <<>>
    BY <1>1, <1>5 DEF Keep, UseInv, UseType
  <2>2. Head(rest[r]) \in Values
    BY <2>1
  <2> QED BY <2>2, <1>1, <1>5 DEF Keep, Enqueue, QueueTypeOK, QueuePCs, UseType, listVars, localVars
<1>6. CASE Kept(r)
  <2>1. rest[r] \in Seq(Values) /\ rest[r] # <<>>
    BY <1>1, <1>6 DEF Kept, UseInv, UseType
  <2>2. Tail(rest[r]) \in Seq(Values)
    BY <2>1
  <2> QED BY <2>2, <1>1, <1>6 DEF Kept, QueueTypeOK, QueuePCs, UseType, listVars, localVars
<1> QED BY <1>2, <1>3, <1>4, <1>5, <1>6 DEF ReaderStep

LEMMA FinisherTypes ==
  ASSUME IInv, FinisherStep
  PROVE  QueueTypeOK' /\ UseType'
<1> USE DEF Do, Return, Goto, At
<1>1. QueueTypeOK /\ UseType /\ Finisher \in Procs
  BY ReleaseQueueAssumption DEF IInv
<1>2. CASE Finally
  BY <1>1, <1>2 DEF Finally, QueueTypeOK, UseType, queueVars, listVars, localVars
<1>3. CASE DrainNext
  BY <1>1, <1>3 DEF DrainNext, Dequeue, QueueTypeOK, QueuePCs, UseType, useVars, listVars, localVars
<1>4. CASE Drained
  <2>1. answer[Finisher] = Nil \/ answer[Finisher] \in Values
    BY <1>1 DEF QueueTypeOK
  <2> QED BY <2>1, <1>1, <1>4 DEF Drained, ReleaseAnswer, QueueTypeOK, QueuePCs, UseType, listVars, localVars
<1> QED BY <1>2, <1>3, <1>4 DEF FinisherStep

----------------------------------------------------------------------------
(* A step moves one goroutine *)

LEMMA QueueStill ==
  ASSUME IInv, NEW p \in Procs, NEW q \in Procs, q # p, QueueStep(p), UNCHANGED useVars
  PROVE  Still(q)
<1>1. QueueTypeOK
  BY DEF IInv
<1>2. at'[q] = at[q] /\ rest'[q] = rest[q]
  BY DEF useVars
<1>3. pc'[q] = pc[q] /\ lh'[q] = lh[q] /\ lt'[q] = lt[q] /\ ln'[q] = ln[q] /\ mine'[q] = mine[q]
  BY <1>1 DEF QueueStep, QueueTypeOK, At, Goto, listVars, localVars, LoadTail, LoadNext, CheckTail,
     Link, Swing, HelpEnqueue, LoadHead, LoadTailD, LoadNextD, CheckHead, HelpDequeue, Take
<1> QED BY <1>2, <1>3 DEF Still

LEMMA ReaderStill ==
  ASSUME IInv, NEW r \in Readers, NEW q \in Procs, q # r, ReaderStep(r)
  PROVE  Still(q)
<1>1. QueueTypeOK /\ UseType
  BY DEF IInv
<1>2. at'[q] = at[q] /\ (q \in Readers => rest'[q] = rest[q])
  BY <1>1 DEF ReaderStep, UseType, Do, Deliver, OnNext, Release, Keep, Kept
<1>3. pc'[q] = pc[q] /\ lh'[q] = lh[q] /\ lt'[q] = lt[q] /\ ln'[q] = ln[q] /\ mine'[q] = mine[q]
  BY <1>1 DEF ReaderStep, QueueTypeOK, Deliver, OnNext, Release, Keep, Kept, Return, Enqueue, Dequeue,
     At, Goto, queueVars, listVars, localVars
<1> QED BY <1>2, <1>3 DEF Still

LEMMA FinisherStill ==
  ASSUME IInv, NEW q \in Procs, q # Finisher, FinisherStep
  PROVE  Still(q)
<1>1. QueueTypeOK /\ UseType
  BY DEF IInv
<1>2. at'[q] = at[q] /\ rest'[q] = rest[q]
  BY <1>1 DEF FinisherStep, UseType, Do, Finally, DrainNext, Drained, useVars
<1>3. pc'[q] = pc[q] /\ lh'[q] = lh[q] /\ lt'[q] = lt[q] /\ ln'[q] = ln[q] /\ mine'[q] = mine[q]
  BY <1>1 DEF FinisherStep, QueueTypeOK, Finally, DrainNext, Drained, Return, Dequeue,
     At, Goto, queueVars, listVars, localVars
<1> QED BY <1>2, <1>3 DEF Still

----------------------------------------------------------------------------
(* What the steps do to the list *)

LEMMA ListStays ==
  ASSUME IInv, UNCHANGED listVars
  PROVE  ListInv' /\ Grows
<1>1. On(chain, tail) /\ Pos(chain, tail) \in Nat /\ taken \in Nat
  <2>1. On(chain, tail)
    BY DEF IInv, ListInv
  <2> QED BY <2>1, Places
<1>2. UNCHANGED <<head, tail, next, chain, taken>>
  BY DEF listVars
<1> QED BY <1>1, <1>2 DEF IInv, ListInv, Grows

\* A tail that is swung goes to the next node of the chain.
LEMMA TailGoesOn ==
  ASSUME IInv, NEW n, On(chain, n), next[n] # Nil,
         tail' = IF tail = n THEN next[n] ELSE tail,
         UNCHANGED <<head, next, chain, taken>>
  PROVE  ListInv' /\ Grows
<1>1. /\ taken < Len(chain) /\ head = chain[taken + 1] /\ Distinct(chain)
      /\ \A i \in 1..Len(chain) : next[chain[i]] = IF i = Len(chain) THEN Nil ELSE chain[i + 1]
      /\ \A m \in Nodes : ~On(chain, m) => next[m] = Nil
      /\ On(chain, tail) /\ taken + 1 <= Pos(chain, tail)
  BY DEF IInv, ListInv
<1>2. taken \in Nat /\ Len(chain) \in Nat /\ Pos(chain, tail) \in 1..Len(chain)
  BY <1>1, Places
<1>3. On(chain, tail') /\ Pos(chain, tail') \in Nat /\ Pos(chain, tail) <= Pos(chain, tail')
  <2>1. CASE tail = n
    <3> DEFINE i == Pos(chain, n)
    <3>1. i \in 1..Len(chain) /\ chain[i] = n
      BY Places
    <3>2. i # Len(chain) /\ next[n] = chain[i + 1]
      BY <1>1, <3>1
    <3>3. i + 1 \in 1..Len(chain)
      BY <1>2, <3>1, <3>2
    <3>4. On(chain, chain[i + 1]) /\ Pos(chain, chain[i + 1]) = i + 1
      BY <3>3, Places
    <3> QED BY <2>1, <3>1, <3>2, <3>4
  <2>2. CASE tail # n
    BY <1>1, <1>2, <2>2
  <2> QED BY <2>1, <2>2
<1>4. taken + 1 <= Pos(chain, tail')
  BY <1>1, <1>2, <1>3
<1>5. ListInv'
  BY <1>1, <1>3, <1>4 DEF ListInv
<1> QED BY <1>2, <1>3, <1>5 DEF Grows

\* A node that is linked becomes the last of the chain.
LEMMA LinkGrows ==
  ASSUME IInv, NEW n, On(chain, n), next[n] = Nil, NEW v \in Values, ~On(chain, v),
         next' = [next EXCEPT ![n] = v], chain' = Append(chain, v),
         UNCHANGED <<head, tail, taken>>
  PROVE  ListInv' /\ Grows /\ next'[n] = v /\ chain[Len(chain)] = n
<1>1. /\ taken < Len(chain) /\ head = chain[taken + 1] /\ Distinct(chain)
      /\ \A i \in 1..Len(chain) : next[chain[i]] = IF i = Len(chain) THEN Nil ELSE chain[i + 1]
      /\ \A m \in Nodes : ~On(chain, m) => next[m] = Nil
      /\ On(chain, tail) /\ taken + 1 <= Pos(chain, tail)
  BY DEF IInv, ListInv
<1>2. /\ taken \in Nat /\ Len(chain) \in Nat /\ Pos(chain, tail) \in 1..Len(chain)
      /\ chain \in Seq(Nodes) /\ v \in Nodes /\ Nil \notin Nodes
      /\ next \in [Nodes -> Values \cup {Nil}]
  BY <1>1, Places, LKQueueAssumption DEF Nodes, IInv, QueueTypeOK
<1>3. \A i \in 1..Len(chain) : chain[i] \in Nodes
  BY <1>2
<1>4. n = chain[Len(chain)] /\ n \in Nodes /\ n # v
  <2> DEFINE i == Pos(chain, n)
  <2>1. i \in 1..Len(chain) /\ chain[i] = n
    BY Places
  <2>2. CASE i # Len(chain)
    <3>1. next[n] = chain[i + 1]
      BY <1>1, <2>1, <2>2
    <3>2. i + 1 \in 1..Len(chain)
      BY <2>1, <2>2, <1>2
    <3> QED BY <3>1, <3>2, <1>2, <1>3
  <2> QED BY <2>1, <2>2, <1>3
<1>5. /\ Distinct(chain') /\ On(chain', v) /\ Pos(chain', v) = Len(chain) + 1
      /\ \A m : On(chain, m) => On(chain', m) /\ Pos(chain', m) = Pos(chain, m)
      /\ \A m : On(chain', m) => On(chain, m) \/ m = v
  BY <1>1, <1>2, AppendPos
<1>6. /\ Len(chain') = Len(chain) + 1 /\ chain'[Len(chain) + 1] = v
      /\ \A i \in 1..Len(chain) : chain'[i] = chain[i]
  BY <1>2
<1>7. /\ next'[n] = v
      /\ \A m \in Nodes \ {n} : next'[m] = next[m]
  BY <1>2, <1>4
<1>8. ASSUME NEW i \in 1..Len(chain')
      PROVE  next'[chain'[i]] = IF i = Len(chain') THEN Nil ELSE chain'[i + 1]
  <2>1. CASE i = Len(chain) + 1
    BY <2>1, <1>1, <1>2, <1>4, <1>6, <1>7
  <2>2. CASE i = Len(chain)
    <3>1. chain'[i] = n /\ chain'[i + 1] = v
      BY <2>2, <1>2, <1>4, <1>6, <1>8
    <3> QED BY <2>2, <3>1, <1>2, <1>6, <1>7
  <2>3. CASE i \in 1..(Len(chain) - 1)
    <3>1. i \in 1..Len(chain) /\ i + 1 \in 1..Len(chain) /\ i # Len(chain)
      BY <2>3, <1>2
    <3>2. chain[i] # n
      <4>1. Len(chain) \in 1..Len(chain)
        BY <3>1, <1>2
      <4> QED BY <4>1, <3>1, <1>1, <1>4 DEF Distinct
    <3> QED BY <3>1, <3>2, <1>1, <1>2, <1>3, <1>6, <1>7
  <2>4. i \in 1..(Len(chain) + 1)
    BY <1>6
  <2> QED BY <2>1, <2>2, <2>3, <2>4, <1>2
<1>9. \A m \in Nodes : ~On(chain', m) => next'[m] = Nil
  BY <1>1, <1>5, <1>7
<1>10. head' = chain'[taken' + 1]
  <2>1. taken + 1 \in 1..Len(chain)
    BY <1>1, <1>2
  <2> QED BY <2>1, <1>1, <1>6
<1>11. ListInv'
  <2>1. taken' < Len(chain')
    BY <1>1, <1>2, <1>6
  <2>2. On(chain', tail') /\ taken' + 1 <= Pos(chain', tail')
    BY <1>1, <1>5
  <2> QED BY <2>1, <2>2, <1>5, <1>8, <1>9, <1>10 DEF ListInv
<1>12. Grows
  <2>1. \A m \in Nodes : next[m] # Nil => next'[m] = next[m]
    BY <1>7
  <2> QED BY <2>1, <1>1, <1>2, <1>5 DEF Grows
<1> QED BY <1>4, <1>7, <1>11, <1>12

\* A head that is taken goes to the next node, and does not pass the tail.
LEMMA HeadGoesOn ==
  ASSUME IInv, next[head] # Nil, head # tail, head' = next[head], taken' = taken + 1,
         UNCHANGED <<tail, next, chain>>
  PROVE  ListInv' /\ Grows /\ taken + 2 <= Len(chain) /\ head' = chain[taken + 2]
<1>1. /\ taken < Len(chain) /\ head = chain[taken + 1] /\ Distinct(chain)
      /\ \A i \in 1..Len(chain) : next[chain[i]] = IF i = Len(chain) THEN Nil ELSE chain[i + 1]
      /\ \A m \in Nodes : ~On(chain, m) => next[m] = Nil
      /\ On(chain, tail) /\ taken + 1 <= Pos(chain, tail)
  BY DEF IInv, ListInv
<1>2. /\ taken \in Nat /\ Len(chain) \in Nat
      /\ Pos(chain, tail) \in 1..Len(chain) /\ chain[Pos(chain, tail)] = tail
  BY <1>1, Places
<1>3. taken + 1 \in 1..Len(chain)
  BY <1>1, <1>2
<1>4. taken + 1 # Len(chain) /\ head' = chain[taken + 1 + 1]
  BY <1>1, <1>3
<1>5. Pos(chain, tail) # taken + 1
  BY <1>1, <1>2
<1>6. ListInv'
  BY <1>1, <1>2, <1>4, <1>5 DEF ListInv
<1> QED BY <1>1, <1>2, <1>4, <1>6 DEF Grows

----------------------------------------------------------------------------
(* The payloads that are still to be linked *)

\* If nothing is linked and nobody's payload is done with, none is less fresh.
LEMMA FreshStays ==
  ASSUME IInv, UNCHANGED <<chain, rest>>, \A r \in Readers : Put(r) => Put(r)'
  PROVE  FreshInv'
<1>1. FreshInv
  BY DEF IInv
<1> QED BY <1>1 DEF FreshInv

\* What a step of p must do: keep the list, and what p knows.
Keeps(p) == ListInv' /\ Grows /\ EnqInv(p)' /\ DeqInv(p)' /\ UseInv(p)'

LEMMA LoadTailStep ==
  ASSUME IInv, NEW p \in Procs, LoadTail(p), UNCHANGED useVars
  PROVE  Keeps(p) /\ (Put(p) => Put(p)')
<1>1. QueueTypeOK /\ UseInv(p) /\ EnqInv(p) /\ DeqInv(p) /\ ListInv
  BY DEF IInv
<1>2. /\ pc[p] = "e:tail" /\ pc'[p] = "e:next"
      /\ lt'[p] = tail /\ mine'[p] = mine[p]
      /\ UNCHANGED <<head, tail, next, chain, taken, at, rest>>
  BY <1>1 DEF LoadTail, At, Goto, QueueTypeOK, listVars, localVars, useVars
<1>3. ListInv' /\ Grows
  BY <1>2, ListStays DEF listVars
<1>4. EnqInv(p)' /\ DeqInv(p)'
  BY <1>1, <1>2 DEF EnqInv, DeqInv, AtTail, AtHead, ListInv
<1>5. UseInv(p)' /\ (Put(p) => Put(p)')
  BY <1>1, <1>2 DEF UseInv, Put, InEnqueue
<1> QED BY <1>3, <1>4, <1>5 DEF Keeps

LEMMA LoadNextStep ==
  ASSUME IInv, NEW p \in Procs, LoadNext(p), UNCHANGED useVars
  PROVE  Keeps(p) /\ (Put(p) => Put(p)')
<1>1. QueueTypeOK /\ UseInv(p) /\ EnqInv(p) /\ DeqInv(p) /\ ListInv
  BY DEF IInv
<1>2. /\ pc[p] = "e:next" /\ pc'[p] = "e:check"
      /\ ln'[p] = next[lt[p]] /\ lt'[p] = lt[p] /\ mine'[p] = mine[p]
      /\ UNCHANGED <<head, tail, next, chain, taken, at, rest>>
  BY <1>1 DEF LoadNext, At, Goto, QueueTypeOK, listVars, localVars, useVars
<1>3. ListInv' /\ Grows
  BY <1>2, ListStays DEF listVars
<1>4. EnqInv(p)' /\ DeqInv(p)'
  BY <1>1, <1>2 DEF EnqInv, DeqInv, AtTail, AtHead, ListInv
<1>5. UseInv(p)' /\ (Put(p) => Put(p)')
  BY <1>1, <1>2 DEF UseInv, Put, InEnqueue
<1> QED BY <1>3, <1>4, <1>5 DEF Keeps

LEMMA CheckTailStep ==
  ASSUME IInv, NEW p \in Procs, CheckTail(p), UNCHANGED useVars
  PROVE  Keeps(p) /\ (Put(p) => Put(p)')
<1>1. QueueTypeOK /\ UseInv(p) /\ EnqInv(p) /\ DeqInv(p) /\ ListInv
  BY DEF IInv
<1>2. /\ pc[p] = "e:check"
      /\ pc'[p] = IF lt[p] # tail THEN "e:tail" ELSE IF ln[p] = Nil THEN "e:link" ELSE "e:help"
      /\ ln'[p] = ln[p] /\ lt'[p] = lt[p] /\ mine'[p] = mine[p]
      /\ UNCHANGED <<head, tail, next, chain, taken, at, rest>>
  BY <1>1 DEF CheckTail, At, Goto, QueueTypeOK, listVars, localVars, useVars
<1>3. ListInv' /\ Grows
  BY <1>2, ListStays DEF listVars
<1>4. EnqInv(p)' /\ DeqInv(p)'
  BY <1>1, <1>2 DEF EnqInv, DeqInv, AtTail, AtHead, ListInv
<1>5. UseInv(p)' /\ (Put(p) => Put(p)')
  BY <1>1, <1>2 DEF UseInv, Put, InEnqueue
<1> QED BY <1>3, <1>4, <1>5 DEF Keeps

LEMMA LoadHeadStep ==
  ASSUME IInv, NEW p \in Procs, LoadHead(p), UNCHANGED useVars
  PROVE  Keeps(p) /\ (Put(p) => Put(p)')
<1>1. QueueTypeOK /\ UseInv(p) /\ EnqInv(p) /\ DeqInv(p) /\ ListInv
  BY DEF IInv
<1>2. /\ pc[p] = "d:head" /\ pc'[p] = "d:tail"
      /\ lh'[p] = head /\ mine'[p] = mine[p]
      /\ UNCHANGED <<head, tail, next, chain, taken, at, rest>>
  BY <1>1 DEF LoadHead, At, Goto, QueueTypeOK, listVars, localVars, useVars
<1>3. ListInv' /\ Grows
  BY <1>2, ListStays DEF listVars
<1>4. EnqInv(p)' /\ DeqInv(p)'
  BY <1>1, <1>2, Places DEF EnqInv, DeqInv, AtTail, AtHead, ListInv
<1>5. UseInv(p)' /\ (Put(p) => Put(p)')
  BY <1>1, <1>2 DEF UseInv, Put, InEnqueue
<1> QED BY <1>3, <1>4, <1>5 DEF Keeps

LEMMA LoadTailDStep ==
  ASSUME IInv, NEW p \in Procs, LoadTailD(p), UNCHANGED useVars
  PROVE  Keeps(p) /\ (Put(p) => Put(p)')
<1>1. QueueTypeOK /\ UseInv(p) /\ EnqInv(p) /\ DeqInv(p) /\ ListInv
  BY DEF IInv
<1>2. /\ pc[p] = "d:tail" /\ pc'[p] = "d:next"
      /\ lh'[p] = lh[p] /\ lt'[p] = tail /\ mine'[p] = mine[p]
      /\ UNCHANGED <<head, tail, next, chain, taken, at, rest>>
  BY <1>1 DEF LoadTailD, At, Goto, QueueTypeOK, listVars, localVars, useVars
<1>3. ListInv' /\ Grows
  BY <1>2, ListStays DEF listVars
<1>4. Pos(chain, lh[p]) \in Nat /\ Pos(chain, tail) \in Nat /\ taken \in Nat
  <2>1. On(chain, lh[p]) /\ On(chain, tail)
    BY <1>1, <1>2 DEF DeqInv, AtHead, ListInv
  <2> QED BY <2>1, Places
<1>5. EnqInv(p)' /\ DeqInv(p)'
  BY <1>1, <1>2, <1>4 DEF EnqInv, DeqInv, AtTail, AtHead, ListInv
<1>6. UseInv(p)' /\ (Put(p) => Put(p)')
  BY <1>1, <1>2 DEF UseInv, Put, InEnqueue
<1> QED BY <1>3, <1>5, <1>6 DEF Keeps

LEMMA LoadNextDStep ==
  ASSUME IInv, NEW p \in Procs, LoadNextD(p), UNCHANGED useVars
  PROVE  Keeps(p) /\ (Put(p) => Put(p)')
<1>1. QueueTypeOK /\ UseInv(p) /\ EnqInv(p) /\ DeqInv(p) /\ ListInv
  BY DEF IInv
<1>2. /\ pc[p] = "d:next" /\ pc'[p] = "d:check"
      /\ ln'[p] = next[lh[p]] /\ lh'[p] = lh[p] /\ lt'[p] = lt[p] /\ mine'[p] = mine[p]
      /\ UNCHANGED <<head, tail, next, chain, taken, at, rest>>
  BY <1>1 DEF LoadNextD, At, Goto, QueueTypeOK, listVars, localVars, useVars
<1>3. ListInv' /\ Grows
  BY <1>2, ListStays DEF listVars
\* a head that is before the tail has a next node
<1>4. lh[p] # lt[p] => next[lh[p]] # Nil
  <2> SUFFICES ASSUME lh[p] # lt[p]
               PROVE  next[lh[p]] # Nil
    OBVIOUS
  <2> DEFINE i == Pos(chain, lh[p])   j == Pos(chain, lt[p])
  <2>1. On(chain, lh[p]) /\ On(chain, lt[p]) /\ i <= j
    BY <1>1, <1>2 DEF DeqInv, AtHead
  <2>2. i \in 1..Len(chain) /\ chain[i] = lh[p] /\ j \in 1..Len(chain) /\ chain[j] = lt[p]
    BY <2>1, Places
  <2>3. i # j
    BY <2>2
  <2>4. i + 1 \in 1..Len(chain) /\ i # Len(chain)
    BY <2>1, <2>2, <2>3, Places
  <2>5. next[lh[p]] = chain[i + 1]
    BY <1>1, <2>2, <2>4 DEF ListInv
  <2>6. chain[i + 1] \in Nodes
    BY <2>4, Places
  <2> QED BY <2>5, <2>6, LKQueueAssumption DEF Nodes
<1>5. EnqInv(p)' /\ DeqInv(p)'
  BY <1>1, <1>2, <1>4 DEF EnqInv, DeqInv, AtTail, AtHead, ListInv
<1>6. UseInv(p)' /\ (Put(p) => Put(p)')
  BY <1>1, <1>2 DEF UseInv, Put, InEnqueue
<1> QED BY <1>3, <1>5, <1>6 DEF Keeps

LEMMA CheckHeadStep ==
  ASSUME IInv, NEW p \in Procs, CheckHead(p), UNCHANGED useVars
  PROVE  Keeps(p) /\ (Put(p) => Put(p)')
<1>1. QueueTypeOK /\ UseInv(p) /\ EnqInv(p) /\ DeqInv(p) /\ ListInv
  BY DEF IInv
<1>2. /\ pc[p] = "d:check"
      /\ pc'[p] = IF lh[p] # head THEN "d:head" ELSE IF lh[p] # lt[p] THEN "d:take"
                  ELSE IF ln[p] = Nil THEN "back" ELSE "d:help"
      /\ lh'[p] = lh[p] /\ lt'[p] = lt[p] /\ ln'[p] = ln[p] /\ mine'[p] = mine[p]
      /\ UNCHANGED <<head, tail, next, chain, taken, at, rest>>
  BY <1>1 DEF CheckHead, At, Goto, QueueTypeOK, listVars, localVars, useVars
<1>3. ListInv' /\ Grows
  BY <1>2, ListStays DEF listVars
<1>4. EnqInv(p)' /\ DeqInv(p)'
  BY <1>1, <1>2 DEF EnqInv, DeqInv, AtTail, AtHead, ListInv
<1>5. UseInv(p)' /\ (Put(p) => Put(p)')
  BY <1>1, <1>2 DEF UseInv, Put, InEnqueue
<1> QED BY <1>3, <1>4, <1>5 DEF Keeps

LEMMA SwingStep ==
  ASSUME IInv, NEW p \in Procs, Swing(p), UNCHANGED useVars
  PROVE  Keeps(p) /\ (Put(p) => Put(p)')
<1>1. QueueTypeOK /\ UseInv(p) /\ EnqInv(p) /\ DeqInv(p)
  BY DEF IInv
<1>2. /\ pc[p] = "e:swing" /\ pc'[p] = "back"
      /\ tail' = IF tail = lt[p] THEN mine[p] ELSE tail
      /\ UNCHANGED <<head, next, chain, taken, at, rest>>
  BY <1>1 DEF Swing, Swung, At, Goto, QueueTypeOK, localVars, useVars
<1>3. On(chain, lt[p]) /\ mine[p] = next[lt[p]] /\ mine[p] # Nil
  BY <1>1, <1>2 DEF EnqInv, DeqInv, AtTail, AtHead
<1>4. ListInv' /\ Grows
  BY <1>2, <1>3, TailGoesOn
<1>5. EnqInv(p)' /\ DeqInv(p)'
  BY <1>1, <1>2 DEF EnqInv, DeqInv, AtTail, AtHead
<1>6. UseInv(p)' /\ (Put(p) => Put(p)')
  BY <1>1, <1>2 DEF UseInv, Put, InEnqueue
<1> QED BY <1>4, <1>5, <1>6 DEF Keeps

LEMMA HelpEnqueueStep ==
  ASSUME IInv, NEW p \in Procs, HelpEnqueue(p), UNCHANGED useVars
  PROVE  Keeps(p) /\ (Put(p) => Put(p)')
<1>1. QueueTypeOK /\ UseInv(p) /\ EnqInv(p) /\ DeqInv(p)
  BY DEF IInv
<1>2. /\ pc[p] = "e:help" /\ pc'[p] = "e:tail"
      /\ tail' = IF tail = lt[p] THEN ln[p] ELSE tail
      /\ UNCHANGED <<head, next, chain, taken, at, rest>> /\ mine'[p] = mine[p]
  BY <1>1 DEF HelpEnqueue, Swung, At, Goto, QueueTypeOK, localVars, useVars
<1>3. On(chain, lt[p]) /\ ln[p] = next[lt[p]] /\ ln[p] # Nil
  BY <1>1, <1>2 DEF EnqInv, DeqInv, AtTail, AtHead
<1>4. ListInv' /\ Grows
  BY <1>2, <1>3, TailGoesOn
<1>5. EnqInv(p)' /\ DeqInv(p)'
  BY <1>1, <1>2 DEF EnqInv, DeqInv, AtTail, AtHead
<1>6. UseInv(p)' /\ (Put(p) => Put(p)')
  BY <1>1, <1>2 DEF UseInv, Put, InEnqueue
<1> QED BY <1>4, <1>5, <1>6 DEF Keeps

LEMMA HelpDequeueStep ==
  ASSUME IInv, NEW p \in Procs, HelpDequeue(p), UNCHANGED useVars
  PROVE  Keeps(p) /\ (Put(p) => Put(p)')
<1>1. QueueTypeOK /\ UseInv(p) /\ EnqInv(p) /\ DeqInv(p)
  BY DEF IInv
<1>2. /\ pc[p] = "d:help" /\ pc'[p] = "d:head"
      /\ tail' = IF tail = lt[p] THEN ln[p] ELSE tail
      /\ UNCHANGED <<head, next, chain, taken, at, rest>> /\ mine'[p] = mine[p]
  BY <1>1 DEF HelpDequeue, Swung, At, Goto, QueueTypeOK, localVars, useVars
<1>3. On(chain, lt[p]) /\ ln[p] = next[lt[p]] /\ ln[p] # Nil
  BY <1>1, <1>2 DEF EnqInv, DeqInv, AtTail, AtHead
<1>4. ListInv' /\ Grows
  BY <1>2, <1>3, TailGoesOn
<1>5. EnqInv(p)' /\ DeqInv(p)'
  BY <1>1, <1>2 DEF EnqInv, DeqInv, AtTail, AtHead
<1>6. UseInv(p)' /\ (Put(p) => Put(p)')
  BY <1>1, <1>2 DEF UseInv, Put, InEnqueue
<1> QED BY <1>4, <1>5, <1>6 DEF Keeps

\* The payload that p links is the first of its payloads and nobody else's.
LEMMA LinkFresh ==
  ASSUME IInv, NEW p \in Procs, pc[p] = "e:link"
  PROVE  /\ p \in Readers /\ at[p] = "keeping" /\ rest[p] \in Seq(Values) /\ rest[p] # <<>>
         /\ mine[p] = rest[p][1] /\ 1 \in 1..Len(rest[p]) /\ mine[p] \in Values
         /\ ~On(chain, mine[p])
<1>1. UseInv(p) /\ UseType /\ FreshInv
  BY DEF IInv
<1>2. p \in Readers /\ at[p] = "keeping" /\ rest[p] \in Seq(Values) /\ rest[p] # <<>> /\ mine[p] = Head(rest[p])
  BY <1>1 DEF UseInv, InEnqueue, UseType
<1>3. mine[p] = rest[p][1] /\ 1 \in 1..Len(rest[p]) /\ mine[p] \in Values
  BY <1>2
<1>4. ~On(chain, mine[p])
  BY <1>1, <1>2, <1>3 DEF FreshInv, Put
<1> QED BY <1>2, <1>3, <1>4

LEMMA LinkStep ==
  ASSUME IInv, NEW p \in Procs, Link(p), UNCHANGED useVars
  PROVE  Keeps(p) /\ FreshInv'
<1>1. QueueTypeOK /\ UseInv(p) /\ EnqInv(p) /\ FreshInv
  BY DEF IInv
<1>2. /\ pc[p] = "e:link" /\ pc'[p] = IF next[lt[p]] = Nil THEN "e:swing" ELSE "e:tail"
      /\ UNCHANGED <<head, tail, taken, at, rest>> /\ mine'[p] = mine[p] /\ lt'[p] = lt[p]
  BY <1>1 DEF Link, At, Goto, QueueTypeOK, localVars, useVars
<1>3. On(chain, lt[p])
  BY <1>1, <1>2 DEF EnqInv, AtTail
<1>4. UseInv(p)'
  BY <1>1, <1>2 DEF UseInv, InEnqueue
<1>5. CASE next[lt[p]] = Nil
  <2>1. next' = [next EXCEPT ![lt[p]] = mine[p]] /\ chain' = Append(chain, mine[p])
    BY <1>5 DEF Link
  <2>2. /\ p \in Readers /\ at[p] = "keeping" /\ mine[p] = rest[p][1] /\ 1 \in 1..Len(rest[p])
        /\ mine[p] \in Values /\ ~On(chain, mine[p])
    BY <1>2, LinkFresh
  <2>3. ListInv' /\ Grows /\ next'[lt[p]] = mine[p]
    BY <2>1, <2>2, <1>2, <1>3, <1>5, LinkGrows
  <2>4. EnqInv(p)' /\ DeqInv(p)'
    <3>1. On(chain', lt[p])
      <4>1. lt[p] \in Nodes
        BY <1>2, Loaded DEF AtTail
      <4> QED BY <4>1, <1>3, <2>3 DEF Grows
    <3>2. mine[p] # Nil
      BY <2>2, LKQueueAssumption
    <3> QED BY <3>1, <3>2, <1>2, <1>5, <2>3 DEF EnqInv, DeqInv, AtTail, AtHead
  <2>5. FreshInv'
    <3>1. \A m : On(chain', m) => On(chain, m) \/ m = mine[p]
      <4>1. chain \in Seq(Nodes) /\ Distinct(chain) /\ mine[p] \in Nodes
        BY <2>2 DEF IInv, QueueTypeOK, ListInv, Nodes
      <4> QED BY <4>1, <2>1, <2>2, AppendPos
    <3>2. /\ ~Put(p) /\ Put(p)'
          /\ \A r \in Readers \ {p} : Put(r)' <=> Put(r)
      BY <1>1, <1>2, <1>5, <2>2 DEF Put, Link, At, Goto, QueueTypeOK
    <3>3. ASSUME NEW r \in Readers, NEW i \in 1..Len(rest[r]), ~(i = 1 /\ Put(r)')
          PROVE  ~On(chain', rest[r][i])
      <4>1. ~(i = 1 /\ Put(r))
        BY <3>2, <3>3
      <4>2. ~On(chain, rest[r][i])
        BY <4>1, <1>1 DEF FreshInv
      <4>3. rest[r][i] # mine[p]
        BY <1>1, <2>2, <3>2, <3>3 DEF FreshInv
      <4> QED BY <3>1, <4>2, <4>3
    <3> QED BY <3>3, <1>1, <1>2 DEF FreshInv
  <2> QED BY <1>4, <2>3, <2>4, <2>5 DEF Keeps
<1>6. CASE next[lt[p]] # Nil
  <2>1. UNCHANGED listVars
    BY <1>2, <1>6 DEF Link, listVars
  <2>2. EnqInv(p)' /\ DeqInv(p)'
    BY <1>2, <1>6 DEF EnqInv, DeqInv, AtTail, AtHead
  <2>3. FreshInv'
    <3>1. \A r \in Readers : Put(r) => Put(r)'
      BY <1>1, <1>2 DEF Put, Link, At, Goto, QueueTypeOK
    <3> QED BY <3>1, <2>1, <1>2, FreshStays DEF listVars
  <2> QED BY <1>4, <2>1, <2>2, <2>3, ListStays DEF Keeps
<1> QED BY <1>5, <1>6

\* What Take finds when nobody took before it: the node behind the head is next.
LEMMA TakeHead ==
  ASSUME IInv, NEW p \in Procs, pc[p] = "d:take", head = lh[p]
  PROVE  ln[p] = next[head] /\ next[head] # Nil /\ head # tail
<1>1. DeqInv(p) /\ ListInv
  BY DEF IInv
<1>2. ln[p] = next[head] /\ next[head] # Nil /\ lh[p] # lt[p]
  BY <1>1 DEF DeqInv
<1>3. /\ On(chain, lh[p]) /\ On(chain, lt[p]) /\ On(chain, tail)
      /\ Pos(chain, lh[p]) <= Pos(chain, lt[p]) /\ Pos(chain, lt[p]) <= Pos(chain, tail)
  BY <1>1 DEF DeqInv, AtHead, ListInv
<1>4. Pos(chain, lh[p]) # Pos(chain, lt[p])
  BY <1>2, <1>3, Places
<1>5. Pos(chain, lh[p]) \in Nat /\ Pos(chain, lt[p]) \in Nat /\ Pos(chain, tail) \in Nat
  BY <1>3, Places
<1> QED BY <1>2, <1>3, <1>4, <1>5

LEMMA TakeStep ==
  ASSUME IInv, NEW p \in Procs, Take(p), UNCHANGED useVars
  PROVE  Keeps(p) /\ (Put(p) => Put(p)')
<1>1. QueueTypeOK /\ UseInv(p) /\ DeqInv(p)
  BY DEF IInv
<1>2. /\ pc[p] = "d:take" /\ pc'[p] = IF head = lh[p] THEN "back" ELSE "d:head"
      /\ UNCHANGED <<tail, next, chain, at, rest>> /\ mine'[p] = mine[p]
  BY <1>1 DEF Take, At, Goto, QueueTypeOK, localVars, useVars
<1>3. EnqInv(p)' /\ DeqInv(p)'
  BY <1>2 DEF EnqInv, DeqInv, AtTail, AtHead
<1>4. UseInv(p)' /\ (Put(p) => Put(p)')
  BY <1>1, <1>2 DEF UseInv, Put, InEnqueue
<1>5. ListInv' /\ Grows
  <2>1. CASE head = lh[p]
    <3>1. head' = ln[p] /\ taken' = taken + 1
      BY <2>1 DEF Take
    <3> QED BY <3>1, <2>1, <1>2, TakeHead, HeadGoesOn
  <2>2. CASE head # lh[p]
    <3>1. UNCHANGED listVars
      BY <1>2, <2>2 DEF Take, listVars
    <3> QED BY <3>1, ListStays
  <2> QED BY <2>1, <2>2
<1> QED BY <1>3, <1>4, <1>5 DEF Keeps

----------------------------------------------------------------------------
(* Every step keeps the invariant *)

LEMMA QueueKeeps ==
  ASSUME IInv, NEW p \in Procs, QueueStep(p), UNCHANGED useVars
  PROVE  IInv'
<1>1. QueueTypeOK' /\ UseType'
  <2>1. UseType'
    BY DEF IInv, UseType, useVars
  <2> QED BY <2>1, QueueTypes
<1>2. \A q \in Procs : q # p => Still(q)
  BY QueueStill
<1>3. Keeps(p) /\ FreshInv'
  <2>1. CASE Link(p)
    BY <2>1, LinkStep
  <2>2. CASE ~Link(p)
    <3>1. UNCHANGED chain
      BY <2>2 DEF QueueStep, LoadTail, LoadNext, CheckTail, Swing, HelpEnqueue, LoadHead, LoadTailD,
         LoadNextD, CheckHead, HelpDequeue, Take, listVars
    <3>2. Keeps(p) /\ (Put(p) => Put(p)')
      BY <2>2, LoadTailStep, LoadNextStep, CheckTailStep, SwingStep, HelpEnqueueStep, LoadHeadStep,
         LoadTailDStep, LoadNextDStep, CheckHeadStep, HelpDequeueStep, TakeStep DEF QueueStep
    <3>3. \A r \in Readers : Put(r) => Put(r)'
      BY <1>2, <3>2, ReleaseQueueAssumption DEF Still, Put
    <3> QED BY <3>1, <3>2, <3>3, FreshStays DEF useVars
  <2> QED BY <2>1, <2>2
<1>4. \A q \in Procs : EnqInv(q)' /\ DeqInv(q)' /\ UseInv(q)'
  BY <1>2, <1>3, Bystander DEF Keeps
<1> QED BY <1>1, <1>3, <1>4 DEF IInv, Keeps

LEMMA ReaderKeeps ==
  ASSUME IInv, NEW r \in Readers, ReaderStep(r)
  PROVE  IInv'
<1> USE DEF Do, At, Goto, Return
<1>1. QueueTypeOK /\ UseType /\ EnqInv(r) /\ DeqInv(r) /\ UseInv(r) /\ FreshInv /\ r \in Procs
  BY ReleaseQueueAssumption DEF IInv
<1>2. UNCHANGED listVars
  BY DEF ReaderStep, Deliver, OnNext, Release, Keep, Kept, Dequeue, Enqueue, queueVars
<1>3. ListInv' /\ Grows
  BY <1>2, ListStays
<1>4. \A q \in Procs : q # r => Still(q)
  BY ReaderStill
<1>5. EnqInv(r)' /\ DeqInv(r)' /\ UseInv(r)' /\ FreshInv'
  <2>1. CASE ~Kept(r)
    <3>1. UNCHANGED rest
      BY <2>1 DEF ReaderStep, Deliver, OnNext, Release, Keep
    <3>2. at[r] # "keeping"
      BY <2>1 DEF ReaderStep, Deliver, OnNext, Release, Keep
    <3>3. FreshInv'
      <4>1. \A s \in Readers : Put(s) => Put(s)'
        BY <1>4, <3>2, ReleaseQueueAssumption DEF Still, Put
      <4> QED BY <4>1, <1>2, <3>1, FreshStays DEF listVars
    <3>4. CASE Deliver(r)
      BY <3>3, <3>4, <1>1 DEF Deliver, queueVars, listVars, localVars, QueueTypeOK, UseType, EnqInv, DeqInv,
         UseInv, InEnqueue
    <3>5. CASE OnNext(r)
      BY <3>3, <3>5, <1>1 DEF OnNext, Dequeue, QueueTypeOK, UseType, EnqInv, DeqInv, UseInv, AtTail, AtHead, InEnqueue
    <3>6. CASE Release(r)
      BY <3>3, <3>6, <1>1 DEF Release, QueueTypeOK, UseType, EnqInv, DeqInv, UseInv, AtTail, AtHead, InEnqueue
    <3>7. CASE Keep(r)
      BY <3>3, <3>7, <1>1 DEF Keep, Enqueue, QueueTypeOK, UseType, EnqInv, DeqInv, UseInv, AtTail, AtHead, InEnqueue
    <3> QED BY <2>1, <3>4, <3>5, <3>6, <3>7 DEF ReaderStep
  <2>2. CASE Kept(r)
    <3>1. /\ at[r] = "keeping" /\ at'[r] = "out" /\ pc[r] = "back" /\ pc'[r] = "idle"
          /\ rest' = [rest EXCEPT ![r] = Tail(@)]
      BY <2>2, <1>1 DEF Kept, QueueTypeOK, UseType
    <3>2. EnqInv(r)' /\ DeqInv(r)' /\ UseInv(r)'
      BY <3>1 DEF EnqInv, DeqInv, UseInv, AtTail, AtHead, InEnqueue
    <3>3. rest[r] \in Seq(Values) /\ rest[r] # <<>>
      BY <1>1, <3>1 DEF UseInv, UseType
    <3>4. /\ rest'[r] = Tail(rest[r])
          /\ \A s \in Readers \ {r} : rest'[s] = rest[s]
      BY <1>1, <3>1 DEF UseType
    <3>5. \A i \in 1..Len(rest'[r]) : i + 1 \in 1..Len(rest[r]) /\ i + 1 # 1 /\ rest'[r][i] = rest[r][i + 1]
      BY <3>3, <3>4
    <3>6. \A s \in Readers \ {r} : Put(s)' <=> Put(s)
      BY <1>4, ReleaseQueueAssumption DEF Still, Put
    <3>7. ASSUME NEW s \in Readers, NEW i \in 1..Len(rest'[s]), ~(i = 1 /\ Put(s)')
          PROVE  ~On(chain', rest'[s][i])
      <4>1. CASE s = r
        BY <4>1, <1>1, <1>2, <3>5, <3>7 DEF FreshInv, listVars
      <4>2. CASE s # r
        BY <4>2, <1>1, <1>2, <3>4, <3>6, <3>7 DEF FreshInv, listVars
      <4> QED BY <4>1, <4>2
    <3>8. ASSUME NEW s \in Readers, NEW t \in Readers, NEW i \in 1..Len(rest'[s]), NEW j \in 1..Len(rest'[t]),
                 rest'[s][i] = rest'[t][j]
          PROVE  s = t /\ i = j
      <4> DEFINE k == IF s = r THEN i + 1 ELSE i   l == IF t = r THEN j + 1 ELSE j
      <4>1. k \in 1..Len(rest[s]) /\ rest[s][k] = rest'[s][i]
        BY <3>4, <3>5
      <4>2. l \in 1..Len(rest[t]) /\ rest[t][l] = rest'[t][j]
        BY <3>4, <3>5
      <4>3. s = t /\ k = l
        BY <4>1, <4>2, <3>8, <1>1 DEF FreshInv
      <4>4. i \in Int /\ j \in Int
        OBVIOUS
      <4> QED BY <4>3, <4>4
    <3>9. FreshInv'
      BY <3>7, <3>8 DEF FreshInv
    <3> QED BY <3>2, <3>9
  <2> QED BY <2>1, <2>2
<1>6. \A q \in Procs : EnqInv(q)' /\ DeqInv(q)' /\ UseInv(q)'
  BY <1>3, <1>4, <1>5, Bystander
<1> QED BY <1>3, <1>5, <1>6, ReaderTypes DEF IInv

LEMMA FinisherKeeps ==
  ASSUME IInv, FinisherStep
  PROVE  IInv'
<1> USE DEF Do, At, Goto, Return
<1>1. /\ QueueTypeOK /\ UseType /\ Finisher \in Procs /\ Finisher \notin Readers
      /\ EnqInv(Finisher) /\ DeqInv(Finisher) /\ UseInv(Finisher)
  BY ReleaseQueueAssumption DEF IInv
<1>2. UNCHANGED listVars /\ UNCHANGED rest
  BY DEF FinisherStep, Finally, DrainNext, Drained, Dequeue, queueVars, useVars
<1>3. ListInv' /\ Grows
  BY <1>2, ListStays
<1>4. \A q \in Procs : q # Finisher => Still(q)
  BY FinisherStill
<1>5. FreshInv'
  <2>1. \A s \in Readers : Put(s) => Put(s)'
    BY <1>1, <1>4, ReleaseQueueAssumption DEF Still, Put
  <2> QED BY <2>1, <1>2, FreshStays DEF listVars
<1>6. EnqInv(Finisher)' /\ DeqInv(Finisher)' /\ UseInv(Finisher)'
  <2>1. CASE Finally
    BY <2>1, <1>1 DEF Finally, queueVars, listVars, localVars, QueueTypeOK, UseType, EnqInv, DeqInv, UseInv, InEnqueue
  <2>2. CASE DrainNext
    BY <2>2, <1>1 DEF DrainNext, Dequeue, useVars, QueueTypeOK, UseType, EnqInv, DeqInv, UseInv, AtTail, AtHead, InEnqueue
  <2>3. CASE Drained
    BY <2>3, <1>1 DEF Drained, QueueTypeOK, UseType, EnqInv, DeqInv, UseInv, AtTail, AtHead, InEnqueue
  <2> QED BY <2>1, <2>2, <2>3 DEF FinisherStep
<1>7. \A q \in Procs : EnqInv(q)' /\ DeqInv(q)' /\ UseInv(q)'
  BY <1>3, <1>4, <1>6, Bystander
<1> QED BY <1>3, <1>5, <1>7, FinisherTypes DEF IInv

LEMMA InitHolds == Init => IInv
<1> SUFFICES ASSUME Init PROVE IInv
  OBVIOUS
<1> USE DEF Init, QueueInit
<1>1. chain = <<Dummy>> /\ Len(chain) = 1 /\ chain[1] = Dummy /\ taken = 0
  OBVIOUS
<1>2. On(chain, Dummy) /\ Pos(chain, Dummy) = 1 /\ Distinct(chain)
  <2>1. Distinct(chain)
    BY <1>1 DEF Distinct
  <2>2. 1 \in 1..Len(chain)
    BY <1>1
  <2> QED BY <1>1, <2>1, <2>2, PosOn
<1>3. QueueTypeOK
  BY DEF QueueTypeOK, QueuePCs, Nodes
<1>4. UseType
  BY ReleaseQueueAssumption DEF UseType
<1>5. ListInv
  BY <1>1, <1>2 DEF ListInv, Nodes
<1>6. FreshInv
  <2>1. \A m : On(chain, m) => m = Dummy
    BY <1>1 DEF On
  <2>2. \A s \in Readers : rest[s] \in Seq(Values) /\ \A i \in 1..Len(rest[s]) : rest[s][i] \in Values
    BY ReleaseQueueAssumption
  <2>3. \A s \in Readers : DOMAIN rest[s] = 1..Len(rest[s])
    BY <2>2
  <2> QED BY <2>1, <2>2, <2>3, ReleaseQueueAssumption, LKQueueAssumption DEF FreshInv
<1>7. \A p \in Procs : EnqInv(p) /\ DeqInv(p) /\ UseInv(p)
  BY DEF EnqInv, DeqInv, UseInv, AtTail, AtHead, InEnqueue
<1> QED BY <1>3, <1>4, <1>5, <1>6, <1>7 DEF IInv

LEMMA Inductive == IInv /\ [Next]_vars => IInv'
<1> SUFFICES ASSUME IInv, [Next]_vars PROVE IInv'
  OBVIOUS
<1>1. CASE UNCHANGED vars
  <2>1. UNCHANGED <<listVars, pc, lh, lt, ln, mine, answer, at, rest, registered, released>>
    BY <1>1 DEF vars, queueVars, localVars, useVars
  <2>2. QueueTypeOK' /\ UseType'
    BY <2>1 DEF IInv, QueueTypeOK, UseType, listVars
  <2>3. ListInv' /\ Grows
    BY <2>1, ListStays
  <2>4. FreshInv'
    <3>1. \A r \in Readers : Put(r) => Put(r)'
      BY <2>1 DEF Put
    <3> QED BY <2>1, <3>1, FreshStays DEF listVars
  <2>5. \A q \in Procs : Still(q)
    BY <2>1 DEF Still
  <2> QED BY <2>2, <2>3, <2>4, <2>5, Bystander DEF IInv
<1>2. ASSUME NEW p \in Procs, Act(p)
      PROVE  IInv'
  <2>1. CASE QueueStep(p) /\ UNCHANGED useVars
    BY <2>1, QueueKeeps
  <2>2. CASE p \in Readers /\ ReaderStep(p)
    BY <2>2, ReaderKeeps
  <2>3. CASE FinisherStep
    BY <2>3, FinisherKeeps
  <2> QED BY <1>2, <2>1, <2>2, <2>3 DEF Act, ReaderStep, FinisherStep
<1> QED BY <1>1, <1>2 DEF Next

\* The list's pointers are what its history says, and no payload enters it twice.
THEOREM ListHolds == Spec => []IInv
BY InitHolds, Inductive, PTL DEF Spec

\* The pointers of the list (head, tail and next of LKQueue.go) never part from
\* the order in which nodes were linked and taken.
THEOREM ListLinked == Spec => []Linked
<1>1. IInv => Linked
  <2> SUFFICES ASSUME IInv PROVE Linked
    OBVIOUS
  <2>1. ListInv
    BY DEF IInv
  <2>2. Pos(chain, tail) \in 1..Len(chain) /\ chain[Pos(chain, tail)] = tail /\ taken \in Nat /\ Len(chain) \in Nat
    BY <2>1, Places DEF ListInv
  <2>3. Pos(chain, tail) \in (taken + 1)..Len(chain)
    BY <2>1, <2>2 DEF ListInv
  <2> QED BY <2>1, <2>2, <2>3 DEF ListInv, Linked
<1> QED BY <1>1, ListHolds, PTL

----------------------------------------------------------------------------
(* The list is a queue *)

\* What lies in chain c behind its first t + 1 nodes.
Behind(c, t) == [i \in 1..(Len(c) - t - 1) |-> c[t + 1 + i]]

LEMMA ContentsType ==
  ASSUME IInv
  PROVE  /\ Contents = Behind(chain, taken) /\ Behind(chain, taken) \in Seq(Values)
         /\ chain \in Seq(Nodes) /\ taken \in Nat /\ taken < Len(chain)
<1>1. /\ chain \in Seq(Nodes) /\ Len(chain) \in Nat /\ taken \in Nat /\ taken < Len(chain)
  BY Places DEF IInv, ListInv
<1>2. Len(chain) - taken - 1 \in Nat
  BY <1>1
<1>3. ASSUME NEW i \in 1..(Len(chain) - taken - 1)
      PROVE  chain[taken + 1 + i] \in Values
  <2>1. taken + 1 + i \in 1..Len(chain) /\ taken + i \in 1..Len(chain) /\ taken + i # Len(chain)
    BY <1>1
  <2>2. next[chain[taken + i]] = chain[taken + i + 1] /\ chain[taken + i] \in Nodes
    BY <2>1, <1>1 DEF IInv, ListInv
  <2>3. next[chain[taken + i]] \in Values \cup {Nil}
    BY <2>2 DEF IInv, QueueTypeOK
  <2>4. chain[taken + 1 + i] \in Nodes /\ taken + 1 + i = taken + i + 1
    BY <2>1, <1>1
  <2> QED BY <2>2, <2>3, <2>4, LKQueueAssumption DEF Nodes
<1> QED BY <1>1, <1>2, <1>3 DEF Contents, Behind

LEMMA BehindAppend ==
  ASSUME NEW c \in Seq(Nodes), NEW t \in Nat, t < Len(c), NEW v \in Values,
         Behind(c, t) \in Seq(Values)
  PROVE  Behind(Append(c, v), t) = Append(Behind(c, t), v)
<1> DEFINE d == Append(c, v)   b == Behind(c, t)   e == Behind(d, t)
<1>1. Len(c) \in Nat /\ v \in Nodes
  BY DEF Nodes
<1>2. Len(d) = Len(c) + 1 /\ d[Len(c) + 1] = v /\ \A i \in 1..Len(c) : d[i] = c[i]
  BY <1>1, AppendProperties
<1>3. Len(b) = Len(c) - t - 1 /\ \A i \in 1..Len(b) : b[i] = c[t + 1 + i]
  BY <1>1 DEF Behind
<1>4. /\ Append(b, v) \in Seq(Values) /\ Len(Append(b, v)) = Len(b) + 1 /\ Append(b, v)[Len(b) + 1] = v
      /\ \A i \in 1..Len(b) : Append(b, v)[i] = b[i]
  BY AppendProperties
<1>5. e = [i \in 1..(Len(c) - t) |-> d[t + 1 + i]]
  BY <1>1, <1>2 DEF Behind
<1>6. ASSUME NEW i \in 1..(Len(c) - t)
      PROVE  e[i] = Append(b, v)[i] /\ e[i] \in Values
  <2>1. CASE i = Len(c) - t
    <3>1. t + 1 + i = Len(c) + 1 /\ i = Len(b) + 1
      BY <2>1, <1>1, <1>3
    <3> QED BY <3>1, <1>2, <1>4, <1>5
  <2>2. CASE i # Len(c) - t
    <3>1. t + 1 + i \in 1..Len(c) /\ i \in 1..Len(b)
      BY <2>2, <1>1, <1>3
    <3>2. e[i] = b[i]
      BY <3>1, <1>2, <1>3, <1>5
    <3>3. b[i] \in Values
      BY <3>1
    <3> QED BY <3>1, <3>2, <3>3, <1>4
  <2> QED BY <2>1, <2>2
<1>7. e \in Seq(Values) /\ Len(e) = Len(c) - t
  <2>1. Len(c) - t \in Nat
    BY <1>1
  <2>2. e \in [1..(Len(c) - t) -> Values]
    BY <1>5, <1>6
  <2> HIDE DEF e
  <2> QED BY <2>1, <2>2
<1>8. Len(e) = Len(Append(b, v)) /\ \A i \in 1..Len(e) : e[i] = Append(b, v)[i]
  BY <1>1, <1>3, <1>4, <1>6, <1>7
<1> QED BY <1>4, <1>7, <1>8, SeqEqual

LEMMA BehindTail ==
  ASSUME NEW c \in Seq(Nodes), NEW t \in Nat, t + 2 <= Len(c), Behind(c, t) \in Seq(Values)
  PROVE  /\ Behind(c, t) # <<>> /\ Behind(c, t)[1] = c[t + 2]
         /\ Behind(c, t + 1) = Tail(Behind(c, t))
<1> DEFINE b == Behind(c, t)   e == Behind(c, t + 1)
<1>1. Len(c) \in Nat
  OBVIOUS
<1>2. Len(b) = Len(c) - t - 1 /\ \A i \in 1..Len(b) : b[i] = c[t + 1 + i]
  BY <1>1 DEF Behind
<1>3. b # <<>> /\ b[1] = c[t + 2]
  <2>1. 1 \in 1..Len(b) /\ t + 1 + 1 = t + 2
    BY <1>1, <1>2
  <2> QED BY <2>1, <1>2
<1>4. Tail(b) \in Seq(Values) /\ Len(Tail(b)) = Len(b) - 1 /\ \A i \in 1..Len(Tail(b)) : Tail(b)[i] = b[i + 1]
  BY <1>3, HeadTailProperties
<1>5. e = [i \in 1..(Len(c) - t - 2) |-> c[t + 2 + i]]
  <2>1. Len(c) - (t + 1) - 1 = Len(c) - t - 2 /\ \A i \in Int : t + 1 + 1 + i = t + 2 + i
    BY <1>1
  <2> QED BY <2>1 DEF Behind
<1>6. b \in Seq(Values)
  OBVIOUS
<1> HIDE DEF b, e
<1>7. ASSUME NEW i \in 1..(Len(c) - t - 2)
      PROVE  e[i] = Tail(b)[i] /\ e[i] \in Values
  <2>1. i \in 1..Len(Tail(b)) /\ i + 1 \in 1..Len(b) /\ t + 1 + (i + 1) = t + 2 + i
    BY <1>1, <1>2, <1>4
  <2>2. e[i] = b[i + 1] /\ b[i + 1] \in Values
    BY <2>1, <1>2, <1>5, <1>6
  <2> QED BY <2>1, <2>2, <1>4
<1>8. e \in Seq(Values) /\ Len(e) = Len(c) - t - 2
  <2>1. Len(c) - t - 2 \in Nat
    BY <1>1
  <2>2. e \in [1..(Len(c) - t - 2) -> Values]
    BY <1>5, <1>7
  <2> QED BY <2>1, <2>2
<1>9. Len(e) = Len(Tail(b)) /\ \A i \in 1..Len(e) : e[i] = Tail(b)[i]
  BY <1>1, <1>2, <1>4, <1>7, <1>8
<1>10. e = Tail(b)
  BY <1>4, <1>8, <1>9, SeqEqual
<1> QED BY <1>3, <1>10 DEF b, e

\* Only two steps change what is in the queue: a Link that succeeds and a Take
\* that does.
LEMMA ListChange ==
  ASSUME IInv, [Next]_vars
  PROVE  \/ UNCHANGED <<head, chain, taken>>
         \/ \E v \in Values : chain' = Append(chain, v) /\ UNCHANGED <<head, taken>>
         \/ /\ taken + 2 <= Len(chain) /\ head' = chain[taken + 2] /\ taken' = taken + 1 /\ chain' = chain
            /\ \E p \in Procs : answer' = [answer EXCEPT ![p] = head']
<1>1. CASE UNCHANGED vars
  BY <1>1 DEF vars, queueVars, listVars
<1>2. ASSUME NEW p \in Procs, Link(p)
      PROVE  \/ UNCHANGED <<head, chain, taken>>
             \/ \E v \in Values : chain' = Append(chain, v) /\ UNCHANGED <<head, taken>>
  <2>1. pc[p] = "e:link"
    BY <1>2 DEF Link, At
  <2>2. mine[p] \in Values
    BY <2>1, LinkFresh
  <2> QED BY <1>2, <2>2 DEF Link
<1>3. ASSUME NEW p \in Procs, Take(p), head = lh[p]
      PROVE  /\ taken + 2 <= Len(chain) /\ head' = chain[taken + 2] /\ taken' = taken + 1 /\ chain' = chain
             /\ answer' = [answer EXCEPT ![p] = head']
  <2>1. /\ pc[p] = "d:take" /\ head' = ln[p] /\ taken' = taken + 1 /\ answer' = [answer EXCEPT ![p] = ln[p]]
        /\ UNCHANGED <<tail, next, chain>>
    BY <1>3 DEF Take, At
  <2>2. ln[p] = next[head] /\ next[head] # Nil /\ head # tail
    BY <1>3, <2>1, TakeHead
  <2>3. taken + 2 <= Len(chain) /\ head' = chain[taken + 2]
    BY <2>1, <2>2, HeadGoesOn
  <2> QED BY <2>1, <2>3
<1>4. ASSUME NEW p \in Procs, Act(p), ~Link(p), ~(Take(p) /\ head = lh[p])
      PROVE  UNCHANGED <<head, chain, taken>>
  <2>1. CASE QueueStep(p)
    BY <1>4, <2>1 DEF QueueStep, LoadTail, LoadNext, CheckTail, Swing, HelpEnqueue, LoadHead, LoadTailD,
       LoadNextD, CheckHead, HelpDequeue, Take, listVars
  <2>2. CASE ReaderStep(p)
    BY <2>2 DEF ReaderStep, Deliver, OnNext, Release, Keep, Kept, Dequeue, Enqueue, Return, queueVars, listVars
  <2>3. CASE FinisherStep
    BY <2>3 DEF FinisherStep, Finally, DrainNext, Drained, Dequeue, Return, queueVars, listVars
  <2> QED BY <1>4, <2>1, <2>2, <2>3 DEF Act, ReaderStep, FinisherStep
<1>5. CASE \E p \in Procs : Act(p)
  <2>1. PICK p \in Procs : Act(p)
    BY <1>5
  <2> QED BY <2>1, <1>2, <1>3, <1>4
<1> QED BY <1>1, <1>5 DEF Next

LEMMA StepIsFifo ==
  ASSUME IInv, [Next]_vars
  PROVE  [Fifo!Next]_(Fifo!vars) /\ [TakesFirst]_vars
<1>1. /\ Contents = Behind(chain, taken) /\ Behind(chain, taken) \in Seq(Values)
      /\ chain \in Seq(Nodes) /\ taken \in Nat /\ taken < Len(chain)
      /\ answer \in [Procs -> Values \cup {Nil}]
  BY ContentsType DEF IInv, QueueTypeOK
<1>2. Contents' = Behind(chain', taken')
  BY DEF Contents, Behind
<1>3. CASE UNCHANGED <<head, chain, taken>>
  <2>1. UNCHANGED Contents
    BY <1>3 DEF Contents
  <2> QED BY <1>3, <2>1 DEF Fifo!vars, TakesFirst
<1>4. ASSUME NEW v \in Values, chain' = Append(chain, v), UNCHANGED <<head, taken>>
      PROVE  [Fifo!Next]_(Fifo!vars) /\ [TakesFirst]_vars
  <2>1. Contents' = Append(Contents, v)
    BY <1>1, <1>2, <1>4, BehindAppend
  <2>2. Fifo!Accept(v)
    BY <2>1 DEF Fifo!Accept
  <2> QED BY <1>4, <2>2 DEF Fifo!Next, TakesFirst
<1>5. ASSUME taken + 2 <= Len(chain), head' = chain[taken + 2], taken' = taken + 1, chain' = chain,
             NEW p \in Procs, answer' = [answer EXCEPT ![p] = head']
      PROVE  [Fifo!Next]_(Fifo!vars) /\ [TakesFirst]_vars
  <2>1. Contents # <<>> /\ Contents[1] = head' /\ Contents' = Tail(Contents)
    BY <1>1, <1>2, <1>5, BehindTail
  <2>2. Fifo!Deliver
    BY <2>1 DEF Fifo!Deliver
  <2>3. TakesFirst
    BY <1>1, <1>5, <2>1 DEF TakesFirst
  <2> QED BY <2>2, <2>3 DEF Fifo!Next
<1> QED BY <1>3, <1>4, <1>5, ListChange

\* LKQueue implements a FIFO queue, and Dequeue answers with its first value,
\* however many goroutines are between a load and its compare-and-swap.
THEOREM ListIsFifo == Spec => IsFifo
<1>1. Init => Fifo!Init
  <2>1. Init => Contents = <<>>
    BY DEF Init, QueueInit, Contents
  <2> QED BY <2>1 DEF Fifo!Init
<1>2. IInv /\ [Next]_vars => [Fifo!Next]_(Fifo!vars) /\ [TakesFirst]_vars
  BY StepIsFifo
<1> QED BY <1>1, <1>2, ListHolds, PTL DEF Spec, IsFifo, Fifo!Spec

----------------------------------------------------------------------------
(* Who has which payload *)

InDequeue == {"d:head", "d:tail", "d:next", "d:check", "d:take", "d:help"}

\* what a goroutine that sees no next node, or is told that there is nothing,
\* knows: the queue was empty during its call
Told(p) == (pc[p] = "d:check" /\ ln[p] = Nil) \/ (pc[p] = "back" /\ answer[p] = Nil)

CallInv(p) ==
  /\ at[p] \in {"out", "found", "released", "done"} => pc[p] = "idle"
  /\ p \in Readers => at[p] \notin {"draining", "done"}
  /\ p = Finisher => at[p] \in {"out", "draining", "done"} /\ (at[p] # "out" => ~registered)
  /\ at[p] = "keeping" /\ pc[p] = "back" => answer[p] = Nil
  /\ sawEmpty[p] => Dequeuing(p)
  /\ Dequeuing(p) /\ Told(p) => sawEmpty[p]

SawType == sawEmpty \in [Procs -> BOOLEAN]
Calls == SawType /\ \A p \in Procs : CallInv(p)

\* A step of one goroutine leaves the calls of the others as they are.
LEMMA OthersStill ==
  ASSUME IInv, NEW p \in Procs, Act(p), NEW q \in Procs, q # p
  PROVE  Still(q) /\ answer'[q] = answer[q]
<1>1. QueueTypeOK
  BY DEF IInv
<1>2. CASE QueueStep(p) /\ UNCHANGED useVars
  <2>1. answer'[q] = answer[q]
    BY <1>1, <1>2 DEF QueueStep, QueueTypeOK, At, Goto, LoadTail, LoadNext, CheckTail,
       Link, Swing, HelpEnqueue, LoadHead, LoadTailD, LoadNextD, CheckHead, HelpDequeue, Take
  <2> QED BY <1>2, <2>1, QueueStill
<1>3. CASE p \in Readers /\ ReaderStep(p)
  <2>1. answer'[q] = answer[q]
    BY <1>1, <1>3 DEF ReaderStep, Deliver, OnNext, Release, Keep, Kept, Return, Enqueue, Dequeue, queueVars
  <2> QED BY <1>3, <2>1, ReaderStill
<1>4. CASE p = Finisher /\ FinisherStep
  <2>1. answer'[q] = answer[q]
    BY <1>1, <1>4 DEF FinisherStep, Finally, DrainNext, Drained, Return, Dequeue, queueVars
  <2> QED BY <1>4, <2>1, FinisherStill
<1> QED BY <1>2, <1>3, <1>4 DEF Act, ReaderStep, FinisherStep

\* A head without a next node is the last of the chain.
LEMMA EmptyIs ==
  ASSUME IInv
  PROVE  Empty <=> Len(chain) = taken + 1
<1>1. /\ taken < Len(chain) /\ head = chain[taken + 1] /\ chain \in Seq(Nodes)
      /\ \A i \in 1..Len(chain) : next[chain[i]] = IF i = Len(chain) THEN Nil ELSE chain[i + 1]
      /\ taken \in Nat /\ Len(chain) \in Nat
  BY Places DEF IInv, ListInv
<1>2. taken + 1 \in 1..Len(chain)
  BY <1>1
<1>3. CASE taken + 1 = Len(chain)
  BY <1>1, <1>2, <1>3 DEF Empty
<1>4. CASE taken + 1 # Len(chain)
  <2>1. next[head] = chain[taken + 2] /\ taken + 2 \in 1..Len(chain)
    BY <1>1, <1>2, <1>4
  <2>2. chain[taken + 2] \in Nodes
    BY <1>1, <2>1
  <2> QED BY <1>4, <2>1, <2>2, LKQueueAssumption DEF Empty, Nodes
<1> QED BY <1>3, <1>4

\* A dequeuer that finds no next node finds the queue empty.
LEMMA SeesEmpty ==
  ASSUME IInv, NEW p \in Procs, pc[p] = "d:next", next[lh[p]] = Nil
  PROVE  Empty
<1>1. /\ \A i \in 1..Len(chain) : next[chain[i]] = IF i = Len(chain) THEN Nil ELSE chain[i + 1]
      /\ On(chain, lh[p]) /\ Pos(chain, lh[p]) <= taken + 1 /\ taken < Len(chain)
  BY DEF IInv, ListInv, DeqInv, AtHead
<1>2. Pos(chain, lh[p]) \in 1..Len(chain) /\ chain[Pos(chain, lh[p])] = lh[p]
      /\ taken \in Nat /\ Len(chain) \in Nat /\ chain \in Seq(Nodes)
  BY <1>1, Places
<1>3. CASE Pos(chain, lh[p]) = Len(chain)
  <2>1. Len(chain) = taken + 1
    BY <1>1, <1>2, <1>3
  <2> QED BY <2>1, EmptyIs
<1>4. CASE Pos(chain, lh[p]) # Len(chain)
  <2>1. next[lh[p]] = chain[Pos(chain, lh[p]) + 1] /\ Pos(chain, lh[p]) + 1 \in 1..Len(chain)
    BY <1>1, <1>2, <1>4
  <2>2. chain[Pos(chain, lh[p]) + 1] \in Nodes
    BY <1>2, <2>1
  <2> QED BY <2>1, <2>2, LKQueueAssumption DEF Nodes
<1> QED BY <1>3, <1>4

\* The goroutine that moves: what it is told is right.
LEMMA MoverCalls ==
  ASSUME IInv, IInv', Calls, NEW p \in Procs, Act(p),
         sawEmpty' = [q \in Procs |-> Dequeuing(q)' /\ (sawEmpty[q] \/ Empty')]
  PROVE  CallInv(p)'
<1>1. /\ QueueTypeOK /\ UseType /\ UseInv(p) /\ DeqInv(p) /\ CallInv(p) /\ (p \in Readers => p # Finisher)
      /\ sawEmpty[p] \in BOOLEAN
  BY ReleaseQueueAssumption DEF IInv, Calls, SawType
<1>2. sawEmpty'[p] <=> Dequeuing(p)' /\ (sawEmpty[p] \/ Empty')
  OBVIOUS
<1>3. CASE QueueStep(p) /\ UNCHANGED useVars
  <2>1. at'[p] = at[p] /\ registered' = registered
    BY <1>3 DEF useVars
  <2>2. pc[p] \notin {"idle", "back"} /\ pc'[p] # "idle"
    BY <1>1, <1>3 DEF QueueStep, QueueTypeOK, At, Goto, LoadTail, LoadNext, CheckTail,
       Link, Swing, HelpEnqueue, LoadHead, LoadTailD, LoadNextD, CheckHead, HelpDequeue, Take
  <2>3. Dequeuing(p)' <=> Dequeuing(p)
    BY <2>1, <2>2 DEF Dequeuing
  <2>4. at[p] \notin {"out", "found", "released", "done"}
    BY <1>1, <2>2 DEF CallInv
  <2>5. ASSUME Dequeuing(p)', Told(p)' PROVE sawEmpty[p] \/ Empty'
    <3>1. Dequeuing(p) /\ at[p] \in {"releasing", "draining"}
      BY <2>3, <2>5 DEF Dequeuing
    <3>2. pc[p] \notin InEnqueue
      BY <1>1, <3>1 DEF UseInv
    <3>3. CASE LoadNextD(p)
      <4>1. pc[p] = "d:next" /\ pc'[p] = "d:check" /\ ln'[p] = next[lh[p]] /\ UNCHANGED <<next, head>>
        BY <1>1, <3>3 DEF LoadNextD, At, Goto, QueueTypeOK, listVars
      <4>2. next[lh[p]] = Nil
        BY <2>5, <4>1 DEF Told
      <4> QED BY <4>1, <4>2, SeesEmpty DEF Empty
    <3>4. CASE CheckHead(p)
      <4>1. /\ pc[p] = "d:check" /\ ln'[p] = ln[p]
            /\ pc'[p] = IF lh[p] # head THEN "d:head" ELSE IF lh[p] # lt[p] THEN "d:take"
                        ELSE IF ln[p] = Nil THEN "back" ELSE "d:help"
        BY <1>1, <3>4 DEF CheckHead, At, Goto, QueueTypeOK, localVars
      <4>2. ln[p] = Nil
        BY <2>5, <4>1 DEF Told
      <4> QED BY <1>1, <3>1, <4>1, <4>2 DEF CallInv, Told
    <3>5. CASE Take(p)
      <4>1. pc[p] = "d:take" /\ pc'[p] \in {"back", "d:head"} /\ (pc'[p] = "back" => answer'[p] = ln[p])
        BY <1>1, <3>5 DEF Take, At, Goto, QueueTypeOK
      <4>2. ln[p] # Nil
        BY <1>1, <4>1 DEF DeqInv
      <4> QED BY <2>5, <4>1, <4>2 DEF Told
    <3>6. CASE LoadHead(p) \/ LoadTailD(p) \/ HelpDequeue(p)
      <4>1. pc'[p] \in {"d:tail", "d:next", "d:head"}
        BY <1>1, <3>6 DEF LoadHead, LoadTailD, HelpDequeue, At, Goto, QueueTypeOK
      <4> QED BY <2>5, <4>1 DEF Told
    <3>7. CASE LoadTail(p) \/ LoadNext(p) \/ CheckTail(p) \/ Link(p) \/ Swing(p) \/ HelpEnqueue(p)
      BY <3>2, <3>7 DEF LoadTail, LoadNext, CheckTail, Link, Swing, HelpEnqueue, At, InEnqueue
    <3> QED BY <1>3, <3>3, <3>4, <3>5, <3>6, <3>7 DEF QueueStep
  <2>6. at[p] = "keeping" /\ pc'[p] = "back" => answer'[p] = Nil
    <3> SUFFICES ASSUME at[p] = "keeping", pc'[p] = "back" PROVE answer'[p] = Nil
      OBVIOUS
    <3>1. pc[p] \in InEnqueue
      BY <1>1, <2>2 DEF UseInv
    <3>2. Swing(p)
      BY <1>1, <1>3, <3>1 DEF QueueStep, QueueTypeOK, At, Goto, LoadTail, LoadNext, CheckTail, InEnqueue,
         Link, HelpEnqueue, LoadHead, LoadTailD, LoadNextD, CheckHead, HelpDequeue, Take
    <3> QED BY <1>1, <3>2 DEF Swing, QueueTypeOK
  <2> QED BY <1>1, <1>2, <2>1, <2>4, <2>5, <2>6 DEF CallInv
<1>4. CASE p \in Readers /\ ReaderStep(p)
  <2>1. UNCHANGED registered
    BY <1>4 DEF ReaderStep, Deliver, OnNext, Release, Keep, Kept
  <2>2. /\ at'[p] \in {"found", "released", "out"} => pc'[p] = "idle"
        /\ at'[p] \in {"found", "releasing", "released", "keeping", "out"}
        /\ pc'[p] \in {"idle", "d:head", "e:tail"}
    <3>1. CASE Deliver(p)
      BY <1>1, <3>1 DEF Deliver, Do, UseType, CallInv, queueVars
    <3>2. CASE OnNext(p) \/ Release(p) \/ Keep(p) \/ Kept(p)
      BY <1>1, <3>2 DEF OnNext, Release, Keep, Kept, Do, Return, Dequeue, Enqueue, At, Goto, UseType, QueueTypeOK
    <3> QED BY <1>4, <3>1, <3>2 DEF ReaderStep
  <2> QED BY <1>1, <1>2, <1>4, <2>1, <2>2 DEF CallInv, Told
<1>5. CASE p = Finisher /\ FinisherStep
  <2>1. CASE Finally
    <3>1. at'[p] = "draining" /\ pc'[p] = "idle" /\ registered' = FALSE
      BY <1>1, <1>5, <2>1 DEF Finally, Do, UseType, CallInv, queueVars
    <3> QED BY <1>1, <1>2, <1>5, <3>1 DEF CallInv, Told
  <2>2. CASE DrainNext
    <3>1. at[p] = "draining" /\ at'[p] = "draining" /\ pc'[p] = "d:head" /\ registered' = registered
      BY <1>1, <1>5, <2>2 DEF DrainNext, Dequeue, At, Goto, QueueTypeOK, useVars
    <3> QED BY <1>1, <1>2, <1>5, <3>1 DEF CallInv, Told
  <2>3. CASE Drained
    <3>1. at[p] = "draining" /\ at'[p] \in {"draining", "done"} /\ pc'[p] = "idle" /\ registered' = registered
      BY <1>1, <1>5, <2>3 DEF Drained, Do, Return, At, Goto, QueueTypeOK, UseType
    <3> QED BY <1>1, <1>2, <1>5, <3>1 DEF CallInv, Told
  <2> QED BY <1>5, <2>1, <2>2, <2>3 DEF FinisherStep
<1> QED BY <1>3, <1>4, <1>5 DEF Act, ReaderStep, FinisherStep

\* What every goroutine is told is right.
LEMMA CallsStep ==
  ASSUME IInv, IInv', Calls, [Next]_vars
  PROVE  Calls'
<1>1. CASE UNCHANGED vars
  <2>1. UNCHANGED <<pc, ln, answer, at, registered, sawEmpty>>
    BY <1>1 DEF vars, queueVars, localVars, useVars
  <2> QED BY <2>1 DEF Calls, SawType, CallInv, Dequeuing, Told
<1>2. ASSUME NEW p \in Procs, Act(p),
             sawEmpty' = [q \in Procs |-> Dequeuing(q)' /\ (sawEmpty[q] \/ Empty')]
      PROVE  Calls'
  <2>1. SawType'
    BY <1>2 DEF SawType
  <2>2. ~registered => ~registered'
    BY <1>2 DEF Act, useVars, Deliver, OnNext, Release, Keep, Kept, Finally, DrainNext, Drained
  <2>3. ASSUME NEW q \in Procs, q # p PROVE CallInv(q)'
    <3>1. at'[q] = at[q] /\ pc'[q] = pc[q] /\ ln'[q] = ln[q] /\ answer'[q] = answer[q]
      BY <1>2, <2>3, OthersStill DEF Still
    <3>2. sawEmpty'[q] <=> Dequeuing(q)' /\ (sawEmpty[q] \/ Empty')
      BY <1>2
    <3>3. (Dequeuing(q)' <=> Dequeuing(q)) /\ (Told(q)' <=> Told(q))
      BY <3>1 DEF Dequeuing, Told
    <3>4. CallInv(q)
      BY DEF Calls
    <3> QED BY <2>2, <3>1, <3>2, <3>3, <3>4 DEF CallInv
  <2> QED BY <1>2, <2>1, <2>3, MoverCalls DEF Calls
<1> QED BY <1>1, <1>2 DEF Next

----------------------------------------------------------------------------
(* A payload is taken by one goroutine and released once *)

\* Dequeue has given v to somebody
WasTaken(v) == \E i \in 2..(taken + 1) : chain[i] = v

\* what was taken is released, or one goroutine holds it and will release it
OwnInv ==
  /\ \A p \in Procs : \A v \in Held(p) : WasTaken(v) /\ v \notin released
  /\ \A p, q \in Procs : p # q => Held(p) \cap Held(q) = {}
  /\ \A v \in released : WasTaken(v)
  /\ \A v \in Values : WasTaken(v) => v \in released \/ \E p \in Procs : v \in Held(p)

\* What a step does with the payloads that were taken: it takes the next one, it
\* releases what it was given, or it does neither.
LEMMA Hands ==
  ASSUME IInv, Calls, NEW p \in Procs, Act(p)
  PROVE  \/ /\ taken + 2 <= Len(chain) /\ taken' = taken + 1 /\ chain' = chain
            /\ Held(p) = {} /\ Held(p)' = {chain[taken + 2]} /\ released' = released
         \/ /\ UNCHANGED <<chain, taken>>
            /\ Held(p)' = {} /\ released' = released \cup Held(p)
         \/ /\ Held(p)' = Held(p) /\ released' = released /\ taken' = taken
            /\ chain' = chain \/ \E v \in Nodes : chain' = Append(chain, v)
<1>1. QueueTypeOK /\ UseType /\ UseInv(p) /\ CallInv(p)
  BY DEF IInv, Calls
<1>2. CASE QueueStep(p) /\ UNCHANGED useVars
  <2>1. pc[p] # "back" /\ released' = released
    BY <1>1, <1>2 DEF QueueStep, At, LoadTail, LoadNext, CheckTail, useVars,
       Link, Swing, HelpEnqueue, LoadHead, LoadTailD, LoadNextD, CheckHead, HelpDequeue, Take
  <2>2. Held(p) = {}
    BY <2>1 DEF Held
  <2>3. CASE Take(p) /\ head = lh[p]
    <3>1. /\ pc[p] = "d:take" /\ pc'[p] = "back" /\ head' = ln[p] /\ taken' = taken + 1
          /\ answer'[p] = ln[p] /\ UNCHANGED <<tail, next, chain>>
      BY <1>1, <2>3 DEF Take, At, Goto, QueueTypeOK
    <3>2. ln[p] = next[head] /\ next[head] # Nil /\ head # tail
      BY <2>3, <3>1, TakeHead
    <3>3. taken + 2 <= Len(chain) /\ head' = chain[taken + 2]
      BY <3>1, <3>2, HeadGoesOn
    <3>4. Held(p)' = {chain[taken + 2]}
      BY <3>1, <3>2, <3>3 DEF Held
    <3> QED BY <2>1, <2>2, <3>1, <3>3, <3>4
  <2>4. CASE Link(p)
    <3>1. pc[p] = "e:link" /\ pc'[p] # "back" /\ taken' = taken
      BY <1>1, <2>4 DEF Link, At, Goto, QueueTypeOK
    <3>2. mine[p] \in Nodes
      BY <3>1, LinkFresh DEF Nodes
    <3>3. chain' = chain \/ chain' = Append(chain, mine[p])
      BY <2>4 DEF Link
    <3>4. Held(p)' = {}
      BY <3>1 DEF Held
    <3> QED BY <2>1, <2>2, <3>1, <3>2, <3>3, <3>4
  <2>5. CASE ~Link(p) /\ ~(Take(p) /\ head = lh[p])
    <3>1. UNCHANGED <<chain, taken>>
      BY <1>2, <2>5 DEF QueueStep, LoadTail, LoadNext, CheckTail, Swing, HelpEnqueue, LoadHead, LoadTailD,
         LoadNextD, CheckHead, HelpDequeue, Take, listVars
    <3>2. pc'[p] # "back" \/ answer'[p] = Nil
      <4>1. CASE Swing(p) \/ CheckHead(p)
        BY <1>1, <4>1 DEF Swing, CheckHead, QueueTypeOK
      <4>2. CASE Take(p) /\ head # lh[p]
        BY <1>1, <4>2 DEF Take, At, Goto, QueueTypeOK
      <4>3. CASE \/ LoadTail(p) \/ LoadNext(p) \/ CheckTail(p) \/ HelpEnqueue(p)
                 \/ LoadHead(p) \/ LoadTailD(p) \/ LoadNextD(p) \/ HelpDequeue(p)
        BY <1>1, <4>3 DEF LoadTail, LoadNext, CheckTail, HelpEnqueue, LoadHead, LoadTailD, LoadNextD,
           HelpDequeue, At, Goto, QueueTypeOK
      <4> QED BY <1>2, <2>5, <4>1, <4>2, <4>3 DEF QueueStep
    <3>3. Held(p)' = {}
      BY <3>2 DEF Held
    <3> QED BY <2>1, <2>2, <3>1, <3>3
  <2> QED BY <2>3, <2>4, <2>5
<1>3. CASE p \in Readers /\ ReaderStep(p)
  <2>1. UNCHANGED <<chain, taken>>
    BY <1>3 DEF ReaderStep, Deliver, OnNext, Release, Keep, Kept, Dequeue, Enqueue, Return, queueVars, listVars
  <2>2. CASE Deliver(p)
    <3>1. UNCHANGED <<pc, answer, released>>
      BY <2>2 DEF Deliver, queueVars
    <3> QED BY <2>1, <3>1 DEF Held
  <2>3. CASE OnNext(p) \/ Keep(p)
    <3>1. pc[p] = "idle" /\ pc'[p] # "back" /\ released' = released
      BY <1>1, <2>3 DEF OnNext, Keep, Dequeue, Enqueue, At, Goto, QueueTypeOK
    <3> QED BY <2>1, <3>1 DEF Held
  <2>4. CASE Release(p)
    <3>1. pc[p] = "back" /\ pc'[p] = "idle" /\ ReleaseAnswer(p)
      BY <1>1, <2>4 DEF Release, Return, At, Goto, QueueTypeOK
    <3>2. Held(p)' = {} /\ released' = released \cup Held(p)
      BY <3>1 DEF Held, ReleaseAnswer
    <3> QED BY <2>1, <3>2
  <2>5. CASE Kept(p)
    <3>1. at[p] = "keeping" /\ pc[p] = "back" /\ pc'[p] = "idle" /\ released' = released
      BY <1>1, <2>5 DEF Kept, Do, Return, At, Goto, QueueTypeOK
    <3>2. answer[p] = Nil
      BY <1>1, <3>1 DEF CallInv
    <3>3. Held(p) = {} /\ Held(p)' = {}
      BY <3>1, <3>2 DEF Held
    <3> QED BY <2>1, <3>1, <3>3
  <2> QED BY <1>3, <2>2, <2>3, <2>4, <2>5 DEF ReaderStep
<1>4. CASE p = Finisher /\ FinisherStep
  <2>1. UNCHANGED <<chain, taken>>
    BY <1>4 DEF FinisherStep, Finally, DrainNext, Drained, Dequeue, Return, queueVars, listVars
  <2>2. CASE Finally
    <3>1. UNCHANGED <<pc, answer, released>>
      BY <2>2 DEF Finally, queueVars
    <3> QED BY <2>1, <3>1 DEF Held
  <2>3. CASE DrainNext
    <3>1. pc[p] = "idle" /\ pc'[p] # "back" /\ released' = released
      BY <1>1, <1>4, <2>3 DEF DrainNext, Dequeue, At, Goto, QueueTypeOK, useVars
    <3> QED BY <2>1, <3>1 DEF Held
  <2>4. CASE Drained
    <3>1. pc[p] = "back" /\ pc'[p] = "idle" /\ ReleaseAnswer(p)
      BY <1>1, <1>4, <2>4 DEF Drained, Return, At, Goto, QueueTypeOK
    <3>2. Held(p)' = {} /\ released' = released \cup Held(p)
      BY <3>1 DEF Held, ReleaseAnswer
    <3> QED BY <2>1, <3>2
  <2> QED BY <1>4, <2>2, <2>3, <2>4 DEF FinisherStep
<1> QED BY <1>2, <1>3, <1>4 DEF Act, ReaderStep, FinisherStep

\* No step takes a payload twice or releases what another holds.
LEMMA OwnStep ==
  ASSUME IInv, Calls, OwnInv, [Next]_vars
  PROVE  OwnInv'
<1>1. /\ chain \in Seq(Nodes) /\ Len(chain) \in Nat /\ taken \in Nat /\ taken < Len(chain) /\ Distinct(chain)
  BY Places DEF IInv, ListInv
<1>2. CASE UNCHANGED vars
  <2>1. UNCHANGED <<chain, taken, pc, answer, released>>
    BY <1>2 DEF vars, queueVars, listVars, useVars
  <2> QED BY <2>1 DEF OwnInv, WasTaken, Held
<1>3. ASSUME NEW p \in Procs, Act(p) PROVE OwnInv'
  <2>1. \A q \in Procs : q # p => Held(q)' = Held(q)
    <3> SUFFICES ASSUME NEW q \in Procs, q # p PROVE Held(q)' = Held(q)
      OBVIOUS
    <3>1. pc'[q] = pc[q] /\ answer'[q] = answer[q]
      BY <1>3, OthersStill DEF Still
    <3> QED BY <3>1 DEF Held
  <2>2. CASE /\ taken + 2 <= Len(chain) /\ taken' = taken + 1 /\ chain' = chain
             /\ Held(p) = {} /\ Held(p)' = {chain[taken + 2]} /\ released' = released
    <3> DEFINE w == chain[taken + 2]
    <3>1. \A v : WasTaken(v)' <=> WasTaken(v) \/ v = w
      <4> SUFFICES ASSUME NEW v PROVE WasTaken(v)' <=> WasTaken(v) \/ v = w
        OBVIOUS
      <4>1. 2..(taken' + 1) = 2..(taken + 1) \cup {taken + 2}
        BY <1>1, <2>2
      <4> QED BY <2>2, <4>1 DEF WasTaken
    <3>2. ~WasTaken(w)
      <4>1. \A i \in 2..(taken + 1) : i \in 1..Len(chain) /\ taken + 2 \in 1..Len(chain) /\ i # taken + 2
        BY <1>1, <2>2
      <4> QED BY <1>1, <4>1 DEF WasTaken, Distinct
    <3>3. w \notin released /\ \A q \in Procs : w \notin Held(q)
      BY <3>2 DEF OwnInv
    <3> HIDE DEF w
    <3>4. Held(p)' = {w} /\ released' = released
      BY <2>2 DEF w
    <3>5. \A q \in Procs : \A v \in Held(q)' : WasTaken(v)' /\ v \notin released'
      BY <2>1, <3>1, <3>3, <3>4 DEF OwnInv
    <3>6. \A q, s \in Procs : q # s => Held(q)' \cap Held(s)' = {}
      <4> SUFFICES ASSUME NEW q \in Procs, NEW s \in Procs, q # s PROVE Held(q)' \cap Held(s)' = {}
        OBVIOUS
      <4>1. CASE q = p
        BY <4>1, <2>1, <3>3, <3>4
      <4>2. CASE s = p
        BY <4>2, <2>1, <3>3, <3>4
      <4>3. CASE q # p /\ s # p
        BY <4>3, <2>1 DEF OwnInv
      <4> QED BY <4>1, <4>2, <4>3
    <3>7. \A v \in released' : WasTaken(v)'
      BY <3>1, <3>4 DEF OwnInv
    <3>8. \A v \in Values : WasTaken(v)' => v \in released' \/ \E q \in Procs : v \in Held(q)'
      <4> SUFFICES ASSUME NEW v \in Values, WasTaken(v)' PROVE v \in released' \/ \E q \in Procs : v \in Held(q)'
        OBVIOUS
      <4>1. CASE v = w
        BY <4>1, <3>4
      <4>2. CASE WasTaken(v)
        <5>1. CASE v \in released
          BY <5>1, <3>4
        <5>2. CASE v \notin released
          <6>1. PICK q \in Procs : v \in Held(q)
            BY <4>2, <5>2 DEF OwnInv
          <6>2. q # p
            BY <6>1, <2>2
          <6> QED BY <6>1, <6>2, <2>1
        <5> QED BY <5>1, <5>2
      <4> QED BY <4>1, <4>2, <3>1
    <3> QED BY <3>5, <3>6, <3>7, <3>8 DEF OwnInv
  <2>3. CASE /\ UNCHANGED <<chain, taken>>
             /\ Held(p)' = {} /\ released' = released \cup Held(p)
    <3>1. \A v : WasTaken(v)' <=> WasTaken(v)
      BY <2>3 DEF WasTaken
    <3>2. \A q \in Procs : \A v \in Held(q)' : WasTaken(v)' /\ v \notin released'
      <4> SUFFICES ASSUME NEW q \in Procs, NEW v \in Held(q)' PROVE WasTaken(v)' /\ v \notin released'
        OBVIOUS
      <4>1. q # p /\ v \in Held(q)
        BY <2>1, <2>3
      <4> QED BY <4>1, <2>3, <3>1 DEF OwnInv
    <3>3. \A q, s \in Procs : q # s => Held(q)' \cap Held(s)' = {}
      <4> SUFFICES ASSUME NEW q \in Procs, NEW s \in Procs, q # s PROVE Held(q)' \cap Held(s)' = {}
        OBVIOUS
      <4>1. CASE q = p \/ s = p
        BY <4>1, <2>3
      <4>2. CASE q # p /\ s # p
        BY <4>2, <2>1 DEF OwnInv
      <4> QED BY <4>1, <4>2
    <3>4. \A v \in released' : WasTaken(v)'
      BY <2>3, <3>1 DEF OwnInv
    <3>5. \A v \in Values : WasTaken(v)' => v \in released' \/ \E q \in Procs : v \in Held(q)'
      <4> SUFFICES ASSUME NEW v \in Values, WasTaken(v)', v \notin released' PROVE \E q \in Procs : v \in Held(q)'
        OBVIOUS
      <4>1. PICK q \in Procs : v \in Held(q)
        BY <2>3, <3>1 DEF OwnInv
      <4>2. q # p
        BY <4>1, <2>3
      <4> QED BY <4>1, <4>2, <2>1
    <3> QED BY <3>2, <3>3, <3>4, <3>5 DEF OwnInv
  <2>4. CASE /\ Held(p)' = Held(p) /\ released' = released /\ taken' = taken
             /\ chain' = chain \/ \E v \in Nodes : chain' = Append(chain, v)
    <3>1. \A q \in Procs : Held(q)' = Held(q)
      BY <2>1, <2>4
    <3>2. \A i \in 1..Len(chain) : chain'[i] = chain[i]
      BY <1>1, <2>4
    <3>3. 2..(taken + 1) \subseteq 1..Len(chain)
      BY <1>1
    <3>4. \A v : WasTaken(v)' <=> WasTaken(v)
      BY <2>4, <3>2, <3>3 DEF WasTaken
    <3> QED BY <2>4, <3>1, <3>4 DEF OwnInv
  <2> QED BY <1>3, <2>2, <2>3, <2>4, Hands
<1> QED BY <1>2, <1>3 DEF Next

----------------------------------------------------------------------------
(* What readers have delivered is in the list, and nothing else comes late *)


\* the payloads that r has delivered, and where they are
Sent(r) == Len(Payloads[r]) - Len(rest[r])

KeptInv(r) ==
  /\ Len(rest[r]) <= Len(Payloads[r])
  /\ \A i \in 1..Len(rest[r]) : rest[r][i] = Payloads[r][Sent(r) + i]
  /\ \A i \in 1..Sent(r) : On(chain, Payloads[r][i])
  /\ Put(r) => On(chain, rest[r][1])

\* the drain of DoFinally is over, or Dequeue will tell it so
Over == at[Finisher] = "done" \/ (at[Finisher] = "draining" /\ sawEmpty[Finisher])
\* a reader whose latest payload is in the list and that has not begun another
Arrived(r) == Put(r) \/ (at[r] = "out" /\ Sent(r) > 0)
Latest(r) == Payloads[r][IF Put(r) THEN Sent(r) + 1 ELSE Sent(r)]

\* what is in the queue then is the latest payload of one of these readers
LateInv ==
  Over => \A i \in 1..Len(chain) :
            taken < i - 1 => \E r \in Readers : Arrived(r) /\ chain[i] = Latest(r)

\* The first payloads of a reader are linked, one at a time.
LEMMA Arrivals ==
  ASSUME IInv, [Next]_vars, NEW r \in Readers
  PROVE  \/ rest'[r] = rest[r] /\ Put(r)' = Put(r)
         \/ /\ rest'[r] = rest[r] /\ ~Put(r) /\ Put(r)' /\ at[r] = "keeping"
            /\ rest[r] # <<>> /\ chain' = Append(chain, rest[r][1])
         \/ /\ Put(r) /\ ~Put(r)' /\ rest[r] # <<>> /\ rest'[r] = Tail(rest[r]) /\ UNCHANGED chain
            /\ at'[r] = "out"
<1>1. QueueTypeOK /\ UseType /\ UseInv(r) /\ r \in Procs
  BY ReleaseQueueAssumption DEF IInv
<1>2. CASE UNCHANGED vars
  BY <1>2 DEF vars, queueVars, useVars, Put
<1>3. ASSUME NEW p \in Procs, Act(p), p # r
      PROVE  rest'[r] = rest[r] /\ Put(r)' = Put(r)
  <2>1. Still(r)
    BY <1>1, <1>3, OthersStill
  <2> QED BY <2>1 DEF Still, Put
<1>4. CASE QueueStep(r) /\ UNCHANGED useVars
  <2>1. at'[r] = at[r] /\ rest'[r] = rest[r]
    BY <1>4 DEF useVars
  <2>2. CASE Link(r)
    <3>1. pc[r] = "e:link" /\ pc'[r] = IF next[lt[r]] = Nil THEN "e:swing" ELSE "e:tail"
      BY <1>1, <2>2 DEF Link, At, Goto, QueueTypeOK
    <3>2. at[r] = "keeping" /\ mine[r] = rest[r][1] /\ rest[r] # <<>>
      BY <1>1, <3>1, LinkFresh
    <3>3. next[lt[r]] = Nil => chain' = Append(chain, mine[r])
      BY <2>2 DEF Link
    <3> QED BY <2>1, <3>1, <3>2, <3>3 DEF Put
  <2>3. CASE ~Link(r)
    <3>1. at[r] = "keeping" => (pc[r] \in {"e:swing", "back"} <=> pc'[r] \in {"e:swing", "back"})
      BY <1>1, <1>4, <2>3 DEF QueueStep, QueueTypeOK, At, Goto, LoadTail, LoadNext, CheckTail, Swing,
       HelpEnqueue, LoadHead, LoadTailD, LoadNextD, CheckHead, HelpDequeue, Take, UseInv, InEnqueue
    <3> QED BY <2>1, <3>1 DEF Put
  <2> QED BY <2>2, <2>3
<1>5. CASE ReaderStep(r)
  <2>1. CASE Kept(r)
    <3>1. /\ at[r] = "keeping" /\ at'[r] = "out" /\ pc[r] = "back" /\ UNCHANGED chain
          /\ rest'[r] = Tail(rest[r])
      BY <1>1, <2>1 DEF Kept, Do, Return, At, Goto, QueueTypeOK, UseType, listVars
    <3>2. rest[r] # <<>>
      BY <1>1, <3>1 DEF UseInv
    <3> QED BY <3>1, <3>2 DEF Put
  <2>2. CASE ~Kept(r)
    <3>1. at[r] # "keeping" /\ rest'[r] = rest[r] /\ pc'[r] \notin {"e:swing"}
      BY <1>1, <1>5, <2>2 DEF ReaderStep, Deliver, OnNext, Release, Keep, Do, Return, Dequeue, Enqueue,
         At, Goto, QueueTypeOK, UseType, UseInv, InEnqueue, queueVars
    <3>2. at'[r] = "keeping" => pc'[r] = "e:tail"
      BY <1>1, <1>5, <2>2 DEF ReaderStep, Deliver, OnNext, Release, Keep, Do, Return, Dequeue, Enqueue,
         At, Goto, QueueTypeOK, UseType, queueVars
    <3> QED BY <3>1, <3>2 DEF Put
  <2> QED BY <2>1, <2>2
<1>6. ASSUME NEW p \in Procs, Act(p), p = r
      PROVE  (QueueStep(r) /\ UNCHANGED useVars) \/ ReaderStep(r)
  BY <1>6, ReleaseQueueAssumption DEF Act, ReaderStep
<1>7. CASE \E p \in Procs : Act(p)
  <2>1. PICK p \in Procs : Act(p)
    BY <1>7
  <2> QED BY <2>1, <1>3, <1>4, <1>5, <1>6
<1> QED BY <1>2, <1>7 DEF Next

\* The list only grows at its end.
LEMMA OnStays ==
  ASSUME IInv, [Next]_vars
  PROVE  \A n : On(chain, n) => On(chain', n)
<1>1. chain \in Seq(Nodes) /\ Len(chain) \in Nat
  BY Places
<1>2. chain' = chain \/ \E v \in Values : chain' = Append(chain, v)
  BY ListChange
<1>3. Len(chain') >= Len(chain) /\ \A i \in 1..Len(chain) : i \in 1..Len(chain') /\ chain'[i] = chain[i]
  BY <1>1, <1>2
<1> QED BY <1>3 DEF On

\* What a reader has delivered stays in the list.
LEMMA KeptStep ==
  ASSUME IInv, [Next]_vars, NEW r \in Readers, KeptInv(r)
  PROVE  KeptInv(r)'
<1>1. rest[r] \in Seq(Values) /\ Payloads[r] \in Seq(Values) /\ Len(rest[r]) \in Nat /\ Len(Payloads[r]) \in Nat
  BY ReleaseQueueAssumption DEF IInv, UseType
<1>2. CASE rest'[r] = rest[r] /\ Put(r)' = Put(r)
  BY <1>2, OnStays DEF KeptInv, Sent
<1>3. CASE /\ rest'[r] = rest[r] /\ ~Put(r) /\ Put(r)' /\ rest[r] # <<>>
           /\ chain' = Append(chain, rest[r][1])
  <2>1. On(chain', rest[r][1])
    <3>1. chain \in Seq(Nodes) /\ Len(chain) \in Nat
      BY Places
    <3>2. Len(chain) + 1 \in 1..Len(chain') /\ chain'[Len(chain) + 1] = rest[r][1]
      BY <1>3, <3>1
    <3> QED BY <3>2 DEF On
  <2> QED BY <1>3, <2>1, OnStays DEF KeptInv, Sent
<1>4. CASE Put(r) /\ ~Put(r)' /\ rest[r] # <<>> /\ rest'[r] = Tail(rest[r]) /\ UNCHANGED chain
  <2>1. /\ Len(rest'[r]) = Len(rest[r]) - 1 /\ Len(rest'[r]) \in Nat
        /\ \A i \in 1..Len(rest'[r]) : i + 1 \in 1..Len(rest[r]) /\ rest'[r][i] = rest[r][i + 1]
    BY <1>1, <1>4
  <2>2. Sent(r)' = Sent(r) + 1 /\ Sent(r) \in Int
    BY <1>1, <2>1 DEF Sent
  <2>3. rest[r][1] = Payloads[r][Sent(r) + 1] /\ On(chain, rest[r][1])
    <3>1. 1 \in 1..Len(rest[r])
      BY <1>1, <1>4
    <3> QED BY <1>4, <3>1 DEF KeptInv
  <2>4. \A i \in 1..(Sent(r) + 1) : On(chain, Payloads[r][i])
    <3>1. \A i \in 1..(Sent(r) + 1) : i \in 1..Sent(r) \/ i = Sent(r) + 1
      BY <2>2
    <3> QED BY <2>3, <3>1 DEF KeptInv
  <2>5. \A i \in 1..Len(rest'[r]) : rest'[r][i] = Payloads[r][Sent(r) + 1 + i]
    <3> SUFFICES ASSUME NEW i \in 1..Len(rest'[r]) PROVE rest'[r][i] = Payloads[r][Sent(r) + 1 + i]
      OBVIOUS
    <3>1. rest[r][i + 1] = Payloads[r][Sent(r) + (i + 1)]
      BY <2>1 DEF KeptInv
    <3>2. Sent(r) + (i + 1) = Sent(r) + 1 + i
      BY <2>2
    <3> QED BY <2>1, <3>1, <3>2
  <2>6. Len(rest'[r]) <= Len(Payloads[r])
    BY <1>1, <2>1 DEF KeptInv
  <2> QED BY <1>4, <2>2, <2>4, <2>5, <2>6 DEF KeptInv
<1> QED BY <1>2, <1>3, <1>4, Arrivals

\* When the drain is over it has been over before, or the queue is empty now.
LEMMA OverWhen ==
  ASSUME IInv, IInv', Calls, Calls', [Next]_vars, Over'
  PROVE  Over \/ Empty'
<1>1. CASE UNCHANGED vars
  <2>1. UNCHANGED <<at, sawEmpty>>
    BY <1>1 DEF vars, useVars
  <2> QED BY <2>1 DEF Over
<1>2. ASSUME NEW p \in Procs, Act(p),
             sawEmpty' = [q \in Procs |-> Dequeuing(q)' /\ (sawEmpty[q] \/ Empty')]
      PROVE  Over \/ Empty'
  <2>1. /\ Finisher \in Procs /\ Finisher \notin Readers /\ CallInv(Finisher) /\ UseType /\ QueueTypeOK
    BY ReleaseQueueAssumption DEF Calls, IInv
  <2>2. sawEmpty'[Finisher] => sawEmpty[Finisher] \/ Empty'
    BY <1>2, <2>1
  <2>3. sawEmpty[Finisher] => Over
    BY <2>1 DEF CallInv, Dequeuing, Over
  <2>4. CASE at'[Finisher] = "done" /\ at[Finisher] # "done"
    <3>1. p = Finisher
      BY <1>2, <2>1, <2>4, OthersStill DEF Still
    <3>2. Drained
      BY <1>2, <2>1, <2>4, <3>1 DEF Act, useVars, Finally, DrainNext, Do, UseType
    <3>3. at[Finisher] = "draining" /\ pc[Finisher] = "back" /\ answer[Finisher] = Nil
      BY <2>1, <2>4, <3>2 DEF Drained, Do, Return, At, UseType
    <3> QED BY <2>1, <2>3, <3>3 DEF CallInv, Told, Dequeuing
  <2> QED BY <2>2, <2>3, <2>4 DEF Over
<1> QED BY <1>1, <1>2 DEF Next

\* When the drain is over no reader begins to deliver: what it keeps afterwards
\* it was delivering before, and that is one payload.
LEMMA NoneBegins ==
  ASSUME IInv, Calls, [Next]_vars, Over, NEW r \in Readers, Arrived(r), KeptInv(r)
  PROVE  Arrived(r)' /\ Latest(r)' = Latest(r)
<1>1. /\ r \in Procs /\ Finisher \in Procs /\ Finisher \notin Readers /\ UseType /\ QueueTypeOK
      /\ CallInv(Finisher) /\ rest[r] \in Seq(Values) /\ Len(rest[r]) \in Nat
      /\ Payloads[r] \in Seq(Values) /\ Len(Payloads[r]) \in Nat
  BY ReleaseQueueAssumption DEF IInv, UseType, Calls
<1>2. ~registered
  BY <1>1 DEF Over, CallInv
<1>3. CASE rest'[r] = rest[r] /\ Put(r)' = Put(r)
  <2>1. CASE Put(r)
    BY <1>3, <2>1 DEF Arrived, Latest, Sent
  <2>2. CASE ~Put(r)
    <3>1. at[r] = "out" /\ Sent(r) > 0
      BY <2>2 DEF Arrived
    <3>2. at'[r] = "out"
      <4>1. CASE UNCHANGED vars
        BY <3>1, <4>1 DEF vars, useVars
      <4>2. ASSUME NEW p \in Procs, Act(p), p # r PROVE at'[r] = at[r]
        BY <1>1, <4>2, OthersStill DEF Still
      <4>3. CASE Act(r)
        <5>1. UNCHANGED at
          BY <1>1, <1>2, <3>1, <4>3 DEF Act, useVars, Deliver, OnNext, Release, Keep, Kept, Do
        <5> QED BY <3>1, <5>1
      <4> QED BY <3>1, <4>1, <4>2, <4>3 DEF Next
    <3>3. Sent(r)' = Sent(r)
      BY <1>3 DEF Sent
    <3> QED BY <1>3, <2>2, <3>1, <3>2, <3>3 DEF Arrived, Latest
  <2> QED BY <2>1, <2>2
<1>4. CASE ~Put(r) /\ at[r] = "keeping"
  BY <1>4 DEF Arrived
<1>5. CASE Put(r) /\ ~Put(r)' /\ rest[r] # <<>> /\ rest'[r] = Tail(rest[r]) /\ at'[r] = "out"
  <2>1. Len(rest'[r]) = Len(rest[r]) - 1
    BY <1>1, <1>5
  <2>2. Sent(r)' = Sent(r) + 1 /\ Sent(r) \in Nat
    BY <1>1, <2>1 DEF Sent, KeptInv
  <2>3. Sent(r)' > 0
    BY <2>2
  <2> QED BY <1>5, <2>2, <2>3 DEF Arrived, Latest
<1> QED BY <1>3, <1>4, <1>5, Arrivals

\* A value that is linked is the first payload of a reader.
LEMMA Linking ==
  ASSUME IInv, [Next]_vars, NEW v, chain' = Append(chain, v), \A s \in Readers : KeptInv(s)
  PROVE  \E r \in Readers : Arrived(r)' /\ v = Latest(r)'
<1>1. chain \in Seq(Nodes) /\ Len(chain) \in Nat
  BY Places
<1>2. chain' # chain /\ chain'[Len(chain) + 1] = v
  <2>1. Len(chain') = Len(chain) + 1
    BY <1>1
  <2> QED BY <1>1, <2>1
<1>3. PICK p \in Procs : Act(p)
  <2>1. ~UNCHANGED vars
    BY <1>2 DEF vars, queueVars, listVars
  <2> QED BY <2>1 DEF Next
<1>4. Link(p)
  BY <1>2, <1>3 DEF Act, QueueStep, LoadTail, LoadNext, CheckTail, Swing, HelpEnqueue, LoadHead, LoadTailD,
     LoadNextD, CheckHead, HelpDequeue, Take, Deliver, OnNext, Release, Keep, Kept, Finally, DrainNext, Drained,
     Dequeue, Enqueue, Return, queueVars, listVars
<1>5. pc[p] = "e:link"
  BY <1>4 DEF Link, At
<1>6. p \in Readers /\ at[p] = "keeping" /\ rest[p] # <<>> /\ mine[p] = rest[p][1] /\ 1 \in 1..Len(rest[p])
  BY <1>5, LinkFresh
<1>7. v = mine[p]
  <2>1. chain' = Append(chain, mine[p])
    BY <1>2, <1>4 DEF Link
  <2>2. chain'[Len(chain) + 1] = mine[p]
    BY <1>1, <2>1
  <2> QED BY <1>2, <2>2
<1>8. rest'[p] = rest[p] /\ Put(p)'
  <2>1. ~Put(p)
    BY <1>5 DEF Put
  <2>2. pc'[p] = "e:swing"
    BY <1>2, <1>4 DEF Link, At, Goto, IInv, QueueTypeOK
  <2>3. at'[p] = at[p] /\ rest'[p] = rest[p]
    <3>1. CASE UNCHANGED useVars
      BY <3>1 DEF useVars
    <3>2. CASE ReaderStep(p)
      BY <1>2, <3>2 DEF ReaderStep, Deliver, OnNext, Release, Keep, Kept, Dequeue, Enqueue, Return, queueVars, listVars
    <3>3. CASE FinisherStep
      BY <1>2, <3>3 DEF FinisherStep, Finally, DrainNext, Drained, Dequeue, Return, queueVars, listVars
    <3> QED BY <1>3, <3>1, <3>2, <3>3 DEF Act, ReaderStep, FinisherStep
  <2> QED BY <1>6, <2>2, <2>3 DEF Put
<1>9. v = Payloads[p][Sent(p) + 1]
  BY <1>6, <1>7 DEF KeptInv
<1> QED BY <1>6, <1>8, <1>9 DEF Arrived, Latest, Sent

\* The same of the next state.
LEMMA EmptyIsOne == IInv => (Empty <=> taken = Len(chain) - 1)
<1> SUFFICES ASSUME IInv PROVE Empty <=> taken = Len(chain) - 1
  OBVIOUS
<1>1. taken \in Nat /\ Len(chain) \in Nat
  BY Places
<1> QED BY <1>1, EmptyIs

LEMMA EmptyIsNext == (IInv => (Empty <=> taken = Len(chain) - 1))'
BY EmptyIsOne, PTL

\* Nothing else comes late.
LEMMA LateStep ==
  ASSUME IInv, IInv', Calls, Calls', LateInv, \A r \in Readers : KeptInv(r), [Next]_vars
  PROVE  LateInv'
<1>0. SUFFICES ASSUME Over', NEW k \in 1..Len(chain'), taken' < k - 1
             PROVE  \E r \in Readers : Arrived(r)' /\ chain'[k] = Latest(r)'
  BY DEF LateInv
<1>1. /\ chain \in Seq(Nodes) /\ Len(chain) \in Nat /\ taken \in Nat /\ taken < Len(chain)
      /\ taken' \in Nat /\ Len(chain') \in Nat
  BY Places DEF IInv, ListInv, QueueTypeOK
<1>2. ~Empty'
  <2>1. Empty' => taken' = Len(chain') - 1
    BY EmptyIsNext
  <2> QED BY <1>0, <1>1, <2>1
<1>3. Over
  BY <1>0, <1>2, OverWhen
<1>4. ASSUME k \in 1..Len(chain), chain'[k] = chain[k], taken' >= taken
      PROVE  \E r \in Readers : Arrived(r)' /\ chain'[k] = Latest(r)'
  <2>1. taken < k - 1
    BY <1>0, <1>1, <1>4
  <2>2. PICK r \in Readers : Arrived(r) /\ chain[k] = Latest(r)
    BY <1>3, <1>4, <2>1 DEF LateInv
  <2> QED BY <1>3, <1>4, <2>2, NoneBegins
<1>5. CASE UNCHANGED <<chain, taken>>
  <2>1. k \in 1..Len(chain) /\ chain'[k] = chain[k] /\ taken' >= taken
    BY <1>0, <1>1, <1>5
  <2> QED BY <2>1, <1>4
<1>6. CASE chain' = chain /\ taken' = taken + 1
  <2>1. k \in 1..Len(chain) /\ chain'[k] = chain[k] /\ taken' >= taken
    BY <1>0, <1>1, <1>6
  <2> QED BY <2>1, <1>4
<1>7. ASSUME NEW v \in Values, chain' = Append(chain, v), taken' = taken
      PROVE  \E r \in Readers : Arrived(r)' /\ chain'[k] = Latest(r)'
  <2>1. CASE k = Len(chain) + 1
    <3>1. chain'[k] = v
      BY <1>0, <1>1, <1>7, <2>1
    <3> QED BY <1>7, <3>1, Linking
  <2>2. CASE k # Len(chain) + 1
    <3>1. k \in 1..Len(chain) /\ chain'[k] = chain[k] /\ taken' >= taken
      BY <1>0, <1>1, <1>7, <2>2
    <3> QED BY <3>1, <1>4
  <2> QED BY <2>1, <2>2
<1> QED BY <1>5, <1>6, <1>7, ListChange

----------------------------------------------------------------------------
(* Who releases what *)

Bookkeeping == chain[1] = Dummy /\ Calls /\ OwnInv /\ LateInv /\ \A r \in Readers : KeptInv(r)

LEMMA BookInit == Init => Bookkeeping
<1> SUFFICES ASSUME Init PROVE Bookkeeping
  OBVIOUS
<1> USE DEF Init, QueueInit
<1>1. chain = <<Dummy>> /\ Len(chain) = 1 /\ taken = 0
  OBVIOUS
<1>2. Calls
  BY ReleaseQueueAssumption DEF Calls, SawType, CallInv, Dequeuing, Told
<1>3. OwnInv
  <2>1. \A p \in Procs : Held(p) = {}
    BY DEF Held
  <2>2. \A v : ~WasTaken(v)
    BY <1>1 DEF WasTaken
  <2> QED BY <2>1, <2>2 DEF OwnInv
<1>4. LateInv
  BY ReleaseQueueAssumption DEF LateInv, Over
<1>5. ASSUME NEW r \in Readers PROVE KeptInv(r)
  <2>1. rest[r] = Payloads[r] /\ Payloads[r] \in Seq(Values) /\ Len(Payloads[r]) \in Nat
    BY ReleaseQueueAssumption
  <2>2. Sent(r) = 0
    BY <2>1 DEF Sent
  <2>3. ~Put(r)
    BY ReleaseQueueAssumption DEF Put
  <2>4. \A i \in 1..Len(rest[r]) : 0 + i = i
    OBVIOUS
  <2> QED BY <2>1, <2>2, <2>3, <2>4 DEF KeptInv
<1> QED BY <1>2, <1>3, <1>4, <1>5 DEF Bookkeeping

LEMMA BookStep == IInv /\ IInv' /\ Bookkeeping /\ [Next]_vars => Bookkeeping'
<1> SUFFICES ASSUME IInv, IInv', Bookkeeping, [Next]_vars PROVE Bookkeeping'
  OBVIOUS
<1>1. chain[1] = Dummy /\ Calls /\ OwnInv /\ LateInv /\ \A r \in Readers : KeptInv(r)
  BY DEF Bookkeeping
<1>2. Calls' /\ OwnInv'
  BY <1>1, CallsStep, OwnStep
<1>3. LateInv' /\ \A r \in Readers : KeptInv(r)'
  BY <1>1, <1>2, LateStep, KeptStep
<1>4. chain'[1] = Dummy
  <2>1. chain \in Seq(Nodes) /\ Len(chain) \in Nat /\ 1 \in 1..Len(chain)
    BY Places DEF IInv, ListInv
  <2>2. chain' = chain \/ \E v \in Values : chain' = Append(chain, v)
    BY ListChange
  <2> QED BY <1>1, <2>1, <2>2
<1> QED BY <1>2, <1>3, <1>4 DEF Bookkeeping

\* No value is two nodes: what was taken is not in the queue any more.
LEMMA InContents ==
  ASSUME IInv, chain[1] = Dummy, NEW v
  PROVE  /\ v \in Range(Contents) <=> \E k \in 1..Len(chain) : taken < k - 1 /\ chain[k] = v
         /\ ~(v \in Range(Contents) /\ WasTaken(v))
         /\ On(chain, v) /\ v \in Values => v \in Range(Contents) \/ WasTaken(v)
<1>1. /\ chain \in Seq(Nodes) /\ Len(chain) \in Nat /\ taken \in Nat /\ taken < Len(chain) /\ Distinct(chain)
      /\ chain[1] = Dummy
  BY Places DEF IInv, ListInv
<1>2. v \in Range(Contents) <=> \E i \in 1..(Len(chain) - taken - 1) : chain[taken + 1 + i] = v
  BY DEF Range, Contents
<1>3. ASSUME v \in Range(Contents) PROVE \E k \in 1..Len(chain) : taken < k - 1 /\ chain[k] = v
  <2>1. PICK i \in 1..(Len(chain) - taken - 1) : chain[taken + 1 + i] = v
    BY <1>2, <1>3
  <2>2. taken + 1 + i \in 1..Len(chain) /\ taken < (taken + 1 + i) - 1
    BY <1>1
  <2> QED BY <2>1, <2>2
<1>4. ASSUME NEW k \in 1..Len(chain), taken < k - 1, chain[k] = v PROVE v \in Range(Contents)
  <2> DEFINE i == k - taken - 1
  <2>1. i \in 1..(Len(chain) - taken - 1) /\ taken + 1 + i = k
    BY <1>1, <1>4
  <2> QED BY <1>2, <1>4, <2>1
<1>5. ASSUME v \in Range(Contents), WasTaken(v) PROVE FALSE
  <2>1. PICK k \in 1..Len(chain) : taken < k - 1 /\ chain[k] = v
    BY <1>3, <1>5
  <2>2. PICK j \in 2..(taken + 1) : chain[j] = v
    BY <1>5 DEF WasTaken
  <2>3. j \in 1..Len(chain) /\ j # k
    BY <1>1, <2>1
  <2> QED BY <1>1, <2>1, <2>2, <2>3 DEF Distinct
<1>6. ASSUME On(chain, v), v \in Values PROVE v \in Range(Contents) \/ WasTaken(v)
  <2>1. PICK k \in 1..Len(chain) : chain[k] = v
    BY <1>6 DEF On
  <2>2. k # 1
    BY <1>1, <1>6, <2>1, LKQueueAssumption
  <2>3. taken < k - 1 \/ k \in 2..(taken + 1)
    BY <1>1, <2>2
  <2> QED BY <1>4, <2>1, <2>3 DEF WasTaken
<1> QED BY <1>3, <1>4, <1>5, <1>6

LEMMA BookReleases ==
  ASSUME IInv, Bookkeeping, IsFiniteSet(Readers)
  PROVE  Releases
<1>1. TypeOK
  BY DEF IInv, UseType, TypeOK, Bookkeeping, Calls, SawType
<1>2. Linked
  <2>1. ListInv
    BY DEF IInv
  <2>2. Pos(chain, tail) \in 1..Len(chain) /\ chain[Pos(chain, tail)] = tail /\ taken \in Nat /\ Len(chain) \in Nat
    BY <2>1, Places DEF ListInv
  <2>3. Pos(chain, tail) \in (taken + 1)..Len(chain)
    BY <2>1, <2>2 DEF ListInv
  <2> QED BY <2>1, <2>2, <2>3 DEF ListInv, Linked
<1>3. AnswersRight
  BY DEF AnswersRight, Bookkeeping, Calls, CallInv, Told, IInv, DeqInv
<1>4. OwnInv /\ chain[1] = Dummy
  BY DEF Bookkeeping
<1>5. \A p \in Procs : Held(p) \cap (released \cup Range(Contents)) = {}
  <2> SUFFICES ASSUME NEW p \in Procs, NEW v \in Held(p) PROVE v \notin released /\ v \notin Range(Contents)
    OBVIOUS
  <2> QED BY <1>4, InContents DEF OwnInv
<1>6. released \cap Range(Contents) = {}
  <2> SUFFICES ASSUME NEW v \in released PROVE v \notin Range(Contents)
    OBVIOUS
  <2> QED BY <1>4, InContents DEF OwnInv
<1>7. ASSUME at[Finisher] = "done", \A r \in Readers : at[r] = "out"
      PROVE  /\ Cardinality(Range(Contents)) <= Cardinality(Readers)
             /\ \A r \in Readers : \A i \in 1..(Len(Payloads[r]) - Len(rest[r])) :
                  Payloads[r][i] \in released \cup Range(Contents)
  <2> DEFINE f == [r \in Readers |-> Latest(r)]   T == {Latest(r) : r \in Readers}
  <2>1. Range(Contents) \subseteq T
    <3> SUFFICES ASSUME NEW v \in Range(Contents) PROVE v \in T
      OBVIOUS
    <3>1. PICK k \in 1..Len(chain) : taken < k - 1 /\ chain[k] = v
      BY <1>4, InContents
    <3>2. \E r \in Readers : v = Latest(r)
      BY <1>7, <3>1 DEF Bookkeeping, LateInv, Over
    <3> QED BY <3>2
  <2>2. IsFiniteSet(T) /\ Cardinality(T) <= Cardinality(Readers)
    <3>1. f \in Surjection(Readers, T)
      BY DEF Surjection
    <3> QED BY <3>1, FS_Surjection
  <2>3. Cardinality(Range(Contents)) <= Cardinality(T)
    BY <2>1, <2>2, FS_Subset
  <2>4. Cardinality(T) \in Nat /\ Cardinality(Readers) \in Nat /\ Cardinality(Range(Contents)) \in Nat
    <3>1. IsFiniteSet(Range(Contents))
      BY <2>1, <2>2, FS_Subset
    <3> QED BY <2>2, <3>1, FS_CardinalityType
  <2>5. Cardinality(Range(Contents)) <= Cardinality(Readers)
    <3> HIDE DEF T
    <3> QED BY <2>2, <2>3, <2>4
  <2>6. \A p \in Procs : Held(p) = {}
    <3>1. \A p \in Procs : at[p] \in {"out", "done"}
      BY <1>7, ReleaseQueueAssumption
    <3>2. \A p \in Procs : pc[p] = "idle"
      BY <3>1 DEF Bookkeeping, Calls, CallInv
    <3> QED BY <3>2 DEF Held
  <2>7. ASSUME NEW r \in Readers, NEW i \in 1..Sent(r) PROVE Payloads[r][i] \in released \cup Range(Contents)
    <3>1. On(chain, Payloads[r][i])
      BY DEF Bookkeeping, KeptInv
    <3>2. Payloads[r][i] \in Values
      <4>1. Payloads[r] \in Seq(Values) /\ Len(Payloads[r]) \in Nat /\ rest[r] \in Seq(Values) /\ Len(rest[r]) \in Nat
        BY ReleaseQueueAssumption DEF IInv, UseType
      <4>2. i \in 1..Len(Payloads[r])
        BY <4>1 DEF Sent
      <4> QED BY <4>1, <4>2
    <3>3. CASE WasTaken(Payloads[r][i])
      BY <1>4, <2>6, <3>2, <3>3 DEF OwnInv
    <3> QED BY <3>1, <3>2, <3>3, <1>4, InContents
  <2> QED BY <2>5, <2>7 DEF Sent
<1>8. ReleasedOnce
  BY <1>4, <1>5, <1>6, <1>7 DEF ReleasedOnce, OwnInv
<1> QED BY <1>1, <1>2, <1>3, <1>8 DEF Releases

\* A payload that DoOnNext or DoFinally takes out of toBeReleased is taken by one
\* of them only and released once, Dequeue says that there is nothing only when
\* there was nothing, and what the drain of DoFinally leaves behind is at most
\* one payload of each of the goroutines that deliver, finitely many.
THEOREM PayloadsReleasedOnce ==
  ASSUME IsFiniteSet(Readers)
  PROVE  Spec => []Releases
<1>1. Init => Bookkeeping
  BY BookInit
<1>2. IInv /\ IInv' /\ Bookkeeping /\ [Next]_vars => Bookkeeping'
  BY BookStep
<1>3. IInv /\ Bookkeeping => Releases
  BY BookReleases
<1> QED BY <1>1, <1>2, <1>3, ListHolds, PTL DEF Spec
=============================================================================
