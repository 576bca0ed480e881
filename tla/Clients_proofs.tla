------------------------------ MODULE Clients_proofs -----------------------------
(***************************************************************************)
(* Clients and their balancer, and the sessions that a server keeps for    *)
(* clients that come back: what Balancer, ResumeClient and ServerSessions  *)
(* promise, for any number of clients, callers, connections and tokens.    *)
(*                                                                         *)
(* The three have no name in common, and no step of one is a step of       *)
(* another: each theorem is about the specification that it names.         *)
(***************************************************************************)
EXTENDS Balancer, ResumeClient, ServerSessions, FiniteSets, SequenceTheorems, TLAPS

----------------------------------------------------------------------------
(* The balancer: the inductive invariant *)

\* The labels under which clients are put.
Labels == {p[1] : p \in Puts}

\* A client that runs its handlers has one left; an open one has left nowhere.
Running == \A c \in Clients : cl[c] = "running" => todo[c] > 0

\* The array that Balancer.Close copies from holds as many clients as it copies.
From == IF view = OwnArray THEN slots ELSE view
Copying ==
  /\ gpc = "idle" => bpc = "idle"
  /\ bpc # "copying" => size = 0 /\ view = OwnArray
  /\ bpc = "copying" => Len(clone) <= size
  /\ size <= Len(From) /\ \A i \in 1..size : From[i] \in Clients

\* Unless a client has left meanwhile, the copy is the slice that Close took.
Closing == {"copying", "closing"}
Copy ==
  /\ bpc \notin Closing => atClose = {}
  /\ bpc \notin Closing => clone = <<>>
  /\ bpc = "copying" /\ ~torn =>
       /\ size <= len /\ (\A c \in atClose : \E i \in 1..size : From[i] = c)
       /\ \A i \in 1..Len(clone) : clone[i] = From[i]
  /\ bpc = "closing" /\ ~torn => atClose \subseteq Range(clone)

\* The last calls of Next had consecutive values of seq.
Turns ==
  /\ Len(round) <= len /\ Len(round) <= seq + 1
  /\ \A k \in 1..Len(round) : round[k] = (seq - (Len(round) - k)) % len

\* The inductive invariant of the balancer.
IInv == BalancerTypeOK /\ Aligned /\ Running /\ Copying /\ Copy /\ Turns

----------------------------------------------------------------------------
(* The types of the balancer *)

\* BalancerTypeOK, in parts.
RingType ==
  /\ gm \in {"empty", "made", "nil"} /\ seq \in 0..(SeqValues - 1) /\ len \in 0..Len(slots)
  /\ keys \in Seq(Labels) /\ slots \in Seq(Clients \cup {Nobody}) /\ mu \in {{}} \cup {{p} : p \in Puts}
CallType ==
  /\ ppc \in [Puts -> {"idle", "got", "registering", "in", "refused", "panicked"}]
  /\ wpc \in [Callers -> {"idle", "asking", "waiting", "notified", "panicked"}]
SockType ==
  /\ cl \in [Clients -> {"open", "shut", "running", "closed"}]
  /\ closers \in [Clients -> Nat] /\ todo \in [Clients -> Nat]
CopyType ==
  /\ gpc \in {"idle", "closing", "returned"}
  /\ bpc \in {"idle", "testing", "slicing", "copying", "closing", "returned"}
  /\ view \in Seq(Clients \cup {Nobody}) /\ size \in Nat /\ clone \in Seq(Clients)
  /\ atClose \subseteq Clients /\ torn \in BOOLEAN
PastType == told \subseteq Puts /\ late \subseteq Puts /\ round \in Seq(Nat)

LEMMA TypeParts == BalancerTypeOK <=> RingType /\ CallType /\ SockType /\ CopyType /\ PastType
  BY DEF BalancerTypeOK, RingType, CallType, SockType, CopyType, PastType, Labels

LEMMA TypePartsNext == BalancerTypeOK' <=> RingType' /\ CallType' /\ SockType' /\ CopyType' /\ PastType'
  BY DEF BalancerTypeOK, RingType, CallType, SockType, CopyType, PastType, Labels

\* A call of PutLabel has a label and a client.
LEMMA Given ==
  /\ SeqValues \in Nat \ {0} /\ Nobody \notin Clients
  /\ \A p \in Puts : p = <<p[1], p[2]>> /\ p[1] \in Labels /\ p[2] \in Clients
  BY BalancerAssumption DEF Labels, Clients

\* Append and RemoveAt, on any sequence.
LEMMA AppendsOne ==
  ASSUME NEW S, NEW s \in Seq(S), NEW e \in S
  PROVE  /\ Append(s, e) \in Seq(S) /\ Len(Append(s, e)) = Len(s) + 1 /\ Len(s) \in Nat
         /\ Append(s, e)[Len(s) + 1] = e /\ \A i \in 1..Len(s) : Append(s, e)[i] = s[i]
  OBVIOUS

LEMMA RemovesOne ==
  ASSUME NEW S, NEW s \in Seq(S), NEW j \in 1..Len(s)
  PROVE  /\ RemoveAt(s, j) \in Seq(S) /\ Len(RemoveAt(s, j)) = Len(s) - 1
         /\ \A i \in 1..(Len(s) - 1) : RemoveAt(s, j)[i] = IF i < j THEN s[i] ELSE s[i + 1]
<1> DEFINE a == SubSeq(s, 1, j - 1)  b == SubSeq(s, j + 1, Len(s))
<1>1. Len(s) \in Nat /\ j \in 1..Len(s) /\ \A i \in 1..Len(s) : s[i] \in S
  OBVIOUS
<1>2. a \in Seq(S) /\ Len(a) = j - 1 /\ \A i \in 1..(j - 1) : a[i] = s[i]
  BY <1>1
<1>3. b \in Seq(S) /\ Len(b) = Len(s) - j /\ \A i \in 1..(Len(s) - j) : b[i] = s[i + j]
  <2>1. CASE j = Len(s)
    BY <1>1, <2>1
  <2>2. CASE j < Len(s)
    BY <1>1, <2>2
  <2> QED BY <1>1, <2>1, <2>2
<1> HIDE DEF a, b
<1>4. a \o b \in Seq(S) /\ Len(a \o b) = Len(s) - 1
  <2>1. a \o b \in Seq(S) /\ Len(a \o b) = Len(a) + Len(b)
    BY <1>2, <1>3, ConcatProperties
  <2> QED BY <1>1, <1>2, <1>3, <2>1
<1>5. ASSUME NEW i \in 1..(Len(s) - 1) PROVE (a \o b)[i] = IF i < j THEN s[i] ELSE s[i + 1]
  <2>1. CASE i < j
    BY <1>1, <1>2, <1>3, <2>1
  <2>2. CASE ~(i < j)
    <3>1. (a \o b)[i] = b[i - (j - 1)]
      BY <1>1, <1>2, <1>3, <2>2
    <3>2. i - (j - 1) \in 1..(Len(s) - j) /\ (i - (j - 1)) + j = i + 1
      BY <1>1, <2>2
    <3> QED BY <1>3, <2>2, <3>1, <3>2
  <2> QED BY <1>1, <2>1, <2>2
<1>6. RemoveAt(s, j) = a \o b
  BY DEF RemoveAt, a, b
<1> QED BY <1>4, <1>5, <1>6

\* The array after an append: what was there stays, the client follows it.
LEMMA Appending ==
  ASSUME BalancerTypeOK, NEW c \in Clients
  PROVE  /\ Appended(c) \in Seq(Clients \cup {Nobody}) /\ len + 1 \in 0..Len(Appended(c))
         /\ Len(slots) <= Len(Appended(c)) /\ Appended(c)[len + 1] = c
         /\ \A i \in 1..Len(slots) : i # len + 1 => Appended(c)[i] = slots[i]
<1> DEFINE S == Clients \cup {Nobody}
<1>1. slots \in Seq(S) /\ len \in 0..Len(slots) /\ c \in S /\ Nobody \in S /\ Len(slots) \in Nat
  BY DEF BalancerTypeOK
<1> HIDE DEF S
<1>2. CASE len < Len(slots)
  <2>1. Appended(c) = [slots EXCEPT ![len + 1] = c]
    BY <1>2 DEF Appended
  <2>2. len + 1 \in 1..Len(slots)
    BY <1>1, <1>2
  <2>3. [slots EXCEPT ![len + 1] = c] \in Seq(S) /\ Len([slots EXCEPT ![len + 1] = c]) = Len(slots)
    BY <1>1, <2>2
  <2> QED BY <1>1, <2>1, <2>2, <2>3 DEF S
<1>3. CASE ~(len < Len(slots))
  <2> DEFINE m == IF len = 0 THEN 0 ELSE len - 1
             r == [i \in 1..m |-> Nobody]  a == Append(slots, c)
  <2>1. Appended(c) = a \o r
    BY <1>3 DEF Appended
  <2>2. len = Len(slots) /\ m \in Nat
    BY <1>1, <1>3
  <2> HIDE DEF m
  <2>3. r \in Seq(S) /\ Len(r) = m
    BY <1>1, <2>2
  <2>4. a \in Seq(S) /\ Len(a) = len + 1 /\ a[len + 1] = c /\ \A i \in 1..Len(slots) : a[i] = slots[i]
    BY <1>1, <2>2, AppendsOne
  <2> HIDE DEF r, a
  <2>5. a \o r \in Seq(S) /\ Len(a \o r) = len + 1 + m /\ \A i \in 1..(len + 1) : (a \o r)[i] = a[i]
    BY <1>1, <2>2, <2>3, <2>4
  <2> QED BY <1>1, <2>1, <2>2, <2>4, <2>5 DEF S
<1> QED BY <1>2, <1>3

\* The clients of the balancer.
LEMMA Members ==
  ASSUME BalancerTypeOK, Aligned
  PROVE  /\ len \in Nat /\ Len(slots) \in Nat /\ len <= Len(slots) /\ Len(keys) = len
         /\ \A i \in 1..len : /\ <<keys[i], slots[i]>> \in Puts /\ slots[i] \in Clients /\ keys[i] \in Labels
                              /\ i \in DOMAIN slots
         /\ DOMAIN slots = 1..Len(slots) /\ DOMAIN keys = 1..len
<1>1. len \in Nat /\ Len(slots) \in Nat /\ len <= Len(slots) /\ DOMAIN slots = 1..Len(slots)
      /\ DOMAIN keys = 1..Len(keys)
  BY DEF BalancerTypeOK
<1>2. ASSUME NEW i \in 1..len PROVE <<keys[i], slots[i]>> \in Puts /\ slots[i] \in Clients /\ keys[i] \in Labels
  <2>1. <<keys[i], slots[i]>> \in Puts
    BY DEF Aligned, Entries
  <2>2. <<keys[i], slots[i]>>[1] \in Labels /\ <<keys[i], slots[i]>>[2] \in Clients
    BY <2>1, Given
  <2> QED BY <2>1, <2>2
<1> QED BY <1>1, <1>2 DEF Aligned

\* The ways in which a client's handler ends.
Absent(c) == UNCHANGED <<keys, slots, len, told, round, torn>>
Leaves(c, j) ==
  /\ j \in 1..len /\ slots[j] = c /\ told' = told \cup {<<keys[j], c>>}
  /\ len' = len - 1 /\ round' = <<>> /\ torn' = (torn \/ bpc = "copying")
  /\ keys' \in Seq(Labels) /\ Len(keys') = len - 1 /\ slots' \in Seq(Clients \cup {Nobody})
  /\ Len(slots') = Len(slots)
  /\ \A i \in 1..(len - 1) : keys'[i] = IF i < j THEN keys[i] ELSE keys[i + 1]
  /\ \A i \in 1..Len(slots) : slots'[i] = IF i \in j..(len - 1) THEN slots[i + 1] ELSE slots[i]

\* remove takes the client out with its label, or finds no such client.
LEMMA Removing ==
  ASSUME BalancerTypeOK, Aligned, NEW c \in Clients, RunCloser(c)
  PROVE  Absent(c) \/ \E j \in 1..len : Leaves(c, j)
<1>1. CASE Found(c) = {}
  BY <1>1 DEF RunCloser, Absent
<1>2. CASE Found(c) # {}
  <2>1. PICK j \in Found(c) :
               /\ told' = told \cup {<<keys[j], c>>} /\ keys' = RemoveAt(keys, j)
               /\ slots' = [i \in DOMAIN slots |-> IF i \in j..(len - 1) THEN slots[i + 1] ELSE slots[i]]
               /\ len' = len - 1 /\ round' = <<>> /\ torn' = (torn \/ bpc = "copying")
    BY <1>2 DEF RunCloser
  <2>2. j \in 1..len /\ slots[j] = c
    BY DEF Found
  <2>3. keys \in Seq(Labels) /\ Len(keys) = len /\ slots \in Seq(Clients \cup {Nobody})
        /\ len \in Nat /\ Len(slots) \in Nat /\ len <= Len(slots) /\ DOMAIN slots = 1..Len(slots)
    BY Members, TypeParts DEF RingType
  <2>4. /\ keys' \in Seq(Labels) /\ Len(keys') = len - 1
        /\ \A i \in 1..(len - 1) : keys'[i] = IF i < j THEN keys[i] ELSE keys[i + 1]
    <3>1. j \in 1..Len(keys)
      BY <2>2, <2>3
    <3> QED BY <2>1, <2>3, <3>1, RemovesOne
  <2>5. ASSUME NEW i \in 1..Len(slots)
        PROVE slots'[i] = (IF i \in j..(len - 1) THEN slots[i + 1] ELSE slots[i])
              /\ slots'[i] \in Clients \cup {Nobody}
    <3>1. i \in j..(len - 1) => i + 1 \in 1..Len(slots)
      BY <2>2, <2>3
    <3>2. slots'[i] = IF i \in j..(len - 1) THEN slots[i + 1] ELSE slots[i]
      BY <2>1, <2>3
    <3> QED BY <2>3, <3>1, <3>2
  <2>6. slots' \in Seq(Clients \cup {Nobody}) /\ Len(slots') = Len(slots)
    <3>1. slots' = [i \in 1..Len(slots) |-> slots'[i]]
      BY <2>1, <2>3
    <3> QED BY <2>3, <2>5, <3>1
  <2>7. Leaves(c, j)
    BY <2>1, <2>2, <2>4, <2>5, <2>6 DEF Leaves
  <2> QED BY <2>2, <2>7
<1> QED BY <1>1, <1>2

\* Every step keeps the types, of one group of variables after the other.
LEMMA RingStep ==
  ASSUME BalancerTypeOK, Aligned, RingType, CallType, SockType, CopyType, PastType, [BalancerNext]_balancerVars
  PROVE  RingType'
<1>1. ASSUME NEW p \in Puts, GetForPut(p) PROVE RingType'
  BY <1>1 DEF GetForPut, Get, RingType, ringVars, memberVars, endVars
<1>2. ASSUME NEW p \in Puts, PutAppend(p) PROVE RingType'
  <2>1. CASE p[1] \in Range(keys)
    BY <1>2, <2>1 DEF PutAppend, RingType, ringVars
  <2>2. CASE p[1] \notin Range(keys)
    <3>1. keys' = Append(keys, p[1]) /\ slots' = Appended(p[2]) /\ len' = len + 1 /\ mu' = {p}
          /\ UNCHANGED <<gm, seq>>
      BY <1>2, <2>2 DEF PutAppend
    <3>2. keys' \in Seq(Labels)
      BY <3>1, Given, AppendsOne DEF RingType
    <3> QED BY <3>1, <3>2, Appending, Given, TypeParts DEF RingType
  <2> QED BY <2>1, <2>2
<1>3. ASSUME NEW p \in Puts, PutRegister(p) PROVE RingType'
  BY <1>3 DEF PutRegister, RingType, endVars
<1>4. ASSUME NEW w \in Callers, GetForNext(w) PROVE RingType'
  BY <1>4 DEF GetForNext, Get, RingType, ringVars, memberVars, endVars
<1>5. ASSUME NEW w \in Callers, Next1(w) PROVE RingType'
  <2>1. seq' \in 0..(SeqValues - 1)
    <3>1. (seq + 1) % SeqValues \in 0..(SeqValues - 1)
      BY Given DEF RingType
    <3> QED BY <1>5, <3>1 DEF Next1, RingType
  <2> QED BY <1>5, <2>1 DEF Next1, RingType
<1>6. ASSUME NEW w \in Callers, Wake(w) PROVE RingType'
  BY <1>6 DEF Wake, RingType, ringVars, memberVars, endVars
<1>7. ASSUME NEW w \in Callers, GiveUp(w) PROVE RingType'
  BY <1>7 DEF GiveUp, RingType, ringVars, memberVars, endVars
<1>8. ASSUME NEW c \in Clients, Shut(c) PROVE RingType'
  BY <1>8 DEF Shut, RingType, ringVars, callVars, endVars
<1>9. ASSUME NEW c \in Clients, ReadClosers(c) PROVE RingType'
  BY <1>9 DEF ReadClosers, RingType, ringVars, callVars, endVars
<1>10. ASSUME NEW c \in Clients, RunCloser(c) PROVE RingType'
  <2>1. UNCHANGED <<gm, seq, mu>>
    BY <1>10 DEF RunCloser
  <2>2. CASE Absent(c)
    BY <2>1, <2>2 DEF Absent, RingType
  <2>3. ASSUME NEW j \in 1..len, Leaves(c, j) PROVE RingType'
    BY <2>1, <2>3 DEF Leaves, RingType
  <2> QED BY <1>10, <2>2, <2>3, Removing, TypeParts
<1>11. ASSUME NEW c \in Clients, CloseOne(c) PROVE RingType'
  BY <1>11 DEF CloseOne, Shut, RingType, ringVars, callVars, endVars
<1>12. ASSUME CloseGroup PROVE RingType'
  BY <1>12 DEF CloseGroup, RingType, ringVars, callVars, memberVars
<1>13. ASSUME ReturnGroup PROVE RingType'
  BY <1>13 DEF ReturnGroup, RingType, ringVars, callVars, memberVars
<1>14. ASSUME TestEmpty PROVE RingType'
  BY <1>14 DEF TestEmpty, RingType, ringVars, callVars, memberVars
<1>15. ASSUME TakeSlice PROVE RingType'
  BY <1>15 DEF TakeSlice, RingType, ringVars, callVars, memberVars
<1>16. ASSUME CopyOne PROVE RingType'
  BY <1>16 DEF CopyOne, RingType, ringVars, callVars, memberVars
<1>17. ASSUME StartClosing PROVE RingType'
  BY <1>17 DEF StartClosing, RingType, ringVars, callVars, memberVars
<1>18. ASSUME AllClosed PROVE RingType'
  BY <1>18 DEF AllClosed, RingType, ringVars, callVars, memberVars
<1>19. ASSUME UNCHANGED balancerVars PROVE RingType'
  BY <1>19 DEF RingType, ringVars, callVars, memberVars, endVars, balancerVars
<1> QED BY <1>1, <1>2, <1>3, <1>4, <1>5, <1>6, <1>7, <1>8, <1>9, <1>10, <1>11, <1>12, <1>13, <1>14, <1>15,
           <1>16, <1>17, <1>18, <1>19 DEF BalancerNext, PutStep, ClientStep, CloseStep

LEMMA CallStep ==
  ASSUME BalancerTypeOK, Aligned, RingType, CallType, SockType, CopyType, PastType, [BalancerNext]_balancerVars
  PROVE  CallType'
<1>1. ASSUME NEW p \in Puts, GetForPut(p) PROVE CallType'
  BY <1>1 DEF GetForPut, Get, CallType, ringVars, memberVars, endVars
<1>2. ASSUME NEW p \in Puts, PutAppend(p) PROVE CallType'
  BY <1>2 DEF PutAppend, Broadcast, CallType, ringVars, memberVars
<1>3. ASSUME NEW p \in Puts, PutRegister(p) PROVE CallType'
  BY <1>3 DEF PutRegister, CallType, endVars
<1>4. ASSUME NEW w \in Callers, GetForNext(w) PROVE CallType'
  BY <1>4 DEF GetForNext, Get, CallType, ringVars, memberVars, endVars
<1>5. ASSUME NEW w \in Callers, Next1(w) PROVE CallType'
  BY <1>5 DEF Next1, CallType, memberVars, endVars
<1>6. ASSUME NEW w \in Callers, Wake(w) PROVE CallType'
  BY <1>6 DEF Wake, CallType, ringVars, memberVars, endVars
<1>7. ASSUME NEW w \in Callers, GiveUp(w) PROVE CallType'
  BY <1>7 DEF GiveUp, CallType, ringVars, memberVars, endVars
<1>8. ASSUME NEW c \in Clients, Shut(c) PROVE CallType'
  BY <1>8 DEF Shut, CallType, ringVars, callVars, endVars
<1>9. ASSUME NEW c \in Clients, ReadClosers(c) PROVE CallType'
  BY <1>9 DEF ReadClosers, CallType, ringVars, callVars, endVars
<1>10. ASSUME NEW c \in Clients, RunCloser(c) PROVE CallType'
  BY <1>10 DEF RunCloser, CallType, callVars
<1>11. ASSUME NEW c \in Clients, CloseOne(c) PROVE CallType'
  BY <1>11 DEF CloseOne, Shut, CallType, ringVars, callVars, endVars
<1>12. ASSUME CloseGroup PROVE CallType'
  BY <1>12 DEF CloseGroup, CallType, ringVars, callVars, memberVars
<1>13. ASSUME ReturnGroup PROVE CallType'
  BY <1>13 DEF ReturnGroup, CallType, ringVars, callVars, memberVars
<1>14. ASSUME TestEmpty PROVE CallType'
  BY <1>14 DEF TestEmpty, CallType, ringVars, callVars, memberVars
<1>15. ASSUME TakeSlice PROVE CallType'
  BY <1>15 DEF TakeSlice, CallType, ringVars, callVars, memberVars
<1>16. ASSUME CopyOne PROVE CallType'
  BY <1>16 DEF CopyOne, CallType, ringVars, callVars, memberVars
<1>17. ASSUME StartClosing PROVE CallType'
  BY <1>17 DEF StartClosing, CallType, ringVars, callVars, memberVars
<1>18. ASSUME AllClosed PROVE CallType'
  BY <1>18 DEF AllClosed, CallType, ringVars, callVars, memberVars
<1>19. ASSUME UNCHANGED balancerVars PROVE CallType'
  BY <1>19 DEF CallType, ringVars, callVars, memberVars, endVars, balancerVars
<1> QED BY <1>1, <1>2, <1>3, <1>4, <1>5, <1>6, <1>7, <1>8, <1>9, <1>10, <1>11, <1>12, <1>13, <1>14, <1>15,
           <1>16, <1>17, <1>18, <1>19 DEF BalancerNext, PutStep, ClientStep, CloseStep

LEMMA SockStep ==
  ASSUME BalancerTypeOK, Aligned, RingType, CallType, SockType, CopyType, PastType, Running,
         [BalancerNext]_balancerVars
  PROVE  SockType'
<1>1. ASSUME NEW p \in Puts, GetForPut(p) PROVE SockType'
  BY <1>1 DEF GetForPut, SockType, ringVars, memberVars, endVars
<1>2. ASSUME NEW p \in Puts, PutAppend(p) PROVE SockType'
  BY <1>2 DEF PutAppend, SockType, ringVars, memberVars
<1>3. ASSUME NEW p \in Puts, PutRegister(p) PROVE SockType'
  <2>1. p[2] \in Clients /\ closers[p[2]] + 1 \in Nat
    BY Given DEF SockType
  <2> QED BY <1>3, <2>1 DEF PutRegister, SockType
<1>4. ASSUME NEW w \in Callers, GetForNext(w) PROVE SockType'
  BY <1>4 DEF GetForNext, SockType, ringVars, memberVars, endVars
<1>5. ASSUME NEW w \in Callers, Next1(w) PROVE SockType'
  BY <1>5 DEF Next1, SockType, memberVars, endVars
<1>6. ASSUME NEW w \in Callers, Wake(w) PROVE SockType'
  BY <1>6 DEF Wake, SockType, ringVars, memberVars, endVars
<1>7. ASSUME NEW w \in Callers, GiveUp(w) PROVE SockType'
  BY <1>7 DEF GiveUp, SockType, ringVars, memberVars, endVars
<1>8. ASSUME NEW c \in Clients, Shut(c) PROVE SockType'
  BY <1>8 DEF Shut, SockType, ringVars, callVars, endVars
<1>9. ASSUME NEW c \in Clients, ReadClosers(c) PROVE SockType'
  BY <1>9 DEF ReadClosers, SockType, ringVars, callVars, endVars
<1>10. ASSUME NEW c \in Clients, RunCloser(c) PROVE SockType'
  <2>1. todo[c] \in Nat /\ todo[c] > 0
    BY <1>10 DEF RunCloser, SockType, Running
  <2>2. todo' = [todo EXCEPT ![c] = todo[c] - 1] /\ closers' = closers
        /\ (cl' = cl \/ cl' = [cl EXCEPT ![c] = "closed"])
    BY <1>10 DEF RunCloser
  <2> QED BY <2>1, <2>2 DEF SockType
<1>11. ASSUME NEW c \in Clients, CloseOne(c) PROVE SockType'
  BY <1>11 DEF CloseOne, Shut, SockType, ringVars, callVars, endVars
<1>12. ASSUME CloseGroup PROVE SockType'
  BY <1>12 DEF CloseGroup, SockType, ringVars, callVars, memberVars
<1>13. ASSUME ReturnGroup PROVE SockType'
  BY <1>13 DEF ReturnGroup, SockType, ringVars, callVars, memberVars
<1>14. ASSUME TestEmpty PROVE SockType'
  BY <1>14 DEF TestEmpty, SockType, ringVars, callVars, memberVars
<1>15. ASSUME TakeSlice PROVE SockType'
  BY <1>15 DEF TakeSlice, SockType, ringVars, callVars, memberVars
<1>16. ASSUME CopyOne PROVE SockType'
  BY <1>16 DEF CopyOne, SockType, ringVars, callVars, memberVars
<1>17. ASSUME StartClosing PROVE SockType'
  BY <1>17 DEF StartClosing, SockType, ringVars, callVars, memberVars
<1>18. ASSUME AllClosed PROVE SockType'
  BY <1>18 DEF AllClosed, SockType, ringVars, callVars, memberVars
<1>19. ASSUME UNCHANGED balancerVars PROVE SockType'
  BY <1>19 DEF SockType, ringVars, callVars, memberVars, endVars, balancerVars
<1> QED BY <1>1, <1>2, <1>3, <1>4, <1>5, <1>6, <1>7, <1>8, <1>9, <1>10, <1>11, <1>12, <1>13, <1>14, <1>15,
           <1>16, <1>17, <1>18, <1>19 DEF BalancerNext, PutStep, ClientStep, CloseStep

\* The slice of sockets holds clients of the balancer.
LEMMA Slice ==
  ASSUME BalancerTypeOK, Aligned
  PROVE  Range(Sockets) \subseteq Clients /\ \A c \in Range(Sockets) : \E i \in 1..len : slots[i] = c
<1>1. len \in Nat /\ len <= Len(slots) /\ slots \in Seq(Clients \cup {Nobody}) /\ Len(slots) \in Nat
  BY Members DEF BalancerTypeOK
<1>2. \A i \in 1..len : slots[i] \in Clients
  BY Members
<1>3. 1 \in Int /\ len \in Int /\ \A i \in 1..len : slots[i] \in Clients
  BY <1>1, <1>2
<1>4. Sockets \in Seq(Clients) /\ Len(Sockets) = (IF 1 <= len THEN len ELSE 0)
      /\ \A i \in 1..len : Sockets[i] = slots[i]
  <2>1. /\ SubSeq(slots, 1, len) \in Seq(Clients)
        /\ Len(SubSeq(slots, 1, len)) = IF 1 <= len THEN len - 1 + 1 ELSE 0
        /\ \A i \in 1..(len - 1 + 1) : SubSeq(slots, 1, len)[i] = slots[1 + i - 1]
    BY <1>3, SubSeqProperties
  <2> QED BY <1>1, <2>1 DEF Sockets
<1>5. DOMAIN Sockets = 1..len
  BY <1>1, <1>4
<1> QED BY <1>2, <1>4, <1>5 DEF Range

\* What a copier copies next is a client.
LEMMA CopiesClient ==
  ASSUME BalancerTypeOK, Copying, CopyOne
  PROVE  /\ clone' = Append(clone, From[Len(clone) + 1]) /\ From[Len(clone) + 1] \in Clients
         /\ clone \in Seq(Clients) /\ Len(clone) < size /\ Len(clone) + 1 \in 1..size /\ bpc = "copying"
<1>1. bpc = "copying" /\ Len(clone) # size /\ clone' = Append(clone, From[Len(clone) + 1])
  BY DEF CopyOne, Copied, From
<1>2. clone \in Seq(Clients) /\ Len(clone) \in Nat /\ size \in Nat
  BY DEF BalancerTypeOK
<1>3. Len(clone) < size /\ Len(clone) + 1 \in 1..size
  BY <1>1, <1>2 DEF Copying
<1> QED BY <1>1, <1>2, <1>3 DEF Copying

LEMMA CopyTypeStep ==
  ASSUME BalancerTypeOK, Aligned, RingType, CallType, SockType, CopyType, PastType, Copying,
         [BalancerNext]_balancerVars
  PROVE  CopyType'
<1>1. ASSUME NEW p \in Puts, GetForPut(p) PROVE CopyType'
  BY <1>1 DEF GetForPut, CopyType, ringVars, memberVars, endVars
<1>2. ASSUME NEW p \in Puts, PutAppend(p) PROVE CopyType'
  <2>1. view' \in Seq(Clients \cup {Nobody})
    BY <1>2 DEF PutAppend, CopyType, RingType
  <2> QED BY <1>2, <2>1 DEF PutAppend, CopyType
<1>3. ASSUME NEW p \in Puts, PutRegister(p) PROVE CopyType'
  BY <1>3 DEF PutRegister, CopyType, endVars
<1>4. ASSUME NEW w \in Callers, GetForNext(w) PROVE CopyType'
  BY <1>4 DEF GetForNext, CopyType, ringVars, memberVars, endVars
<1>5. ASSUME NEW w \in Callers, Next1(w) PROVE CopyType'
  BY <1>5 DEF Next1, CopyType, memberVars, endVars
<1>6. ASSUME NEW w \in Callers, Wake(w) PROVE CopyType'
  BY <1>6 DEF Wake, CopyType, ringVars, memberVars, endVars
<1>7. ASSUME NEW w \in Callers, GiveUp(w) PROVE CopyType'
  BY <1>7 DEF GiveUp, CopyType, ringVars, memberVars, endVars
<1>8. ASSUME NEW c \in Clients, Shut(c) PROVE CopyType'
  BY <1>8 DEF Shut, CopyType, ringVars, callVars, endVars
<1>9. ASSUME NEW c \in Clients, ReadClosers(c) PROVE CopyType'
  BY <1>9 DEF ReadClosers, CopyType, ringVars, callVars, endVars
<1>10. ASSUME NEW c \in Clients, RunCloser(c) PROVE CopyType'
  <2>1. torn' \in BOOLEAN
    <3>1. torn' \in {torn, TRUE, FALSE} /\ torn \in BOOLEAN
      BY <1>10 DEF RunCloser, CopyType
    <3> QED BY <3>1
  <2>2. UNCHANGED endVars
    BY <1>10 DEF RunCloser
  <2> QED BY <2>1, <2>2 DEF CopyType, endVars
<1>11. ASSUME NEW c \in Clients, CloseOne(c) PROVE CopyType'
  BY <1>11 DEF CloseOne, Shut, CopyType, ringVars, callVars, endVars
<1>12. ASSUME CloseGroup PROVE CopyType'
  BY <1>12 DEF CloseGroup, CopyType, ringVars, callVars, memberVars
<1>13. ASSUME ReturnGroup PROVE CopyType'
  BY <1>13 DEF ReturnGroup, CopyType, ringVars, callVars, memberVars
<1>14. ASSUME TestEmpty PROVE CopyType'
  BY <1>14 DEF TestEmpty, CopyType, ringVars, callVars, memberVars
<1>15. ASSUME TakeSlice PROVE CopyType'
  <2>1. size' \in Nat /\ atClose' \subseteq Clients
    BY <1>15, Members, Slice DEF TakeSlice
  <2> QED BY <1>15, <2>1 DEF TakeSlice, CopyType
<1>16. ASSUME CopyOne PROVE CopyType'
  <2>1. clone' \in Seq(Clients)
    BY <1>16, CopiesClient
  <2> QED BY <1>16, <2>1 DEF CopyOne, CopyType
<1>17. ASSUME StartClosing PROVE CopyType'
  <2>1. <<>> \in Seq(Clients \cup {Nobody})
    OBVIOUS
  <2> QED BY <1>17, <2>1 DEF StartClosing, OwnArray, CopyType
<1>18. ASSUME AllClosed PROVE CopyType'
  <2>1. <<>> \in Seq(Clients)
    OBVIOUS
  <2> QED BY <1>18, <2>1 DEF AllClosed, CopyType
<1>19. ASSUME UNCHANGED balancerVars PROVE CopyType'
  BY <1>19 DEF CopyType, ringVars, callVars, memberVars, endVars, balancerVars
<1> QED BY <1>1, <1>2, <1>3, <1>4, <1>5, <1>6, <1>7, <1>8, <1>9, <1>10, <1>11, <1>12, <1>13, <1>14, <1>15,
           <1>16, <1>17, <1>18, <1>19 DEF BalancerNext, PutStep, ClientStep, CloseStep

LEMMA PastStep ==
  ASSUME BalancerTypeOK, Aligned, RingType, CallType, SockType, CopyType, PastType, [BalancerNext]_balancerVars
  PROVE  PastType'
<1>1. ASSUME NEW p \in Puts, GetForPut(p) PROVE PastType'
  BY <1>1 DEF GetForPut, PastType, ringVars, memberVars, endVars
<1>2. ASSUME NEW p \in Puts, PutAppend(p) PROVE PastType'
  <2>1. <<>> \in Seq(Nat)
    OBVIOUS
  <2> QED BY <1>2, <2>1 DEF PutAppend, PastType
<1>3. ASSUME NEW p \in Puts, PutRegister(p) PROVE PastType'
  BY <1>3 DEF PutRegister, PastType, endVars
<1>4. ASSUME NEW w \in Callers, GetForNext(w) PROVE PastType'
  BY <1>4 DEF GetForNext, PastType, ringVars, memberVars, endVars
<1>5. ASSUME NEW w \in Callers, Next1(w) PROVE PastType'
  <2>1. CASE len > 0
    <3> DEFINE s == (seq + 1) % SeqValues
               past == IF s = 0 THEN <<>> ELSE round
               all == Append(past, Turn(s, len))
    <3>1. round' = (IF Len(all) > len THEN Tail(all) ELSE all)
      BY <1>5, <2>1 DEF Next1
    <3>2. len \in Nat /\ s \in Nat
      BY Members, Given DEF RingType
    <3>3. s % len \in Nat
      <4> HIDE DEF s
      <4> QED BY <2>1, <3>2
    <3>4. past \in Seq(Nat) /\ Turn(s, len) \in Nat
      BY <3>3 DEF PastType, Turn
    <3> HIDE DEF past, s
    <3>5. all \in Seq(Nat) /\ all # <<>>
      BY <3>4
    <3>6. Tail(all) \in Seq(Nat)
      BY <3>5
    <3>7. round' \in Seq(Nat)
      BY <3>1, <3>5, <3>6
    <3> QED BY <1>5, <3>7 DEF Next1, PastType
  <2>2. CASE ~(len > 0)
    BY <1>5, <2>2 DEF Next1, PastType
  <2> QED BY <2>1, <2>2
<1>6. ASSUME NEW w \in Callers, Wake(w) PROVE PastType'
  BY <1>6 DEF Wake, PastType, ringVars, memberVars, endVars
<1>7. ASSUME NEW w \in Callers, GiveUp(w) PROVE PastType'
  BY <1>7 DEF GiveUp, PastType, ringVars, memberVars, endVars
<1>8. ASSUME NEW c \in Clients, Shut(c) PROVE PastType'
  BY <1>8 DEF Shut, PastType, ringVars, callVars, endVars
<1>9. ASSUME NEW c \in Clients, ReadClosers(c) PROVE PastType'
  BY <1>9 DEF ReadClosers, PastType, ringVars, callVars, endVars
<1>10. ASSUME NEW c \in Clients, RunCloser(c) PROVE PastType'
  <2>1. late' = late
    BY <1>10 DEF RunCloser
  <2>2. CASE Absent(c)
    BY <2>1, <2>2 DEF Absent, PastType
  <2>3. ASSUME NEW j \in 1..len, Leaves(c, j) PROVE PastType'
    <3>1. <<keys[j], c>> \in Puts /\ <<>> \in Seq(Nat)
      BY <2>3, Members DEF Leaves
    <3> QED BY <2>1, <2>3, <3>1 DEF Leaves, PastType
  <2> QED BY <1>10, <2>2, <2>3, Removing
<1>11. ASSUME NEW c \in Clients, CloseOne(c) PROVE PastType'
  BY <1>11 DEF CloseOne, Shut, PastType, ringVars, callVars, endVars
<1>12. ASSUME CloseGroup PROVE PastType'
  BY <1>12 DEF CloseGroup, PastType, ringVars, callVars, memberVars
<1>13. ASSUME ReturnGroup PROVE PastType'
  BY <1>13 DEF ReturnGroup, PastType, ringVars, callVars, memberVars
<1>14. ASSUME TestEmpty PROVE PastType'
  BY <1>14 DEF TestEmpty, PastType, ringVars, callVars, memberVars
<1>15. ASSUME TakeSlice PROVE PastType'
  BY <1>15 DEF TakeSlice, PastType, ringVars, callVars, memberVars
<1>16. ASSUME CopyOne PROVE PastType'
  BY <1>16 DEF CopyOne, PastType, ringVars, callVars, memberVars
<1>17. ASSUME StartClosing PROVE PastType'
  BY <1>17 DEF StartClosing, PastType, ringVars, callVars, memberVars
<1>18. ASSUME AllClosed PROVE PastType'
  BY <1>18 DEF AllClosed, PastType, ringVars, callVars, memberVars
<1>19. ASSUME UNCHANGED balancerVars PROVE PastType'
  BY <1>19 DEF PastType, ringVars, callVars, memberVars, endVars, balancerVars
<1> QED BY <1>1, <1>2, <1>3, <1>4, <1>5, <1>6, <1>7, <1>8, <1>9, <1>10, <1>11, <1>12, <1>13, <1>14, <1>15,
           <1>16, <1>17, <1>18, <1>19 DEF BalancerNext, PutStep, ClientStep, CloseStep

\* The handlers of a close are counted before the first of them runs.
LEMMA RunningStep ==
  ASSUME BalancerTypeOK, Aligned, RingType, CallType, SockType, CopyType, PastType, Running,
         [BalancerNext]_balancerVars
  PROVE  Running'
<1>1. ASSUME NEW p \in Puts, GetForPut(p) PROVE Running'
  BY <1>1 DEF GetForPut, Running, ringVars, memberVars, endVars
<1>2. ASSUME NEW p \in Puts, PutAppend(p) PROVE Running'
  BY <1>2 DEF PutAppend, Running, ringVars, memberVars
<1>3. ASSUME NEW p \in Puts, PutRegister(p) PROVE Running'
  BY <1>3 DEF PutRegister, Running
<1>4. ASSUME NEW w \in Callers, GetForNext(w) PROVE Running'
  BY <1>4 DEF GetForNext, Running, ringVars, memberVars, endVars
<1>5. ASSUME NEW w \in Callers, Next1(w) PROVE Running'
  BY <1>5 DEF Next1, Running, memberVars, endVars
<1>6. ASSUME NEW w \in Callers, Wake(w) PROVE Running'
  BY <1>6 DEF Wake, Running, ringVars, memberVars, endVars
<1>7. ASSUME NEW w \in Callers, GiveUp(w) PROVE Running'
  BY <1>7 DEF GiveUp, Running, ringVars, memberVars, endVars
<1>8. ASSUME NEW c \in Clients, Shut(c) PROVE Running'
  BY <1>8 DEF Shut, Running, SockType
<1>9. ASSUME NEW c \in Clients, ReadClosers(c) PROVE Running'
  <2>1. closers[c] \in Nat
    BY DEF SockType
  <2> QED BY <1>9, <2>1 DEF ReadClosers, Running, SockType
<1>10. ASSUME NEW c \in Clients, RunCloser(c) PROVE Running'
  <2>1. todo[c] \in Nat /\ todo[c] > 0
    BY <1>10 DEF RunCloser, SockType, Running
  <2>2. todo' = [todo EXCEPT ![c] = todo[c] - 1]
        /\ cl' = IF todo[c] = 1 THEN [cl EXCEPT ![c] = "closed"] ELSE cl
    BY <1>10 DEF RunCloser
  <2> QED BY <2>1, <2>2 DEF SockType, Running
<1>11. ASSUME NEW c \in Clients, CloseOne(c) PROVE Running'
  BY <1>11 DEF CloseOne, Shut, Running, SockType
<1>12. ASSUME CloseGroup PROVE Running'
  BY <1>12 DEF CloseGroup, Running, ringVars, callVars, memberVars
<1>13. ASSUME ReturnGroup PROVE Running'
  BY <1>13 DEF ReturnGroup, Running, ringVars, callVars, memberVars
<1>14. ASSUME TestEmpty PROVE Running'
  BY <1>14 DEF TestEmpty, Running, ringVars, callVars, memberVars
<1>15. ASSUME TakeSlice PROVE Running'
  BY <1>15 DEF TakeSlice, Running, ringVars, callVars, memberVars
<1>16. ASSUME CopyOne PROVE Running'
  BY <1>16 DEF CopyOne, Running, ringVars, callVars, memberVars
<1>17. ASSUME StartClosing PROVE Running'
  BY <1>17 DEF StartClosing, Running, ringVars, callVars, memberVars
<1>18. ASSUME AllClosed PROVE Running'
  BY <1>18 DEF AllClosed, Running, ringVars, callVars, memberVars
<1>19. ASSUME UNCHANGED balancerVars PROVE Running'
  BY <1>19 DEF Running, ringVars, callVars, memberVars, endVars, balancerVars
<1> QED BY <1>1, <1>2, <1>3, <1>4, <1>5, <1>6, <1>7, <1>8, <1>9, <1>10, <1>11, <1>12, <1>13, <1>14, <1>15,
           <1>16, <1>17, <1>18, <1>19 DEF BalancerNext, PutStep, ClientStep, CloseStep

----------------------------------------------------------------------------
(* Labels and sockets stay in step *)

\* Nobody opens a client again.
LEMMA AlignedQuiet ==
  ASSUME Aligned, UNCHANGED <<keys, slots, len, told>>, \A c \in Clients : cl'[c] = "open" => cl[c] = "open",
         told \subseteq Puts
  PROVE  Aligned'
<1>1. \A e \in told : e[2] \in Clients
  BY DEF Clients
<1> QED BY <1>1 DEF Aligned, Entries

\* The new label and the new client get the same place.
LEMMA AlignedPut ==
  ASSUME BalancerTypeOK, Aligned, NEW p \in Puts, p[1] \notin Range(keys), keys' = Append(keys, p[1]),
         slots' = Appended(p[2]), len' = len + 1, UNCHANGED <<cl, told>>
  PROVE  Aligned'
<1>1. keys \in Seq(Labels) /\ p[1] \in Labels /\ p[2] \in Clients /\ p = <<p[1], p[2]>>
  BY Given, TypeParts DEF RingType
<1>2. /\ len \in Nat /\ len <= Len(slots) /\ Len(slots) \in Nat /\ Len(keys) = len /\ DOMAIN keys = 1..len
      /\ \A i \in 1..len : <<keys[i], slots[i]>> \in Puts
  BY Members
<1>3. Len(keys') = len + 1 /\ keys'[len + 1] = p[1] /\ \A i \in 1..len : keys'[i] = keys[i]
  BY <1>1, <1>2, AppendsOne
<1>4. slots'[len + 1] = p[2] /\ \A i \in 1..len : slots'[i] = slots[i]
  BY <1>1, <1>2, Appending
<1>5. \A i \in 1..len : keys[i] # p[1]
  BY <1>2 DEF Range
<1>6. Len(keys') = len'
  BY <1>3
<1>7. ASSUME NEW i \in 1..(len + 1) PROVE <<keys'[i], slots'[i]>> \in Puts
  <2>1. CASE i = len + 1
    BY <1>1, <1>3, <1>4, <2>1
  <2>2. CASE i \in 1..len
    BY <1>2, <1>3, <1>4, <2>2
  <2> QED BY <1>2, <2>1, <2>2
<1>8. ASSUME NEW i \in 1..(len + 1), NEW j \in 1..(len + 1), keys'[i] = keys'[j] PROVE i = j
  <2>1. i \in 1..len \/ i = len + 1
    BY <1>2
  <2>2. j \in 1..len \/ j = len + 1
    BY <1>2
  <2> QED BY <1>3, <1>5, <1>8, <2>1, <2>2 DEF Aligned
<1> QED BY <1>6, <1>7, <1>8 DEF Aligned, Entries

\* Both sequences close the same gap.
LEMMA AlignedLeave ==
  ASSUME BalancerTypeOK, Aligned, NEW c \in Clients, NEW j \in 1..len, Leaves(c, j), cl[c] = "running",
         \A d \in Clients : cl'[d] = "open" => cl[d] = "open"
  PROVE  Aligned'
<1>1. /\ len \in Nat /\ len <= Len(slots) /\ Len(slots) \in Nat
      /\ \A i \in 1..len : <<keys[i], slots[i]>> \in Puts
  BY Members
<1> DEFINE o(i) == IF i < j THEN i ELSE i + 1
<1>2. ASSUME NEW i \in 1..(len - 1) PROVE o(i) \in 1..len /\ keys'[i] = keys[o(i)] /\ slots'[i] = slots[o(i)]
  <2>1. i \in 1..Len(slots) /\ (i \in j..(len - 1) <=> ~(i < j)) /\ o(i) \in 1..len
    BY <1>1
  <2>2. keys'[i] = IF i < j THEN keys[i] ELSE keys[i + 1]
    BY DEF Leaves
  <2>3. slots'[i] = IF i \in j..(len - 1) THEN slots[i + 1] ELSE slots[i]
    BY <2>1 DEF Leaves
  <2> QED BY <2>1, <2>2, <2>3
<1>3. len' = len - 1 /\ Len(keys') = len'
  BY DEF Leaves
<1>4. \A i \in 1..(len - 1) : <<keys'[i], slots'[i]>> \in Puts
  <2> HIDE DEF o
  <2> QED BY <1>1, <1>2
<1>5. ASSUME NEW i \in 1..(len - 1), NEW k \in 1..(len - 1), keys'[i] = keys'[k] PROVE i = k
  <2>1. o(i) = o(k)
    <3> HIDE DEF o
    <3> QED BY <1>2, <1>5 DEF Aligned
  <2> QED BY <1>1, <2>1
<1>6. ASSUME NEW e \in told' PROVE cl'[e[2]] # "open"
  <2>1. CASE e \in told
    <3>1. e[2] \in Clients
      BY <2>1, TypeParts DEF PastType, Clients
    <3> QED BY <2>1, <3>1 DEF Aligned
  <2>2. CASE e = <<keys[j], c>>
    BY <2>2
  <2> QED BY <2>1, <2>2 DEF Leaves
<1> QED BY <1>3, <1>4, <1>5, <1>6 DEF Aligned, Entries

\* Only PutLabel and remove touch them.
LEMMA AlignedStep ==
  ASSUME BalancerTypeOK, Aligned, [BalancerNext]_balancerVars
  PROVE  Aligned'
<1>1. ASSUME NEW p \in Puts, GetForPut(p) PROVE Aligned'
  <2>1. UNCHANGED <<keys, slots, len, told, cl>>
    BY <1>1 DEF GetForPut, ringVars, memberVars
  <2> QED BY <2>1, AlignedQuiet, TypeParts DEF PastType
<1>2. ASSUME NEW p \in Puts, PutAppend(p) PROVE Aligned'
  <2>1. CASE p[1] \in Range(keys)
    <3>1. UNCHANGED <<keys, slots, len, told, cl>>
      BY <1>2, <2>1 DEF PutAppend, ringVars, memberVars
    <3> QED BY <3>1, AlignedQuiet, TypeParts DEF PastType
  <2>2. CASE p[1] \notin Range(keys)
    <3>1. keys' = Append(keys, p[1]) /\ slots' = Appended(p[2]) /\ len' = len + 1 /\ UNCHANGED <<cl, told>>
      BY <1>2, <2>2 DEF PutAppend, memberVars
    <3> QED BY <2>2, <3>1, AlignedPut
  <2> QED BY <2>1, <2>2
<1>3. ASSUME NEW p \in Puts, PutRegister(p) PROVE Aligned'
  <2>1. UNCHANGED <<keys, slots, len, told, cl>>
    BY <1>3 DEF PutRegister
  <2> QED BY <2>1, AlignedQuiet, TypeParts DEF PastType
<1>4. ASSUME NEW w \in Callers, GetForNext(w) PROVE Aligned'
  <2>1. UNCHANGED <<keys, slots, len, told, cl>>
    BY <1>4 DEF GetForNext, ringVars, memberVars
  <2> QED BY <2>1, AlignedQuiet, TypeParts DEF PastType
<1>5. ASSUME NEW w \in Callers, Next1(w) PROVE Aligned'
  <2>1. UNCHANGED <<keys, slots, len, told, cl>>
    BY <1>5 DEF Next1, memberVars
  <2> QED BY <2>1, AlignedQuiet, TypeParts DEF PastType
<1>6. ASSUME NEW w \in Callers, Wake(w) PROVE Aligned'
  <2>1. UNCHANGED <<keys, slots, len, told, cl>>
    BY <1>6 DEF Wake, ringVars, memberVars
  <2> QED BY <2>1, AlignedQuiet, TypeParts DEF PastType
<1>7. ASSUME NEW w \in Callers, GiveUp(w) PROVE Aligned'
  <2>1. UNCHANGED <<keys, slots, len, told, cl>>
    BY <1>7 DEF GiveUp, ringVars, memberVars
  <2> QED BY <2>1, AlignedQuiet, TypeParts DEF PastType
<1>8. ASSUME NEW c \in Clients, Shut(c) PROVE Aligned'
  <2>1. UNCHANGED <<keys, slots, len, told>> /\ \A d \in Clients : cl'[d] = "open" => cl[d] = "open"
    BY <1>8, TypeParts DEF Shut, ringVars, SockType
  <2> QED BY <2>1, AlignedQuiet, TypeParts DEF PastType
<1>9. ASSUME NEW c \in Clients, ReadClosers(c) PROVE Aligned'
  <2>1. UNCHANGED <<keys, slots, len, told>> /\ \A d \in Clients : cl'[d] = "open" => cl[d] = "open"
    BY <1>9, TypeParts DEF ReadClosers, ringVars, SockType
  <2> QED BY <2>1, AlignedQuiet, TypeParts DEF PastType
<1>10. ASSUME NEW c \in Clients, RunCloser(c) PROVE Aligned'
  <2>1. cl[c] = "running" /\ \A d \in Clients : cl'[d] = "open" => cl[d] = "open"
    BY <1>10, TypeParts DEF RunCloser, SockType
  <2>2. CASE Absent(c)
    BY <2>1, <2>2, AlignedQuiet, TypeParts DEF Absent, PastType
  <2>3. ASSUME NEW j \in 1..len, Leaves(c, j) PROVE Aligned'
    BY <2>1, <2>3, AlignedLeave
  <2> QED BY <1>10, <2>2, <2>3, Removing
<1>11. ASSUME NEW c \in Clients, CloseOne(c) PROVE Aligned'
  <2>1. UNCHANGED <<keys, slots, len, told>> /\ \A d \in Clients : cl'[d] = "open" => cl[d] = "open"
    BY <1>11, TypeParts DEF CloseOne, Shut, ringVars, SockType
  <2> QED BY <2>1, AlignedQuiet, TypeParts DEF PastType
<1>12. ASSUME CloseGroup PROVE Aligned'
  <2>1. UNCHANGED <<keys, slots, len, told, cl>>
    BY <1>12 DEF CloseGroup, ringVars, memberVars
  <2> QED BY <2>1, AlignedQuiet, TypeParts DEF PastType
<1>13. ASSUME ReturnGroup PROVE Aligned'
  <2>1. UNCHANGED <<keys, slots, len, told, cl>>
    BY <1>13 DEF ReturnGroup, ringVars, memberVars
  <2> QED BY <2>1, AlignedQuiet, TypeParts DEF PastType
<1>14. ASSUME TestEmpty PROVE Aligned'
  <2>1. UNCHANGED <<keys, slots, len, told, cl>>
    BY <1>14 DEF TestEmpty, ringVars, memberVars
  <2> QED BY <2>1, AlignedQuiet, TypeParts DEF PastType
<1>15. ASSUME TakeSlice PROVE Aligned'
  <2>1. UNCHANGED <<keys, slots, len, told, cl>>
    BY <1>15 DEF TakeSlice, ringVars, memberVars
  <2> QED BY <2>1, AlignedQuiet, TypeParts DEF PastType
<1>16. ASSUME CopyOne PROVE Aligned'
  <2>1. UNCHANGED <<keys, slots, len, told, cl>>
    BY <1>16 DEF CopyOne, ringVars, memberVars
  <2> QED BY <2>1, AlignedQuiet, TypeParts DEF PastType
<1>17. ASSUME StartClosing PROVE Aligned'
  <2>1. UNCHANGED <<keys, slots, len, told, cl>>
    BY <1>17 DEF StartClosing, ringVars, memberVars
  <2> QED BY <2>1, AlignedQuiet, TypeParts DEF PastType
<1>18. ASSUME AllClosed PROVE Aligned'
  <2>1. UNCHANGED <<keys, slots, len, told, cl>>
    BY <1>18 DEF AllClosed, ringVars, memberVars
  <2> QED BY <2>1, AlignedQuiet, TypeParts DEF PastType
<1>19. ASSUME UNCHANGED balancerVars PROVE Aligned'
  <2>1. UNCHANGED <<keys, slots, len, told, cl>>
    BY <1>19 DEF ringVars, memberVars, balancerVars
  <2> QED BY <2>1, AlignedQuiet, TypeParts DEF PastType
<1> QED BY <1>1, <1>2, <1>3, <1>4, <1>5, <1>6, <1>7, <1>8, <1>9, <1>10, <1>11, <1>12, <1>13, <1>14, <1>15,
           <1>16, <1>17, <1>18, <1>19 DEF BalancerNext, PutStep, ClientStep, CloseStep

----------------------------------------------------------------------------
(* What Balancer.Close copies *)

\* An append leaves what is being copied as it is.
LEMMA FromAppends ==
  ASSUME BalancerTypeOK, Copying, NEW c \in Clients, slots' = Appended(c), size' = size,
         view' = IF len = Len(slots) /\ size > 0 /\ view = OwnArray THEN slots ELSE view
  PROVE  /\ size <= Len(From') /\ \A i \in 1..size : From'[i] \in Clients
         /\ size <= len => \A i \in 1..size : From'[i] = From[i]
<1>1. /\ len \in Nat /\ len <= Len(slots) /\ Len(slots) \in Nat /\ size \in Nat
      /\ Len(slots') \in Nat /\ Len(slots) <= Len(slots') /\ slots'[len + 1] = c
      /\ \A i \in 1..Len(slots) : i # len + 1 => slots'[i] = slots[i]
  BY Appending DEF BalancerTypeOK
<1>2. size <= Len(From) /\ \A i \in 1..size : From[i] \in Clients
  BY DEF Copying
<1>3. CASE view # OwnArray
  BY <1>2, <1>3 DEF From
<1>4. CASE view = OwnArray /\ size > 0 /\ len = Len(slots)
  <2>1. slots # OwnArray
    <3>1. size <= Len(slots) /\ size > 0 /\ Len(slots) \in Nat /\ size \in Nat
      BY <1>1, <1>2, <1>4 DEF From
    <3>2. Len(<<>>) = 0
      OBVIOUS
    <3> QED BY <3>1, <3>2 DEF OwnArray
  <2> QED BY <1>2, <1>4, <2>1 DEF From
<1>5. CASE view = OwnArray /\ ~(size > 0 /\ len = Len(slots))
  <2>1. From = slots /\ From' = slots'
    BY <1>5 DEF From
  <2>2. \A i \in 1..size : i \in 1..Len(slots)
    BY <1>1, <1>2, <2>1
  <2>3. ASSUME NEW i \in 1..size PROVE slots'[i] \in Clients
    BY <1>1, <1>2, <2>1, <2>2
  <2>4. ASSUME size <= len, NEW i \in 1..size PROVE slots'[i] = slots[i]
    BY <1>1, <2>2, <2>4
  <2> QED BY <1>1, <1>2, <2>1, <2>3, <2>4
<1> QED BY <1>3, <1>4, <1>5

\* What remove shifts under the copy are clients all the same.
LEMMA FromLeaves ==
  ASSUME BalancerTypeOK, Aligned, Copying, NEW c \in Clients, NEW j \in 1..len, Leaves(c, j),
         UNCHANGED <<view, size>>
  PROVE  size <= Len(From') /\ \A i \in 1..size : From'[i] \in Clients
<1>1. size <= Len(From) /\ (\A i \in 1..size : From[i] \in Clients) /\ size \in Nat
  BY DEF Copying, BalancerTypeOK
<1>2. CASE view # OwnArray
  BY <1>1, <1>2 DEF From
<1>3. CASE view = OwnArray
  <2>1. From = slots /\ From' = slots' /\ Len(slots') = Len(slots)
    BY <1>3 DEF From, Leaves
  <2>2. len \in Nat /\ Len(slots) \in Nat /\ len <= Len(slots) /\ \A i \in 1..len : slots[i] \in Clients
    BY Members
  <2>3. ASSUME NEW i \in 1..size PROVE slots'[i] \in Clients
    <3>1. slots'[i] = IF i \in j..(len - 1) THEN slots[i + 1] ELSE slots[i]
      BY <1>1, <2>1, <2>2 DEF Leaves
    <3>2. i \in j..(len - 1) => i + 1 \in 1..len
      BY <2>2
    <3> QED BY <1>1, <2>1, <2>2, <3>1, <3>2
  <2> QED BY <1>1, <2>1, <2>3
<1> QED BY <1>2, <1>3

\* A step that leaves the slots alone, or only makes more of them the balancer's.
LEMMA CopyQuiet ==
  ASSUME Copying, Copy, UNCHANGED <<gpc, bpc, view, size, clone, slots, atClose, torn>>, len <= len',
         BalancerTypeOK, BalancerTypeOK'
  PROVE  Copying' /\ Copy'
<1>1. From' = From /\ size \in Nat /\ len \in Nat /\ len' \in Nat
  BY DEF From, BalancerTypeOK
<1>2. Copying'
  BY <1>1 DEF Copying
<1>3. Copy'
  BY <1>1 DEF Copy
<1> QED BY <1>2, <1>3

\* The copy starts with nothing copied.
LEMMA CopyTakes ==
  ASSUME BalancerTypeOK, Aligned, Copying, Copy, TakeSlice
  PROVE  Copying' /\ Copy'
<1>1. bpc = "slicing" /\ bpc' = "copying" /\ size' = len /\ atClose' = Range(Sockets)
      /\ UNCHANGED <<gpc, view, clone, slots, len>>
  BY DEF TakeSlice, ringVars
<1>2. view = OwnArray /\ clone = <<>>
  BY <1>1 DEF Copying, Copy, Closing
<1>3. From' = slots /\ len \in Nat /\ len <= Len(slots) /\ (\A i \in 1..len : slots[i] \in Clients)
      /\ Len(<<>>) = 0
  BY <1>1, <1>2, Members DEF From
<1>4. gpc # "idle"
  BY <1>1 DEF Copying
<1>5. Copying'
  BY <1>1, <1>2, <1>3, <1>4 DEF Copying
<1>6. \A c \in atClose' : \E i \in 1..len : slots[i] = c
  BY <1>1, Slice
<1>7. Copy'
  BY <1>1, <1>2, <1>3, <1>6 DEF Copy, Closing
<1> QED BY <1>5, <1>7

\* One more socket of the slice is in the copy.
LEMMA CopyCopies ==
  ASSUME BalancerTypeOK, Copying, Copy, CopyOne
  PROVE  Copying' /\ Copy'
<1>1. /\ bpc = "copying" /\ clone' = Append(clone, From[Len(clone) + 1]) /\ From[Len(clone) + 1] \in Clients
      /\ clone \in Seq(Clients) /\ Len(clone) < size /\ size \in Nat
  BY CopiesClient DEF BalancerTypeOK
<1>2. UNCHANGED <<gpc, bpc, view, size, slots, len, atClose, torn>> /\ From' = From
  BY DEF CopyOne, ringVars, From
<1>3. Len(clone') = Len(clone) + 1 /\ clone'[Len(clone) + 1] = From[Len(clone) + 1]
      /\ Len(clone) \in Nat /\ \A i \in 1..Len(clone) : clone'[i] = clone[i]
  BY <1>1, AppendsOne
<1>4. Copying'
  BY <1>1, <1>2, <1>3 DEF Copying
<1>5. Copy'
  <2>1. ASSUME ~torn, NEW i \in 1..Len(clone') PROVE clone'[i] = From[i]
    <3>1. i = Len(clone) + 1 \/ i \in 1..Len(clone)
      BY <1>3
    <3> QED BY <1>1, <1>3, <2>1, <3>1 DEF Copy
  <2> QED BY <1>1, <1>2, <2>1 DEF Copy, Closing
<1> QED BY <1>4, <1>5

\* Through appends and leaves, the copy is a copy of the slice that Close took.
LEMMA CopyingStep ==
  ASSUME BalancerTypeOK, BalancerTypeOK', Aligned, Copying, Copy, [BalancerNext]_balancerVars
  PROVE  Copying' /\ Copy'
<1>1. ASSUME NEW p \in Puts, GetForPut(p) PROVE Copying' /\ Copy'
  <2>1. UNCHANGED <<gpc, bpc, view, size, clone, slots, atClose, torn, len>>
    BY <1>1 DEF GetForPut, ringVars, endVars
  <2>2. len <= len'
    BY <2>1 DEF BalancerTypeOK
  <2> QED BY <2>1, <2>2, CopyQuiet
<1>2. ASSUME NEW p \in Puts, PutAppend(p) PROVE Copying' /\ Copy'
  <2>0. UNCHANGED <<gpc, bpc, size, clone, atClose, torn>>
    BY <1>2 DEF PutAppend
  <2>1. CASE p[1] \in Range(keys)
    <3>1. UNCHANGED <<view, slots, len>>
      BY <1>2, <2>1 DEF PutAppend, ringVars
    <3>2. len <= len'
      BY <3>1 DEF BalancerTypeOK
    <3> QED BY <2>0, <3>1, <3>2, CopyQuiet
  <2>2. CASE p[1] \notin Range(keys)
    <3>1. /\ slots' = Appended(p[2]) /\ len' = len + 1 /\ p[2] \in Clients
          /\ view' = IF len = Len(slots) /\ size > 0 /\ view = OwnArray THEN slots ELSE view
      BY <1>2, <2>2, Given DEF PutAppend
    <3>2. /\ size <= Len(From') /\ \A i \in 1..size : From'[i] \in Clients
          /\ size <= len => \A i \in 1..size : From'[i] = From[i]
      BY <2>0, <3>1, FromAppends
    <3>3. len \in Nat /\ size \in Nat /\ (size = 0 => view' = view)
      BY <3>1 DEF BalancerTypeOK
    <3>4. Copying'
      BY <2>0, <3>2, <3>3 DEF Copying
    <3>5. Copy'
      <4>1. ASSUME bpc = "copying", ~torn
            PROVE /\ size <= len' /\ (\A c \in atClose : \E i \in 1..size : From'[i] = c)
                  /\ \A i \in 1..Len(clone) : clone[i] = From'[i]
        <5>1. /\ size <= len /\ (\A c \in atClose : \E i \in 1..size : From[i] = c)
              /\ (\A i \in 1..Len(clone) : clone[i] = From[i]) /\ Len(clone) <= size
          BY <4>1 DEF Copy, Copying
        <5>2. \A i \in 1..Len(clone) : i \in 1..size
          BY <3>3, <5>1
        <5> QED BY <3>1, <3>2, <3>3, <5>1, <5>2
      <4> QED BY <2>0, <4>1 DEF Copy, Closing
    <3> QED BY <3>4, <3>5
  <2> QED BY <2>1, <2>2
<1>3. ASSUME NEW p \in Puts, PutRegister(p) PROVE Copying' /\ Copy'
  <2>1. UNCHANGED <<gpc, bpc, view, size, clone, slots, atClose, torn, len>>
    BY <1>3 DEF PutRegister, endVars
  <2>2. len <= len'
    BY <2>1 DEF BalancerTypeOK
  <2> QED BY <2>1, <2>2, CopyQuiet
<1>4. ASSUME NEW w \in Callers, GetForNext(w) PROVE Copying' /\ Copy'
  <2>1. UNCHANGED <<gpc, bpc, view, size, clone, slots, atClose, torn, len>>
    BY <1>4 DEF GetForNext, ringVars, endVars
  <2>2. len <= len'
    BY <2>1 DEF BalancerTypeOK
  <2> QED BY <2>1, <2>2, CopyQuiet
<1>5. ASSUME NEW w \in Callers, Next1(w) PROVE Copying' /\ Copy'
  <2>1. UNCHANGED <<gpc, bpc, view, size, clone, slots, atClose, torn, len>>
    BY <1>5 DEF Next1, endVars
  <2>2. len <= len'
    BY <2>1 DEF BalancerTypeOK
  <2> QED BY <2>1, <2>2, CopyQuiet
<1>6. ASSUME NEW w \in Callers, Wake(w) PROVE Copying' /\ Copy'
  <2>1. UNCHANGED <<gpc, bpc, view, size, clone, slots, atClose, torn, len>>
    BY <1>6 DEF Wake, ringVars, endVars
  <2>2. len <= len'
    BY <2>1 DEF BalancerTypeOK
  <2> QED BY <2>1, <2>2, CopyQuiet
<1>7. ASSUME NEW w \in Callers, GiveUp(w) PROVE Copying' /\ Copy'
  <2>1. UNCHANGED <<gpc, bpc, view, size, clone, slots, atClose, torn, len>>
    BY <1>7 DEF GiveUp, ringVars, endVars
  <2>2. len <= len'
    BY <2>1 DEF BalancerTypeOK
  <2> QED BY <2>1, <2>2, CopyQuiet
<1>8. ASSUME NEW c \in Clients, Shut(c) PROVE Copying' /\ Copy'
  <2>1. UNCHANGED <<gpc, bpc, view, size, clone, slots, atClose, torn, len>>
    BY <1>8 DEF Shut, ringVars, endVars
  <2>2. len <= len'
    BY <2>1 DEF BalancerTypeOK
  <2> QED BY <2>1, <2>2, CopyQuiet
<1>9. ASSUME NEW c \in Clients, ReadClosers(c) PROVE Copying' /\ Copy'
  <2>1. UNCHANGED <<gpc, bpc, view, size, clone, slots, atClose, torn, len>>
    BY <1>9 DEF ReadClosers, ringVars, endVars
  <2>2. len <= len'
    BY <2>1 DEF BalancerTypeOK
  <2> QED BY <2>1, <2>2, CopyQuiet
<1>10. ASSUME NEW c \in Clients, RunCloser(c) PROVE Copying' /\ Copy'
  <2>0. UNCHANGED <<gpc, bpc, view, size, clone, atClose>>
    BY <1>10 DEF RunCloser, endVars
  <2>1. CASE Absent(c)
    <3>1. len <= len'
      BY <2>1 DEF BalancerTypeOK, Absent
    <3> QED BY <2>0, <2>1, <3>1, CopyQuiet DEF Absent
  <2>2. ASSUME NEW j \in 1..len, Leaves(c, j) PROVE Copying' /\ Copy'
    <3>1. Copying'
      <4>1. size <= Len(From') /\ \A i \in 1..size : From'[i] \in Clients
        BY <2>0, <2>2, FromLeaves
      <4> QED BY <2>0, <4>1 DEF Copying
    <3>2. torn' = (torn \/ bpc = "copying")
      BY <2>2 DEF Leaves
    <3>3. Copy'
      BY <2>0, <3>2 DEF Copy, Closing
    <3> QED BY <3>1, <3>3
  <2> QED BY <1>10, <2>1, <2>2, Removing
<1>11. ASSUME NEW c \in Clients, CloseOne(c) PROVE Copying' /\ Copy'
  <2>1. UNCHANGED <<gpc, bpc, view, size, clone, slots, atClose, torn, len>>
    BY <1>11 DEF CloseOne, Shut, ringVars, endVars
  <2>2. len <= len'
    BY <2>1 DEF BalancerTypeOK
  <2> QED BY <2>1, <2>2, CopyQuiet
<1>12. ASSUME CloseGroup PROVE Copying' /\ Copy'
  <2>1. bpc = "idle" /\ bpc' \in {"testing", "returned"} /\ UNCHANGED <<view, size, clone, slots, atClose>>
        /\ gpc' = "closing"
    BY <1>12 DEF CloseGroup, ringVars, Copying
  <2>2. size = 0 /\ view = OwnArray /\ From' = From
    BY <2>1 DEF Copying, From
  <2> QED BY <2>1, <2>2 DEF Copying, Copy, Closing
<1>13. ASSUME ReturnGroup PROVE Copying' /\ Copy'
  <2>1. UNCHANGED <<bpc, view, size, clone, slots, atClose, torn, len>> /\ gpc' = "returned" /\ From' = From
    BY <1>13 DEF ReturnGroup, ringVars, From
  <2>2. bpc = "returned"
    BY <1>13 DEF ReturnGroup
  <2> QED BY <2>1, <2>2 DEF Copying, Copy, Closing
<1>14. ASSUME TestEmpty PROVE Copying' /\ Copy'
  <2>1. bpc = "testing" /\ bpc' \in {"slicing", "returned"}
        /\ UNCHANGED <<gpc, view, size, clone, slots, atClose>> /\ From' = From
    BY <1>14 DEF TestEmpty, ringVars, From
  <2> QED BY <2>1 DEF Copying, Copy, Closing
<1>15. ASSUME TakeSlice PROVE Copying' /\ Copy'
  BY <1>15, CopyTakes
<1>16. ASSUME CopyOne PROVE Copying' /\ Copy'
  BY <1>16, CopyCopies
<1>17. ASSUME StartClosing PROVE Copying' /\ Copy'
  <2>1. /\ bpc = "copying" /\ bpc' = "closing" /\ size' = 0 /\ view' = OwnArray
        /\ UNCHANGED <<gpc, clone, slots, atClose, torn>>
        /\ Len(clone) = size
    BY <1>17 DEF StartClosing, Copied, ringVars
  <2>2. From' = slots /\ Len(slots) \in Nat /\ clone \in Seq(Clients)
    BY <2>1 DEF From, BalancerTypeOK
  <2>3. ~torn => atClose \subseteq Range(clone)
    <3>1. ASSUME ~torn, NEW c \in atClose PROVE c \in Range(clone)
      <4>1. PICK i \in 1..size : From[i] = c
        BY <2>1, <3>1 DEF Copy
      <4>2. i \in DOMAIN clone /\ clone[i] = c
        BY <2>1, <2>2, <3>1, <4>1 DEF Copy
      <4> QED BY <4>2 DEF Range
    <3> QED BY <3>1
  <2>4. gpc # "idle"
    BY <2>1 DEF Copying
  <2>5. Copying'
    BY <2>1, <2>2, <2>4 DEF Copying
  <2>6. Copy'
    BY <2>1, <2>3 DEF Copy, Closing
  <2> QED BY <2>5, <2>6
<1>18. ASSUME AllClosed PROVE Copying' /\ Copy'
  <2>1. bpc = "closing" /\ bpc' = "returned" /\ clone' = <<>> /\ atClose' = {}
        /\ UNCHANGED <<gpc, view, size, slots>> /\ From' = From
    BY <1>18 DEF AllClosed, ringVars, From
  <2> QED BY <2>1 DEF Copying, Copy, Closing
<1>19. ASSUME UNCHANGED balancerVars PROVE Copying' /\ Copy'
  <2>1. UNCHANGED <<gpc, bpc, view, size, clone, slots, atClose, torn, len>>
    BY <1>19 DEF ringVars, endVars, balancerVars
  <2>2. len <= len'
    BY <2>1 DEF BalancerTypeOK
  <2> QED BY <2>1, <2>2, CopyQuiet
<1> QED BY <1>1, <1>2, <1>3, <1>4, <1>5, <1>6, <1>7, <1>8, <1>9, <1>10, <1>11, <1>12, <1>13, <1>14, <1>15,
           <1>16, <1>17, <1>18, <1>19 DEF BalancerNext, PutStep, ClientStep, CloseStep

----------------------------------------------------------------------------
(* Turns *)

\* Two numbers with one remainder are as far apart as the divisor, or equal.
LEMMA SameRemainder ==
  ASSUME NEW n \in Nat \ {0}, NEW a \in Nat, NEW b \in Nat, a % n = b % n, a <= b, b - a < n
  PROVE  a = b
<1> DEFINE p == a \div n  q == b \div n  d == q - p
<1>1. p \in Int /\ q \in Int /\ a = n * p + (a % n) /\ b = n * q + (b % n) /\ a % n \in Int /\ b % n \in Int
  OBVIOUS
<1> HIDE DEF p, q
<1>2. d \in Int /\ n * q - n * p = n * d
  BY <1>1
<1>3. b - a = n * d
  <2> DEFINE x == n * p  y == n * q  r == a % n
  <2>1. x \in Int /\ y \in Int /\ r \in Int /\ a = x + r /\ b = y + r /\ y - x = n * d
    BY <1>1, <1>2
  <2> HIDE DEF x, y, r
  <2> QED BY <2>1
<1> HIDE DEF d
<1>4. d >= 1 => n * d >= n
  BY <1>2
<1>5. d < 0 => n * d < 0
  BY <1>2
<1> QED BY <1>2, <1>3, <1>4, <1>5

LEMMA TurnsQuiet ==
  ASSUME BalancerTypeOK, Turns, UNCHANGED <<seq, len, round>>
  PROVE  Turns'
  BY DEF Turns

\* Whoever comes or goes starts a new round.
LEMMA TurnsNone ==
  ASSUME BalancerTypeOK', round' = <<>>
  PROVE  Turns'
<1>1. Len(<<>>) = 0 /\ len' \in Nat /\ seq' \in Nat
  BY DEF BalancerTypeOK
<1>2. Len(round') = 0
  BY <1>1
<1>3. Len(round') <= len' /\ Len(round') <= seq' + 1
  <2> DEFINE n == Len(round')  m == len'  s == seq'
  <2>1. n = 0 /\ m \in Nat /\ s \in Nat
    BY <1>1, <1>2
  <2> HIDE DEF n, m, s
  <2>2. n <= m /\ n <= s + 1
    BY <2>1
  <2> QED BY <2>2 DEF n, m, s
<1>4. 1..Len(round') = {}
  BY <1>2
<1> QED BY <1>3, <1>4 DEF Turns

\* A call of Next gives the remainder of the next value of seq.
LEMMA TurnsNext ==
  ASSUME BalancerTypeOK, Turns, NEW w \in Callers, Next1(w), len > 0
  PROVE  Turns'
<1> DEFINE s == (seq + 1) % SeqValues
           i == s % len
           past == IF s = 0 THEN <<>> ELSE round
           all == Append(past, i)
<1>1. seq \in 0..(SeqValues - 1) /\ SeqValues \in Nat \ {0} /\ len \in Nat /\ round \in Seq(Nat)
      /\ Len(round) \in Nat
  BY Given DEF BalancerTypeOK
<1>2. s \in Nat /\ (s = 0 \/ s = seq + 1)
  <2>1. CASE seq + 1 = SeqValues
    BY <1>1, <2>1
  <2>2. CASE seq + 1 < SeqValues
    BY <1>1, <2>2
  <2> QED BY <1>1, <2>1, <2>2
<1>3. seq' = s /\ len' = len /\ round' = IF Len(all) > len THEN Tail(all) ELSE all
  BY DEF Next1, Turn
<1> HIDE DEF s
<1>4. i \in Nat
  BY <1>1, <1>2
<1>5. i = (s - 0) % len
  BY <1>2
<1> HIDE DEF i
<1>6. CASE s = 0
  <2>1. all = <<i>> /\ Len(all) = 1 /\ all[1] = i
    BY <1>4, <1>6
  <2>2. round' = <<i>> /\ Len(round') = 1 /\ round'[1] = i
    BY <1>1, <1>3, <2>1
  <2>3. ASSUME NEW k \in 1..Len(round') PROVE round'[k] = (s - (Len(round') - k)) % len
    <3>1. k = 1 /\ Len(round') - k = 0
      BY <2>2, <2>3
    <3> QED BY <1>5, <2>2, <3>1
  <2>4. Len(round') <= len /\ Len(round') <= s + 1
    BY <1>1, <1>6, <2>2
  <2> QED BY <1>3, <2>3, <2>4 DEF Turns
<1>7. CASE s # 0
  <2>1. s = seq + 1 /\ past = round
    BY <1>2, <1>7
  <2>2. /\ all \in Seq(Nat) /\ Len(all) = Len(round) + 1 /\ all[Len(round) + 1] = i
        /\ \A k \in 1..Len(round) : all[k] = round[k]
    BY <1>1, <1>4, <2>1, AppendsOne
  <2>3. ASSUME NEW k \in 1..(Len(round) + 1) PROVE all[k] = (s - (Len(round) + 1 - k)) % len
    <3>1. CASE k = Len(round) + 1
      <4>1. Len(round) + 1 - k = 0
        BY <1>1, <3>1
      <4> QED BY <1>5, <2>2, <3>1, <4>1
    <3>2. CASE k \in 1..Len(round)
      <4>1. s - (Len(round) + 1 - k) = seq - (Len(round) - k)
        BY <1>1, <2>1, <3>2
      <4>2. all[k] = (seq - (Len(round) - k)) % len
        BY <2>2, <3>2 DEF Turns
      <4> QED BY <4>1, <4>2
    <3>3. k = Len(round) + 1 \/ k \in 1..Len(round)
      BY <1>1
    <3> QED BY <3>1, <3>2, <3>3
  <2>4. Len(round) <= len /\ Len(round) <= seq + 1
    BY DEF Turns
  <2> HIDE DEF all
  <2>5. CASE Len(all) > len
    <3>1. round' = Tail(all) /\ Len(round) = len /\ all # <<>>
      BY <1>1, <1>3, <2>2, <2>4, <2>5
    <3>2. Len(round') = len /\ \A k \in 1..len : round'[k] = all[k + 1]
      BY <1>1, <2>2, <3>1
    <3>3. ASSUME NEW k \in 1..len PROVE round'[k] = (s - (len - k)) % len
      <4>1. k + 1 \in 1..(Len(round) + 1) /\ Len(round) + 1 - (k + 1) = len - k
        BY <1>1, <3>1
      <4> QED BY <2>3, <3>2, <4>1
    <3>4. len <= s + 1
      BY <1>1, <2>1, <2>4, <3>1
    <3>5. \A k \in 1..Len(round') : round'[k] = (seq' - (Len(round') - k)) % len'
      BY <1>3, <3>2, <3>3
    <3>6. Len(round') <= len' /\ Len(round') <= seq' + 1
      BY <1>1, <1>3, <3>2, <3>4
    <3> QED BY <3>5, <3>6 DEF Turns
  <2>6. CASE ~(Len(all) > len)
    <3>1. round' = all /\ Len(round') = Len(round) + 1 /\ Len(round) + 1 <= len /\ Len(round) + 1 <= s + 1
      BY <1>1, <1>3, <2>1, <2>2, <2>4, <2>6
    <3> QED BY <1>3, <2>3, <3>1 DEF Turns
  <2> QED BY <2>5, <2>6
<1> QED BY <1>6, <1>7

\* No other step gives a client.
LEMMA TurnsStep ==
  ASSUME BalancerTypeOK, BalancerTypeOK', Aligned, Turns, [BalancerNext]_balancerVars
  PROVE  Turns'
<1>1. ASSUME NEW p \in Puts, GetForPut(p) PROVE Turns'
  <2>1. UNCHANGED <<seq, len, round>>
    BY <1>1 DEF GetForPut, ringVars
  <2> QED BY <2>1, TurnsQuiet
<1>2. ASSUME NEW p \in Puts, PutAppend(p) PROVE Turns'
  <2>1. UNCHANGED <<seq, len, round>> \/ round' = <<>>
    BY <1>2 DEF PutAppend, ringVars
  <2> QED BY <2>1, TurnsQuiet, TurnsNone
<1>3. ASSUME NEW p \in Puts, PutRegister(p) PROVE Turns'
  <2>1. UNCHANGED <<seq, len, round>>
    BY <1>3 DEF PutRegister
  <2> QED BY <2>1, TurnsQuiet
<1>4. ASSUME NEW w \in Callers, GetForNext(w) PROVE Turns'
  <2>1. UNCHANGED <<seq, len, round>>
    BY <1>4 DEF GetForNext, ringVars
  <2> QED BY <2>1, TurnsQuiet
<1>5. ASSUME NEW w \in Callers, Next1(w) PROVE Turns'
  <2>1. len' = len /\ (len > 0 \/ UNCHANGED <<seq, round>>)
    BY <1>5 DEF Next1
  <2> QED BY <1>5, <2>1, TurnsQuiet, TurnsNext
<1>6. ASSUME NEW w \in Callers, Wake(w) PROVE Turns'
  <2>1. UNCHANGED <<seq, len, round>>
    BY <1>6 DEF Wake, ringVars
  <2> QED BY <2>1, TurnsQuiet
<1>7. ASSUME NEW w \in Callers, GiveUp(w) PROVE Turns'
  <2>1. UNCHANGED <<seq, len, round>>
    BY <1>7 DEF GiveUp, ringVars
  <2> QED BY <2>1, TurnsQuiet
<1>8. ASSUME NEW c \in Clients, Shut(c) PROVE Turns'
  <2>1. UNCHANGED <<seq, len, round>>
    BY <1>8 DEF Shut, ringVars
  <2> QED BY <2>1, TurnsQuiet
<1>9. ASSUME NEW c \in Clients, ReadClosers(c) PROVE Turns'
  <2>1. UNCHANGED <<seq, len, round>>
    BY <1>9 DEF ReadClosers, ringVars
  <2> QED BY <2>1, TurnsQuiet
<1>10. ASSUME NEW c \in Clients, RunCloser(c) PROVE Turns'
  <2>1. seq' = seq
    BY <1>10 DEF RunCloser
  <2>2. CASE Absent(c)
    BY <2>1, <2>2, TurnsQuiet DEF Absent
  <2>3. ASSUME NEW j \in 1..len, Leaves(c, j) PROVE Turns'
    BY <2>3, TurnsNone DEF Leaves
  <2> QED BY <1>10, <2>2, <2>3, Removing
<1>11. ASSUME NEW c \in Clients, CloseOne(c) PROVE Turns'
  <2>1. UNCHANGED <<seq, len, round>>
    BY <1>11 DEF CloseOne, Shut, ringVars
  <2> QED BY <2>1, TurnsQuiet
<1>12. ASSUME CloseGroup PROVE Turns'
  <2>1. UNCHANGED <<seq, len, round>>
    BY <1>12 DEF CloseGroup, ringVars
  <2> QED BY <2>1, TurnsQuiet
<1>13. ASSUME ReturnGroup PROVE Turns'
  <2>1. UNCHANGED <<seq, len, round>>
    BY <1>13 DEF ReturnGroup, ringVars
  <2> QED BY <2>1, TurnsQuiet
<1>14. ASSUME TestEmpty PROVE Turns'
  <2>1. UNCHANGED <<seq, len, round>>
    BY <1>14 DEF TestEmpty, ringVars
  <2> QED BY <2>1, TurnsQuiet
<1>15. ASSUME TakeSlice PROVE Turns'
  <2>1. UNCHANGED <<seq, len, round>>
    BY <1>15 DEF TakeSlice, ringVars
  <2> QED BY <2>1, TurnsQuiet
<1>16. ASSUME CopyOne PROVE Turns'
  <2>1. UNCHANGED <<seq, len, round>>
    BY <1>16 DEF CopyOne, ringVars
  <2> QED BY <2>1, TurnsQuiet
<1>17. ASSUME StartClosing PROVE Turns'
  <2>1. UNCHANGED <<seq, len, round>>
    BY <1>17 DEF StartClosing, ringVars
  <2> QED BY <2>1, TurnsQuiet
<1>18. ASSUME AllClosed PROVE Turns'
  <2>1. UNCHANGED <<seq, len, round>>
    BY <1>18 DEF AllClosed, ringVars
  <2> QED BY <2>1, TurnsQuiet
<1>19. ASSUME UNCHANGED balancerVars PROVE Turns'
  <2>1. UNCHANGED <<seq, len, round>>
    BY <1>19 DEF ringVars, balancerVars
  <2> QED BY <2>1, TurnsQuiet
<1> QED BY <1>1, <1>2, <1>3, <1>4, <1>5, <1>6, <1>7, <1>8, <1>9, <1>10, <1>11, <1>12, <1>13, <1>14, <1>15,
           <1>16, <1>17, <1>18, <1>19 DEF BalancerNext, PutStep, ClientStep, CloseStep

----------------------------------------------------------------------------
(* What Balancer.Close promises and the turns show *)

\* Balancer.Close returns from its loop when all that it closes have closed.
ReturnsClosed == bpc \in Closing /\ bpc' = "returned" => AllClosed

LEMMA ReturnsOnce ==
  ASSUME Copying, [BalancerNext]_balancerVars
  PROVE  ReturnsClosed
<1>1. ASSUME NEW p \in Puts, GetForPut(p) PROVE ReturnsClosed
  <2>1. bpc' = bpc
    BY <1>1 DEF GetForPut, endVars
  <2> QED BY <2>1 DEF Closing, ReturnsClosed
<1>2. ASSUME NEW p \in Puts, PutAppend(p) PROVE ReturnsClosed
  <2>1. bpc' = bpc
    BY <1>2 DEF PutAppend
  <2> QED BY <2>1 DEF Closing, ReturnsClosed
<1>3. ASSUME NEW p \in Puts, PutRegister(p) PROVE ReturnsClosed
  <2>1. bpc' = bpc
    BY <1>3 DEF PutRegister, endVars
  <2> QED BY <2>1 DEF Closing, ReturnsClosed
<1>4. ASSUME NEW w \in Callers, GetForNext(w) PROVE ReturnsClosed
  <2>1. bpc' = bpc
    BY <1>4 DEF GetForNext, endVars
  <2> QED BY <2>1 DEF Closing, ReturnsClosed
<1>5. ASSUME NEW w \in Callers, Next1(w) PROVE ReturnsClosed
  <2>1. bpc' = bpc
    BY <1>5 DEF Next1, endVars
  <2> QED BY <2>1 DEF Closing, ReturnsClosed
<1>6. ASSUME NEW w \in Callers, Wake(w) PROVE ReturnsClosed
  <2>1. bpc' = bpc
    BY <1>6 DEF Wake, endVars
  <2> QED BY <2>1 DEF Closing, ReturnsClosed
<1>7. ASSUME NEW w \in Callers, GiveUp(w) PROVE ReturnsClosed
  <2>1. bpc' = bpc
    BY <1>7 DEF GiveUp, endVars
  <2> QED BY <2>1 DEF Closing, ReturnsClosed
<1>8. ASSUME NEW c \in Clients, Shut(c) PROVE ReturnsClosed
  <2>1. bpc' = bpc
    BY <1>8 DEF Shut, endVars
  <2> QED BY <2>1 DEF Closing, ReturnsClosed
<1>9. ASSUME NEW c \in Clients, ReadClosers(c) PROVE ReturnsClosed
  <2>1. bpc' = bpc
    BY <1>9 DEF ReadClosers, endVars
  <2> QED BY <2>1 DEF Closing, ReturnsClosed
<1>10. ASSUME NEW c \in Clients, RunCloser(c) PROVE ReturnsClosed
  <2>1. bpc' = bpc
    BY <1>10 DEF RunCloser, endVars
  <2> QED BY <2>1 DEF Closing, ReturnsClosed
<1>11. ASSUME NEW c \in Clients, CloseOne(c) PROVE ReturnsClosed
  <2>1. bpc' = bpc
    BY <1>11 DEF CloseOne, Shut, endVars
  <2> QED BY <2>1 DEF Closing, ReturnsClosed
<1>12. ASSUME CloseGroup PROVE ReturnsClosed
  BY <1>12, TypeParts DEF CloseGroup, Closing, Copying, ReturnsClosed
<1>13. ASSUME ReturnGroup PROVE ReturnsClosed
  <2>1. bpc' = bpc
    BY <1>13 DEF ReturnGroup
  <2> QED BY <2>1 DEF Closing, ReturnsClosed
<1>14. ASSUME TestEmpty PROVE ReturnsClosed
  BY <1>14, TypeParts DEF TestEmpty, Closing, Copying, ReturnsClosed
<1>15. ASSUME TakeSlice PROVE ReturnsClosed
  BY <1>15, TypeParts DEF TakeSlice, Closing, Copying, ReturnsClosed
<1>16. ASSUME CopyOne PROVE ReturnsClosed
  <2>1. bpc' = bpc
    BY <1>16 DEF CopyOne
  <2> QED BY <2>1 DEF Closing, ReturnsClosed
<1>17. ASSUME StartClosing PROVE ReturnsClosed
  BY <1>17, TypeParts DEF StartClosing, Closing, Copying, ReturnsClosed
<1>18. ASSUME AllClosed PROVE ReturnsClosed
  BY <1>18 DEF ReturnsClosed
<1>19. ASSUME UNCHANGED balancerVars PROVE ReturnsClosed
  <2>1. bpc' = bpc
    BY <1>19 DEF endVars, balancerVars
  <2> QED BY <2>1 DEF Closing, ReturnsClosed
<1> QED BY <1>1, <1>2, <1>3, <1>4, <1>5, <1>6, <1>7, <1>8, <1>9, <1>10, <1>11, <1>12, <1>13, <1>14, <1>15,
           <1>16, <1>17, <1>18, <1>19 DEF BalancerNext, PutStep, ClientStep, CloseStep

\* Fewer values in a row than the length have different remainders.
LEMMA TurnsEach == BalancerTypeOK /\ Turns => EachInTurn
<1> SUFFICES ASSUME BalancerTypeOK, Turns, NEW i \in 1..Len(round), NEW j \in 1..Len(round),
round[i] = round[j], i <= j
             PROVE  i = j
  <2>1. Len(round) \in Nat
    BY DEF BalancerTypeOK
  <2>2. \A i, j \in 1..Len(round) : i <= j \/ j <= i
    BY <2>1
  <2> QED BY <2>2 DEF EachInTurn
<1> DEFINE a == seq - (Len(round) - i)  b == seq - (Len(round) - j)
<1>1. Len(round) \in Nat /\ len \in Nat /\ seq \in Nat /\ Len(round) <= len /\ Len(round) <= seq + 1
  BY DEF BalancerTypeOK, Turns
<1>2. a \in Nat /\ b \in Nat /\ a <= b /\ b - a < len /\ len \in Nat \ {0} /\ (a = b => i = j)
  BY <1>1
<1>3. a % len = b % len
  BY DEF Turns
<1> HIDE DEF a, b
<1> QED BY <1>2, <1>3, SameRemainder

----------------------------------------------------------------------------
(* The invariant in every state *)

LEMMA InitIInv == BalancerInit => IInv
<1> SUFFICES ASSUME BalancerInit PROVE IInv
  OBVIOUS
<1>1. seq = 0 /\ len = 0 /\ keys = <<>> /\ slots = <<>> /\ size = 0 /\ clone = <<>> /\ view = <<>>
      /\ round = <<>>
  BY DEF BalancerInit, OwnArray
<1>2. Len(<<>>) = 0 /\ \A S : <<>> \in Seq(S)
  OBVIOUS
<1>3. BalancerTypeOK
  <2>1. RingType
    BY <1>1, <1>2, Given DEF BalancerInit, RingType
  <2>2. CallType /\ SockType
    BY DEF BalancerInit, CallType, SockType
  <2>3. CopyType
    <3>1. <<>> \in Seq(Clients \cup {Nobody}) /\ <<>> \in Seq(Clients)
      OBVIOUS
    <3>2. size \in Nat /\ view \in Seq(Clients \cup {Nobody}) /\ clone \in Seq(Clients)
      BY <1>1, <3>1
    <3>3. gpc = "idle" /\ bpc = "idle" /\ atClose = {} /\ torn = FALSE
      BY DEF BalancerInit
    <3> QED BY <3>2, <3>3 DEF CopyType
  <2>4. PastType
    BY <1>1, <1>2 DEF BalancerInit, PastType
  <2> QED BY <2>1, <2>2, <2>3, <2>4, TypeParts
<1>4. Aligned
  BY <1>1, <1>2 DEF BalancerInit, Aligned, Entries
<1>5. Running
  BY DEF BalancerInit, Running
<1>6. Copying /\ Copy
  BY <1>1, <1>2 DEF BalancerInit, Copying, Copy, From, OwnArray, Closing
<1>7. Turns
  BY <1>1, <1>2 DEF Turns
<1> QED BY <1>3, <1>4, <1>5, <1>6, <1>7 DEF IInv

LEMMA IInvStep == IInv /\ [BalancerNext]_balancerVars => IInv'
<1> SUFFICES ASSUME IInv, [BalancerNext]_balancerVars PROVE IInv'
  OBVIOUS
<1>1. BalancerTypeOK /\ Aligned /\ Running /\ Copying /\ Copy /\ Turns
  BY DEF IInv
<1>2. RingType /\ CallType /\ SockType /\ CopyType /\ PastType
  BY <1>1, TypeParts
<1>3. BalancerTypeOK'
  <2>1. RingType' /\ CallType' /\ SockType' /\ CopyType' /\ PastType'
    BY <1>1, <1>2, RingStep, CallStep, SockStep, CopyTypeStep, PastStep
  <2> QED BY <2>1, TypePartsNext
<1>4. Aligned' /\ Running' /\ Copying' /\ Copy' /\ Turns'
  BY <1>1, <1>2, <1>3, AlignedStep, RunningStep, CopyingStep, TurnsStep
<1> QED BY <1>3, <1>4 DEF IInv

\* Whichever clients come, close and leave, and whoever asks: the labels and the
\* sockets of the balancer stay in step, no label is there twice, OnLeave hears of
\* clients that closed, and while nobody comes or goes the calls of Next give each
\* client once before they give one of them again.
THEOREM AlwaysBalanced == BalancerSpec => []Balanced
<1>1. IInv => Balanced
  BY TurnsEach DEF IInv, Balanced
<1> QED BY <1>1, InitIInv, IInvStep, PTL DEF BalancerSpec

\* When Balancer.Close returns, every client it found has closed, unless one left
\* while the sockets were copied and shifted the others under the copy.
THEOREM CloseClosesAll == BalancerSpec => ClosesAll
<1> DEFINE Closes == bpc' = "returned" /\ ~torn => \A c \in atClose : cl[c] = "closed"
<1>1. ASSUME IInv, [BalancerNext]_balancerVars PROVE Closes
  <2> SUFFICES ASSUME bpc' = "returned", ~torn, NEW c \in atClose PROVE cl[c] = "closed"
    OBVIOUS
  <2>1. Copy /\ Copying
    BY <1>1 DEF IInv
  <2>2. bpc \in Closing
    BY <2>1 DEF Copy
  <2>3. AllClosed
    BY <1>1, <2>1, <2>2, ReturnsOnce DEF ReturnsClosed
  <2>4. bpc = "closing" /\ \A d \in Range(clone) : cl[d] = "closed"
    BY <2>3 DEF AllClosed
  <2> QED BY <2>1, <2>4 DEF Copy
<1>2. IInv /\ [BalancerNext]_balancerVars => [Closes]_balancerVars
  BY <1>1
<1> QED BY <1>2, InitIInv, IInvStep, PTL DEF BalancerSpec, ClosesAll

----------------------------------------------------------------------------
(* The resumable client: its types, and that it has one connection open and writes to that *)

Calls == {"none", "begin", "create", "retry", "send", "wait", "rejected",
          "attach", "assign", "close", "destroy", "done"}
Steps == {"none", "reading", "rejecting", "ending", "clear", "test", "sleep",
          "close", "done"}

\* TypeOK, with the types of the functions.
ClientTypeInv ==
  /\ hasToken \in BOOLEAN
  /\ conpc \in [Attempts -> Calls] /\ rpc \in [Attempts -> Steps]
  /\ conn \in [Attempts -> {"none", "open", "closed"}]
  /\ sent \in [Attempts -> BOOLEAN] /\ resumed \in [Attempts -> 0..2]
  /\ connects \in {"counting", "closing"} /\ once \in {"free", "running", "done"}
  /\ isReady \in BOOLEAN /\ attached \in 0..MaxTransports

\* What a connect knows of the connection with its number.
HasNone == {"none", "create", "retry"}
HasOne  == {"send", "wait", "rejected", "attach", "assign"}
Created ==
  \A i \in Attempts :
    /\ conpc[i] \in HasNone => conn[i] = "none"
    /\ conpc[i] = "begin" => conn[i] = "none" \/ connects = "closing"
    /\ conpc[i] \in HasOne => conn[i] # "none"
    /\ conn[i] # "none" => i <= MaxTransports
    /\ (rpc[i] = "none") = (conn[i] = "none")

\* A goroutine that has left Start closed its connection.
Left == {"clear", "test", "sleep", "close", "done"}
LeftIsClosed == \A i \in Attempts : rpc[i] \in Left => conn[i] = "closed"

\* What is attached was created.
AttachedExists == attached # 0 => conn[attached] # "none"

\* The connects are a chain: one begins when the goroutines of those before it
\* are done.
Chain == \A i, j \in Attempts : i < j /\ conpc[j] # "none" => rpc[i] = "done"

ClientIInv == ClientTypeInv /\ Created /\ LeftIsClosed /\ AttachedExists /\ Chain

USE DEF Calls, Steps, HasNone, HasOne, Left, duplexVars

LEMMA ClientNumbers ==
  /\ 1 \in Attempts /\ Attempts \subseteq Nat \ {0} /\ MaxTransports \in Nat
  /\ 0 \in 0..MaxTransports /\ (0..MaxTransports) \ {0} \subseteq Attempts
  /\ \A i \in Attempts : i <= MaxTransports => i + 1 \in Attempts /\ i \in 0..MaxTransports
BY ResumeClientAssumption DEF Attempts

LEMMA ClientInitIInv == ClientInit => ClientIInv
<1> SUFFICES ASSUME ClientInit PROVE ClientIInv
  OBVIOUS
<1> USE ClientNumbers DEF ClientInit
<1>1. ClientTypeInv
  <2>1. conpc \in [Attempts -> Calls]  BY SMT
  <2>2. sent \in [Attempts -> BOOLEAN] /\ resumed \in [Attempts -> 0..2]
    OBVIOUS
  <2>3. hasToken \in BOOLEAN /\ isReady \in BOOLEAN
    OBVIOUS
  <2>4. attached \in 0..MaxTransports
    OBVIOUS
  <2>5. rpc \in [Attempts -> Steps] /\ conn \in [Attempts -> {"none", "open", "closed"}]
    OBVIOUS
  <2> QED BY <2>1, <2>2, <2>3, <2>4, <2>5 DEF ClientTypeInv
<1>2. Created         BY SMT DEF Created
<1>3. LeftIsClosed    BY SMT DEF LeftIsClosed
<1>4. AttachedExists  BY SMT DEF AttachedExists
<1>5. Chain           BY SMT DEF Chain
<1> QED BY <1>1, <1>2, <1>3, <1>4, <1>5 DEF ClientIInv

\* A step that moves one connect, and neither begins nor ends its connection.
LEMMA ClientConnectStep ==
  ASSUME ClientIInv, NEW i \in Attempts, Connecting(i)
  PROVE  ClientIInv'
<1> USE ClientNumbers
    DEF ClientIInv, ClientTypeInv, Created, LeftIsClosed, AttachedExists, Chain, Connect
<1>1. CASE Inc(i)              BY <1>1, SMT DEF Inc
<1>2. CASE CreateTransport(i)
  <2>1. ClientTypeInv'           BY <1>2, SMT DEF CreateTransport
  <2>2. Created'         BY <1>2, SMTT(30) DEF CreateTransport
  <2>3. LeftIsClosed'    BY <1>2, SMT DEF CreateTransport
  <2>4. AttachedExists'  BY <1>2, SMT DEF CreateTransport
  <2>5. Chain'           BY <1>2, SMTT(30) DEF CreateTransport
  <2> QED BY <2>1, <2>2, <2>3, <2>4, <2>5
<1>3. CASE Retry(i)            BY <1>3, SMT DEF Retry
<1>4. CASE Send(i)
  <2>1. ClientTypeInv'
    <3>1. sent' \in [Attempts -> BOOLEAN]  BY <1>4 DEF Send
    <3>2. conpc' \in [Attempts -> Calls]     BY <1>4, SMT DEF Send
    <3> QED BY <1>4, <3>1, <3>2 DEF Send
  <2>2. Created'         BY <1>4, SMTT(30) DEF Send
  <2>3. LeftIsClosed'    BY <1>4, SMT DEF Send
  <2>4. AttachedExists'  BY <1>4, SMT DEF Send
  <2>5. Chain'           BY <1>4, SMTT(30) DEF Send
  <2> QED BY <2>1, <2>2, <2>3, <2>4, <2>5
<1>5. CASE Timeout(i)          BY <1>5, SMT DEF Timeout
<1>6. CASE Resumed(i)          BY <1>6, SMT DEF Resumed
<1>7. CASE Rejected(i)         BY <1>7, SMT DEF Rejected, Reader
<1>8. CASE MarkRejected(i)     BY <1>8, SMT DEF MarkRejected
<1>9. CASE SetTransport(i)     BY <1>9, SMT DEF SetTransport, Attached
<1>10. CASE AssignTransport(i) BY <1>10, SMT DEF AssignTransport, Attached
<1> QED
  BY <1>1, <1>2, <1>3, <1>4, <1>5, <1>6, <1>7, <1>8, <1>9, <1>10 DEF Connecting

LEMMA ClientReaderStep ==
  ASSUME ClientIInv, NEW i \in Attempts,
         Returning(i) \/ AcceptResume(i) \/ RejectResume(i) \/ Fatal(i) \/ EndReading(i) \/ CloseReturns(i)
  PROVE  ClientIInv'
<1> USE ClientNumbers
    DEF ClientIInv, ClientTypeInv, Created, LeftIsClosed, AttachedExists, Chain, Reader
<1>1. CASE StartReturns(i)     BY <1>1, SMT DEF StartReturns
<1>2. CASE ClearTransport(i)
  <2>1. ClientTypeInv'
    <3>1. isReady' \in BOOLEAN         BY <1>2 DEF ClearTransport
    <3>2. attached' \in 0..MaxTransports  BY <1>2 DEF ClearTransport
    <3>3. rpc' \in [Attempts -> Steps]  BY <1>2 DEF ClearTransport
    <3> QED BY <1>2, <3>1, <3>2, <3>3 DEF ClearTransport
  <2>2. Created'         BY <1>2, SMTT(30) DEF ClearTransport
  <2>3. LeftIsClosed'    BY <1>2, SMT DEF ClearTransport
  <2>4. AttachedExists'  BY <1>2, SMT DEF ClearTransport
  <2>5. Chain'           BY <1>2, SMTT(30) DEF ClearTransport
  <2> QED BY <2>1, <2>2, <2>3, <2>4, <2>5
<1>3. CASE Test(i)             BY <1>3, SMT DEF Test
<1>4. CASE Reconnect(i)
  <2>0. i + 1 \in Attempts  BY <1>4 DEF Reconnect
  <2>1. ClientTypeInv'           BY <1>4, <2>0, SMT DEF Reconnect, Connect
  <2>2. Created'         BY <1>4, SMTT(30) DEF Reconnect, Connect
  <2>3. LeftIsClosed'    BY <1>4, SMT DEF Reconnect, Connect
  <2>4. AttachedExists'  BY <1>4, SMT DEF Reconnect, Connect
  <2>5. Chain'           BY <1>4, SMTT(30) DEF Reconnect, Connect
  <2> QED BY <2>1, <2>2, <2>3, <2>4, <2>5
<1>5. CASE AcceptResume(i)           BY <1>5, SMT DEF AcceptResume
<1>6. CASE RejectResume(i)           BY <1>6, SMT DEF RejectResume
<1>7. CASE Fatal(i)            BY <1>7, SMT DEF Fatal
<1>8. CASE EndReading(i)              BY <1>8, SMT DEF EndReading
<1>9. CASE CloseReturns(i)     BY <1>9, SMT DEF CloseReturns, Connect
<1> QED
  BY <1>1, <1>2, <1>3, <1>4, <1>5, <1>6, <1>7, <1>8, <1>9 DEF Returning

LEMMA ClientCloseStep ==
  ASSUME ClientIInv, UserClose \/ SelfClose \/ Cut
  PROVE  ClientIInv'
<1> USE ClientNumbers
    DEF ClientIInv, ClientTypeInv, Created, LeftIsClosed, AttachedExists, Chain
<1>1. CASE UserClose \/ SelfClose  BY <1>1, SMT DEF UserClose, SelfClose, RunClose
<1>2. CASE Cut
  <2>1. ClientTypeInv'           BY <1>2, SMT DEF Cut
  <2>2. Created'         BY <1>2, SMTT(30) DEF Cut
  <2>3. LeftIsClosed'    BY <1>2, SMT DEF Cut
  <2>4. AttachedExists'  BY <1>2, SMT DEF Cut
  <2>5. Chain'           BY <1>2, SMTT(30) DEF Cut
  <2> QED BY <2>1, <2>2, <2>3, <2>4, <2>5
<1> QED BY <1>1, <1>2

LEMMA ClientStepIInv == ClientIInv /\ [ClientNext]_clientVars => ClientIInv'
<1> SUFFICES ASSUME ClientIInv, [ClientNext]_clientVars PROVE ClientIInv'
  OBVIOUS
<1>1. CASE ClientNext
  BY <1>1, ClientConnectStep, ClientReaderStep, ClientCloseStep DEF ClientNext
<1>2. CASE UNCHANGED clientVars
  BY <1>2 DEF clientVars, duplexVars, ClientIInv, ClientTypeInv, Created, LeftIsClosed,
              AttachedExists, Chain
<1> QED BY <1>1, <1>2

LEMMA ClientInvariance == ClientSpec => []ClientIInv
BY ClientInitIInv, ClientStepIInv, PTL DEF ClientSpec

\* The connects, the goroutines and the connections keep their types, and a
\* goroutine begins with its connection, whatever ends, times out or is closed.
THEOREM ClientTypes == ClientSpec => []ClientTypeOK
<1>1. ClientIInv => ClientTypeOK
  BY ClientNumbers, SMT DEF ClientIInv, ClientTypeInv, Created, ClientTypeOK
<1> QED BY <1>1, ClientInvariance, PTL

\* The client never has two connections open: the goroutine of a connection calls
\* the next connect only after Start has closed it.
LEMMA OneOpens == ClientIInv => OneOpen
<1> SUFFICES ASSUME ClientIInv, NEW i \in Attempts, NEW j \in Attempts, i < j,
                    conn[i] = "open", conn[j] = "open"
             PROVE  FALSE
  BY ClientNumbers, SMT DEF OneOpen
<1>1. conpc[j] # "none"   BY SMT DEF ClientIInv, Created
<1>2. rpc[i] = "done"   BY <1>1 DEF ClientIInv, Chain
<1> QED BY <1>2 DEF ClientIInv, LeftIsClosed

----------------------------------------------------------------------------
(* The connection that is open is the one attached *)

\* ready is set by a connect that attaches its connection next, and stays set
\* while the connection of a connect that has tried is open.
Placed ==
  /\ isReady => attached # 0 \/ \E k \in Attempts : conpc[k] = "assign"
  /\ \A i \in Attempts :
       conn[i] = "open" /\ (conpc[i] = "assign" \/ (conpc[i] = "done" /\ once = "free")) => isReady

\* A connection that was created and is not the open one has been closed.
LEMMA OthersClosed ==
  ASSUME ClientIInv, NEW i \in Attempts, conn[i] = "open", NEW k \in Attempts, k # i, conn[k] # "none"
  PROVE  k < i /\ conn[k] = "closed" /\ rpc[k] = "done"
<1>1. conpc[i] # "none" /\ conpc[k] # "none"
  BY DEF ClientIInv, Created
<1>2. ~(i < k)
  BY <1>1 DEF ClientIInv, Chain, LeftIsClosed
<1>3. k < i
  BY <1>2, ClientNumbers
<1>4. rpc[k] = "done"
  BY <1>1, <1>3 DEF ClientIInv, Chain
<1> QED BY <1>3, <1>4 DEF ClientIInv, LeftIsClosed

LEMMA PlacedStep ==
  ASSUME ClientIInv, Placed, [ClientNext]_clientVars
  PROVE  Placed'
<1> USE DEF ClientIInv, ClientTypeInv
<1>1. ASSUME NEW i \in Attempts, Connecting(i), ~SetTransport(i), ~AssignTransport(i)
      PROVE  Placed'
  <2>1. UNCHANGED <<isReady, attached, once>>
    BY <1>1 DEF Connecting, Inc, CreateTransport, Retry, Send, Timeout, Resumed, Rejected, MarkRejected
  <2>2. \A k \in Attempts : conpc'[k] = "assign" <=> conpc[k] = "assign"
    BY <1>1 DEF Connecting, Connect, Inc, CreateTransport, Retry, Send, Timeout, Resumed, Rejected, MarkRejected
  <2>3. ASSUME NEW k \in Attempts, conn'[k] = "open", conpc'[k] = "done"
        PROVE  conn[k] = "open" /\ conpc[k] = "done"
    BY <1>1, <2>3 DEF Created, Connecting, Connect, Inc, CreateTransport, Retry, Send, Timeout, Resumed,
       Rejected, MarkRejected
  <2>4. \A k \in Attempts : conn'[k] = "open" /\ conpc'[k] = "assign" => conn[k] = "open"
    BY <1>1 DEF Created, Connecting, Connect, Inc, CreateTransport, Retry, Send, Timeout, Resumed,
       Rejected, MarkRejected
  <2> QED BY <2>1, <2>2, <2>3, <2>4 DEF Placed
<1>2. ASSUME NEW i \in Attempts, SetTransport(i)
      PROVE  Placed'
  <2>1. isReady' = TRUE /\ attached' = attached
    BY <1>2 DEF SetTransport
  <2>2. CASE isReady
    <3>1. \A k \in Attempts : conpc[k] = "assign" => conpc'[k] = "assign"
      BY <1>2 DEF SetTransport, Connect
    <3> QED BY <2>1, <2>2, <3>1 DEF Placed
  <2>3. CASE ~isReady
    <3>1. conpc'[i] = "assign"
      BY <1>2, <2>3 DEF SetTransport, Connect
    <3> QED BY <2>1, <3>1 DEF Placed
  <2> QED BY <2>2, <2>3
<1>3. ASSUME NEW i \in Attempts, AssignTransport(i)
      PROVE  Placed'
  <2>1. attached' = i /\ i # 0 /\ UNCHANGED <<isReady, conn, once>>
    BY <1>3, ClientNumbers DEF AssignTransport
  <2>2. \A k \in Attempts : k # i => conpc'[k] = conpc[k]
    BY <1>3 DEF AssignTransport, Connect
  <2>3. conpc[i] = "assign"
    BY <1>3 DEF AssignTransport, Connect
  <2> QED BY <2>1, <2>2, <2>3 DEF Placed
<1>4. ASSUME NEW i \in Attempts, ClearTransport(i)
      PROVE  Placed'
  <2>1. rpc[i] = "clear" /\ isReady' = FALSE /\ UNCHANGED <<conpc, conn, once>>
    BY <1>4 DEF ClearTransport, Reader
  <2>2. conn[i] = "closed"
    BY <2>1 DEF LeftIsClosed
  <2>3. \A k \in Attempts : conn[k] # "open"
    BY <2>1, <2>2, OthersClosed
  <2> QED BY <2>1, <2>3 DEF Placed
<1>5. ASSUME NEW i \in Attempts,
             StartReturns(i) \/ Test(i) \/ AcceptResume(i) \/ RejectResume(i) \/ Fatal(i) \/ EndReading(i)
      PROVE  Placed'
  <2>1. UNCHANGED <<conpc, isReady, attached, once>>
    BY <1>5 DEF StartReturns, Test, AcceptResume, RejectResume, Fatal, EndReading
  <2>2. \A k \in Attempts : conn'[k] = "open" => conn[k] = "open"
    BY <1>5 DEF StartReturns, Test, AcceptResume, RejectResume, Fatal, EndReading
  <2> QED BY <2>1, <2>2 DEF Placed
<1>6. ASSUME NEW i \in Attempts, Reconnect(i)
      PROVE  Placed'
  <2>1. UNCHANGED <<conn, isReady, attached, once>>
    BY <1>6 DEF Reconnect
  <2>2. \A k \in Attempts : conpc'[k] \in {"assign", "done"} => conpc'[k] = conpc[k]
    BY <1>6 DEF Reconnect, Connect
  <2>3. \A k \in Attempts : conpc[k] \in {"assign", "done"} => conpc'[k] = conpc[k]
    BY <1>6 DEF Reconnect, Connect
  <2> QED BY <2>1, <2>2, <2>3 DEF Placed
<1>7. ASSUME NEW i \in Attempts, CloseReturns(i)
      PROVE  Placed'
  <2>1. once = "done" /\ UNCHANGED <<conn, isReady, attached, once>>
    BY <1>7 DEF CloseReturns
  <2>2. \A k \in Attempts : conpc'[k] = "assign" <=> conpc[k] = "assign"
    BY <1>7 DEF CloseReturns, Connect
  <2> QED BY <2>1, <2>2 DEF Placed
<1>8. CASE UserClose \/ SelfClose
  <2>1. UNCHANGED <<conpc, conn, isReady, attached>> /\ once = "free" /\ once' = "running"
    BY <1>8 DEF UserClose, SelfClose, RunClose, duplexVars
  <2> QED BY <2>1 DEF Placed
<1>9. CASE Cut
  <2>1. UNCHANGED <<conpc, isReady, attached>> /\ once' = "done"
    BY <1>9 DEF Cut, duplexVars
  <2>2. \A k \in Attempts : conn'[k] = "open" => conn[k] = "open"
    BY <1>9 DEF Cut
  <2> QED BY <2>1, <2>2 DEF Placed
<1>10. CASE UNCHANGED clientVars
  BY <1>10 DEF clientVars, duplexVars, Placed
<1> QED
  BY <1>1, <1>2, <1>3, <1>4, <1>5, <1>6, <1>7, <1>8, <1>9, <1>10 DEF ClientNext, Returning

\* A resumable client has one connection open, and writes to the one that was set
\* up or resumed, unless a connection that ended before SetTransport attached it
\* holds its place.
THEOREM OneLiveConnection == ClientSpec => []OneConnection
<1>1. ClientInit => Placed
  BY ClientNumbers DEF ClientInit, Placed, duplexVars
<1>2. ClientIInv /\ Placed => OneConnection
  <2> SUFFICES ASSUME ClientIInv, Placed, OneOpen
               PROVE  OneConnection
    BY OneOpens
  <2>1. ASSUME NEW i \in Attempts, once = "free", conpc[i] = "done", conn[i] = "open", attached # i
        PROVE  Stale
    <3>1. isReady
      BY <2>1 DEF Placed
    <3>2. CASE attached # 0
      <4>1. attached \in Attempts /\ conn[attached] # "none"
        BY <3>2, ClientNumbers DEF ClientIInv, ClientTypeInv, AttachedExists
      <4>2. conn[attached] = "closed"
        BY <2>1, <4>1, OthersClosed
      <4> QED BY <3>2, <4>2 DEF Stale
    <3>3. CASE \E k \in Attempts : conpc[k] = "assign"
      <4>1. PICK k \in Attempts : conpc[k] = "assign"
        BY <3>3
      <4>2. k # i /\ conn[k] # "none"
        BY <2>1, <4>1 DEF ClientIInv, Created
      <4>3. conn[k] = "closed"
        BY <2>1, <4>2, OthersClosed
      <4> QED BY <4>1, <4>3 DEF Stale
    <3> QED BY <3>1, <3>2, <3>3 DEF Placed
  <2> QED BY <2>1 DEF OneConnection
<1>3. ClientSpec => []Placed
  <2>1. ClientIInv /\ Placed /\ [ClientNext]_clientVars => Placed'
    BY PlacedStep
  <2> QED BY <1>1, <2>1, ClientInvariance, PTL DEF ClientSpec
<1> QED BY <1>2, <1>3, ClientInvariance, PTL

----------------------------------------------------------------------------
(* The server's sessions: types, which connection a socket writes to, and that sockets, *)
(* sessions, map and cleaner stay in step *)

\* The cleaner has a session in its hand when it looks at one.
HandHeld == kpc = "check" => hand # None

\* A socket is the one of the connection that set it up, whoever resumes it; and
\* a connection has none before it has set one up or found one to resume.
HeldIsOwned ==
  /\ \A c \in Conns : held[c] # None => held[held[c]] = held[c]
  /\ \A c \in Conns : cpc[c] \in {"new", "accepting"} => held[c] = None

ServerTypeInv == TypeOK /\ HandHeld
ServerIInv    == ServerTypeInv /\ HeldIsOwned /\ AttachedIsCurrent

LEMMA ServerTypeInit == Init => ServerTypeInv
  BY SessionAssumption DEF Init, ServerTypeInv, TypeOK, ConnType, SocketType, SessionType, ConnPCs, HandHeld

\* Closing a socket leaves Boolean tables, also where there is no such socket.
LEMMA CloseTypes ==
  ASSUME closed \in [Conns -> BOOLEAN], open \in [Conns -> BOOLEAN], NEW s, Close(s)
  PROVE  closed' \in [Conns -> BOOLEAN] /\ open' \in [Conns -> BOOLEAN]
<1>1. closed' \in [Conns -> BOOLEAN]
  BY DEF Close
<1>2. open' \in [Conns -> BOOLEAN]
  BY ZenonT(30) DEF Close
<1> QED
  BY <1>1, <1>2

\* Every step keeps the types; only a session in hand is pushed back.
LEMMA ServerTypeStep == ServerTypeInv /\ [Next]_vars => ServerTypeInv'
<1> SUFFICES ASSUME ServerTypeInv, [Next]_vars PROVE ServerTypeInv'
  OBVIOUS
<1> USE SessionAssumption DEF ServerTypeInv, TypeOK, ConnType, SocketType, SessionType, ConnPCs, HandHeld,
        connVars, sockVars, smVars, cleanVars, Move
<1>1. ASSUME NEW c \in Conns, Refuse(c) PROVE ServerTypeInv'
  BY <1>1 DEF Refuse
<1>2. ASSUME NEW c \in Conns, SetupSimple(c) PROVE ServerTypeInv'
  BY <1>2 DEF SetupSimple
<1>3. ASSUME NEW c \in Conns, Accept(c) PROVE ServerTypeInv'
  BY <1>3 DEF Accept
<1>4. ASSUME NEW c \in Conns, Reject(c) PROVE ServerTypeInv'
  BY <1>4 DEF Reject
<1>5. ASSUME NEW c \in Conns, TryReady(c) PROVE ServerTypeInv'
  BY <1>5 DEF TryReady
<1>6. ASSUME NEW c \in Conns, Attach(c) PROVE ServerTypeInv'
  BY <1>6 DEF Attach
<1>7. ASSUME NEW c \in Conns, Release(c) PROVE ServerTypeInv'
  <2>1. closed' \in [Conns -> BOOLEAN] /\ open' \in [Conns -> BOOLEAN]
    BY <1>7, CloseTypes DEF Release
  <2> QED
    BY <1>7, <2>1 DEF Release
<1>8. ASSUME NEW c \in Conns, Pause(c) PROVE ServerTypeInv'
  BY <1>8 DEF Pause
<1>9. ASSUME NEW c \in Conns, Store(c) PROVE ServerTypeInv'
  <2>1. ConnType' /\ SocketType'
    BY <1>9 DEF Store
  <2>2. map' \in [Tokens -> Conns \cup {None}]
    BY <1>9 DEF Store, Push
  <2>3. left' \in [Conns -> 0..Duration]
    BY <1>9 DEF Store
  <2>4. heap' \subseteq Conns /\ UNCHANGED cleanVars
    BY <1>9 DEF Store, Push
  <2> QED
    BY <2>1, <2>2, <2>3, <2>4
<1>10. ASSUME NEW c \in Conns, End(c) PROVE ServerTypeInv'
  BY <1>10 DEF End
<1>11. ASSUME NEW c \in Conns, CloseSocket(c) PROVE ServerTypeInv'
  <2>1. closed' \in [Conns -> BOOLEAN] /\ open' \in [Conns -> BOOLEAN]
    BY <1>11, CloseTypes DEF CloseSocket
  <2> QED
    BY <1>11, <2>1 DEF CloseSocket
<1>12. ASSUME NEW c \in Conns, NEW k \in Tokens, SetupResumable(c, k) PROVE ServerTypeInv'
  <2>1. CASE map[k] # None
    BY <1>12, <2>1 DEF SetupResumable
  <2>2. CASE map[k] = None
    BY <1>12, <2>2 DEF SetupResumable
  <2> QED
    BY <2>1, <2>2
<1>13. ASSUME NEW c \in Conns, NEW k \in Tokens, Resume(c, k) PROVE ServerTypeInv'
  BY <1>13 DEF Resume
<1>14. CASE Tick
  BY <1>14 DEF Tick
<1>15. CASE Sweep
  BY <1>15 DEF Sweep
<1>16. CASE PopEarliest
  BY <1>16 DEF PopEarliest, Pop, Earliest
<1>17. CASE PushBack
  BY <1>17 DEF PushBack, Push
<1>18. CASE HandOver
  BY <1>18 DEF HandOver
<1>19. ASSUME NEW x \in Conns, CloseDead(x) PROVE ServerTypeInv'
  <2>1. closed' \in [Conns -> BOOLEAN] /\ open' \in [Conns -> BOOLEAN]
    BY <1>19, CloseTypes DEF CloseDead
  <2> QED
    BY <1>19, <2>1 DEF CloseDead, Closed
<1>20. CASE UNCHANGED vars
  BY <1>20 DEF vars
<1> QED
  BY <1>1, <1>2, <1>3, <1>4, <1>5, <1>6, <1>7, <1>8, <1>9, <1>10, <1>11, <1>12, <1>13,
     <1>14, <1>15, <1>16, <1>17, <1>18, <1>19, <1>20 DEF Next, Handle, Clean

\* The sockets, sessions and the cleaner of the server keep their types, and the
\* time left to a session never exceeds the configured duration.
THEOREM SessionTypes == Spec => []TypeOK
<1>1. ServerTypeInv => TypeOK
  BY DEF ServerTypeInv
<1> QED
  BY <1>1, ServerTypeInit, ServerTypeStep, PTL DEF Spec

LEMMA OwnersInit == Init => HeldIsOwned /\ AttachedIsCurrent
  BY SessionAssumption DEF Init, HeldIsOwned, AttachedIsCurrent

\* Only Accept and Resume give a connection a socket, and only Accept and Attach
\* give a socket a connection; before either, the connection had none.
LEMMA OwnersStep ==
  ServerIInv /\ ServerTypeInv' /\ [Next]_vars => HeldIsOwned' /\ AttachedIsCurrent'
<1> SUFFICES ASSUME ServerIInv, ServerTypeInv', [Next]_vars PROVE HeldIsOwned' /\ AttachedIsCurrent'
  OBVIOUS
<1> DEFINE Goal == HeldIsOwned' /\ AttachedIsCurrent'
<1> USE SessionAssumption DEF ServerIInv, ServerTypeInv, TypeOK, ConnType, SocketType, SessionType,
        HeldIsOwned, AttachedIsCurrent, connVars, sockVars, smVars, cleanVars, Move
<1>1. ASSUME NEW c \in Conns, Refuse(c) PROVE Goal
  BY <1>1 DEF Refuse
<1>2. ASSUME NEW c \in Conns, SetupSimple(c) PROVE Goal
  BY <1>2 DEF SetupSimple
<1>3. ASSUME NEW c \in Conns, Accept(c) PROVE Goal
  BY <1>3 DEF Accept
<1>4. ASSUME NEW c \in Conns, Reject(c) PROVE Goal
  BY <1>4 DEF Reject
<1>5. ASSUME NEW c \in Conns, TryReady(c) PROVE Goal
  BY <1>5 DEF TryReady
<1>6. ASSUME NEW c \in Conns, Attach(c) PROVE Goal
  BY <1>6 DEF Attach
<1>7. ASSUME NEW c \in Conns, Release(c) PROVE Goal
  BY <1>7 DEF Release
<1>8. ASSUME NEW c \in Conns, Pause(c) PROVE Goal
  BY <1>8 DEF Pause
<1>9. ASSUME NEW c \in Conns, Store(c) PROVE Goal
  BY <1>9 DEF Store
<1>10. ASSUME NEW c \in Conns, End(c) PROVE Goal
  BY <1>10 DEF End
<1>11. ASSUME NEW c \in Conns, CloseSocket(c) PROVE Goal
  BY <1>11 DEF CloseSocket
<1>12. ASSUME NEW c \in Conns, NEW k \in Tokens, SetupResumable(c, k) PROVE Goal
  BY <1>12 DEF SetupResumable
<1>13. ASSUME NEW c \in Conns, NEW k \in Tokens, Resume(c, k) PROVE Goal
  BY <1>13 DEF Resume
<1>14. CASE Tick
  BY <1>14 DEF Tick
<1>15. CASE Clean
  BY <1>15 DEF Clean, Sweep, PopEarliest, PushBack, HandOver
<1>16. ASSUME NEW x \in Conns, CloseDead(x) PROVE Goal
  BY <1>16 DEF CloseDead
<1>17. CASE UNCHANGED vars
  BY <1>17 DEF vars
<1> QED
  BY <1>1, <1>2, <1>3, <1>4, <1>5, <1>6, <1>7, <1>8, <1>9, <1>10, <1>11, <1>12, <1>13,
     <1>14, <1>15, <1>16, <1>17 DEF Next, Handle

LEMMA ServerInductive == Spec => []ServerIInv
<1>1. Init => ServerIInv
  BY ServerTypeInit, OwnersInit DEF ServerIInv
<1>2. ServerIInv /\ [Next]_vars => ServerIInv'
  BY ServerTypeStep, OwnersStep DEF ServerIInv
<1> QED
  BY <1>1, <1>2, PTL DEF Spec

\* A socket writes only to a connection whose goroutine answers for it: a
\* resumable socket lets go of a transport before its goroutine leaves.
THEOREM WritesToCurrent == Spec => []AttachedIsCurrent
<1>1. ServerIInv => AttachedIsCurrent
  BY DEF ServerIInv
<1> QED
  BY <1>1, ServerInductive, PTL

----------------------------------------------------------------------------
(* Sessions and the map *)

\* The cleaner has a session in its hand only while it looks at it.
HandFree == kpc # "check" => hand = None

\* The connection that pushed a session is gone; its socket had a token, as it
\* has when the connection pauses it.
SessionsOwned ==
  /\ \A x \in Conns : x \in Sessions => cpc[x] = "gone" /\ held[x] # None /\ token[held[x]] # None
  /\ \A c \in Conns : cpc[c] = "pausing" => held[c] # None /\ token[held[c]] # None

\* A connection has no token before its setup, and none that resumes a socket
\* has set it up.
Fresh ==
  /\ \A c \in Conns : cpc[c] = "new" => token[c] = None
  /\ \A c \in Conns : cpc[c] \in {"resuming", "attaching"} => held[c] # None /\ held[c] # c

\* A socket that was paused never writes to its first connection again.
NeverBack ==
  \A c \in Conns :
    cpc[c] \in {"pausing", "gone"} /\ held[c] # None /\ token[held[c]] # None => tp[held[c]] # held[c]

\* What the map has is in the heap, and has the token it is found by.
MapInHeap == \A k \in Tokens : map[k] # None => map[k] \in heap /\ token[held[map[k]]] = k

Cleaned(s) == \E x \in Conns : x \in dying \cup {hand} /\ held[x] = s

\* The map has a session for a token of which the heap has one, unless two
\* sockets share it or the cleaner has taken another session of the socket.
MapFinds ==
  \A s \in Conns, x \in heap :
    held[x] = s /\ ~closed[s] /\ ~Shared(s) => map[token[s]] # None \/ Cleaned(s)

\* With IInv, the inductive invariant of InStep.
ServerBasics == HandFree /\ SessionsOwned /\ Fresh
SInv   == ServerBasics /\ NeverBack /\ NoOrphan /\ MapInHeap /\ MapFinds

\* Only Store and PushBack push a session, of a socket that has a token.
LEMMA ServerBasicsStep ==
  ServerIInv /\ ServerBasics /\ MapInHeap /\ [Next]_vars => ServerBasics'
<1> SUFFICES ASSUME ServerIInv, ServerBasics, MapInHeap, [Next]_vars PROVE ServerBasics'
  OBVIOUS
<1> USE SessionAssumption DEF ServerIInv, ServerTypeInv, TypeOK, ConnType, SocketType, SessionType, ConnPCs,
        HandHeld, HeldIsOwned,
        connVars, sockVars, smVars, cleanVars, Move, ServerBasics, HandFree, SessionsOwned, Fresh,
        Sessions, MapInHeap
<1>1. ASSUME NEW c \in Conns, Refuse(c) PROVE ServerBasics'
  BY <1>1 DEF Refuse
<1>2. ASSUME NEW c \in Conns, SetupSimple(c) PROVE ServerBasics'
  BY <1>2 DEF SetupSimple
<1>3. ASSUME NEW c \in Conns, Accept(c) PROVE ServerBasics'
  BY <1>3 DEF Accept
<1>4. ASSUME NEW c \in Conns, Reject(c) PROVE ServerBasics'
  BY <1>4 DEF Reject
<1>5. ASSUME NEW c \in Conns, TryReady(c) PROVE ServerBasics'
  BY <1>5 DEF TryReady
<1>6. ASSUME NEW c \in Conns, Attach(c) PROVE ServerBasics'
  BY <1>6 DEF Attach
<1>7. ASSUME NEW c \in Conns, Release(c) PROVE ServerBasics'
  BY <1>7 DEF Release, Close
<1>8. ASSUME NEW c \in Conns, Pause(c) PROVE ServerBasics'
  BY <1>8 DEF Pause
<1>9. ASSUME NEW c \in Conns, Store(c) PROVE ServerBasics'
  BY <1>9 DEF Store, Push
<1>10. ASSUME NEW c \in Conns, End(c) PROVE ServerBasics'
  BY <1>10 DEF End
<1>11. ASSUME NEW c \in Conns, CloseSocket(c) PROVE ServerBasics'
  BY <1>11 DEF CloseSocket, Close
<1>12. ASSUME NEW c \in Conns, NEW k \in Tokens, SetupResumable(c, k) PROVE ServerBasics'
  BY <1>12 DEF SetupResumable
<1>13. ASSUME NEW c \in Conns, NEW k \in Tokens, Resume(c, k) PROVE ServerBasics'
  BY <1>13 DEF Resume
<1>14. CASE Tick
  BY <1>14 DEF Tick
<1>15. CASE Sweep
  BY <1>15 DEF Sweep
<1>16. CASE PopEarliest
  BY <1>16 DEF PopEarliest, Pop, Earliest
<1>17. CASE PushBack
  BY <1>17 DEF PushBack, Push
<1>18. CASE HandOver
  BY <1>18 DEF HandOver
<1>19. ASSUME NEW x \in Conns, CloseDead(x) PROVE ServerBasics'
  BY <1>19 DEF CloseDead, Closed, Close
<1>20. CASE UNCHANGED vars
  BY <1>20 DEF vars
<1> QED
  BY <1>1, <1>2, <1>3, <1>4, <1>5, <1>6, <1>7, <1>8, <1>9, <1>10, <1>11, <1>12, <1>13,
     <1>14, <1>15, <1>16, <1>17, <1>18, <1>19, <1>20 DEF Next, Handle, Clean

\* Only Accept gives a socket its first connection; Attach gives it another one.
LEMMA NeverBackStep ==
  ServerIInv /\ ServerBasics /\ MapInHeap /\ NeverBack /\ [Next]_vars => NeverBack'
<1> SUFFICES ASSUME ServerIInv, ServerBasics, MapInHeap, NeverBack, [Next]_vars PROVE NeverBack'
  OBVIOUS
<1> USE SessionAssumption DEF ServerIInv, ServerTypeInv, TypeOK, ConnType, SocketType, SessionType, ConnPCs,
        HandHeld, HeldIsOwned,
        connVars, sockVars, smVars, cleanVars, Move, ServerBasics, HandFree, SessionsOwned, Fresh, Sessions,
        MapInHeap, NeverBack
<1>1. ASSUME NEW c \in Conns, Refuse(c) PROVE NeverBack'
  BY <1>1 DEF Refuse
<1>2. ASSUME NEW c \in Conns, SetupSimple(c) PROVE NeverBack'
  BY <1>2 DEF SetupSimple
<1>3. ASSUME NEW c \in Conns, Accept(c) PROVE NeverBack'
  BY <1>3 DEF Accept
<1>4. ASSUME NEW c \in Conns, Reject(c) PROVE NeverBack'
  BY <1>4 DEF Reject
<1>5. ASSUME NEW c \in Conns, TryReady(c) PROVE NeverBack'
  BY <1>5 DEF TryReady
<1>6. ASSUME NEW c \in Conns, Attach(c) PROVE NeverBack'
  BY <1>6 DEF Attach
<1>7. ASSUME NEW c \in Conns, Release(c) PROVE NeverBack'
  BY <1>7 DEF Release, Close
<1>8. ASSUME NEW c \in Conns, Pause(c) PROVE NeverBack'
  BY <1>8 DEF Pause
<1>9. ASSUME NEW c \in Conns, Store(c) PROVE NeverBack'
  BY <1>9 DEF Store, Push
<1>10. ASSUME NEW c \in Conns, End(c) PROVE NeverBack'
  BY <1>10 DEF End
<1>11. ASSUME NEW c \in Conns, CloseSocket(c) PROVE NeverBack'
  BY <1>11 DEF CloseSocket, Close
<1>12. ASSUME NEW c \in Conns, NEW k \in Tokens, SetupResumable(c, k) PROVE NeverBack'
  BY <1>12 DEF SetupResumable
<1>13. ASSUME NEW c \in Conns, NEW k \in Tokens, Resume(c, k) PROVE NeverBack'
  BY <1>13 DEF Resume
<1>14. CASE Tick
  BY <1>14 DEF Tick
<1>15. CASE Sweep
  BY <1>15 DEF Sweep
<1>16. CASE PopEarliest
  BY <1>16 DEF PopEarliest, Pop, Earliest
<1>17. CASE PushBack
  BY <1>17 DEF PushBack, Push
<1>18. CASE HandOver
  BY <1>18 DEF HandOver
<1>19. ASSUME NEW x \in Conns, CloseDead(x) PROVE NeverBack'
  BY <1>19 DEF CloseDead, Closed, Close
<1>20. CASE UNCHANGED vars
  BY <1>20 DEF vars
<1> QED
  BY <1>1, <1>2, <1>3, <1>4, <1>5, <1>6, <1>7, <1>8, <1>9, <1>10, <1>11, <1>12, <1>13,
     <1>14, <1>15, <1>16, <1>17, <1>18, <1>19, <1>20 DEF Next, Handle, Clean

\* Store pushes a session as its goroutine leaves, Release closes the socket, and
\* what the cleaner takes it pushes back, hands over or closes.
LEMMA NoOrphanStep ==
  ServerIInv /\ ServerBasics /\ MapInHeap /\ NoOrphan /\ [Next]_vars => NoOrphan'
<1> SUFFICES ASSUME ServerIInv, ServerBasics, MapInHeap, NoOrphan, [Next]_vars PROVE NoOrphan'
  OBVIOUS
<1> USE SessionAssumption DEF ServerIInv, ServerTypeInv, TypeOK, ConnType, SocketType, SessionType, ConnPCs,
        HandHeld, HeldIsOwned,
        connVars, sockVars, smVars, cleanVars, Move, ServerBasics, HandFree, SessionsOwned, Fresh, Sessions,
        MapInHeap, NoOrphan, Carried
<1>1. ASSUME NEW c \in Conns, Refuse(c) PROVE NoOrphan'
  BY <1>1 DEF Refuse
<1>2. ASSUME NEW c \in Conns, SetupSimple(c) PROVE NoOrphan'
  BY <1>2 DEF SetupSimple
<1>3. ASSUME NEW c \in Conns, Accept(c) PROVE NoOrphan'
  BY <1>3 DEF Accept
<1>4. ASSUME NEW c \in Conns, Reject(c) PROVE NoOrphan'
  BY <1>4 DEF Reject
<1>5. ASSUME NEW c \in Conns, TryReady(c) PROVE NoOrphan'
  BY <1>5 DEF TryReady
<1>6. ASSUME NEW c \in Conns, Attach(c) PROVE NoOrphan'
  BY <1>6 DEF Attach
<1>7. ASSUME NEW c \in Conns, Release(c) PROVE NoOrphan'
  BY <1>7 DEF Release, Close
<1>8. ASSUME NEW c \in Conns, Pause(c) PROVE NoOrphan'
  BY <1>8 DEF Pause
<1>9. ASSUME NEW c \in Conns, Store(c) PROVE NoOrphan'
  BY <1>9 DEF Store, Push
<1>10. ASSUME NEW c \in Conns, End(c) PROVE NoOrphan'
  BY <1>10 DEF End
<1>11. ASSUME NEW c \in Conns, CloseSocket(c) PROVE NoOrphan'
  BY <1>11 DEF CloseSocket, Close
<1>12. ASSUME NEW c \in Conns, NEW k \in Tokens, SetupResumable(c, k) PROVE NoOrphan'
  BY <1>12 DEF SetupResumable
<1>13. ASSUME NEW c \in Conns, NEW k \in Tokens, Resume(c, k) PROVE NoOrphan'
  BY <1>13 DEF Resume
<1>14. CASE Tick
  BY <1>14 DEF Tick
<1>15. CASE Sweep
  BY <1>15 DEF Sweep
<1>16. CASE PopEarliest
  BY <1>16 DEF PopEarliest, Pop, Earliest
<1>17. CASE PushBack
  BY <1>17 DEF PushBack, Push
<1>18. CASE HandOver
  BY <1>18 DEF HandOver
<1>19. ASSUME NEW x \in Conns, CloseDead(x) PROVE NoOrphan'
  BY <1>19 DEF CloseDead, Closed, Close
<1>20. CASE UNCHANGED vars
  BY <1>20 DEF vars
<1> QED
  BY <1>1, <1>2, <1>3, <1>4, <1>5, <1>6, <1>7, <1>8, <1>9, <1>10, <1>11, <1>12, <1>13,
     <1>14, <1>15, <1>16, <1>17, <1>18, <1>19, <1>20 DEF Next, Handle, Clean

\* Pop takes the entry away with the session.
LEMMA MapInHeapStep ==
  ServerIInv /\ ServerBasics /\ MapInHeap /\ [Next]_vars => MapInHeap'
<1> SUFFICES ASSUME ServerIInv, ServerBasics, MapInHeap, [Next]_vars PROVE MapInHeap'
  OBVIOUS
<1> USE SessionAssumption DEF ServerIInv, ServerTypeInv, TypeOK, ConnType, SocketType, SessionType, ConnPCs,
        HandHeld, HeldIsOwned,
        connVars, sockVars, smVars, cleanVars, Move, ServerBasics, HandFree, SessionsOwned, Fresh,
        Sessions, MapInHeap
<1>1. ASSUME NEW c \in Conns, Refuse(c) PROVE MapInHeap'
  BY <1>1 DEF Refuse
<1>2. ASSUME NEW c \in Conns, SetupSimple(c) PROVE MapInHeap'
  BY <1>2 DEF SetupSimple
<1>3. ASSUME NEW c \in Conns, Accept(c) PROVE MapInHeap'
  BY <1>3 DEF Accept
<1>4. ASSUME NEW c \in Conns, Reject(c) PROVE MapInHeap'
  BY <1>4 DEF Reject
<1>5. ASSUME NEW c \in Conns, TryReady(c) PROVE MapInHeap'
  BY <1>5 DEF TryReady
<1>6. ASSUME NEW c \in Conns, Attach(c) PROVE MapInHeap'
  BY <1>6 DEF Attach
<1>7. ASSUME NEW c \in Conns, Release(c) PROVE MapInHeap'
  BY <1>7 DEF Release, Close
<1>8. ASSUME NEW c \in Conns, Pause(c) PROVE MapInHeap'
  BY <1>8 DEF Pause
<1>9. ASSUME NEW c \in Conns, Store(c) PROVE MapInHeap'
  BY <1>9 DEF Store, Push
<1>10. ASSUME NEW c \in Conns, End(c) PROVE MapInHeap'
  BY <1>10 DEF End
<1>11. ASSUME NEW c \in Conns, CloseSocket(c) PROVE MapInHeap'
  BY <1>11 DEF CloseSocket, Close
<1>12. ASSUME NEW c \in Conns, NEW k \in Tokens, SetupResumable(c, k) PROVE MapInHeap'
  BY <1>12 DEF SetupResumable
<1>13. ASSUME NEW c \in Conns, NEW k \in Tokens, Resume(c, k) PROVE MapInHeap'
  BY <1>13 DEF Resume
<1>14. CASE Tick
  BY <1>14 DEF Tick
<1>15. CASE Sweep
  BY <1>15 DEF Sweep
<1>16. CASE PopEarliest
  BY <1>16 DEF PopEarliest, Pop, Earliest
<1>17. CASE PushBack
  BY <1>17 DEF PushBack, Push
<1>18. CASE HandOver
  BY <1>18 DEF HandOver
<1>19. ASSUME NEW x \in Conns, CloseDead(x) PROVE MapInHeap'
  BY <1>19 DEF CloseDead, Closed, Close
<1>20. CASE UNCHANGED vars
  BY <1>20 DEF vars
<1> QED
  BY <1>1, <1>2, <1>3, <1>4, <1>5, <1>6, <1>7, <1>8, <1>9, <1>10, <1>11, <1>12, <1>13,
     <1>14, <1>15, <1>16, <1>17, <1>18, <1>19, <1>20 DEF Next, Handle, Clean

\* An entry that Pop takes away was that of the session the cleaner now holds.
LEMMA MapFindsStep ==
  ServerIInv /\ ServerBasics /\ MapInHeap /\ MapFinds /\ [Next]_vars => MapFinds'
<1> SUFFICES ASSUME ServerIInv, ServerBasics, MapInHeap, MapFinds, [Next]_vars PROVE MapFinds'
  OBVIOUS
<1> USE SessionAssumption DEF ServerIInv, ServerTypeInv, TypeOK, ConnType, SocketType, SessionType, ConnPCs,
        HandHeld, HeldIsOwned,
        connVars, sockVars, smVars, cleanVars, Move, ServerBasics, HandFree, SessionsOwned, Fresh, Sessions,
        MapInHeap, MapFinds, Cleaned, Shared
<1>1. ASSUME NEW c \in Conns, Refuse(c) PROVE MapFinds'
  BY <1>1 DEF Refuse
<1>2. ASSUME NEW c \in Conns, SetupSimple(c) PROVE MapFinds'
  BY <1>2 DEF SetupSimple
<1>3. ASSUME NEW c \in Conns, Accept(c) PROVE MapFinds'
  BY <1>3 DEF Accept
<1>4. ASSUME NEW c \in Conns, Reject(c) PROVE MapFinds'
  BY <1>4 DEF Reject
<1>5. ASSUME NEW c \in Conns, TryReady(c) PROVE MapFinds'
  BY <1>5 DEF TryReady
<1>6. ASSUME NEW c \in Conns, Attach(c) PROVE MapFinds'
  BY <1>6 DEF Attach
<1>7. ASSUME NEW c \in Conns, Release(c) PROVE MapFinds'
  BY <1>7 DEF Release, Close
<1>8. ASSUME NEW c \in Conns, Pause(c) PROVE MapFinds'
  BY <1>8 DEF Pause
<1>9. ASSUME NEW c \in Conns, Store(c) PROVE MapFinds'
  BY <1>9 DEF Store, Push
<1>10. ASSUME NEW c \in Conns, End(c) PROVE MapFinds'
  BY <1>10 DEF End
<1>11. ASSUME NEW c \in Conns, CloseSocket(c) PROVE MapFinds'
  BY <1>11 DEF CloseSocket, Close
<1>12. ASSUME NEW c \in Conns, NEW k \in Tokens, SetupResumable(c, k) PROVE MapFinds'
  BY <1>12 DEF SetupResumable
<1>13. ASSUME NEW c \in Conns, NEW k \in Tokens, Resume(c, k) PROVE MapFinds'
  BY <1>13 DEF Resume
<1>14. CASE Tick
  BY <1>14 DEF Tick
<1>15. CASE Sweep
  BY <1>15 DEF Sweep
<1>16. CASE PopEarliest
  BY <1>16 DEF PopEarliest, Pop, Earliest
<1>17. CASE PushBack
  BY <1>17 DEF PushBack, Push
<1>18. CASE HandOver
  BY <1>18 DEF HandOver
<1>19. ASSUME NEW x \in Conns, CloseDead(x) PROVE MapFinds'
  BY <1>19 DEF CloseDead, Closed, Close
<1>20. CASE UNCHANGED vars
  BY <1>20 DEF vars
<1> QED
  BY <1>1, <1>2, <1>3, <1>4, <1>5, <1>6, <1>7, <1>8, <1>9, <1>10, <1>11, <1>12, <1>13,
     <1>14, <1>15, <1>16, <1>17, <1>18, <1>19, <1>20 DEF Next, Handle, Clean

LEMMA SInvInit == Init => SInv
  BY SessionAssumption DEF Init, SInv, ServerBasics, HandFree, SessionsOwned, Fresh, Sessions, NeverBack,
     NoOrphan, Carried,
    MapInHeap, MapFinds, ConnPCs

LEMMA SInvStep == ServerIInv /\ SInv /\ [Next]_vars => SInv'
  BY ServerBasicsStep, NeverBackStep, NoOrphanStep, MapInHeapStep, MapFindsStep DEF SInv

LEMMA SInvShows == ServerIInv /\ SInv => InStep
<1> SUFFICES ASSUME ServerIInv, SInv PROVE InStep
  OBVIOUS
<1>1. ReapedOnlyResumed
  <2> SUFFICES ASSUME NEW x \in dying PROVE tp[held[x]] # held[x]
    BY DEF ReapedOnlyResumed
  <2>1. x \in Conns /\ x \in Sessions
    BY DEF ServerIInv, ServerTypeInv, TypeOK, SessionType, Sessions
  <2> QED BY <2>1 DEF SInv, ServerBasics, SessionsOwned, NeverBack
<1>2. ASSUME NEW k \in Tokens, map[k] # None
      PROVE  map[k] \in heap /\ token[held[map[k]]] = k
  BY <1>2 DEF SInv, MapInHeap
<1>3. ASSUME NEW s \in Conns, held[s] = s, token[s] # None, ~closed[s], ~Carried(s), ~Shared(s)
      PROVE  \/ map[token[s]] # None /\ held[map[token[s]]] = s
             \/ \E x \in dying \cup {hand} : x # None /\ held[x] = s
  <2>1. PICK x \in Sessions : x # None /\ held[x] = s
    BY <1>3 DEF SInv, NoOrphan
  <2>2. CASE x \in dying \cup {hand}
    BY <2>1, <2>2
  <2>3. CASE x \in heap /\ ~Cleaned(s)
    <3>1. map[token[s]] # None
      BY <1>3, <2>1, <2>3 DEF SInv, MapFinds
    <3> DEFINE y == map[token[s]]
    <3>2. token[s] \in Tokens
      BY <1>3 DEF ServerIInv, ServerTypeInv, TypeOK, SocketType
    <3>3. y \in heap /\ y \in Conns /\ token[held[y]] = token[s]
      BY <1>2, <3>1, <3>2 DEF ServerIInv, ServerTypeInv, TypeOK, SessionType
    <3>4. held[y] \in Conns
      BY <3>3 DEF SInv, ServerBasics, SessionsOwned, Sessions, ServerIInv, ServerTypeInv, TypeOK, ConnType
    <3>5. held[y] = s
      BY <1>3, <3>3, <3>4 DEF Shared
    <3> QED BY <3>1, <3>5
  <2>4. CASE Cleaned(s)
    BY <2>4, SessionAssumption DEF Cleaned
  <2> QED BY <2>1, <2>2, <2>3, <2>4 DEF Sessions
<1>4. ManagerAgrees
  BY <1>2, <1>3 DEF ManagerAgrees
<1> QED BY <1>1, <1>4 DEF InStep, SInv

\* However many clients come, resume and leave, and whenever the cleaner sweeps:
\* a socket that was accepted is never forgotten, the map of the Manager finds the
\* paused socket of a client that comes back, and the cleaner closes no socket
\* under its first connection.
THEOREM SessionsInStep == Spec => []InStep
<1>1. Init => ServerIInv /\ SInv
  BY ServerTypeInit, OwnersInit, SInvInit DEF ServerIInv
<1>2. ServerIInv /\ SInv /\ [Next]_vars => (ServerIInv /\ SInv)'
  BY ServerTypeStep, OwnersStep, SInvStep DEF ServerIInv
<1>3. ServerIInv /\ SInv => InStep
  BY SInvShows
<1> QED BY <1>1, <1>2, <1>3, PTL DEF Spec
==============================================================================
