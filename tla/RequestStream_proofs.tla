------------------------ MODULE RequestStream_proofs ------------------------
(***************************************************************************)
(* Delivered, for any number of items, of demands, and any size of them.   *)
(* The inductive invariant ties the three places of a stream together: the *)
(* frames under way are numbered from the item received last, an end is    *)
(* the last of them, the responder knows the stream from its one request,  *)
(* and the demand under way is a sum that every step changes by one frame. *)
(***************************************************************************)
EXTENDS RequestStream, SequenceTheorems, TLAPS
----------------------------------------------------------------------------
(* The types *)

Frame == [type : FrameTypes, n : 0..RequestMax]
ItemsOf == IF kind = "response" THEN IF outcome = "error" THEN 0 ELSE 1 ELSE MaxItems

PlanType == kind \in {"response", "stream"} /\ outcome \in {"complete", "error"} /\ total \in 0..ItemsOf
AType ==
  /\ apc \in {"idle", "refused", "checked", "returned", "requesting", "sent"}
  /\ areg \in BOOLEAN /\ sink \in {"open", "complete", "error", "cancel"}
  /\ fin \in {"none", "run", "unregister", "done"}
  /\ first \in 0..RequestMax /\ asks \in 0..MaxAsks /\ asked \in 0..(asks * MaxN) /\ got \in Seq(Nat)
BType ==
  /\ bpc \in {"idle", "subscribing", "active", "ending", "ended"} /\ breg \in BOOLEAN
  /\ credit \in Nat /\ (kind = "response" => credit <= RequestMax) /\ sent \in 0..total /\ stopped \in BOOLEAN /\ unheard \subseteq {"requestN", "cancel"}
WireType ==
  /\ closed \in [Sides -> BOOLEAN] /\ swept \in [Sides -> BOOLEAN] /\ (\A s \in Sides : swept[s] => closed[s])
  /\ ab \in Seq(Frame) /\ ba \in Seq(Frame)
Types == PlanType /\ AType /\ BType /\ WireType

----------------------------------------------------------------------------
(* The demand under way.  UpTo is a recursive function: that a function adds  *)
(* up the frames of ab, and that what adds up a part of them is the part of   *)
(* that function, is itself an invariant of the steps that put a frame at the *)
(* end, take one off the front, or cut the rest off.                          *)

AddsUp(a, q, s, k) == a = [i \in 0..k |-> IF i = 0 THEN 0 ELSE a[i - 1] + InFlight(q[s + i])]
Between(g, s, k)   == [i \in 0..k |-> g[s + i] - g[s]]
Counts(g, q) ==
  /\ g \in [0..Len(q) -> Nat] /\ g[0] = 0
  /\ \A i \in 1..Len(q) : g[i] = g[i - 1] + InFlight(q[i])
  /\ \A i, j \in 0..Len(q) : i <= j => g[i] <= g[j]
  /\ \A s \in 0..Len(q) : \A k \in 0..(Len(q) - s) : \A a : AddsUp(a, q, s, k) => a = Between(g, s, k)
Summed(q) == \E g : Counts(g, q)
Sum(q) == UpTo(q)[Len(q)]

----------------------------------------------------------------------------
(* The invariant *)

Early  == {"idle", "refused", "checked"}
Giving == {"idle", "subscribing", "active"}

\* The callback of the requester is there from its registration to its DoFinally.
Stages ==
  /\ apc \in Early => ~areg /\ sink = "open"
  /\ apc \notin Early => areg \/ sink # "open"
  /\ sink = "open" => fin = "none"
  /\ apc \in Early \cup {"returned"} => asks = 0
  /\ apc = "returned" => kind = "stream"

\* The request is sent once, though demand or a cancel may overtake it, and the
\* responder knows the stream from it.
NothingYet ==
  apc # "sent" => bpc = "idle" /\ \A i \in 1..Len(ab) : ab[i].type \in {"cancel", "requestN"}
OneRequest ==
  \A i, j \in 1..Len(ab) : ab[i].type = "request" => bpc = "idle" /\ (ab[j].type = "request" => i = j)
Requests == NothingYet /\ OneRequest

\* The responder sends items and then an end.
NotStarted ==
  /\ bpc = "idle" => credit = 0
  /\ bpc \in {"idle", "subscribing"} => sent = 0 /\ ~breg
  /\ bpc = "active" => breg
ItemsThenEnd == bpc \in Giving => \A i \in 1..Len(ba) : ba[i].type = "next"
Answers ==
  \A i \in 1..Len(ba) :
    IF ba[i].type = "next" THEN ba[i].n \in 1..sent ELSE ba[i].type \in {"complete", "error"} /\ ba[i].n = 0
Answering == NotStarted /\ ItemsThenEnd /\ Answers

\* What is under way continues what was received.
InSequence ==
  sink = "open" =>
    \A i \in 1..Len(ba) :
      /\ ba[i].type = "next" => ba[i].n = Len(got) + i
      /\ ba[i].type = "complete" => outcome = "complete" /\ Len(got) + (i - 1) = total
NothingLost == sink = "open" /\ bpc \in Giving /\ ~closed[B] /\ ~swept[A] => Len(got) + Len(ba) = sent
Continues == Len(got) <= sent /\ InSequence /\ NothingLost

\* The demand at the publisher, under way and in a request being sent, and whether
\* any may have been lost.
Pending == IF apc = "requesting" THEN first ELSE 0
Whole   == bpc \in Giving /\ unheard = {} /\ ~closed[A] /\ ~closed[B]
Demanded ==
  kind = "stream" => /\ sent + credit + Sum(ab) + Pending <= asked
                     /\ Whole => sent + credit + Sum(ab) + Pending = asked

Inv == Stages /\ Requests /\ Answering /\ Continues /\ Received /\ Demanded

\* The bounds.
LEMMA Numbers ==
  /\ MaxItems \in Nat /\ MaxAsks \in Nat \ {0} /\ MaxN \in Nat \ {0} /\ RequestMax \in Nat \ {0}
  /\ MaxItems <= RequestMax /\ 1 <= RequestMax /\ \A n \in 0..(MaxAsks * MaxN) : n \in 0..RequestMax
  /\ MaxN <= MaxAsks * MaxN
  /\ \A k \in Nat : k * MaxN \in Nat /\ (k + 1) * MaxN = k * MaxN + MaxN
  /\ \A k \in 0..MaxAsks : k * MaxN <= MaxAsks * MaxN
<1>1. /\ MaxItems \in Nat /\ MaxAsks \in Nat \ {0} /\ MaxN \in Nat \ {0}
  BY RequestAssumption
<1>2. \A j, k, n \in Nat : j * n \in Nat /\ (k + 1) * n = k * n + n /\ (j <= k => j * n <= k * n)
  <2>1. \A j, k, n \in Nat : j * n \in Nat /\ (k + 1) * n = k * n + n
    OBVIOUS
  <2>2. ASSUME NEW j \in Nat, NEW k \in Nat, NEW n \in Nat, j <= k PROVE j * n <= k * n
    <3>1. PICK d \in Nat : k = j + d
      <4>1. k - j \in Nat /\ k = j + (k - j)
        BY <2>2
      <4> QED BY <4>1
    <3>2. k * n = j * n + d * n /\ d * n \in Nat /\ j * n \in Nat
      BY <3>1
    <3> QED BY <3>2
  <2> QED BY <2>1, <2>2
<1>3. 1 * MaxN = MaxN /\ 1 * MaxN <= MaxAsks * MaxN /\ MaxAsks * MaxN \in Nat
  BY <1>1, <1>2
<1>4. RequestMax \in Nat \ {0} /\ MaxItems <= RequestMax /\ 1 <= RequestMax
      /\ \A n \in 0..(MaxAsks * MaxN) : n \in 0..RequestMax
  <2> DEFINE p == MaxAsks * MaxN
  <2>1. p \in Nat /\ RequestMax = MaxItems + p + 1
    BY <1>3 DEF RequestMax
  <2> HIDE DEF p
  <2>2. RequestMax \in Nat \ {0} /\ MaxItems <= RequestMax /\ 1 <= RequestMax /\ \A n \in 0..p : n \in 0..RequestMax
    BY <1>1, <2>1
  <2> QED BY <2>2 DEF p
<1> QED BY <1>1, <1>2, <1>3, <1>4

\* What a frame asks for.
LEMMA Weight == \A f \in Frame : InFlight(f) \in Nat /\ (f.type = "cancel" => InFlight(f) = 0)
                                 /\ (f.type # "cancel" => InFlight(f) = f.n)
  BY Numbers DEF InFlight, Frame

\* What adds up is known by its values.
Values(a, q, s, k) ==
  a = [i \in 0..k |-> a[i]] /\ a[0] = 0 /\ \A i \in 1..k : a[i] = a[i - 1] + InFlight(q[s + i])
LEMMA ItsValues ==
  ASSUME NEW q, NEW s \in Nat, NEW k \in Nat, NEW a
  PROVE  AddsUp(a, q, s, k) <=> Values(a, q, s, k)
<1>1. ASSUME AddsUp(a, q, s, k) PROVE Values(a, q, s, k)
  <2>1. a = [i \in 0..k |-> IF i = 0 THEN 0 ELSE a[i - 1] + InFlight(q[s + i])]
    BY <1>1 DEF AddsUp
  <2>2. a = [i \in 0..k |-> a[i]]
    BY <2>1
  <2>3. \A i \in 0..k : a[i] = IF i = 0 THEN 0 ELSE a[i - 1] + InFlight(q[s + i])
    BY <2>1
  <2>4. 0 \in 0..k /\ \A i \in 1..k : i \in 0..k /\ i # 0
    OBVIOUS
  <2>5. a[0] = 0
    BY <2>3, <2>4
  <2>6. \A i \in 1..k : a[i] = a[i - 1] + InFlight(q[s + i])
    BY <2>3, <2>4
  <2> QED BY <2>2, <2>5, <2>6 DEF Values
<1>2. ASSUME Values(a, q, s, k) PROVE AddsUp(a, q, s, k)
  <2>1. ASSUME NEW i \in 0..k PROVE a[i] = IF i = 0 THEN 0 ELSE a[i - 1] + InFlight(q[s + i])
    <3>1. CASE i = 0
      BY <1>2, <3>1 DEF Values
    <3>2. CASE i \in 1..k
      BY <1>2, <3>2 DEF Values
    <3> QED BY <3>1, <3>2
  <2>2. [i \in 0..k |-> a[i]] = [i \in 0..k |-> IF i = 0 THEN 0 ELSE a[i - 1] + InFlight(q[s + i])]
    BY <2>1
  <2>3. a = [i \in 0..k |-> a[i]]
    BY <1>2 DEF Values
  <2> QED BY <2>2, <2>3 DEF AddsUp
<1> QED BY <1>1, <1>2

\* It adds up the same frames wherever they are.
LEMMA SameFrames ==
  ASSUME NEW q, NEW r, NEW s \in Nat, NEW t \in Nat, NEW k \in Nat, NEW a,
         \A i \in 1..k : q[s + i] = r[t + i], AddsUp(a, q, s, k)
  PROVE  AddsUp(a, r, t, k)
<1>0. Values(a, q, s, k)
  BY ItsValues
<1>1. a = [i \in 0..k |-> a[i]] /\ a[0] = 0 /\ \A i \in 1..k : a[i] = a[i - 1] + InFlight(q[s + i])
  BY <1>0 DEF Values
<1>2. \A i \in 1..k : a[i] = a[i - 1] + InFlight(r[t + i])
  BY <1>1
<1> QED BY <1>1, <1>2, ItsValues DEF Values

\* The sum is that of the function that adds up.
LEMMA SumIs ==
  ASSUME NEW q \in Seq(Frame), NEW g, Counts(g, q)
  PROVE  Sum(q) = g[Len(q)] /\ Sum(q) \in Nat /\ \A i \in 1..Len(q) : InFlight(q[i]) <= Sum(q)
<1> DEFINE n == Len(q)  d == Between(g, 0, n)
<1>1. n \in Nat /\ 0 \in 0..n /\ n \in 0..(n - 0) /\ n \in 0..n
  OBVIOUS
<1>2. g \in [0..n -> Nat] /\ g[0] = 0 /\ \A i \in 1..n : g[i] = g[i - 1] + InFlight(q[i])
  BY DEF Counts
<1>3. d = [i \in 0..n |-> d[i]] /\ \A i \in 0..n : d[i] = g[i]
  BY <1>1, <1>2 DEF Between
<1> HIDE DEF d
<1>4. AddsUp(d, q, 0, n)
  <2>1. d[0] = 0 /\ \A i \in 1..n : d[i] = d[i - 1] + InFlight(q[0 + i])
    BY <1>1, <1>2, <1>3
  <2> QED BY <1>1, <1>3, <2>1, ItsValues DEF Values
<1>5. AddsUp(UpTo(q), q, 0, n)
  <2>1. d = [i \in 0..n |-> IF i = 0 THEN 0 ELSE d[i - 1] + InFlight(q[i])]
    <3>1. \A i \in 0..n : d[i] = IF i = 0 THEN 0 ELSE d[i - 1] + InFlight(q[i])
      BY <1>1, <1>2, <1>3
    <3>2. [i \in 0..n |-> d[i]] = [i \in 0..n |-> IF i = 0 THEN 0 ELSE d[i - 1] + InFlight(q[i])]
      BY <3>1
    <3> QED BY <1>3, <3>2
  <2>2. UpTo(q) = [i \in 0..n |-> IF i = 0 THEN 0 ELSE UpTo(q)[i - 1] + InFlight(q[i])]
    BY <2>1 DEF UpTo
  <2>3. \A i \in 0..n : UpTo(q)[i] = IF i = 0 THEN 0 ELSE UpTo(q)[i - 1] + InFlight(q[i])
    BY <2>2
  <2>4. UpTo(q) = [i \in 0..n |-> UpTo(q)[i]]
    BY <2>2
  <2>5. UpTo(q)[0] = 0 /\ \A i \in 1..n : UpTo(q)[i] = UpTo(q)[i - 1] + InFlight(q[0 + i])
    BY <1>1, <2>3
  <2> QED BY <1>1, <2>4, <2>5, ItsValues DEF Values
<1>6. UpTo(q) = d
  BY <1>1, <1>5 DEF Counts, d
<1>7. Sum(q) = g[n] /\ g[n] \in Nat
  BY <1>1, <1>2, <1>3, <1>6 DEF Sum
<1>8. ASSUME NEW i \in 1..n PROVE InFlight(q[i]) <= g[n]
  <2>1. i - 1 \in 0..n /\ i \in 0..n /\ i <= n /\ q[i] \in Frame
    BY <1>1
  <2>2. g[i] <= g[n] /\ g[i] = g[i - 1] + InFlight(q[i]) /\ g[i - 1] \in Nat /\ g[i] \in Nat
    BY <1>1, <1>2, <2>1 DEF Counts
  <2>3. InFlight(q[i]) \in Nat
    BY <2>1, Weight
  <2> QED BY <1>7, <2>2, <2>3
<1> QED BY <1>7, <1>8

LEMMA SumEmpty == Summed(<<>>) /\ Sum(<<>>) = 0
<1> DEFINE g == [i \in 0..0 |-> 0]
<1>1. Len(<<>>) = 0 /\ <<>> \in Seq(Frame)
  OBVIOUS
<1>2. g \in [0..0 -> Nat] /\ g[0] = 0 /\ (\A i \in 1..0 : g[i] = g[i - 1] + InFlight(<<>>[i]))
      /\ \A i, j \in 0..0 : i <= j => g[i] <= g[j]
  OBVIOUS
<1>3. ASSUME NEW s \in 0..0, NEW k \in 0..(0 - s), NEW a, AddsUp(a, <<>>, s, k) PROVE a = Between(g, s, k)
  <2>1. s = 0 /\ k = 0
    OBVIOUS
  <2>2. a = [i \in 0..0 |-> a[i]] /\ a[0] = 0
    BY <1>3, <2>1, ItsValues DEF Values
  <2>3. [i \in 0..0 |-> a[i]] = [i \in 0..0 |-> g[0 + i] - g[0]]
    <3>1. \A i \in 0..0 : a[i] = g[0 + i] - g[0]
      BY <2>2
    <3> QED BY <3>1
  <2> QED BY <2>1, <2>2, <2>3 DEF Between
<1>4. Counts(g, <<>>)
  <2> HIDE DEF g
  <2> QED BY <1>1, <1>2, <1>3 DEF Counts
<1>5. g[0] = 0
  OBVIOUS
<1> QED BY <1>1, <1>4, <1>5, SumIs DEF Summed
\* What a frame put at the end, taken off the front, or cut off does to the sum.
LEMMA SumAppend ==
  ASSUME NEW q \in Seq(Frame), NEW f \in Frame, Summed(q)
  PROVE  Summed(Append(q, f)) /\ Sum(Append(q, f)) = Sum(q) + InFlight(f) /\ Sum(q) \in Nat
<1> DEFINE n == Len(q)  r == Append(q, f)  w == InFlight(f)
<1>1. n \in Nat /\ Len(r) = n + 1 /\ r \in Seq(Frame) /\ r[n + 1] = f /\ \A i \in 1..n : r[i] = q[i]
  OBVIOUS
<1>w. w \in Nat
  BY Weight
<1>2. PICK g : Counts(g, q)
  BY DEF Summed
<1>3. Sum(q) = g[n] /\ g[n] \in Nat
  BY <1>2, SumIs
<1> DEFINE h == [i \in 0..(n + 1) |-> IF i = n + 1 THEN g[n] + w ELSE g[i]]
<1>4. /\ g \in [0..n -> Nat] /\ g[0] = 0 /\ \A i \in 1..n : g[i] = g[i - 1] + InFlight(q[i])
      /\ \A i, j \in 0..n : i <= j => g[i] <= g[j]
      /\ \A s \in 0..n : \A k \in 0..(n - s) : \A a : AddsUp(a, q, s, k) => a = Between(g, s, k)
  BY <1>2 DEF Counts
<1> HIDE DEF n, r, w
<1>5. h \in [0..(n + 1) -> Nat] /\ h[n + 1] = g[n] + w /\ h[0] = 0 /\ \A i \in 0..n : h[i] = g[i]
  BY <1>1, <1>w, <1>4
<1> HIDE DEF h
<1>6. ASSUME NEW i \in 1..(n + 1) PROVE h[i] = h[i - 1] + InFlight(r[i])
  <2>1. CASE i = n + 1
    <3>1. i - 1 = n /\ n \in 0..n
      BY <2>1, <1>1
    <3> QED BY <3>1, <2>1, <1>1, <1>5 DEF w
  <2>2. CASE i \in 1..n
    <3>1. i \in 0..n /\ i - 1 \in 0..n /\ r[i] = q[i]
      BY <2>2, <1>1
    <3> QED BY <3>1, <2>2, <1>4, <1>5
  <2> QED BY <1>1, <2>1, <2>2
<1>7. ASSUME NEW i \in 0..(n + 1), NEW j \in 0..(n + 1), i <= j PROVE h[i] <= h[j]
  <2>1. \A k \in 0..n : h[k] = g[k] /\ g[k] \in Nat /\ g[k] <= g[n] /\ g[n] \in Nat
    <3>1. n \in 0..n /\ \A k \in 0..n : k <= n
      BY <1>1
    <3> QED BY <3>1, <1>4, <1>5
  <2>2. CASE j = n + 1 /\ i = n + 1
    BY <2>2, <1>1, <1>5
  <2>3. CASE j = n + 1 /\ i \in 0..n
    BY <2>3, <2>1, <1>5, <1>w
  <2>4. CASE j \in 0..n
    <3>1. i \in 0..n
      BY <1>7, <2>4, <1>1
    <3> QED BY <3>1, <2>4, <2>1, <1>7, <1>4
  <2> QED BY <2>2, <2>3, <2>4, <1>1
<1>8. ASSUME NEW s \in 0..(n + 1), NEW k \in 0..((n + 1) - s), NEW a, AddsUp(a, r, s, k)
      PROVE  a = Between(h, s, k)
  <2>0. s \in Nat /\ k \in Nat /\ s + k <= n + 1
    BY <1>1
  <2>1. CASE s + k <= n
    <3>1. \A i \in 1..k : r[s + i] = q[s + i]
      <4>1. \A i \in 1..k : s + i \in 1..n
        BY <2>0, <2>1, <1>1
      <4> QED BY <4>1, <1>1
    <3>2. AddsUp(a, q, s, k)
      BY <3>1, <2>0, <1>8, SameFrames
    <3>3. s \in 0..n /\ k \in 0..(n - s)
      BY <2>0, <2>1, <1>1
    <3>4. a = Between(g, s, k)
      BY <3>2, <3>3, <1>4
    <3>5. \A i \in 0..k : g[s + i] - g[s] = h[s + i] - h[s]
      <4>1. s \in 0..n /\ \A i \in 0..k : s + i \in 0..n
        BY <3>3, <2>0, <2>1, <1>1
      <4> QED BY <4>1, <1>5
    <3> QED BY <3>4, <3>5 DEF Between
  <2>2. CASE s + k = n + 1
    <3>1. Values(a, r, s, k)
      BY <1>8, <2>0, ItsValues
    <3>2. ASSUME NEW i \in 0..k PROVE a[i] = h[s + i] - h[s]
      <4>1. CASE i = 0
        <5>1. h[s + i] = h[s] /\ h[s] \in Nat
          BY <4>1, <2>0, <1>5
        <5> QED BY <3>1, <4>1, <5>1 DEF Values
      <4>2. CASE i \in 1..k
        <5> DEFINE m == k - 1  b == [j \in 0..m |-> a[j]]
        <5>1. m \in Nat /\ s \in 0..n /\ m \in 0..(n - s) /\ s + m = n /\ m + 1 = k /\ m \in 0..m /\ s + k = n + 1
              /\ k \in 1..k /\ k - 1 = m
          BY <4>2, <2>0, <2>2, <1>1
        <5> HIDE DEF m
        <5>2. AddsUp(b, r, s, m)
          <6>1. \A j \in 0..m : b[j] = a[j]
            OBVIOUS
          <6>2. b = [j \in 0..m |-> b[j]]
            OBVIOUS
          <6> HIDE DEF b
          <6>3. b[0] = 0
            <7>1. 0 \in 0..m
              BY <5>1
            <7>2. a[0] = 0
              BY <3>1 DEF Values
            <7> QED BY <7>1, <7>2, <6>1
          <6>4. \A j \in 1..m : b[j] = b[j - 1] + InFlight(r[s + j])
            <7>1. \A j \in 1..m : j \in 0..m /\ j - 1 \in 0..m /\ j \in 1..k
              BY <5>1, <2>0
            <7> QED BY <7>1, <3>1, <6>1 DEF Values
          <6>5. Values(b, r, s, m)
            BY <6>2, <6>3, <6>4 DEF Values
          <6> QED BY <6>5, <5>1, <2>0, ItsValues
        <5>3. AddsUp(b, q, s, m)
          <6>1. \A j \in 1..m : r[s + j] = q[s + j]
            <7>1. \A j \in 1..m : s + j \in 1..n
              BY <5>1, <2>0, <1>1
            <7> QED BY <7>1, <1>1
          <6> HIDE DEF b
          <6> QED BY <6>1, <5>1, <5>2, <2>0, SameFrames
        <5>4. b = Between(g, s, m)
          <6> HIDE DEF b
          <6> QED BY <5>1, <5>3, <1>4
        <5>5. \A j \in 0..m : a[j] = g[s + j] - g[s]
          <6>1. \A j \in 0..m : b[j] = a[j]
            OBVIOUS
          <6> HIDE DEF b
          <6> QED BY <5>4, <6>1 DEF Between
        <5>6. \A j \in 0..m : a[j] = h[s + j] - h[s]
          <6>1. s \in 0..n /\ \A j \in 0..m : s + j \in 0..n
            BY <5>1, <2>0, <1>1
          <6> QED BY <6>1, <5>5, <1>5
        <5>7. CASE i \in 0..m
          BY <5>6, <5>7
        <5>8. CASE i = k
          <6>1. a[k] = a[m] + w
            <7>1. a[k] = a[k - 1] + InFlight(r[s + k])
              BY <3>1, <5>1 DEF Values
            <7> QED BY <7>1, <5>1, <1>1 DEF w
          <6>2. a[m] = h[n] - h[s] /\ h[n] = g[n]
            <7>1. n \in 0..n
              BY <1>1
            <7> QED BY <5>1, <5>6, <1>5, <7>1
          <6>3. h[s + k] = g[n] + w /\ g[n] \in Nat /\ h[s] \in Nat
            BY <5>1, <1>3, <1>5
          <6>4. a[k] = h[s + k] - h[s]
            BY <6>1, <6>2, <6>3, <1>w
          <6> QED BY <6>4, <5>8
        <5> QED BY <4>2, <5>1, <5>7, <5>8
      <4> QED BY <4>1, <4>2, <2>0
    <3>3. [i \in 0..k |-> a[i]] = [i \in 0..k |-> h[s + i] - h[s]]
      BY <3>2
    <3>4. a = [i \in 0..k |-> a[i]]
      BY <3>1 DEF Values
    <3> QED BY <3>3, <3>4 DEF Between
  <2> QED BY <2>0, <2>1, <2>2, <1>1
<1>9. Counts(h, r)
  BY <1>1, <1>5, <1>6, <1>7, <1>8 DEF Counts
<1>10. Summed(r) /\ Sum(r) = h[n + 1]
  BY <1>1, <1>9, SumIs DEF Summed
<1> QED BY <1>3, <1>5, <1>10 DEF r, w

LEMMA SumTail ==
  ASSUME NEW q \in Seq(Frame), Summed(q), q # <<>>
  PROVE  Summed(Tail(q)) /\ Sum(q) = InFlight(Head(q)) + Sum(Tail(q)) /\ Sum(Tail(q)) \in Nat
<1> DEFINE n == Len(q) - 1  r == Tail(q)  w == InFlight(Head(q))
<1>1. n \in Nat /\ Len(q) = n + 1 /\ Len(r) = n /\ r \in Seq(Frame) /\ Head(q) = q[1] /\ Head(q) \in Frame
      /\ \A i \in 1..n : r[i] = q[1 + i]
  OBVIOUS
<1>w. w \in Nat
  BY <1>1, Weight
<1>2. PICK g : Counts(g, q)
  BY DEF Summed
<1> HIDE DEF n, r, w
<1>3. Sum(q) = g[n + 1] /\ g[n + 1] \in Nat
  BY <1>1, <1>2, SumIs
<1>4. /\ g \in [0..(n + 1) -> Nat] /\ g[0] = 0 /\ \A i \in 1..(n + 1) : g[i] = g[i - 1] + InFlight(q[i])
      /\ \A i, j \in 0..(n + 1) : i <= j => g[i] <= g[j]
      /\ \A s \in 0..(n + 1) : \A k \in 0..((n + 1) - s) : \A a : AddsUp(a, q, s, k) => a = Between(g, s, k)
  BY <1>1, <1>2 DEF Counts
<1>5. g[1] = w /\ \A i \in 0..n : g[1 + i] \in Nat /\ g[1] <= g[1 + i]
  <2>1. 1 \in 1..(n + 1) /\ 1 - 1 = 0 /\ \A i \in 0..n : 1 + i \in 0..(n + 1) /\ 1 \in 0..(n + 1) /\ 1 <= 1 + i
    BY <1>1
  <2>2. g[1] = g[0] + w
    BY <1>1, <1>4, <2>1 DEF w
  <2> QED BY <1>w, <1>4, <2>1, <2>2
<1> DEFINE h == [i \in 0..n |-> g[1 + i] - g[1]]
<1>6. h \in [0..n -> Nat] /\ \A i \in 0..n : h[i] = g[1 + i] - g[1]
  <2>1. \A i \in 0..n : g[1 + i] - g[1] \in Nat
    BY <1>5, <1>w
  <2> QED BY <2>1
<1> HIDE DEF h
<1>7. h[0] = 0 /\ h[n] = g[n + 1] - w
  <2>1. 0 \in 0..n /\ 1 + 0 = 1 /\ n \in 0..n /\ 1 + n = n + 1
    BY <1>1
  <2> QED BY <2>1, <1>5, <1>6, <1>w
<1>8. ASSUME NEW i \in 1..n PROVE h[i] = h[i - 1] + InFlight(r[i])
  <2>1. i \in 0..n /\ i - 1 \in 0..n /\ 1 + i \in 1..(n + 1) /\ (1 + i) - 1 = i /\ 1 + (i - 1) = i /\ r[i] = q[1 + i]
    BY <1>1
  <2>2. g[1 + i] = g[i] + InFlight(r[i]) /\ h[i] = g[1 + i] - g[1] /\ h[i - 1] = g[i] - g[1]
    BY <2>1, <1>4, <1>6
  <2>3. g[i] \in Nat /\ InFlight(r[i]) \in Nat
    <3>1. i \in 0..(n + 1) /\ r[i] \in Frame
      BY <1>1
    <3> QED BY <3>1, <1>4, Weight
  <2> QED BY <2>2, <2>3, <1>5, <1>w
<1>9. ASSUME NEW i \in 0..n, NEW j \in 0..n, i <= j PROVE h[i] <= h[j]
  <2>1. 1 + i \in 0..(n + 1) /\ 1 + j \in 0..(n + 1) /\ 1 + i <= 1 + j
    BY <1>9, <1>1
  <2>2. g[1 + i] <= g[1 + j]
    BY <2>1, <1>4
  <2> QED BY <2>2, <1>5, <1>6, <1>w
<1>10. ASSUME NEW s \in 0..n, NEW k \in 0..(n - s), NEW a, AddsUp(a, r, s, k)
       PROVE  a = Between(h, s, k)
  <2>0. s \in Nat /\ k \in Nat /\ s + 1 \in Nat /\ s + 1 \in 0..(n + 1) /\ k \in 0..((n + 1) - (s + 1)) /\ s + k <= n
    BY <1>1
  <2>1. \A i \in 1..k : r[s + i] = q[(s + 1) + i]
    <3>1. \A i \in 1..k : s + i \in 1..n /\ 1 + (s + i) = (s + 1) + i
      BY <2>0, <1>1
    <3> QED BY <3>1, <1>1
  <2>2. \E t \in Nat : t = s + 1
    BY <2>0
  <2>3. PICK t \in Nat : t = s + 1
    BY <2>2
  <2>4. AddsUp(a, q, t, k)
    BY <2>0, <2>1, <2>3, <1>10, SameFrames
  <2>5. a = Between(g, t, k)
    BY <2>0, <2>3, <2>4, <1>4
  <2>6. ASSUME NEW i \in 0..k PROVE g[t + i] - g[t] = h[s + i] - h[s]
    <3>1. s \in 0..n /\ s + i \in 0..n /\ 1 + s = t /\ 1 + (s + i) = t + i
      BY <2>0, <2>3, <1>1
    <3>2. h[s + i] = g[t + i] - g[1] /\ h[s] = g[t] - g[1] /\ g[t] \in Nat /\ g[t + i] \in Nat
      BY <3>1, <1>5, <1>6
    <3> QED BY <3>2, <1>5, <1>w
  <2> QED BY <2>5, <2>6 DEF Between
<1>11. Counts(h, r)
  BY <1>1, <1>6, <1>7, <1>8, <1>9, <1>10 DEF Counts
<1>12. Summed(r) /\ Sum(r) = h[n] /\ Sum(r) \in Nat
  BY <1>1, <1>11, SumIs DEF Summed
<1>13. Sum(q) = w + Sum(r)
  BY <1>3, <1>7, <1>12, <1>w
<1> QED BY <1>12, <1>13 DEF r, w

LEMMA SumPrefix ==
  ASSUME NEW q \in Seq(Frame), Summed(q), NEW n \in 0..Len(q)
  PROVE  Summed(SubSeq(q, 1, n)) /\ Sum(SubSeq(q, 1, n)) <= Sum(q) /\ Sum(SubSeq(q, 1, n)) \in Nat
<1> DEFINE r == SubSeq(q, 1, n)
<1>1. n \in Nat /\ Len(r) = n /\ r \in Seq(Frame) /\ (\A i \in 1..n : r[i] = q[i]) /\ Len(q) \in Nat /\ n <= Len(q)
  OBVIOUS
<1>2. PICK g : Counts(g, q)
  BY DEF Summed
<1>3. Sum(q) = g[Len(q)]
  BY <1>2, SumIs
<1>4. /\ g \in [0..Len(q) -> Nat] /\ g[0] = 0 /\ \A i \in 1..Len(q) : g[i] = g[i - 1] + InFlight(q[i])
      /\ \A i, j \in 0..Len(q) : i <= j => g[i] <= g[j]
      /\ \A s \in 0..Len(q) : \A k \in 0..(Len(q) - s) : \A a : AddsUp(a, q, s, k) => a = Between(g, s, k)
  BY <1>2 DEF Counts
<1> HIDE DEF r
<1> DEFINE h == [i \in 0..n |-> g[i]]
<1>5. h \in [0..n -> Nat] /\ \A i \in 0..n : h[i] = g[i] /\ i \in 0..Len(q)
  <2>1. \A i \in 0..n : i \in 0..Len(q) /\ g[i] \in Nat
    <3>1. \A i \in 0..n : i \in 0..Len(q)
      BY <1>1
    <3> QED BY <3>1, <1>4
  <2> QED BY <2>1
<1> HIDE DEF h
<1>6. h[0] = 0 /\ h[n] = g[n] /\ g[n] <= g[Len(q)]
  <2>1. 0 \in 0..n /\ n \in 0..n /\ n \in 0..Len(q) /\ Len(q) \in 0..Len(q)
    BY <1>1
  <2> QED BY <2>1, <1>1, <1>4, <1>5
<1>7. ASSUME NEW i \in 1..n PROVE h[i] = h[i - 1] + InFlight(r[i])
  <2>1. i \in 0..n /\ i - 1 \in 0..n /\ i \in 1..Len(q)
    BY <1>1
  <2> QED BY <2>1, <1>1, <1>4, <1>5
<1>8. \A i, j \in 0..n : i <= j => h[i] <= h[j]
  BY <1>4, <1>5
<1>9. ASSUME NEW s \in 0..n, NEW k \in 0..(n - s), NEW a, AddsUp(a, r, s, k)
      PROVE  a = Between(h, s, k)
  <2>0. s \in Nat /\ k \in Nat /\ s \in 0..Len(q) /\ k \in 0..(Len(q) - s) /\ s + k <= n
    BY <1>1
  <2>1. \A i \in 1..k : r[s + i] = q[s + i]
    <3>1. \A i \in 1..k : s + i \in 1..n
      BY <2>0, <1>1
    <3> QED BY <3>1, <1>1
  <2>2. AddsUp(a, q, s, k)
    BY <2>0, <2>1, <1>9, SameFrames
  <2>3. a = Between(g, s, k)
    BY <2>0, <2>2, <1>4
  <2>4. \A i \in 0..k : g[s + i] - g[s] = h[s + i] - h[s]
    <3>1. s \in 0..n /\ \A i \in 0..k : s + i \in 0..n
      BY <2>0, <1>1
    <3> QED BY <3>1, <1>5
  <2> QED BY <2>3, <2>4 DEF Between
<1>10. Counts(h, r)
  BY <1>1, <1>5, <1>6, <1>7, <1>8, <1>9 DEF Counts
<1>11. Summed(r) /\ Sum(r) = h[n] /\ Sum(r) \in Nat
  BY <1>1, <1>10, SumIs DEF Summed
<1> QED BY <1>3, <1>6, <1>11 DEF r

----------------------------------------------------------------------------
(* What is done to the frames under way *)

LEMMA Ends ==
  ASSUME NEW q \in Seq(Frame), NEW f \in Frame
  PROVE  /\ Append(q, f) \in Seq(Frame) /\ Len(Append(q, f)) = Len(q) + 1 /\ Append(q, f)[Len(q) + 1] = f
         /\ (\A i \in 1..Len(q) : Append(q, f)[i] = q[i] /\ q[i] \in Frame) /\ Len(q) \in Nat
  OBVIOUS

LEMMA Rest ==
  ASSUME NEW q \in Seq(Frame), q # <<>>
  PROVE  /\ Tail(q) \in Seq(Frame) /\ Len(Tail(q)) = Len(q) - 1 /\ Head(q) = q[1] /\ Head(q) \in Frame
         /\ (\A i \in 1..Len(Tail(q)) : Tail(q)[i] = q[i + 1]) /\ Len(q) \in Nat /\ 1 <= Len(q)
  OBVIOUS

LEMMA Front ==
  ASSUME NEW q \in Seq(Frame), NEW n \in 0..Len(q)
  PROVE  /\ SubSeq(q, 1, n) \in Seq(Frame) /\ Len(SubSeq(q, 1, n)) = n
         /\ \A i \in 1..n : SubSeq(q, 1, n)[i] = q[i] /\ i \in 1..Len(q)
  OBVIOUS

LEMMA Frames ==
  /\ \A t \in FrameTypes : \A k \in 0..RequestMax : F(t, k) \in Frame /\ F(t, k).type = t /\ F(t, k).n = k
  /\ Types => /\ F("request", first) \in Frame /\ F("cancel", 0) \in Frame /\ F("error", 0) \in Frame
              /\ F(outcome, 0) \in Frame /\ sent \in Nat /\ total \in Nat
              /\ (\A n \in 1..MaxN : F("requestN", n) \in Frame /\ n \in 0..RequestMax)
              /\ sent < total => F("next", sent + 1) \in Frame /\ sent + 1 \in 0..RequestMax
<1>1. \A t \in FrameTypes : \A k \in 0..RequestMax : F(t, k) \in Frame /\ F(t, k).type = t /\ F(t, k).n = k
  BY DEF F, Frame
<1>2. ASSUME Types
      PROVE /\ first \in 0..RequestMax /\ 0 \in 0..RequestMax /\ outcome \in FrameTypes
            /\ sent \in Nat /\ total \in Nat
            /\ (\A n \in 1..MaxN : n \in 0..RequestMax) /\ (sent < total => sent + 1 \in 0..RequestMax)
  <2>1. total \in 0..RequestMax
    BY <1>2, Numbers DEF Types, PlanType, ItemsOf
  <2>2. \A n \in 1..MaxN : n \in 0..RequestMax
    <3> DEFINE p == MaxAsks * MaxN
    <3>1. p \in Nat /\ MaxN \in Nat /\ MaxN <= p /\ \A n \in 0..p : n \in 0..RequestMax
      BY Numbers
    <3> HIDE DEF p
    <3> QED BY <3>1
  <2> QED BY <1>2, <2>1, <2>2, Numbers DEF Types, PlanType, AType, BType, FrameTypes
<1>3. "request" \in FrameTypes /\ "cancel" \in FrameTypes /\ "error" \in FrameTypes /\ "requestN" \in FrameTypes
      /\ "next" \in FrameTypes
  BY DEF FrameTypes
<1> QED BY <1>1, <1>2, <1>3

\* What an action does to the frames under way, in one place for each way.
LEMMA SendsA ==
  ASSUME Types, Summed(ab), NEW f \in Frame, SendA(f)
  PROVE  /\ ab' \in Seq(Frame) /\ Summed(ab') /\ Sum(ab) \in Nat
         /\ \/ (closed[A] \/ swept[B]) /\ ab' = ab /\ Sum(ab') = Sum(ab)
            \/ ~closed[A] /\ ~swept[B] /\ ab' = Append(ab, f) /\ Sum(ab') = Sum(ab) + InFlight(f)
<1>1. ab \in Seq(Frame)
  BY DEF Types, WireType
<1>2. CASE closed[A] \/ swept[B]
  BY <1>1, <1>2, SumAppend DEF SendA
<1>3. CASE ~(closed[A] \/ swept[B])
  BY <1>1, <1>3, SumAppend, Ends DEF SendA
<1> QED BY <1>2, <1>3

LEMMA SendsB ==
  ASSUME Types, NEW f \in Frame, SendB(f)
  PROVE  /\ ba' \in Seq(Frame)
         /\ \/ (closed[B] \/ swept[A]) /\ ba' = ba
            \/ ~closed[B] /\ ~swept[A] /\ ba' = Append(ba, f)
  BY Ends DEF Types, WireType, SendB

LEMMA Cuts ==
  ASSUME Types, Summed(ab), Cut
  PROVE  /\ ab' \in Seq(Frame) /\ Summed(ab') /\ Sum(ab') <= Sum(ab) /\ Sum(ab) \in Nat /\ Sum(ab') \in Nat
         /\ Len(ab') <= Len(ab) /\ (\A i \in 1..Len(ab') : ab'[i] = ab[i] /\ i \in 1..Len(ab))
         /\ ba' \in Seq(Frame)
         /\ Len(ba') <= Len(ba) /\ (\A i \in 1..Len(ba') : ba'[i] = ba[i] /\ i \in 1..Len(ba))
<1>1. ab \in Seq(Frame) /\ ba \in Seq(Frame)
  BY DEF Types, WireType
<1>2. PICK k \in 0..Len(ab) : ab' = SubSeq(ab, 1, k)
  BY DEF Cut
<1>3. PICK m \in 0..Len(ba) : ba' = SubSeq(ba, 1, m)
  BY DEF Cut
<1>4. Summed(ab') /\ Sum(ab') <= Sum(ab) /\ Sum(ab') \in Nat
  BY <1>1, <1>2, SumPrefix
<1>5. Sum(ab) \in Nat
  BY <1>1, SumIs DEF Summed
<1>6. ab' \in Seq(Frame) /\ Len(ab') = k /\ \A i \in 1..k : ab'[i] = ab[i] /\ i \in 1..Len(ab)
  BY <1>1, <1>2, Front
<1>7. ba' \in Seq(Frame) /\ Len(ba') = m /\ \A i \in 1..m : ba'[i] = ba[i] /\ i \in 1..Len(ba)
  BY <1>1, <1>3, Front
<1>8. Len(ab) \in Nat /\ Len(ba) \in Nat /\ k <= Len(ab) /\ m <= Len(ba)
  BY <1>1
<1> QED BY <1>4, <1>5, <1>6, <1>7, <1>8

LEMMA Takes ==
  ASSUME Types, Summed(ab), ab # <<>>, ab' = Tail(ab)
  PROVE  /\ ab' \in Seq(Frame) /\ Summed(ab') /\ Sum(ab) = InFlight(ab[1]) + Sum(ab') /\ Sum(ab') \in Nat
         /\ Sum(ab) \in Nat /\ Head(ab) = ab[1] /\ ab[1] \in Frame
         /\ Len(ab') = Len(ab) - 1 /\ Len(ab) \in Nat /\ 1 <= Len(ab) /\ \A i \in 1..Len(ab') : ab'[i] = ab[i + 1]
<1>1. ab \in Seq(Frame)
  BY DEF Types, WireType
<1>2. Sum(ab) \in Nat
  BY <1>1, SumIs DEF Summed
<1> QED BY <1>1, <1>2, SumTail, Rest

----------------------------------------------------------------------------
(* The steps *)

\* The plan of the publisher never changes.
LEMMA Kept == ASSUME Types, [Next]_vars PROVE PlanType' /\ kind' = kind /\ outcome' = outcome /\ total' = total
<1>1. kind' = kind /\ outcome' = outcome /\ total' = total
  BY DEF Next, Requester, Responder, planVars, vars, Check, Register, SendRequest, Finally, Unregister, Cancel,
     ReceiveA, ReceiveB, OnSubscribe, OnSubscribeDone, Emit, End, EndCancelled, Finish, AskFirst, AskMore, Close,
     SweepA, SweepB
<1> QED BY <1>1 DEF Types, PlanType, ItemsOf

LEMMA ATypeStep ==
  ASSUME Types, Stages, [Next]_vars
  PROVE  AType'
<1>1. ASSUME Check PROVE AType'
  BY <1>1 DEF Check, AType, Types, aVars, vars, Terminate
<1>2. ASSUME Register PROVE AType'
  <2>1. RequestMax \in 0..RequestMax /\ 0 \in 0..RequestMax
    BY Numbers
  <2> QED BY <1>2, <2>1 DEF Register, AType, Types
<1>3. ASSUME SendRequest PROVE AType'
  BY <1>3 DEF SendRequest, AType, Types, aVars, vars, Terminate
<1>4. ASSUME Finally PROVE AType'
  BY <1>4 DEF Finally, AType, Types, aVars, vars, Terminate
<1>5. ASSUME Unregister PROVE AType'
  BY <1>5 DEF Unregister, AType, Types, aVars, vars, Terminate
<1>6. ASSUME Cancel PROVE AType'
  BY <1>6 DEF Cancel, AType, Types, aVars, vars, Terminate
<1>7. ASSUME ReceiveA PROVE AType'
  <2>1. ba \in Seq(Frame) /\ ba # <<>>
    BY <1>7 DEF ReceiveA, Types, WireType
  <2>2. Head(ba).n \in Nat
    <3>1. Head(ba) \in Frame
      BY <2>1, Rest
    <3>2. Head(ba).n \in 0..RequestMax /\ RequestMax \in Nat
      BY <3>1, Numbers DEF Frame
    <3> QED BY <3>2
  <2>3. got' \in Seq(Nat)
    BY <1>7, <2>2 DEF ReceiveA, Types, AType
  <2> QED BY <1>7, <2>3 DEF ReceiveA, AType, Types, Terminate
<1>8. ASSUME ReceiveB PROVE AType'
  BY <1>8 DEF ReceiveB, AType, Types, aVars, vars, Terminate
<1>9. ASSUME OnSubscribe PROVE AType'
  BY <1>9 DEF OnSubscribe, AType, Types, aVars, vars, Terminate
<1>10. ASSUME OnSubscribeDone PROVE AType'
  BY <1>10 DEF OnSubscribeDone, AType, Types, aVars, vars, Terminate
<1>11. ASSUME Emit PROVE AType'
  BY <1>11 DEF Emit, AType, Types, aVars, vars, Terminate
<1>12. ASSUME End PROVE AType'
  BY <1>12 DEF End, AType, Types, aVars, vars, Terminate
<1>13. ASSUME EndCancelled PROVE AType'
  BY <1>13 DEF EndCancelled, AType, Types, aVars, vars, Terminate
<1>14. ASSUME Finish PROVE AType'
  BY <1>14 DEF Finish, AType, Types, aVars, vars, Terminate
<1>15. ASSUME NEW n \in 1..MaxN, AskFirst(n) PROVE AType'
  <2>1. asks \in 0..MaxAsks /\ asks + 1 \in 0..MaxAsks /\ asked \in 0..(asks * MaxN)
    BY <1>15, Numbers DEF AskFirst, AType, Types, Stages
  <2>2. asks * MaxN \in Nat /\ (asks + 1) * MaxN = asks * MaxN + MaxN /\ MaxN \in Nat
    BY <2>1, Numbers
  <2> DEFINE p == asks * MaxN  s == (asks + 1) * MaxN
  <2>3. p \in Nat /\ s = p + MaxN /\ asked \in 0..p
    BY <2>1, <2>2
  <2> HIDE DEF p, s
  <2>4. asked + n \in 0..s /\ n \in 0..RequestMax
    BY <1>15, <2>2, <2>3, Frames
  <2>5. asks' = asks + 1 /\ asked' = asked + n
    BY <1>15 DEF AskFirst
  <2>6. asked' \in 0..(asks' * MaxN) /\ asks' \in 0..MaxAsks
    BY <2>1, <2>4, <2>5 DEF s
  <2> QED BY <1>15, <2>4, <2>6 DEF AskFirst, AType, Types
<1>16. ASSUME NEW n \in 1..MaxN, AskMore(n) PROVE AType'
  <2>1. asks \in 0..MaxAsks /\ asks + 1 \in 0..MaxAsks /\ asked \in 0..(asks * MaxN)
    BY <1>16, Numbers DEF AskMore, AType, Types, Stages
  <2>2. asks * MaxN \in Nat /\ (asks + 1) * MaxN = asks * MaxN + MaxN /\ MaxN \in Nat
    BY <2>1, Numbers
  <2> DEFINE p == asks * MaxN  s == (asks + 1) * MaxN
  <2>3. p \in Nat /\ s = p + MaxN /\ asked \in 0..p
    BY <2>1, <2>2
  <2> HIDE DEF p, s
  <2>4. asked + n \in 0..s /\ n \in 0..RequestMax
    BY <1>16, <2>2, <2>3, Frames
  <2>5. asks' = asks + 1 /\ asked' = asked + n
    BY <1>16 DEF AskMore
  <2>6. asked' \in 0..(asks' * MaxN) /\ asks' \in 0..MaxAsks
    BY <2>1, <2>4, <2>5 DEF s
  <2> QED BY <1>16, <2>4, <2>6 DEF AskMore, AType, Types
<1>17. ASSUME NEW s \in Sides, Close(s) PROVE AType'
  BY <1>17 DEF Close, AType, Types, aVars, vars, Terminate
<1>18. ASSUME SweepA PROVE AType'
  BY <1>18 DEF SweepA, AType, Types, aVars, vars, Terminate
<1>19. ASSUME SweepB PROVE AType'
  BY <1>19 DEF SweepB, AType, Types, aVars, vars, Terminate
<1>20. ASSUME UNCHANGED vars PROVE AType'
  BY <1>20 DEF AType, Types, aVars, vars, Terminate
<1> QED BY <1>1, <1>2, <1>3, <1>4, <1>5, <1>6, <1>7, <1>8, <1>9, <1>10, <1>11, <1>12, <1>13, <1>14, <1>15, <1>16, <1>17, <1>18, <1>19, <1>20 DEF Next, Requester, Responder

LEMMA BTypeStep ==
  ASSUME Types, Summed(ab), [Next]_vars
  PROVE  BType'
<1>1. ASSUME Check PROVE BType'
  BY <1>1, Kept DEF Check, BType, Types, bVars, vars
<1>2. ASSUME Register PROVE BType'
  BY <1>2, Kept DEF Register, BType, Types, bVars, vars
<1>3. ASSUME SendRequest PROVE BType'
  BY <1>3, Kept DEF SendRequest, BType, Types, bVars, vars
<1>4. ASSUME Finally PROVE BType'
  BY <1>4, Kept DEF Finally, BType, Types, bVars, vars
<1>5. ASSUME Unregister PROVE BType'
  BY <1>5, Kept DEF Unregister, BType, Types, bVars, vars
<1>6. ASSUME Cancel PROVE BType'
  BY <1>6, Kept DEF Cancel, BType, Types, bVars, vars
<1>7. ASSUME ReceiveA PROVE BType'
  BY <1>7, Kept DEF ReceiveA, BType, Types, bVars, vars
<1>8. ASSUME ReceiveB PROVE BType'
  <2>1. ab # <<>> /\ ab' = Tail(ab)
    BY <1>8 DEF ReceiveB
  <2>2. Head(ab).n \in 0..RequestMax
    BY <2>1, Takes DEF Frame
  <2>3. Head(ab).n \in Nat /\ Head(ab).n <= RequestMax /\ RequestMax \in Nat
    BY <2>2, Numbers
  <2>4. CASE Head(ab).type = "request" /\ Respond(Head(ab)) /\ UNCHANGED <<stopped, unheard>>
    BY <1>8, <2>3, <2>4, Kept DEF ReceiveB, Respond, BType, Types
  <2>5. CASE Demand(Head(ab)) /\ UNCHANGED <<bpc, stopped, ba>>
    <3>1. credit' \in Nat /\ (kind = "response" => credit' <= RequestMax)
      BY <2>3, <2>5 DEF Demand, BType, Types
    <3>2. unheard' \subseteq {"requestN", "cancel"}
      BY <2>5 DEF Demand, BType, Types
    <3> QED BY <1>8, <2>5, <3>1, <3>2, Kept DEF ReceiveB, BType, Types
  <2>6. CASE Halt /\ UNCHANGED <<bpc, credit, ba>>
    BY <1>8, <2>6, Kept DEF ReceiveB, Halt, BType, Types
  <2> QED BY <1>8, <2>4, <2>5, <2>6 DEF ReceiveB
<1>9. ASSUME OnSubscribe PROVE BType'
  BY <1>9, Kept DEF OnSubscribe, BType, Types, bVars, vars
<1>10. ASSUME OnSubscribeDone PROVE BType'
  BY <1>10, Kept DEF OnSubscribeDone, BType, Types, bVars, vars
<1>11. ASSUME Emit PROVE BType'
  <2>1. credit \in Nat /\ credit > 0 /\ (kind = "response" => credit <= RequestMax) /\ credit' = credit - 1
        /\ sent \in 0..total /\ sent < total /\ total \in Nat /\ sent' = sent + 1 /\ RequestMax \in Nat
    BY <1>11, Frames, Numbers DEF Emit, BType, Types
  <2>2. credit' \in Nat /\ (kind = "response" => credit' <= RequestMax) /\ sent' \in 0..total
    BY <2>1
  <2> QED BY <1>11, <2>2, Kept DEF Emit, BType, Types
<1>12. ASSUME End PROVE BType'
  BY <1>12, Kept DEF End, BType, Types, bVars, vars
<1>13. ASSUME EndCancelled PROVE BType'
  BY <1>13, Kept DEF EndCancelled, BType, Types, bVars, vars
<1>14. ASSUME Finish PROVE BType'
  BY <1>14, Kept DEF Finish, BType, Types, bVars, vars
<1>15. ASSUME NEW n \in 1..MaxN, AskFirst(n) PROVE BType'
  BY <1>15, Kept DEF AskFirst, BType, Types, bVars, vars
<1>16. ASSUME NEW n \in 1..MaxN, AskMore(n) PROVE BType'
  BY <1>16, Kept DEF AskMore, BType, Types, bVars, vars
<1>17. ASSUME NEW s \in Sides, Close(s) PROVE BType'
  BY <1>17, Kept DEF Close, BType, Types, bVars, vars
<1>18. ASSUME SweepA PROVE BType'
  BY <1>18, Kept DEF SweepA, BType, Types, bVars, vars
<1>19. ASSUME SweepB PROVE BType'
  BY <1>19, Kept DEF SweepB, BType, Types, bVars, vars
<1>20. ASSUME UNCHANGED vars PROVE BType'
  BY <1>20, Kept DEF BType, Types, bVars, vars
<1> QED BY <1>1, <1>2, <1>3, <1>4, <1>5, <1>6, <1>7, <1>8, <1>9, <1>10, <1>11, <1>12, <1>13, <1>14, <1>15, <1>16, <1>17, <1>18, <1>19, <1>20 DEF Next, Requester, Responder

LEMMA WireStep ==
  ASSUME Types, Summed(ab), [Next]_vars
  PROVE  WireType' /\ Summed(ab')
<1>1. ASSUME Check PROVE WireType' /\ Summed(ab')
  BY <1>1 DEF Check, WireType, Types, aVars, bVars, sockVars, vars
<1>2. ASSUME Register PROVE WireType' /\ Summed(ab')
  BY <1>2 DEF Register, WireType, Types, aVars, bVars, sockVars, vars
<1>3. ASSUME SendRequest PROVE WireType' /\ Summed(ab')
  <2>1. SendA(F("request", first)) /\ F("request", first) \in Frame
    BY <1>3, Frames DEF SendRequest
  <2>2. ab' \in Seq(Frame) /\ Summed(ab')
    BY <2>1, SendsA
  <2> QED BY <1>3, <2>2 DEF SendRequest, WireType, Types, sockVars
<1>4. ASSUME Finally PROVE WireType' /\ Summed(ab')
  <2>1. CASE sink = "cancel"
    <3>1. SendA(F("cancel", 0)) /\ F("cancel", 0) \in Frame
      BY <1>4, <2>1, Frames DEF Finally
    <3>2. ab' \in Seq(Frame) /\ Summed(ab')
      BY <3>1, SendsA
    <3> QED BY <1>4, <3>2 DEF Finally, WireType, Types, sockVars
  <2>2. CASE sink # "cancel"
    BY <1>4, <2>2 DEF Finally, WireType, Types, sockVars
  <2> QED BY <2>1, <2>2
<1>5. ASSUME Unregister PROVE WireType' /\ Summed(ab')
  BY <1>5 DEF Unregister, WireType, Types, aVars, bVars, sockVars, vars
<1>6. ASSUME Cancel PROVE WireType' /\ Summed(ab')
  BY <1>6 DEF Cancel, WireType, Types, aVars, bVars, sockVars, vars
<1>7. ASSUME ReceiveA PROVE WireType' /\ Summed(ab')
  <2>1. ba' \in Seq(Frame)
    <3>1. ba \in Seq(Frame) /\ ba # <<>> /\ ba' = Tail(ba)
      BY <1>7 DEF ReceiveA, WireType, Types
    <3> QED BY <3>1, Rest
  <2> QED BY <1>7, <2>1 DEF ReceiveA, WireType, Types, sockVars
<1>8. ASSUME ReceiveB PROVE WireType' /\ Summed(ab')
  <2>1. ab # <<>> /\ ab' = Tail(ab)
    BY <1>8 DEF ReceiveB
  <2>2. ab' \in Seq(Frame) /\ Summed(ab')
    BY <2>1, Takes
  <2>3. ba' \in Seq(Frame)
    <3>1. CASE Respond(Head(ab))
      <4>1. CASE SendB(F("error", 0))
        BY <4>1, Frames, SendsB
      <4>2. CASE UNCHANGED ba
        BY <4>2 DEF Types, WireType
      <4> QED BY <3>1, <4>1, <4>2 DEF Respond
    <3>2. CASE UNCHANGED ba
      BY <3>2 DEF Types, WireType
    <3> QED BY <1>8, <3>1, <3>2 DEF ReceiveB
  <2> QED BY <1>8, <2>2, <2>3 DEF ReceiveB, WireType, Types, sockVars
<1>9. ASSUME OnSubscribe PROVE WireType' /\ Summed(ab')
  BY <1>9 DEF OnSubscribe, WireType, Types, aVars, bVars, sockVars, vars
<1>10. ASSUME OnSubscribeDone PROVE WireType' /\ Summed(ab')
  <2>1. SendB(F("error", 0)) /\ F("error", 0) \in Frame
    BY <1>10, Frames DEF OnSubscribeDone
  <2>2. ba' \in Seq(Frame)
    BY <2>1, SendsB
  <2> QED BY <1>10, <2>2 DEF OnSubscribeDone, WireType, Types, sockVars
<1>11. ASSUME Emit PROVE WireType' /\ Summed(ab')
  <2>1. SendB(F("next", sent + 1)) /\ F("next", sent + 1) \in Frame
    BY <1>11, Frames DEF Emit
  <2>2. ba' \in Seq(Frame)
    BY <2>1, SendsB
  <2> QED BY <1>11, <2>2 DEF Emit, WireType, Types, sockVars
<1>12. ASSUME End PROVE WireType' /\ Summed(ab')
  <2>1. ba' \in Seq(Frame)
    <3>1. CASE kind = "response" /\ sent = 1
      BY <1>12, <3>1 DEF End, WireType, Types
    <3>2. CASE ~(kind = "response" /\ sent = 1)
      <4>1. SendB(F(outcome, 0)) /\ F(outcome, 0) \in Frame
        BY <1>12, <3>2, Frames DEF End
      <4> QED BY <4>1, SendsB
    <3> QED BY <3>1, <3>2
  <2> QED BY <1>12, <2>1 DEF End, WireType, Types, sockVars
<1>13. ASSUME EndCancelled PROVE WireType' /\ Summed(ab')
  <2>1. SendB(F("error", 0)) /\ F("error", 0) \in Frame
    BY <1>13, Frames DEF EndCancelled
  <2>2. ba' \in Seq(Frame)
    BY <2>1, SendsB
  <2> QED BY <1>13, <2>2 DEF EndCancelled, WireType, Types, sockVars
<1>14. ASSUME Finish PROVE WireType' /\ Summed(ab')
  BY <1>14 DEF Finish, WireType, Types, aVars, bVars, sockVars, vars
<1>15. ASSUME NEW n \in 1..MaxN, AskFirst(n) PROVE WireType' /\ Summed(ab')
  BY <1>15 DEF AskFirst, WireType, Types, aVars, bVars, sockVars, vars
<1>16. ASSUME NEW n \in 1..MaxN, AskMore(n) PROVE WireType' /\ Summed(ab')
  <2>1. SendA(F("requestN", n)) /\ F("requestN", n) \in Frame
    BY <1>16, Frames DEF AskMore
  <2>2. ab' \in Seq(Frame) /\ Summed(ab')
    BY <2>1, SendsA
  <2> QED BY <1>16, <2>2 DEF AskMore, WireType, Types, sockVars
<1>17. ASSUME NEW s \in Sides, Close(s) PROVE WireType' /\ Summed(ab')
  BY <1>17 DEF Close, WireType, Types, Sides
<1>18. ASSUME SweepA PROVE WireType' /\ Summed(ab')
  <2>1. ab' \in Seq(Frame) /\ Summed(ab') /\ ba' \in Seq(Frame)
    BY <1>18, Cuts DEF SweepA
  <2> QED BY <1>18, <2>1 DEF SweepA, WireType, Types, Sides
<1>19. ASSUME SweepB PROVE WireType' /\ Summed(ab')
  <2>1. ab' \in Seq(Frame) /\ Summed(ab') /\ ba' \in Seq(Frame)
    BY <1>19, Cuts DEF SweepB
  <2> QED BY <1>19, <2>1 DEF SweepB, WireType, Types, Sides
<1>20. ASSUME UNCHANGED vars PROVE WireType' /\ Summed(ab')
  BY <1>20 DEF WireType, Types, aVars, bVars, sockVars, vars
<1> QED BY <1>1, <1>2, <1>3, <1>4, <1>5, <1>6, <1>7, <1>8, <1>9, <1>10, <1>11, <1>12, <1>13, <1>14, <1>15, <1>16, <1>17, <1>18, <1>19, <1>20 DEF Next, Requester, Responder

LEMMA TypesStep == ASSUME Types, Summed(ab), Stages, [Next]_vars PROVE Types' /\ Summed(ab')
  BY Kept, ATypeStep, BTypeStep, WireStep DEF Types

LEMMA StagesStep ==
  ASSUME Types, Stages, [Next]_vars
  PROVE  Stages'
<1>1. ASSUME Check PROVE Stages'
  BY <1>1, Numbers DEF Check, Stages, Early, Types, PlanType, AType, planVars, aVars, vars, Terminate
<1>2. ASSUME Register PROVE Stages'
  BY <1>2, Numbers DEF Register, Stages, Early, Types, PlanType, AType, planVars, aVars, vars, Terminate
<1>3. ASSUME SendRequest PROVE Stages'
  BY <1>3, Numbers DEF SendRequest, Stages, Early, Types, PlanType, AType, planVars, aVars, vars, Terminate
<1>4. ASSUME Finally PROVE Stages'
  BY <1>4, Numbers DEF Finally, Stages, Early, Types, PlanType, AType, planVars, aVars, vars, Terminate
<1>5. ASSUME Unregister PROVE Stages'
  BY <1>5, Numbers DEF Unregister, Stages, Early, Types, PlanType, AType, planVars, aVars, vars, Terminate
<1>6. ASSUME Cancel PROVE Stages'
  BY <1>6, Numbers DEF Cancel, Stages, Early, Types, PlanType, AType, planVars, aVars, vars, Terminate
<1>7. ASSUME ReceiveA PROVE Stages'
  BY <1>7, Numbers DEF ReceiveA, Stages, Early, Types, PlanType, AType, planVars, aVars, vars, Terminate
<1>8. ASSUME ReceiveB PROVE Stages'
  BY <1>8, Numbers DEF ReceiveB, Stages, Early, Types, PlanType, AType, planVars, aVars, vars, Terminate
<1>9. ASSUME OnSubscribe PROVE Stages'
  BY <1>9, Numbers DEF OnSubscribe, Stages, Early, Types, PlanType, AType, planVars, aVars, vars, Terminate
<1>10. ASSUME OnSubscribeDone PROVE Stages'
  BY <1>10, Numbers DEF OnSubscribeDone, Stages, Early, Types, PlanType, AType, planVars, aVars, vars, Terminate
<1>11. ASSUME Emit PROVE Stages'
  BY <1>11, Numbers DEF Emit, Stages, Early, Types, PlanType, AType, planVars, aVars, vars, Terminate
<1>12. ASSUME End PROVE Stages'
  BY <1>12, Numbers DEF End, Stages, Early, Types, PlanType, AType, planVars, aVars, vars, Terminate
<1>13. ASSUME EndCancelled PROVE Stages'
  BY <1>13, Numbers DEF EndCancelled, Stages, Early, Types, PlanType, AType, planVars, aVars, vars, Terminate
<1>14. ASSUME Finish PROVE Stages'
  BY <1>14, Numbers DEF Finish, Stages, Early, Types, PlanType, AType, planVars, aVars, vars, Terminate
<1>15. ASSUME NEW n \in 1..MaxN, AskFirst(n) PROVE Stages'
  <2>1. asks = 0 /\ asked \in 0..(0 * MaxN) /\ kind = "stream" /\ apc = "returned" /\ sink = "open"
    BY <1>15 DEF AskFirst, Stages, Types, AType
  <2>2. asked = 0 /\ n \in Nat
    BY <2>1, Numbers
  <2>3. first' = n /\ asked' = n
    BY <1>15, <2>2 DEF AskFirst
  <2> QED BY <1>15, <2>1, <2>3 DEF AskFirst, Stages, Early
<1>16. ASSUME NEW n \in 1..MaxN, AskMore(n) PROVE Stages'
  BY <1>16, Numbers DEF AskMore, Stages, Early, Types, PlanType, AType, planVars, aVars, vars, Terminate
<1>17. ASSUME NEW s \in Sides, Close(s) PROVE Stages'
  BY <1>17, Numbers DEF Close, Stages, Early, Types, PlanType, AType, planVars, aVars, vars, Terminate
<1>18. ASSUME SweepA PROVE Stages'
  BY <1>18, Numbers DEF SweepA, Stages, Early, Types, PlanType, AType, planVars, aVars, vars, Terminate
<1>19. ASSUME SweepB PROVE Stages'
  BY <1>19, Numbers DEF SweepB, Stages, Early, Types, PlanType, AType, planVars, aVars, vars, Terminate
<1>20. ASSUME UNCHANGED vars PROVE Stages'
  BY <1>20, Numbers DEF Stages, Early, Types, PlanType, AType, planVars, aVars, vars, Terminate
<1> QED BY <1>1, <1>2, <1>3, <1>4, <1>5, <1>6, <1>7, <1>8, <1>9, <1>10, <1>11, <1>12, <1>13, <1>14, <1>15, <1>16, <1>17, <1>18, <1>19, <1>20 DEF Next, Requester, Responder
LEMMA NothingYetStep ==
  ASSUME Types, Types', Summed(ab), Requests, [Next]_vars
  PROVE  NothingYet'
<1>1. ASSUME Check PROVE NothingYet'
  BY <1>1 DEF Check, NothingYet, Requests, aVars, bVars, sockVars, vars
<1>2. ASSUME Register PROVE NothingYet'
  BY <1>2 DEF Register, NothingYet, Requests, aVars, bVars, sockVars, vars
<1>3. ASSUME SendRequest PROVE NothingYet'
  BY <1>3 DEF SendRequest, NothingYet
<1>4. ASSUME Finally PROVE NothingYet'
  <2>1. CASE sink = "cancel"
    <3>a. F("cancel", 0) \in Frame
      BY Frames
    <3>1. SendA(F("cancel", 0)) /\ F("cancel", 0).type = "cancel" /\ ab \in Seq(Frame)
      BY <1>4, <2>1 DEF Finally, Types, WireType, F
    <3>3. ab' = ab \/ ab' = Append(ab, F("cancel", 0))
      BY <3>1, <3>a, SendsA
    <3>4. ASSUME apc # "sent", NEW i \in 1..Len(ab') PROVE ab'[i].type \in {"cancel", "requestN"}
      <4>1. \A k \in 1..Len(ab) : ab[k].type \in {"cancel", "requestN"}
        BY <3>4 DEF NothingYet, Requests
      <4>2. CASE ab' = ab
        BY <4>1, <4>2
      <4>3. CASE ab' = Append(ab, F("cancel", 0))
        BY <3>1, <3>a, <4>1, <4>3, Ends
      <4> QED BY <3>3, <4>2, <4>3
    <3> QED BY <1>4, <3>3, <3>4 DEF Finally, NothingYet, Requests, bVars
  <2>2. CASE sink # "cancel"
    BY <1>4, <2>2 DEF Finally, NothingYet, Requests, bVars
  <2> QED BY <2>1, <2>2
<1>5. ASSUME Unregister PROVE NothingYet'
  BY <1>5 DEF Unregister, NothingYet, Requests, aVars, bVars, sockVars, vars
<1>6. ASSUME Cancel PROVE NothingYet'
  BY <1>6 DEF Cancel, NothingYet, Requests, aVars, bVars, sockVars, vars
<1>7. ASSUME ReceiveA PROVE NothingYet'
  BY <1>7 DEF ReceiveA, NothingYet, Requests, aVars, bVars, sockVars, vars
<1>8. ASSUME ReceiveB PROVE NothingYet'
  <2>1. SUFFICES ASSUME apc # "sent" PROVE NothingYet'
    BY <1>8 DEF ReceiveB, aVars, NothingYet
  <2>2. ab # <<>> /\ ab' = Tail(ab)
    BY <1>8 DEF ReceiveB
  <2>3. /\ ab[1].type \in {"cancel", "requestN"} /\ bpc = "idle"
        /\ \A i \in 1..Len(ab') : ab'[i].type \in {"cancel", "requestN"}
    BY <2>1, <2>2, Takes DEF NothingYet, Requests
  <2>5. bpc' = bpc
    BY <1>8, <2>2, <2>3, Takes DEF ReceiveB
  <2> QED BY <2>3, <2>5 DEF NothingYet
<1>9. ASSUME OnSubscribe PROVE NothingYet'
  BY <1>9 DEF OnSubscribe, NothingYet, Requests, aVars, bVars, sockVars, vars
<1>10. ASSUME OnSubscribeDone PROVE NothingYet'
  BY <1>10 DEF OnSubscribeDone, NothingYet, Requests, aVars, bVars, sockVars, vars
<1>11. ASSUME Emit PROVE NothingYet'
  BY <1>11 DEF Emit, NothingYet, Requests, aVars, bVars, sockVars, vars
<1>12. ASSUME End PROVE NothingYet'
  BY <1>12 DEF End, NothingYet, Requests, aVars, bVars, sockVars, vars
<1>13. ASSUME EndCancelled PROVE NothingYet'
  BY <1>13 DEF EndCancelled, NothingYet, Requests, aVars, bVars, sockVars, vars
<1>14. ASSUME Finish PROVE NothingYet'
  BY <1>14 DEF Finish, NothingYet, Requests, aVars, bVars, sockVars, vars
<1>15. ASSUME NEW n \in 1..MaxN, AskFirst(n) PROVE NothingYet'
  BY <1>15 DEF AskFirst, NothingYet, Requests, bVars
<1>16. ASSUME NEW n \in 1..MaxN, AskMore(n) PROVE NothingYet'
  <2>1. SendA(F("requestN", n)) /\ F("requestN", n) \in Frame /\ F("requestN", n).type = "requestN"
    BY <1>16, Frames DEF AskMore, F
  <2>2. ab \in Seq(Frame) /\ (ab' = ab \/ ab' = Append(ab, F("requestN", n)))
    BY <2>1, SendsA DEF Types, WireType
  <2>3. ASSUME apc # "sent", NEW i \in 1..Len(ab') PROVE ab'[i].type \in {"cancel", "requestN"}
    <3>1. \A k \in 1..Len(ab) : ab[k].type \in {"cancel", "requestN"}
      BY <2>3 DEF NothingYet, Requests
    <3>2. CASE ab' = ab
      BY <3>1, <3>2
    <3>3. CASE ab' = Append(ab, F("requestN", n))
      BY <2>1, <2>2, <3>1, <3>3, Ends
    <3> QED BY <2>2, <3>2, <3>3
  <2> QED BY <1>16, <2>3 DEF AskMore, NothingYet, Requests, bVars
<1>17. ASSUME NEW s \in Sides, Close(s) PROVE NothingYet'
  BY <1>17 DEF Close, NothingYet, Requests, aVars, bVars, sockVars, vars
<1>18. ASSUME SweepA PROVE NothingYet'
  <2>1. Sum(ab') <= Sum(ab) /\ Sum(ab') \in Nat /\ (\A i \in 1..Len(ab') : ab'[i] = ab[i] /\ i \in 1..Len(ab))
    BY <1>18, Cuts DEF SweepA
  <2>2. apc' = apc /\ bpc' = bpc
    BY <1>18 DEF SweepA, aVars, bVars
  <2> QED BY <2>1, <2>2 DEF NothingYet, Requests
<1>19. ASSUME SweepB PROVE NothingYet'
  <2>1. Sum(ab') <= Sum(ab) /\ Sum(ab') \in Nat /\ (\A i \in 1..Len(ab') : ab'[i] = ab[i] /\ i \in 1..Len(ab))
    BY <1>19, Cuts DEF SweepB
  <2>2. apc' = apc /\ bpc' = bpc
    BY <1>19 DEF SweepB, aVars, bVars
  <2> QED BY <2>1, <2>2 DEF NothingYet, Requests
<1>20. ASSUME UNCHANGED vars PROVE NothingYet'
  BY <1>20 DEF NothingYet, Requests, aVars, bVars, sockVars, vars
<1> QED BY <1>1, <1>2, <1>3, <1>4, <1>5, <1>6, <1>7, <1>8, <1>9, <1>10, <1>11, <1>12, <1>13, <1>14, <1>15, <1>16, <1>17, <1>18, <1>19, <1>20 DEF Next, Requester, Responder

LEMMA OneRequestStep ==
  ASSUME Types, Types', Summed(ab), Requests, [Next]_vars
  PROVE  OneRequest'
<1>1. ASSUME Check PROVE OneRequest'
  BY <1>1 DEF Check, OneRequest, NothingYet, Requests, aVars, bVars, sockVars, vars
<1>2. ASSUME Register PROVE OneRequest'
  BY <1>2 DEF Register, OneRequest, NothingYet, Requests, aVars, bVars, sockVars, vars
<1>3. ASSUME SendRequest PROVE OneRequest'
  <2>1. SendA(F("request", first)) /\ F("request", first) \in Frame
    BY <1>3, Frames DEF SendRequest
  <2>2. ab \in Seq(Frame) /\ (ab' = ab \/ ab' = Append(ab, F("request", first)))
    BY <2>1, SendsA DEF Types, WireType
  <2>3. bpc' = bpc /\ bpc = "idle" /\ \A i \in 1..Len(ab) : ab[i].type \in {"cancel", "requestN"}
    BY <1>3 DEF SendRequest, bVars, NothingYet, Requests
  <2>4. ASSUME NEW i \in 1..Len(ab'), ab'[i].type = "request" PROVE i = Len(ab) + 1
    BY <2>1, <2>2, <2>3, <2>4, Ends
  <2> QED BY <2>3, <2>4 DEF OneRequest
<1>4. ASSUME Finally PROVE OneRequest'
  <2>1. CASE sink = "cancel"
    <3>1. SendA(F("cancel", 0)) /\ F("cancel", 0) \in Frame /\ F("cancel", 0).type = "cancel"
      BY <1>4, <2>1, Frames DEF Finally, F
    <3>2. ab \in Seq(Frame) /\ (ab' = ab \/ ab' = Append(ab, F("cancel", 0)))
      BY <3>1, SendsA DEF Types, WireType
    <3>3. ASSUME NEW i \in 1..Len(ab'), ab'[i].type = "request" PROVE i \in 1..Len(ab) /\ ab'[i] = ab[i]
      BY <3>1, <3>2, <3>3, Ends
    <3>4. bpc' = bpc
      BY <1>4 DEF Finally, bVars
    <3> QED BY <3>3, <3>4 DEF OneRequest, Requests
  <2>2. CASE sink # "cancel"
    BY <1>4, <2>2 DEF Finally, OneRequest, Requests, bVars
  <2> QED BY <2>1, <2>2
<1>5. ASSUME Unregister PROVE OneRequest'
  BY <1>5 DEF Unregister, OneRequest, NothingYet, Requests, aVars, bVars, sockVars, vars
<1>6. ASSUME Cancel PROVE OneRequest'
  BY <1>6 DEF Cancel, OneRequest, NothingYet, Requests, aVars, bVars, sockVars, vars
<1>7. ASSUME ReceiveA PROVE OneRequest'
  BY <1>7 DEF ReceiveA, OneRequest, NothingYet, Requests, aVars, bVars, sockVars, vars
<1>8. ASSUME ReceiveB PROVE OneRequest'
  <2>1. ab # <<>> /\ ab' = Tail(ab)
    BY <1>8 DEF ReceiveB
  <2>2. ab \in Seq(Frame) /\ Len(ab) \in Nat /\ 1 <= Len(ab) /\ Len(ab') = Len(ab) - 1 /\ Head(ab) = ab[1]
        /\ \A i \in 1..Len(ab') : ab'[i] = ab[i + 1] /\ i + 1 \in 1..Len(ab) /\ i + 1 # 1
    BY <2>1, Takes DEF Types, WireType
  <2>3. CASE ab[1].type = "request"
    <3>1. \A i \in 1..Len(ab') : ab'[i].type # "request"
      BY <2>2, <2>3 DEF OneRequest, Requests
    <3> QED BY <3>1 DEF OneRequest
  <2>4. CASE ab[1].type # "request"
    <3>1. bpc' = bpc
      BY <1>8, <2>2, <2>4 DEF ReceiveB
    <3>2. ASSUME NEW i \in 1..Len(ab'), NEW j \in 1..Len(ab'), ab'[i].type = "request"
          PROVE  bpc = "idle" /\ (ab'[j].type = "request" => i = j)
      <4>1. \A k, l \in 1..Len(ab) : ab[k].type = "request" => bpc = "idle" /\ (ab[l].type = "request" => k = l)
        BY DEF OneRequest, Requests
      <4>2. bpc = "idle" /\ (ab[j + 1].type = "request" => i + 1 = j + 1)
        BY <2>2, <3>2, <4>1
      <4> QED BY <2>2, <4>2
    <3> QED BY <3>1, <3>2 DEF OneRequest
  <2> QED BY <2>3, <2>4
<1>9. ASSUME OnSubscribe PROVE OneRequest'
  BY <1>9 DEF OnSubscribe, OneRequest, NothingYet, Requests, aVars, bVars, sockVars, vars
<1>10. ASSUME OnSubscribeDone PROVE OneRequest'
  BY <1>10 DEF OnSubscribeDone, OneRequest, NothingYet, Requests, aVars, bVars, sockVars, vars
<1>11. ASSUME Emit PROVE OneRequest'
  BY <1>11 DEF Emit, OneRequest, NothingYet, Requests, aVars, bVars, sockVars, vars
<1>12. ASSUME End PROVE OneRequest'
  BY <1>12 DEF End, OneRequest, NothingYet, Requests, aVars, bVars, sockVars, vars
<1>13. ASSUME EndCancelled PROVE OneRequest'
  BY <1>13 DEF EndCancelled, OneRequest, NothingYet, Requests, aVars, bVars, sockVars, vars
<1>14. ASSUME Finish PROVE OneRequest'
  BY <1>14 DEF Finish, OneRequest, NothingYet, Requests, aVars, bVars, sockVars, vars
<1>15. ASSUME NEW n \in 1..MaxN, AskFirst(n) PROVE OneRequest'
  BY <1>15 DEF AskFirst, OneRequest, NothingYet, Requests, aVars, bVars, sockVars, vars
<1>16. ASSUME NEW n \in 1..MaxN, AskMore(n) PROVE OneRequest'
  <2>1. SendA(F("requestN", n)) /\ F("requestN", n) \in Frame /\ F("requestN", n).type = "requestN"
    BY <1>16, Frames DEF AskMore, F
  <2>2. ab \in Seq(Frame) /\ (ab' = ab \/ ab' = Append(ab, F("requestN", n)))
    BY <2>1, SendsA DEF Types, WireType
  <2>3. ASSUME NEW i \in 1..Len(ab'), ab'[i].type = "request" PROVE i \in 1..Len(ab) /\ ab'[i] = ab[i]
    BY <2>1, <2>2, <2>3, Ends
  <2>4. bpc' = bpc
    BY <1>16 DEF AskMore, bVars
  <2> QED BY <2>3, <2>4 DEF OneRequest, Requests
<1>17. ASSUME NEW s \in Sides, Close(s) PROVE OneRequest'
  BY <1>17 DEF Close, OneRequest, NothingYet, Requests, aVars, bVars, sockVars, vars
<1>18. ASSUME SweepA PROVE OneRequest'
  <2>1. \A i \in 1..Len(ab') : ab'[i] = ab[i] /\ i \in 1..Len(ab)
    BY <1>18, Cuts DEF SweepA
  <2>2. bpc' = bpc
    BY <1>18 DEF SweepA, bVars
  <2> QED BY <2>1, <2>2 DEF OneRequest, Requests
<1>19. ASSUME SweepB PROVE OneRequest'
  <2>1. \A i \in 1..Len(ab') : ab'[i] = ab[i] /\ i \in 1..Len(ab)
    BY <1>19, Cuts DEF SweepB
  <2>2. bpc' = bpc
    BY <1>19 DEF SweepB, bVars
  <2> QED BY <2>1, <2>2 DEF OneRequest, Requests
<1>20. ASSUME UNCHANGED vars PROVE OneRequest'
  BY <1>20 DEF OneRequest, NothingYet, Requests, aVars, bVars, sockVars, vars
<1> QED BY <1>1, <1>2, <1>3, <1>4, <1>5, <1>6, <1>7, <1>8, <1>9, <1>10, <1>11, <1>12, <1>13, <1>14, <1>15, <1>16, <1>17, <1>18, <1>19, <1>20 DEF Next, Requester, Responder

LEMMA RequestsStep == ASSUME Types, Types', Summed(ab), Requests, [Next]_vars PROVE Requests'
  BY NothingYetStep, OneRequestStep DEF Requests

\* The frame the responder receives.
LEMMA AtB ==
  ASSUME Types, Summed(ab), Requests, ReceiveB
  PROVE  /\ ab # <<>> /\ ab' = Tail(ab) /\ Head(ab) = ab[1] /\ ab[1] \in Frame
         /\ (ab[1].type = "request" => bpc = "idle") /\ (ab[1].type = "request" => apc = "sent")
         /\ apc' = apc /\ got' = got /\ sink' = sink /\ breg' = breg /\ sent' = sent /\ closed' = closed /\ swept' = swept
         /\ asked' = asked /\ areg' = areg
         /\ \/ ab[1].type = "request" /\ Respond(ab[1]) /\ UNCHANGED <<stopped, unheard>>
            \/ ab[1].type = "requestN" /\ Demand(ab[1]) /\ UNCHANGED <<bpc, stopped, ba>>
            \/ ab[1].type = "cancel" /\ Halt /\ UNCHANGED <<bpc, credit, ba>>
<1>1. ab # <<>> /\ ab' = Tail(ab)
  BY DEF ReceiveB
<1>2. Head(ab) = ab[1] /\ ab[1] \in Frame /\ 1 \in 1..Len(ab)
  BY <1>1, Takes
<1>3. (ab[1].type = "request" => bpc = "idle") /\ (ab[1].type = "request" => apc = "sent")
  BY <1>2 DEF Requests, OneRequest, NothingYet
<1>4. /\ apc' = apc /\ got' = got /\ sink' = sink /\ breg' = breg /\ sent' = sent /\ closed' = closed /\ swept' = swept
      /\ asked' = asked /\ areg' = areg
  BY DEF ReceiveB, aVars, sockVars
<1>5. \/ ab[1].type = "request" /\ Respond(ab[1]) /\ UNCHANGED <<stopped, unheard>>
      \/ ab[1].type = "requestN" /\ Demand(ab[1]) /\ UNCHANGED <<bpc, stopped, ba>>
      \/ ab[1].type = "cancel" /\ Halt /\ UNCHANGED <<bpc, credit, ba>>
  BY <1>2 DEF ReceiveB
<1> QED BY <1>1, <1>2, <1>3, <1>4, <1>5

\* The frame the requester receives, and its callback.
LEMMA AtA ==
  ASSUME Types, Stages, Requests, Answering, ReceiveA
  PROVE  /\ ba \in Seq(Frame) /\ ba # <<>> /\ ba' = Tail(ba) /\ Head(ba) = ba[1] /\ ba[1] \in Frame
         /\ Len(ba) \in Nat /\ 1 \in 1..Len(ba) /\ Len(ba') = Len(ba) - 1
         /\ (\A i \in 1..Len(ba') : ba'[i] = ba[i + 1] /\ i + 1 \in 1..Len(ba))
         /\ bpc # "idle" /\ apc = "sent" /\ (sink = "open" => areg)
         /\ (got' = IF sink = "open" /\ ba[1].n > 0 THEN Append(got, ba[1].n) ELSE got)
         /\ got \in Seq(Nat) /\ ba[1].n \in Nat
         /\ apc' = apc /\ bpc' = bpc /\ sent' = sent /\ closed' = closed /\ swept' = swept /\ outcome' = outcome /\ total' = total
         /\ sink' = (IF sink = "open" /\ (ba[1].type # "next" \/ kind = "response")
                       THEN IF ba[1].type = "error" THEN "error" ELSE "complete" ELSE sink)
<1>1. ba \in Seq(Frame) /\ ba # <<>> /\ ba' = Tail(ba) /\ got \in Seq(Nat)
  BY DEF ReceiveA, Types, WireType, AType
<1>2. /\ Head(ba) = ba[1] /\ ba[1] \in Frame /\ Len(ba) \in Nat /\ 1 \in 1..Len(ba) /\ Len(ba') = Len(ba) - 1
      /\ (\A i \in 1..Len(ba') : ba'[i] = ba[i + 1] /\ i + 1 \in 1..Len(ba))
  BY <1>1, Rest
<1>3. bpc # "idle"
  <2>1. CASE bpc = "idle"
    <3>1. ba[1].n \in 1..0
      BY <1>2, <2>1 DEF Answering, NotStarted, ItemsThenEnd, Answers, Giving
    <3> QED BY <3>1
  <2> QED BY <2>1
<1>4. apc = "sent"
  BY <1>3 DEF Requests, NothingYet
<1>5. sink = "open" => areg
  BY <1>4 DEF Stages, Early
<1>6. ba[1].n \in Nat
  <2>1. ba[1].n \in 0..RequestMax /\ RequestMax \in Nat
    BY <1>2, Numbers DEF Frame
  <2> QED BY <2>1
<1>7. got' = IF sink = "open" /\ ba[1].n > 0 THEN Append(got, ba[1].n) ELSE got
  BY <1>2, <1>5 DEF ReceiveA
<1>8. sink' = (IF sink = "open" /\ (ba[1].type # "next" \/ kind = "response")
                 THEN IF ba[1].type = "error" THEN "error" ELSE "complete" ELSE sink)
  BY <1>2, <1>5 DEF ReceiveA, Terminate
<1>9. apc' = apc /\ bpc' = bpc /\ sent' = sent /\ closed' = closed /\ swept' = swept /\ outcome' = outcome /\ total' = total
  BY DEF ReceiveA, bVars, sockVars, planVars
<1> QED BY <1>1, <1>2, <1>3, <1>4, <1>5, <1>6, <1>7, <1>8, <1>9

LEMMA NotStartedStep ==
  ASSUME Types, Types', Summed(ab), Stages, Requests, Answering, [Next]_vars
  PROVE  NotStarted'
<1>1. ASSUME Check PROVE NotStarted'
  BY <1>1 DEF Check, NotStarted, Answering, bVars, vars
<1>2. ASSUME Register PROVE NotStarted'
  BY <1>2 DEF Register, NotStarted, Answering, bVars, vars
<1>3. ASSUME SendRequest PROVE NotStarted'
  BY <1>3 DEF SendRequest, NotStarted, Answering, bVars, vars
<1>4. ASSUME Finally PROVE NotStarted'
  BY <1>4 DEF Finally, NotStarted, Answering, bVars, vars
<1>5. ASSUME Unregister PROVE NotStarted'
  BY <1>5 DEF Unregister, NotStarted, Answering, bVars, vars
<1>6. ASSUME Cancel PROVE NotStarted'
  BY <1>6 DEF Cancel, NotStarted, Answering, bVars, vars
<1>7. ASSUME ReceiveA PROVE NotStarted'
  BY <1>7 DEF ReceiveA, NotStarted, Answering, bVars, vars
<1>8. ASSUME ReceiveB PROVE NotStarted'
  <2>1. breg' = breg /\ sent' = sent /\ (ab[1].type = "request" => bpc = "idle") /\ NotStarted
    BY <1>8, AtB DEF Answering
  <2>2. CASE ab[1].type = "request" /\ Respond(ab[1])
    <3>1. bpc = "idle" /\ bpc' \in {"ended", "subscribing"}
      BY <2>1, <2>2 DEF Respond
    <3> QED BY <2>1, <3>1 DEF NotStarted
  <2>3. CASE Demand(ab[1]) /\ UNCHANGED <<bpc, stopped, ba>>
    <3>1. bpc' = bpc /\ (~breg => credit' = credit)
      BY <2>3 DEF Demand
    <3> QED BY <2>1, <3>1 DEF NotStarted
  <2>4. CASE UNCHANGED <<bpc, credit, ba>>
    BY <2>1, <2>4 DEF NotStarted
  <2> QED BY <1>8, AtB, <2>2, <2>3, <2>4
<1>9. ASSUME OnSubscribe PROVE NotStarted'
  BY <1>9 DEF OnSubscribe, NotStarted, Answering, bVars, vars
<1>10. ASSUME OnSubscribeDone PROVE NotStarted'
  BY <1>10 DEF OnSubscribeDone, NotStarted, Answering, bVars, vars
<1>11. ASSUME Emit PROVE NotStarted'
  BY <1>11 DEF Emit, NotStarted, Answering, bVars, vars
<1>12. ASSUME End PROVE NotStarted'
  BY <1>12 DEF End, NotStarted, Answering, bVars, vars
<1>13. ASSUME EndCancelled PROVE NotStarted'
  BY <1>13 DEF EndCancelled, NotStarted, Answering, bVars, vars
<1>14. ASSUME Finish PROVE NotStarted'
  BY <1>14 DEF Finish, NotStarted, Answering, bVars, vars
<1>15. ASSUME NEW n \in 1..MaxN, AskFirst(n) PROVE NotStarted'
  BY <1>15 DEF AskFirst, NotStarted, Answering, bVars, vars
<1>16. ASSUME NEW n \in 1..MaxN, AskMore(n) PROVE NotStarted'
  BY <1>16 DEF AskMore, NotStarted, Answering, bVars, vars
<1>17. ASSUME NEW s \in Sides, Close(s) PROVE NotStarted'
  BY <1>17 DEF Close, NotStarted, Answering, bVars, vars
<1>18. ASSUME SweepA PROVE NotStarted'
  BY <1>18 DEF SweepA, NotStarted, Answering, bVars, vars
<1>19. ASSUME SweepB PROVE NotStarted'
  BY <1>19 DEF SweepB, NotStarted, Answering, bVars, vars
<1>20. ASSUME UNCHANGED vars PROVE NotStarted'
  BY <1>20 DEF NotStarted, Answering, bVars, vars
<1> QED BY <1>1, <1>2, <1>3, <1>4, <1>5, <1>6, <1>7, <1>8, <1>9, <1>10, <1>11, <1>12, <1>13, <1>14, <1>15, <1>16, <1>17, <1>18, <1>19, <1>20 DEF Next, Requester, Responder

LEMMA ItemsThenEndStep ==
  ASSUME Types, Types', Summed(ab), Stages, Requests, Answering, [Next]_vars
  PROVE  ItemsThenEnd'
<1>1. ASSUME Check PROVE ItemsThenEnd'
  BY <1>1 DEF Check, ItemsThenEnd, Answering, Giving, bVars, vars
<1>2. ASSUME Register PROVE ItemsThenEnd'
  BY <1>2 DEF Register, ItemsThenEnd, Answering, Giving, bVars, vars
<1>3. ASSUME SendRequest PROVE ItemsThenEnd'
  BY <1>3 DEF SendRequest, ItemsThenEnd, Answering, Giving, bVars, vars
<1>4. ASSUME Finally PROVE ItemsThenEnd'
  BY <1>4 DEF Finally, ItemsThenEnd, Answering, Giving, bVars, vars
<1>5. ASSUME Unregister PROVE ItemsThenEnd'
  BY <1>5 DEF Unregister, ItemsThenEnd, Answering, Giving, bVars, vars
<1>6. ASSUME Cancel PROVE ItemsThenEnd'
  BY <1>6 DEF Cancel, ItemsThenEnd, Answering, Giving, bVars, vars
<1>7. ASSUME ReceiveA PROVE ItemsThenEnd'
  BY <1>7, AtA DEF ItemsThenEnd, Answering
<1>8. ASSUME ReceiveB PROVE ItemsThenEnd'
  BY <1>8, AtB DEF Respond, ItemsThenEnd, Answering, Giving
<1>9. ASSUME OnSubscribe PROVE ItemsThenEnd'
  BY <1>9 DEF OnSubscribe, ItemsThenEnd, Answering, Giving, bVars, vars
<1>10. ASSUME OnSubscribeDone PROVE ItemsThenEnd'
  BY <1>10 DEF OnSubscribeDone, ItemsThenEnd, Answering, Giving, bVars, vars
<1>11. ASSUME Emit PROVE ItemsThenEnd'
  <2>1. F("next", sent + 1) \in Frame /\ F("next", sent + 1).type = "next" /\ ba \in Seq(Frame)
        /\ SendB(F("next", sent + 1)) /\ bpc = "active" /\ bpc' = bpc
    BY <1>11, Frames DEF Emit, F, Types, WireType
  <2>2. ba' = ba \/ ba' = Append(ba, F("next", sent + 1))
    BY <2>1, SendsB
  <2>3. \A i \in 1..Len(ba) : ba[i].type = "next"
    BY <2>1 DEF ItemsThenEnd, Answering, Giving
  <2>4. CASE ba' = ba
    BY <2>3, <2>4 DEF ItemsThenEnd
  <2>5. CASE ba' = Append(ba, F("next", sent + 1))
    BY <2>1, <2>3, <2>5, Ends DEF ItemsThenEnd
  <2> QED BY <2>2, <2>4, <2>5
<1>12. ASSUME End PROVE ItemsThenEnd'
  BY <1>12 DEF End, ItemsThenEnd, Answering, Giving, bVars, vars
<1>13. ASSUME EndCancelled PROVE ItemsThenEnd'
  BY <1>13 DEF EndCancelled, ItemsThenEnd, Answering, Giving, bVars, vars
<1>14. ASSUME Finish PROVE ItemsThenEnd'
  BY <1>14 DEF Finish, ItemsThenEnd, Answering, Giving, bVars, vars
<1>15. ASSUME NEW n \in 1..MaxN, AskFirst(n) PROVE ItemsThenEnd'
  BY <1>15 DEF AskFirst, ItemsThenEnd, Answering, Giving, bVars, vars
<1>16. ASSUME NEW n \in 1..MaxN, AskMore(n) PROVE ItemsThenEnd'
  BY <1>16 DEF AskMore, ItemsThenEnd, Answering, Giving, bVars, vars
<1>17. ASSUME NEW s \in Sides, Close(s) PROVE ItemsThenEnd'
  BY <1>17 DEF Close, ItemsThenEnd, Answering, Giving, bVars, vars
<1>18. ASSUME SweepA PROVE ItemsThenEnd'
  <2>1. (\A i \in 1..Len(ba') : ba'[i] = ba[i] /\ i \in 1..Len(ba)) /\ bpc' = bpc
    BY <1>18, Cuts DEF SweepA, bVars
  <2> QED BY <2>1 DEF ItemsThenEnd, Answering, Giving
<1>19. ASSUME SweepB PROVE ItemsThenEnd'
  <2>1. (\A i \in 1..Len(ba') : ba'[i] = ba[i] /\ i \in 1..Len(ba)) /\ bpc' = bpc
    BY <1>19, Cuts DEF SweepB, bVars
  <2> QED BY <2>1 DEF ItemsThenEnd, Answering, Giving
<1>20. ASSUME UNCHANGED vars PROVE ItemsThenEnd'
  BY <1>20 DEF ItemsThenEnd, Answering, Giving, bVars, vars
<1> QED BY <1>1, <1>2, <1>3, <1>4, <1>5, <1>6, <1>7, <1>8, <1>9, <1>10, <1>11, <1>12, <1>13, <1>14, <1>15, <1>16, <1>17, <1>18, <1>19, <1>20 DEF Next, Requester, Responder

LEMMA AnswersStep ==
  ASSUME Types, Types', Summed(ab), Stages, Requests, Answering, [Next]_vars
  PROVE  Answers'
<1>1. ASSUME Check PROVE Answers'
  BY <1>1 DEF Check, Answers, Answering, bVars, vars
<1>2. ASSUME Register PROVE Answers'
  BY <1>2 DEF Register, Answers, Answering, bVars, vars
<1>3. ASSUME SendRequest PROVE Answers'
  BY <1>3 DEF SendRequest, Answers, Answering, bVars, vars
<1>4. ASSUME Finally PROVE Answers'
  BY <1>4 DEF Finally, Answers, Answering, bVars, vars
<1>5. ASSUME Unregister PROVE Answers'
  BY <1>5 DEF Unregister, Answers, Answering, bVars, vars
<1>6. ASSUME Cancel PROVE Answers'
  BY <1>6 DEF Cancel, Answers, Answering, bVars, vars
<1>7. ASSUME ReceiveA PROVE Answers'
  BY <1>7, AtA DEF Answers, Answering
<1>8. ASSUME ReceiveB PROVE Answers'
  <2> DEFINE f == F("error", 0)
  <2>1. f \in Frame /\ f.type \in {"complete", "error"} /\ f.n = 0 /\ sent' = sent /\ ba \in Seq(Frame)
    BY <1>8, AtB, Frames DEF F, Types, WireType
  <2>2. ba' = ba \/ ba' = Append(ba, f)
    BY <1>8, <2>1, AtB, SendsB DEF Respond
  <2>3. \A i \in 1..Len(ba) : IF ba[i].type = "next" THEN ba[i].n \in 1..sent'
                              ELSE ba[i].type \in {"complete", "error"} /\ ba[i].n = 0
    BY <2>1 DEF Answers, Answering
  <2> HIDE DEF f
  <2>4. CASE ba' = ba
    BY <2>3, <2>4 DEF Answers
  <2>5. CASE ba' = Append(ba, f)
    BY <2>1, <2>3, <2>5, Ends DEF Answers
  <2> QED BY <2>2, <2>4, <2>5
<1>9. ASSUME OnSubscribe PROVE Answers'
  BY <1>9 DEF OnSubscribe, Answers, Answering, bVars, vars
<1>10. ASSUME OnSubscribeDone PROVE Answers'
  <2> DEFINE f == F("error", 0)
  <2>1. f \in Frame /\ f.type \in {"complete", "error"} /\ f.n = 0 /\ SendB(f) /\ sent' = sent /\ ba \in Seq(Frame) /\ sent \in Nat
    BY <1>10, Frames DEF OnSubscribeDone, F, Types, WireType, PlanType
  <2>2. ba' = ba \/ ba' = Append(ba, f)
    BY <2>1, SendsB
  <2>3. \A i \in 1..Len(ba) : IF ba[i].type = "next" THEN ba[i].n \in 1..sent'
                              ELSE ba[i].type \in {"complete", "error"} /\ ba[i].n = 0
    BY <2>1 DEF Answers, Answering
  <2> HIDE DEF f
  <2>4. CASE ba' = ba
    BY <2>3, <2>4 DEF Answers
  <2>5. CASE ba' = Append(ba, f)
    BY <2>1, <2>3, <2>5, Ends DEF Answers
  <2> QED BY <2>2, <2>4, <2>5
<1>11. ASSUME Emit PROVE Answers'
  <2> DEFINE f == F("next", sent + 1)
  <2>1. f \in Frame /\ f.type = "next" /\ f.n = sent + 1 /\ SendB(f) /\ sent' = sent + 1 /\ ba \in Seq(Frame) /\ sent \in Nat
    BY <1>11, Frames DEF Emit, F, Types, WireType, PlanType
  <2>2. ba' = ba \/ ba' = Append(ba, f)
    BY <2>1, SendsB
  <2>3. \A i \in 1..Len(ba) : IF ba[i].type = "next" THEN ba[i].n \in 1..sent'
                              ELSE ba[i].type \in {"complete", "error"} /\ ba[i].n = 0
    BY <2>1 DEF Answers, Answering
  <2> HIDE DEF f
  <2>4. CASE ba' = ba
    BY <2>3, <2>4 DEF Answers
  <2>5. CASE ba' = Append(ba, f)
    BY <2>1, <2>3, <2>5, Ends DEF Answers
  <2> QED BY <2>2, <2>4, <2>5
<1>12. ASSUME End PROVE Answers'
  <2> DEFINE f == F(outcome, 0)
  <2>1. f \in Frame /\ f.type \in {"complete", "error"} /\ f.n = 0 /\ sent' = sent /\ ba \in Seq(Frame)
    BY <1>12, Frames DEF End, F, Types, WireType, PlanType
  <2>2. ba' = ba \/ ba' = Append(ba, f)
    BY <1>12, <2>1, SendsB DEF End
  <2>3. \A i \in 1..Len(ba) : IF ba[i].type = "next" THEN ba[i].n \in 1..sent'
                              ELSE ba[i].type \in {"complete", "error"} /\ ba[i].n = 0
    BY <2>1 DEF Answers, Answering
  <2> HIDE DEF f
  <2>4. CASE ba' = ba
    BY <2>3, <2>4 DEF Answers
  <2>5. CASE ba' = Append(ba, f)
    BY <2>1, <2>3, <2>5, Ends DEF Answers
  <2> QED BY <2>2, <2>4, <2>5
<1>13. ASSUME EndCancelled PROVE Answers'
  <2> DEFINE f == F("error", 0)
  <2>1. f \in Frame /\ f.type \in {"complete", "error"} /\ f.n = 0 /\ SendB(f) /\ sent' = sent /\ ba \in Seq(Frame) /\ sent \in Nat
    BY <1>13, Frames DEF EndCancelled, F, Types, WireType, PlanType
  <2>2. ba' = ba \/ ba' = Append(ba, f)
    BY <2>1, SendsB
  <2>3. \A i \in 1..Len(ba) : IF ba[i].type = "next" THEN ba[i].n \in 1..sent'
                              ELSE ba[i].type \in {"complete", "error"} /\ ba[i].n = 0
    BY <2>1 DEF Answers, Answering
  <2> HIDE DEF f
  <2>4. CASE ba' = ba
    BY <2>3, <2>4 DEF Answers
  <2>5. CASE ba' = Append(ba, f)
    BY <2>1, <2>3, <2>5, Ends DEF Answers
  <2> QED BY <2>2, <2>4, <2>5
<1>14. ASSUME Finish PROVE Answers'
  BY <1>14 DEF Finish, Answers, Answering, bVars, vars
<1>15. ASSUME NEW n \in 1..MaxN, AskFirst(n) PROVE Answers'
  BY <1>15 DEF AskFirst, Answers, Answering, bVars, vars
<1>16. ASSUME NEW n \in 1..MaxN, AskMore(n) PROVE Answers'
  BY <1>16 DEF AskMore, Answers, Answering, bVars, vars
<1>17. ASSUME NEW s \in Sides, Close(s) PROVE Answers'
  BY <1>17 DEF Close, Answers, Answering, bVars, vars
<1>18. ASSUME SweepA PROVE Answers'
  <2>1. (\A i \in 1..Len(ba') : ba'[i] = ba[i] /\ i \in 1..Len(ba)) /\ sent' = sent
    BY <1>18, Cuts DEF SweepA, bVars
  <2> QED BY <2>1 DEF Answers, Answering
<1>19. ASSUME SweepB PROVE Answers'
  <2>1. (\A i \in 1..Len(ba') : ba'[i] = ba[i] /\ i \in 1..Len(ba)) /\ sent' = sent
    BY <1>19, Cuts DEF SweepB, bVars
  <2> QED BY <2>1 DEF Answers, Answering
<1>20. ASSUME UNCHANGED vars PROVE Answers'
  BY <1>20 DEF Answers, Answering, bVars, vars
<1> QED BY <1>1, <1>2, <1>3, <1>4, <1>5, <1>6, <1>7, <1>8, <1>9, <1>10, <1>11, <1>12, <1>13, <1>14, <1>15, <1>16, <1>17, <1>18, <1>19, <1>20 DEF Next, Requester, Responder

LEMMA AnsweringStep ==
  ASSUME Types, Types', Summed(ab), Stages, Requests, Answering, [Next]_vars
  PROVE  Answering'
  BY NotStartedStep, ItemsThenEndStep, AnswersStep DEF Answering

\* What the requester's subscriber is given, and what ends it.
LEMMA Gets ==
  ASSUME Types, Stages, Requests, Answering, Continues, ReceiveA
  PROVE  /\ got \in Seq(Nat) /\ Len(got) \in Nat
         /\ sink = "open" => /\ ba[1].type = "next" => got' = Append(got, Len(got) + 1) /\ Len(got) + 1 <= sent
                             /\ ba[1].type # "next" => got' = got
                             /\ ba[1].type = "complete" => outcome = "complete" /\ Len(got) = total
                             /\ ba[1].type \in {"next", "complete", "error"}
         /\ sink # "open" => got' = got /\ sink' = sink
<1>1. /\ got \in Seq(Nat) /\ ba[1].n \in Nat /\ 1 \in 1..Len(ba)
      /\ (got' = IF sink = "open" /\ ba[1].n > 0 THEN Append(got, ba[1].n) ELSE got)
      /\ (sink # "open" => sink' = sink)
  BY AtA
<1>2. sent \in Nat /\ total \in Nat
  BY Frames
<1>3. IF ba[1].type = "next" THEN ba[1].n \in 1..sent ELSE ba[1].type \in {"complete", "error"} /\ ba[1].n = 0
  BY <1>1 DEF Answering, Answers
<1>4. Len(got) \in Nat
  BY <1>1
<1>5. ASSUME sink = "open"
      PROVE /\ ba[1].type = "next" => ba[1].n = Len(got) + 1
            /\ ba[1].type = "complete" => outcome = "complete" /\ Len(got) = total
  <2>1. /\ ba[1].type = "next" => ba[1].n = Len(got) + 1
        /\ ba[1].type = "complete" => outcome = "complete" /\ Len(got) + (1 - 1) = total
    BY <1>1, <1>5 DEF Continues, InSequence
  <2>2. Len(got) + (1 - 1) = Len(got)
    BY <1>4
  <2> QED BY <2>1, <2>2
<1>6. ASSUME sink = "open", ba[1].type = "next" PROVE got' = Append(got, Len(got) + 1) /\ Len(got) + 1 <= sent
  <2>1. ba[1].n = Len(got) + 1 /\ ba[1].n \in 1..sent /\ ba[1].n > 0
    BY <1>2, <1>3, <1>5, <1>6
  <2>2. got' = Append(got, ba[1].n) /\ ba[1].n <= sent
    BY <1>1, <1>2, <1>6, <2>1
  <2> QED BY <2>1, <2>2
<1>7. ASSUME sink = "open", ba[1].type # "next" PROVE got' = got
  <2>1. ba[1].n = 0 /\ ~(0 > 0)
    BY <1>3, <1>7
  <2> QED BY <1>1, <2>1
<1>8. sink = "open" => ba[1].type \in {"next", "complete", "error"}
  BY <1>3
<1>9. sink # "open" => got' = got /\ sink' = sink
  BY <1>1
<1> QED BY <1>1, <1>4, <1>5, <1>6, <1>7, <1>8, <1>9

\* A frame sent after those under way continues them.
LEMMA Continued ==
  ASSUME Types, Continues, NEW f \in Frame, SendB(f), bpc \in Giving, got' = got, outcome' = outcome, total' = total,
         sink' = sink, f.type = "next" => f.n = sent + 1, f.type = "complete" => outcome = "complete" /\ sent = total
  PROVE  InSequence'
<1>1. ba \in Seq(Frame) /\ Len(ba) \in Nat /\ got \in Seq(Nat) /\ Len(got) \in Nat /\ sent \in Nat
  BY Frames DEF Types, WireType, AType
<1>2. CASE ba' = ba
  BY <1>2 DEF Continues, InSequence
<1>3. CASE ~closed[B] /\ ~swept[A] /\ ba' = Append(ba, f)
  <2>1. SUFFICES ASSUME sink = "open", NEW i \in 1..Len(ba')
        PROVE /\ ba'[i].type = "next" => ba'[i].n = Len(got) + i
              /\ ba'[i].type = "complete" => outcome = "complete" /\ Len(got) + (i - 1) = total
    BY DEF InSequence
  <2>2. Len(got) + Len(ba) = sent
    BY <1>3, <2>1 DEF Continues, NothingLost
  <2>3. CASE i \in 1..Len(ba)
    <3>1. ba'[i] = ba[i]
      BY <1>1, <1>3, <2>3, Ends
    <3> QED BY <2>1, <2>3, <3>1 DEF Continues, InSequence
  <2>4. CASE i = Len(ba) + 1
    <3>1. ba'[i] = f
      BY <1>1, <1>3, <2>4, Ends
    <3>2. sent + 1 = Len(got) + i /\ sent = Len(got) + (i - 1)
      BY <1>1, <2>2, <2>4
    <3> QED BY <3>1, <3>2
  <2>5. Len(ba') = Len(ba) + 1
    BY <1>1, <1>3, Ends
  <2> QED BY <1>1, <2>3, <2>4, <2>5
<1> QED BY <1>2, <1>3, SendsB

LEMMA InSequenceStep ==
  ASSUME Types, Types', Summed(ab), Stages, Requests, Answering, Continues, Received, [Next]_vars
  PROVE  InSequence'
<1>1. ASSUME Check PROVE InSequence'
  <2>1. ba' = ba /\ got' = got /\ (sink' = sink \/ sink' # "open")
    BY <1>1 DEF Check, aVars, bVars, vars, Terminate
  <2> QED BY <2>1, Kept DEF InSequence, Continues
<1>2. ASSUME Register PROVE InSequence'
  <2>1. ba' = ba /\ got' = got /\ (sink' = sink \/ sink' # "open")
    BY <1>2 DEF Register, aVars, bVars, vars, Terminate
  <2> QED BY <2>1, Kept DEF InSequence, Continues
<1>3. ASSUME SendRequest PROVE InSequence'
  <2>1. ba' = ba /\ got' = got /\ (sink' = sink \/ sink' # "open")
    BY <1>3 DEF SendRequest, aVars, bVars, vars, Terminate
  <2> QED BY <2>1, Kept DEF InSequence, Continues
<1>4. ASSUME Finally PROVE InSequence'
  <2>1. ba' = ba /\ got' = got /\ (sink' = sink \/ sink' # "open")
    BY <1>4 DEF Finally, aVars, bVars, vars, Terminate
  <2> QED BY <2>1, Kept DEF InSequence, Continues
<1>5. ASSUME Unregister PROVE InSequence'
  <2>1. ba' = ba /\ got' = got /\ (sink' = sink \/ sink' # "open")
    BY <1>5 DEF Unregister, aVars, bVars, vars, Terminate
  <2> QED BY <2>1, Kept DEF InSequence, Continues
<1>6. ASSUME Cancel PROVE InSequence'
  <2>1. ba' = ba /\ got' = got /\ (sink' = sink \/ sink' # "open")
    BY <1>6 DEF Cancel, aVars, bVars, vars, Terminate
  <2> QED BY <2>1, Kept DEF InSequence, Continues
<1>7. ASSUME ReceiveA PROVE InSequence'
  <2>1. SUFFICES ASSUME sink' = "open", NEW i \in 1..Len(ba')
        PROVE  /\ ba'[i].type = "next" => ba'[i].n = Len(got') + i
               /\ ba'[i].type = "complete" => outcome = "complete" /\ Len(got') + (i - 1) = total
    BY Kept DEF InSequence
  <2>2. sink = "open" /\ ba[1].type = "next"
    BY <1>7, <2>1, AtA
  <2>3. got \in Seq(Nat) /\ got' = Append(got, Len(got) + 1)
    BY <1>7, <2>2, Gets
  <2>4. Len(got) \in Nat /\ Len(got') = Len(got) + 1
    BY <2>3
  <2>5. ba'[i] = ba[i + 1] /\ i + 1 \in 1..Len(ba) /\ Len(ba') \in Nat
    BY <1>7, AtA
  <2>6. /\ ba[i + 1].type = "next" => ba[i + 1].n = Len(got) + (i + 1)
        /\ ba[i + 1].type = "complete" => outcome = "complete" /\ Len(got) + ((i + 1) - 1) = total
    BY <2>2, <2>5 DEF Continues, InSequence
  <2>7. Len(got) + (i + 1) = Len(got') + i /\ Len(got) + ((i + 1) - 1) = Len(got') + (i - 1)
    BY <2>4, <2>5
  <2> QED BY <2>5, <2>6, <2>7
<1>8. ASSUME ReceiveB PROVE InSequence'
  <2>1. got' = got /\ sink' = sink
    BY <1>8, AtB
  <2>2. CASE ba' = ba
    BY <2>1, <2>2, Kept DEF InSequence, Continues
  <2>3. CASE bpc = "idle" /\ SendB(F("error", 0))
    <3> DEFINE f == F("error", 0)
    <3>1. f \in Frame /\ f.type = "error" /\ bpc \in Giving
      BY <2>3, Frames DEF F, Giving
    <3> HIDE DEF f
    <3> QED BY <2>1, <2>3, <3>1, Continued, Kept DEF f
  <2> QED BY <1>8, AtB, <2>2, <2>3 DEF Respond
<1>9. ASSUME OnSubscribe PROVE InSequence'
  <2>1. ba' = ba /\ got' = got /\ (sink' = sink \/ sink' # "open")
    BY <1>9 DEF OnSubscribe, aVars, bVars, vars, Terminate
  <2> QED BY <2>1, Kept DEF InSequence, Continues
<1>10. ASSUME OnSubscribeDone PROVE InSequence'
  <2> DEFINE f == F("error", 0)
  <2>1. f \in Frame /\ f.type = "error" /\ f.n = 0 /\ SendB(f) /\ bpc \in Giving /\ got' = got /\ sink' = sink
    BY <1>10, Frames DEF OnSubscribeDone, F, Types, WireType, PlanType, Giving, aVars
  <2> HIDE DEF f
  <2> QED BY <2>1, Continued, Kept
<1>11. ASSUME Emit PROVE InSequence'
  <2> DEFINE f == F("next", sent + 1)
  <2>1. f \in Frame /\ f.type = "next" /\ f.n = sent + 1 /\ SendB(f) /\ bpc \in Giving /\ got' = got /\ sink' = sink
    BY <1>11, Frames DEF Emit, F, Types, WireType, PlanType, Giving, aVars
  <2> HIDE DEF f
  <2> QED BY <2>1, Continued, Kept
<1>12. ASSUME End PROVE InSequence'
  <2>1. got' = got /\ sink' = sink /\ bpc \in Giving /\ sent = total
    BY <1>12 DEF End, aVars, Giving
  <2>2. CASE ba' = ba
    BY <2>1, <2>2, Kept DEF InSequence, Continues
  <2>3. CASE SendB(F(outcome, 0))
    <3> DEFINE f == F(outcome, 0)
    <3>1. f \in Frame /\ f.type = outcome /\ outcome # "next"
      BY Frames DEF F, Types, PlanType
    <3> HIDE DEF f
    <3> QED BY <2>1, <2>3, <3>1, Continued, Kept DEF f
  <2> QED BY <1>12, <2>2, <2>3 DEF End
<1>13. ASSUME EndCancelled PROVE InSequence'
  <2> DEFINE f == F("error", 0)
  <2>1. f \in Frame /\ f.type = "error" /\ f.n = 0 /\ SendB(f) /\ bpc \in Giving /\ got' = got /\ sink' = sink
    BY <1>13, Frames DEF EndCancelled, F, Types, WireType, PlanType, Giving, aVars
  <2> HIDE DEF f
  <2> QED BY <2>1, Continued, Kept
<1>14. ASSUME Finish PROVE InSequence'
  <2>1. ba' = ba /\ got' = got /\ (sink' = sink \/ sink' # "open")
    BY <1>14 DEF Finish, aVars, bVars, vars, Terminate
  <2> QED BY <2>1, Kept DEF InSequence, Continues
<1>15. ASSUME NEW n \in 1..MaxN, AskFirst(n) PROVE InSequence'
  <2>1. ba' = ba /\ got' = got /\ (sink' = sink \/ sink' # "open")
    BY <1>15 DEF AskFirst, aVars, bVars, vars, Terminate
  <2> QED BY <2>1, Kept DEF InSequence, Continues
<1>16. ASSUME NEW n \in 1..MaxN, AskMore(n) PROVE InSequence'
  <2>1. ba' = ba /\ got' = got /\ (sink' = sink \/ sink' # "open")
    BY <1>16 DEF AskMore, aVars, bVars, vars, Terminate
  <2> QED BY <2>1, Kept DEF InSequence, Continues
<1>17. ASSUME NEW s \in Sides, Close(s) PROVE InSequence'
  <2>1. ba' = ba /\ got' = got /\ (sink' = sink \/ sink' # "open")
    BY <1>17 DEF Close, aVars, bVars, vars, Terminate
  <2> QED BY <2>1, Kept DEF InSequence, Continues
<1>18. ASSUME SweepA PROVE InSequence'
  <2>1. (\A i \in 1..Len(ba') : ba'[i] = ba[i] /\ i \in 1..Len(ba)) /\ got' = got /\ (sink' = sink \/ sink' # "open")
    BY <1>18, Cuts DEF SweepA, aVars, Terminate
  <2> QED BY <2>1, Kept DEF InSequence, Continues
<1>19. ASSUME SweepB PROVE InSequence'
  <2>1. (\A i \in 1..Len(ba') : ba'[i] = ba[i] /\ i \in 1..Len(ba)) /\ got' = got /\ (sink' = sink \/ sink' # "open")
    BY <1>19, Cuts DEF SweepB, aVars, Terminate
  <2> QED BY <2>1, Kept DEF InSequence, Continues
<1>20. ASSUME UNCHANGED vars PROVE InSequence'
  <2>1. ba' = ba /\ got' = got /\ (sink' = sink \/ sink' # "open")
    BY <1>20 DEF aVars, bVars, vars, Terminate
  <2> QED BY <2>1, Kept DEF InSequence, Continues
<1> QED BY <1>1, <1>2, <1>3, <1>4, <1>5, <1>6, <1>7, <1>8, <1>9, <1>10, <1>11, <1>12, <1>13, <1>14, <1>15, <1>16, <1>17, <1>18, <1>19, <1>20 DEF Next, Requester, Responder

LEMMA NothingLostStep ==
  ASSUME Types, Types', Summed(ab), Stages, Requests, Answering, Continues, Received, [Next]_vars
  PROVE  NothingLost'
<1>1. ASSUME Check PROVE NothingLost'
  <2>1. ba' = ba /\ got' = got /\ (sink' = sink \/ sink' # "open") /\ sent' = sent /\ swept' = swept /\ closed' = closed
        /\ (bpc' \in Giving => bpc \in Giving)
    BY <1>1 DEF Check, aVars, bVars, sockVars, vars, Terminate, Giving
  <2> QED BY <2>1 DEF NothingLost, Continues
<1>2. ASSUME Register PROVE NothingLost'
  <2>1. ba' = ba /\ got' = got /\ (sink' = sink \/ sink' # "open") /\ sent' = sent /\ swept' = swept /\ closed' = closed
        /\ (bpc' \in Giving => bpc \in Giving)
    BY <1>2 DEF Register, aVars, bVars, sockVars, vars, Terminate, Giving
  <2> QED BY <2>1 DEF NothingLost, Continues
<1>3. ASSUME SendRequest PROVE NothingLost'
  <2>1. ba' = ba /\ got' = got /\ (sink' = sink \/ sink' # "open") /\ sent' = sent /\ swept' = swept /\ closed' = closed
        /\ (bpc' \in Giving => bpc \in Giving)
    BY <1>3 DEF SendRequest, aVars, bVars, sockVars, vars, Terminate, Giving
  <2> QED BY <2>1 DEF NothingLost, Continues
<1>4. ASSUME Finally PROVE NothingLost'
  <2>1. ba' = ba /\ got' = got /\ (sink' = sink \/ sink' # "open") /\ sent' = sent /\ swept' = swept /\ closed' = closed
        /\ (bpc' \in Giving => bpc \in Giving)
    BY <1>4 DEF Finally, aVars, bVars, sockVars, vars, Terminate, Giving
  <2> QED BY <2>1 DEF NothingLost, Continues
<1>5. ASSUME Unregister PROVE NothingLost'
  <2>1. ba' = ba /\ got' = got /\ (sink' = sink \/ sink' # "open") /\ sent' = sent /\ swept' = swept /\ closed' = closed
        /\ (bpc' \in Giving => bpc \in Giving)
    BY <1>5 DEF Unregister, aVars, bVars, sockVars, vars, Terminate, Giving
  <2> QED BY <2>1 DEF NothingLost, Continues
<1>6. ASSUME Cancel PROVE NothingLost'
  <2>1. ba' = ba /\ got' = got /\ (sink' = sink \/ sink' # "open") /\ sent' = sent /\ swept' = swept /\ closed' = closed
        /\ (bpc' \in Giving => bpc \in Giving)
    BY <1>6 DEF Cancel, aVars, bVars, sockVars, vars, Terminate, Giving
  <2> QED BY <2>1 DEF NothingLost, Continues
<1>7. ASSUME ReceiveA PROVE NothingLost'
  <2>1. SUFFICES ASSUME sink' = "open", bpc \in Giving, ~closed[B], ~swept[A] PROVE Len(got') + Len(ba') = sent
    BY <1>7, AtA DEF NothingLost
  <2>2. sink = "open" /\ ba[1].type = "next" /\ Len(ba') = Len(ba) - 1 /\ Len(ba) \in Nat
    BY <1>7, <2>1, AtA
  <2>3. got \in Seq(Nat) /\ got' = Append(got, Len(got) + 1)
    BY <1>7, <2>2, Gets
  <2>4. Len(got) \in Nat /\ Len(got') = Len(got) + 1
    BY <2>3
  <2>5. Len(got) + Len(ba) = sent
    BY <2>1, <2>2 DEF NothingLost, Continues
  <2> QED BY <2>2, <2>4, <2>5
<1>8. ASSUME ReceiveB PROVE NothingLost'
  <2>1. got' = got /\ sink' = sink /\ sent' = sent /\ closed' = closed /\ swept' = swept
    BY <1>8, AtB
  <2>2. bpc' \in Giving => bpc \in Giving /\ ba' = ba
    BY <1>8, AtB DEF Respond, Giving
  <2> QED BY <2>1, <2>2 DEF NothingLost, Continues
<1>9. ASSUME OnSubscribe PROVE NothingLost'
  <2>1. ba' = ba /\ got' = got /\ (sink' = sink \/ sink' # "open") /\ sent' = sent /\ swept' = swept /\ closed' = closed
        /\ (bpc' \in Giving => bpc \in Giving)
    BY <1>9 DEF OnSubscribe, aVars, bVars, sockVars, vars, Terminate, Giving
  <2> QED BY <2>1 DEF NothingLost, Continues
<1>10. ASSUME OnSubscribeDone PROVE NothingLost'
  <2>1. bpc' \notin Giving
    BY <1>10 DEF OnSubscribeDone, Giving
  <2> QED BY <2>1 DEF NothingLost
<1>11. ASSUME Emit PROVE NothingLost'
  <2>1. SUFFICES ASSUME sink = "open", ~closed[B], ~swept[A] PROVE Len(got') + Len(ba') = sent'
    BY <1>11 DEF NothingLost, Emit, aVars, sockVars
  <2>2. SendB(F("next", sent + 1)) /\ F("next", sent + 1) \in Frame /\ bpc \in Giving /\ got' = got /\ sent' = sent + 1
        /\ sent \in Nat /\ ba \in Seq(Frame) /\ got \in Seq(Nat)
    BY <1>11, Frames DEF Emit, Giving, aVars, Types, WireType, AType
  <2>3. Len(ba') = Len(ba) + 1 /\ Len(ba) \in Nat
    BY <2>1, <2>2, SendsB, Ends
  <2>4. Len(got) + Len(ba) = sent /\ Len(got) \in Nat
    BY <2>1, <2>2 DEF NothingLost, Continues
  <2> QED BY <2>2, <2>3, <2>4
<1>12. ASSUME End PROVE NothingLost'
  <2>1. bpc' \notin Giving
    BY <1>12 DEF End, Giving
  <2> QED BY <2>1 DEF NothingLost
<1>13. ASSUME EndCancelled PROVE NothingLost'
  <2>1. bpc' \notin Giving
    BY <1>13 DEF EndCancelled, Giving
  <2> QED BY <2>1 DEF NothingLost
<1>14. ASSUME Finish PROVE NothingLost'
  <2>1. ba' = ba /\ got' = got /\ (sink' = sink \/ sink' # "open") /\ sent' = sent /\ swept' = swept /\ closed' = closed
        /\ (bpc' \in Giving => bpc \in Giving)
    BY <1>14 DEF Finish, aVars, bVars, sockVars, vars, Terminate, Giving
  <2> QED BY <2>1 DEF NothingLost, Continues
<1>15. ASSUME NEW n \in 1..MaxN, AskFirst(n) PROVE NothingLost'
  <2>1. ba' = ba /\ got' = got /\ (sink' = sink \/ sink' # "open") /\ sent' = sent /\ swept' = swept /\ closed' = closed
        /\ (bpc' \in Giving => bpc \in Giving)
    BY <1>15 DEF AskFirst, aVars, bVars, sockVars, vars, Terminate, Giving
  <2> QED BY <2>1 DEF NothingLost, Continues
<1>16. ASSUME NEW n \in 1..MaxN, AskMore(n) PROVE NothingLost'
  <2>1. ba' = ba /\ got' = got /\ (sink' = sink \/ sink' # "open") /\ sent' = sent /\ swept' = swept /\ closed' = closed
        /\ (bpc' \in Giving => bpc \in Giving)
    BY <1>16 DEF AskMore, aVars, bVars, sockVars, vars, Terminate, Giving
  <2> QED BY <2>1 DEF NothingLost, Continues
<1>17. ASSUME NEW s \in Sides, Close(s) PROVE NothingLost'
  <2>1. ~closed'[B] => ~closed[B]
    BY <1>17 DEF Close, Types, WireType, Sides
  <2>2. ba' = ba /\ got' = got /\ sink' = sink /\ sent' = sent /\ swept' = swept /\ bpc' = bpc
    BY <1>17 DEF Close, aVars, bVars
  <2> QED BY <2>1, <2>2 DEF NothingLost, Continues
<1>18. ASSUME SweepA PROVE NothingLost'
  <2>1. swept'[A]
    BY <1>18 DEF SweepA, Types, WireType, Sides
  <2> QED BY <2>1 DEF NothingLost
<1>19. ASSUME SweepB PROVE NothingLost'
  <2>1. closed'[B]
    BY <1>19 DEF SweepB
  <2> QED BY <2>1 DEF NothingLost
<1>20. ASSUME UNCHANGED vars PROVE NothingLost'
  <2>1. ba' = ba /\ got' = got /\ (sink' = sink \/ sink' # "open") /\ sent' = sent /\ swept' = swept /\ closed' = closed
        /\ (bpc' \in Giving => bpc \in Giving)
    BY <1>20 DEF aVars, bVars, sockVars, vars, Terminate, Giving
  <2> QED BY <2>1 DEF NothingLost, Continues
<1> QED BY <1>1, <1>2, <1>3, <1>4, <1>5, <1>6, <1>7, <1>8, <1>9, <1>10, <1>11, <1>12, <1>13, <1>14, <1>15, <1>16, <1>17, <1>18, <1>19, <1>20 DEF Next, Requester, Responder

LEMMA NotAheadStep ==
  ASSUME Types, Types', Summed(ab), Stages, Requests, Answering, Continues, Received, [Next]_vars
  PROVE  (Len(got) <= sent)'
<1>1. ASSUME Check PROVE (Len(got) <= sent)'
  <2>1. got' = got /\ sent' = sent
    BY <1>1 DEF Check, aVars, bVars, vars
  <2> QED BY <2>1 DEF Continues
<1>2. ASSUME Register PROVE (Len(got) <= sent)'
  <2>1. got' = got /\ sent' = sent
    BY <1>2 DEF Register, aVars, bVars, vars
  <2> QED BY <2>1 DEF Continues
<1>3. ASSUME SendRequest PROVE (Len(got) <= sent)'
  <2>1. got' = got /\ sent' = sent
    BY <1>3 DEF SendRequest, aVars, bVars, vars
  <2> QED BY <2>1 DEF Continues
<1>4. ASSUME Finally PROVE (Len(got) <= sent)'
  <2>1. got' = got /\ sent' = sent
    BY <1>4 DEF Finally, aVars, bVars, vars
  <2> QED BY <2>1 DEF Continues
<1>5. ASSUME Unregister PROVE (Len(got) <= sent)'
  <2>1. got' = got /\ sent' = sent
    BY <1>5 DEF Unregister, aVars, bVars, vars
  <2> QED BY <2>1 DEF Continues
<1>6. ASSUME Cancel PROVE (Len(got) <= sent)'
  <2>1. got' = got /\ sent' = sent
    BY <1>6 DEF Cancel, aVars, bVars, vars
  <2> QED BY <2>1 DEF Continues
<1>7. ASSUME ReceiveA PROVE (Len(got) <= sent)'
  <2>1. sent' = sent /\ Len(got) <= sent /\ got \in Seq(Nat)
        /\ (got' = got \/ (got' = Append(got, Len(got) + 1) /\ Len(got) + 1 <= sent))
    BY <1>7, AtA, Gets DEF Continues
  <2>2. CASE got' = got
    BY <2>1, <2>2
  <2>3. CASE got' = Append(got, Len(got) + 1) /\ Len(got) + 1 <= sent
    <3>1. Len(got') = Len(got) + 1
      BY <2>1, <2>3
    <3> QED BY <2>1, <2>3, <3>1
  <2> QED BY <2>1, <2>2, <2>3
<1>8. ASSUME ReceiveB PROVE (Len(got) <= sent)'
  BY <1>8, AtB DEF Continues
<1>9. ASSUME OnSubscribe PROVE (Len(got) <= sent)'
  <2>1. got' = got /\ sent' = sent
    BY <1>9 DEF OnSubscribe, aVars, bVars, vars
  <2> QED BY <2>1 DEF Continues
<1>10. ASSUME OnSubscribeDone PROVE (Len(got) <= sent)'
  <2>1. got' = got /\ sent' = sent
    BY <1>10 DEF OnSubscribeDone, aVars, bVars, vars
  <2> QED BY <2>1 DEF Continues
<1>11. ASSUME Emit PROVE (Len(got) <= sent)'
  <2>1. got' = got /\ sent' = sent + 1 /\ sent \in Nat /\ Len(got) \in Nat /\ Len(got) <= sent
    BY <1>11, Frames DEF Emit, aVars, Types, AType, Continues
  <2>2. Len(got) <= sent + 1
    BY <2>1
  <2> QED BY <2>1, <2>2
<1>12. ASSUME End PROVE (Len(got) <= sent)'
  <2>1. got' = got /\ sent' = sent
    BY <1>12 DEF End, aVars, bVars, vars
  <2> QED BY <2>1 DEF Continues
<1>13. ASSUME EndCancelled PROVE (Len(got) <= sent)'
  <2>1. got' = got /\ sent' = sent
    BY <1>13 DEF EndCancelled, aVars, bVars, vars
  <2> QED BY <2>1 DEF Continues
<1>14. ASSUME Finish PROVE (Len(got) <= sent)'
  <2>1. got' = got /\ sent' = sent
    BY <1>14 DEF Finish, aVars, bVars, vars
  <2> QED BY <2>1 DEF Continues
<1>15. ASSUME NEW n \in 1..MaxN, AskFirst(n) PROVE (Len(got) <= sent)'
  <2>1. got' = got /\ sent' = sent
    BY <1>15 DEF AskFirst, aVars, bVars, vars
  <2> QED BY <2>1 DEF Continues
<1>16. ASSUME NEW n \in 1..MaxN, AskMore(n) PROVE (Len(got) <= sent)'
  <2>1. got' = got /\ sent' = sent
    BY <1>16 DEF AskMore, aVars, bVars, vars
  <2> QED BY <2>1 DEF Continues
<1>17. ASSUME NEW s \in Sides, Close(s) PROVE (Len(got) <= sent)'
  <2>1. got' = got /\ sent' = sent
    BY <1>17 DEF Close, aVars, bVars, vars
  <2> QED BY <2>1 DEF Continues
<1>18. ASSUME SweepA PROVE (Len(got) <= sent)'
  <2>1. got' = got /\ sent' = sent
    BY <1>18 DEF SweepA, aVars, bVars, vars
  <2> QED BY <2>1 DEF Continues
<1>19. ASSUME SweepB PROVE (Len(got) <= sent)'
  <2>1. got' = got /\ sent' = sent
    BY <1>19 DEF SweepB, aVars, bVars, vars
  <2> QED BY <2>1 DEF Continues
<1>20. ASSUME UNCHANGED vars PROVE (Len(got) <= sent)'
  <2>1. got' = got /\ sent' = sent
    BY <1>20 DEF aVars, bVars, vars
  <2> QED BY <2>1 DEF Continues
<1> QED BY <1>1, <1>2, <1>3, <1>4, <1>5, <1>6, <1>7, <1>8, <1>9, <1>10, <1>11, <1>12, <1>13, <1>14, <1>15, <1>16, <1>17, <1>18, <1>19, <1>20 DEF Next, Requester, Responder

LEMMA ReceivedStep ==
  ASSUME Types, Types', Summed(ab), Stages, Requests, Answering, Continues, Received, [Next]_vars
  PROVE  Received'
<1>1. ASSUME Check PROVE Received'
  <2>1. got' = got /\ (sink' = sink \/ sink' \in {"error", "cancel"})
    BY <1>1 DEF Check, aVars, vars, Terminate
  <2> QED BY <2>1, Kept DEF Received
<1>2. ASSUME Register PROVE Received'
  <2>1. got' = got /\ (sink' = sink \/ sink' \in {"error", "cancel"})
    BY <1>2 DEF Register, aVars, vars, Terminate
  <2> QED BY <2>1, Kept DEF Received
<1>3. ASSUME SendRequest PROVE Received'
  <2>1. got' = got /\ (sink' = sink \/ sink' \in {"error", "cancel"})
    BY <1>3 DEF SendRequest, aVars, vars, Terminate
  <2> QED BY <2>1, Kept DEF Received
<1>4. ASSUME Finally PROVE Received'
  <2>1. got' = got /\ (sink' = sink \/ sink' \in {"error", "cancel"})
    BY <1>4 DEF Finally, aVars, vars, Terminate
  <2> QED BY <2>1, Kept DEF Received
<1>5. ASSUME Unregister PROVE Received'
  <2>1. got' = got /\ (sink' = sink \/ sink' \in {"error", "cancel"})
    BY <1>5 DEF Unregister, aVars, vars, Terminate
  <2> QED BY <2>1, Kept DEF Received
<1>6. ASSUME Cancel PROVE Received'
  <2>1. got' = got /\ (sink' = sink \/ sink' \in {"error", "cancel"})
    BY <1>6 DEF Cancel, aVars, vars, Terminate
  <2> QED BY <2>1, Kept DEF Received
<1>7. ASSUME ReceiveA PROVE Received'
  <2>1. got \in Seq(Nat) /\ Len(got) \in Nat /\ \A i \in 1..Len(got) : got[i] = i
    BY <1>7, Gets DEF Received
  <2>2. \A i \in 1..Len(got') : got'[i] = i
    <3>1. CASE got' = got
      BY <2>1, <3>1
    <3>2. CASE got' = Append(got, Len(got) + 1)
      BY <2>1, <3>2
    <3> QED BY <1>7, <3>1, <3>2, Gets
  <2>3. ASSUME sink' = "complete" PROVE outcome = "complete" /\ Len(got') = total
    <3>1. CASE sink # "open"
      BY <1>7, <2>3, <3>1, Gets DEF Received
    <3>2. CASE sink = "open" /\ ba[1].type = "complete"
      BY <1>7, <3>2, Gets
    <3>3. CASE sink = "open" /\ ba[1].type = "next"
      <4>1. kind = "response" /\ got' = Append(got, Len(got) + 1) /\ Len(got) + 1 <= sent
        BY <1>7, <2>3, <3>3, AtA, Gets
      <4>2. sent \in 0..total /\ total \in 0..(IF outcome = "error" THEN 0 ELSE 1) /\ outcome \in {"complete", "error"}
        BY <4>1 DEF Types, PlanType, BType, ItemsOf
      <4>3. outcome = "complete"
        BY <2>1, <4>1, <4>2
      <4>4. Len(got) = 0 /\ total = 1
        BY <2>1, <4>1, <4>2, <4>3
      <4>5. Len(got') = Len(got) + 1
        BY <2>1, <4>1
      <4> QED BY <4>3, <4>4, <4>5
    <3>4. sink = "open" => ba[1].type # "error" /\ ba[1].type \in {"next", "complete", "error"}
      BY <1>7, <2>3, AtA, Gets
    <3> QED BY <3>1, <3>2, <3>3, <3>4
  <2> QED BY <2>2, <2>3, Kept DEF Received
<1>8. ASSUME ReceiveB PROVE Received'
  BY <1>8, AtB, Kept DEF Received
<1>9. ASSUME OnSubscribe PROVE Received'
  <2>1. got' = got /\ (sink' = sink \/ sink' \in {"error", "cancel"})
    BY <1>9 DEF OnSubscribe, aVars, vars, Terminate
  <2> QED BY <2>1, Kept DEF Received
<1>10. ASSUME OnSubscribeDone PROVE Received'
  <2>1. got' = got /\ (sink' = sink \/ sink' \in {"error", "cancel"})
    BY <1>10 DEF OnSubscribeDone, aVars, vars, Terminate
  <2> QED BY <2>1, Kept DEF Received
<1>11. ASSUME Emit PROVE Received'
  <2>1. got' = got /\ (sink' = sink \/ sink' \in {"error", "cancel"})
    BY <1>11 DEF Emit, aVars, vars, Terminate
  <2> QED BY <2>1, Kept DEF Received
<1>12. ASSUME End PROVE Received'
  <2>1. got' = got /\ (sink' = sink \/ sink' \in {"error", "cancel"})
    BY <1>12 DEF End, aVars, vars, Terminate
  <2> QED BY <2>1, Kept DEF Received
<1>13. ASSUME EndCancelled PROVE Received'
  <2>1. got' = got /\ (sink' = sink \/ sink' \in {"error", "cancel"})
    BY <1>13 DEF EndCancelled, aVars, vars, Terminate
  <2> QED BY <2>1, Kept DEF Received
<1>14. ASSUME Finish PROVE Received'
  <2>1. got' = got /\ (sink' = sink \/ sink' \in {"error", "cancel"})
    BY <1>14 DEF Finish, aVars, vars, Terminate
  <2> QED BY <2>1, Kept DEF Received
<1>15. ASSUME NEW n \in 1..MaxN, AskFirst(n) PROVE Received'
  <2>1. got' = got /\ (sink' = sink \/ sink' \in {"error", "cancel"})
    BY <1>15 DEF AskFirst, aVars, vars, Terminate
  <2> QED BY <2>1, Kept DEF Received
<1>16. ASSUME NEW n \in 1..MaxN, AskMore(n) PROVE Received'
  <2>1. got' = got /\ (sink' = sink \/ sink' \in {"error", "cancel"})
    BY <1>16 DEF AskMore, aVars, vars, Terminate
  <2> QED BY <2>1, Kept DEF Received
<1>17. ASSUME NEW s \in Sides, Close(s) PROVE Received'
  <2>1. got' = got /\ (sink' = sink \/ sink' \in {"error", "cancel"})
    BY <1>17 DEF Close, aVars, vars, Terminate
  <2> QED BY <2>1, Kept DEF Received
<1>18. ASSUME SweepA PROVE Received'
  <2>1. got' = got /\ (sink' = sink \/ sink' \in {"error", "cancel"})
    BY <1>18 DEF SweepA, aVars, vars, Terminate
  <2> QED BY <2>1, Kept DEF Received
<1>19. ASSUME SweepB PROVE Received'
  <2>1. got' = got /\ (sink' = sink \/ sink' \in {"error", "cancel"})
    BY <1>19 DEF SweepB, aVars, vars, Terminate
  <2> QED BY <2>1, Kept DEF Received
<1>20. ASSUME UNCHANGED vars PROVE Received'
  <2>1. got' = got /\ (sink' = sink \/ sink' \in {"error", "cancel"})
    BY <1>20 DEF aVars, vars, Terminate
  <2> QED BY <2>1, Kept DEF Received
<1> QED BY <1>1, <1>2, <1>3, <1>4, <1>5, <1>6, <1>7, <1>8, <1>9, <1>10, <1>11, <1>12, <1>13, <1>14, <1>15, <1>16, <1>17, <1>18, <1>19, <1>20 DEF Next, Requester, Responder

LEMMA ContinuesStep ==
  ASSUME Types, Types', Summed(ab), Stages, Requests, Answering, Continues, Received, [Next]_vars
  PROVE  Continues'
  BY InSequenceStep, NothingLostStep, NotAheadStep DEF Continues

LEMMA Amounts ==
  ASSUME Types, Summed(ab)
  PROVE  sent \in Nat /\ credit \in Nat /\ asked \in Nat /\ first \in Nat /\ Pending \in Nat /\ Sum(ab) \in Nat
         /\ closed \in [Sides -> BOOLEAN] /\ (swept[A] => closed[A]) /\ (swept[B] => closed[B])
<1>1. sent \in Nat /\ credit \in Nat
  BY Frames DEF Types, BType
<1>2. asks \in Nat /\ asked \in 0..(asks * MaxN) /\ first \in 0..RequestMax /\ RequestMax \in Nat
  BY Numbers DEF Types, AType
<1>3. asked \in Nat /\ first \in Nat
  <2> DEFINE p == asks * MaxN
  <2>1. p \in Nat /\ asked \in 0..p
    BY <1>2, Numbers
  <2> HIDE DEF p
  <2> QED BY <1>2, <2>1
<1>4. Sum(ab) \in Nat
  BY SumIs DEF Summed, Types, WireType
<1> QED BY <1>1, <1>3, <1>4 DEF Types, WireType, Sides, Pending

LEMMA DemandedStep ==
  ASSUME Types, Types', Summed(ab), Stages, Requests, Answering, Demanded, [Next]_vars
  PROVE  Demanded'
<1>1. ASSUME Check PROVE Demanded'
  <2>1. sent' = sent /\ credit' = credit /\ asked' = asked /\ ab' = ab /\ unheard' = unheard /\ closed' = closed
        /\ (bpc' \in Giving => bpc \in Giving) /\ (kind = "stream" => Pending' = Pending)
    BY <1>1 DEF Check, aVars, bVars, sockVars, vars, Giving, Pending
  <2> QED BY <2>1, Kept DEF Demanded, Whole
<1>2. ASSUME Register PROVE Demanded'
  <2>1. sent' = sent /\ credit' = credit /\ asked' = asked /\ ab' = ab /\ unheard' = unheard /\ closed' = closed
        /\ (bpc' \in Giving => bpc \in Giving) /\ (kind = "stream" => Pending' = Pending)
    BY <1>2 DEF Register, aVars, bVars, sockVars, vars, Giving, Pending
  <2> QED BY <2>1, Kept DEF Demanded, Whole
<1>3. ASSUME SendRequest PROVE Demanded'
  <2>1. sent' = sent /\ credit' = credit /\ asked' = asked /\ unheard' = unheard /\ closed' = closed /\ bpc' = bpc
    BY <1>3 DEF SendRequest, bVars, sockVars
  <2>2. SendA(F("request", first)) /\ F("request", first) \in Frame /\ F("request", first).type = "request"
        /\ F("request", first).n = first
    BY <1>3, Frames DEF SendRequest, F
  <2>3. InFlight(F("request", first)) = first
    BY <2>2, Weight
  <2>4. \/ (closed[A] \/ swept[B]) /\ Sum(ab') = Sum(ab)
        \/ Sum(ab') = Sum(ab) + first
    BY <2>2, <2>3, SendsA
  <2>5. Pending = first /\ Pending' = 0
    BY <1>3 DEF SendRequest, Pending
  <2>6. CASE (closed[A] \/ swept[B]) /\ Sum(ab') = Sum(ab)
    BY <2>1, <2>5, <2>6, Kept, Amounts DEF Demanded, Whole
  <2>7. CASE Sum(ab') = Sum(ab) + first
    BY <2>1, <2>5, <2>7, Kept, Amounts DEF Demanded, Whole
  <2> QED BY <2>4, <2>6, <2>7
<1>4. ASSUME Finally PROVE Demanded'
  <2>1. sent' = sent /\ credit' = credit /\ asked' = asked /\ unheard' = unheard /\ closed' = closed
        /\ bpc' = bpc /\ Pending' = Pending
    BY <1>4 DEF Finally, bVars, sockVars, Pending
  <2>2. Sum(ab') = Sum(ab)
    <3>1. CASE sink = "cancel"
      <4>1. SendA(F("cancel", 0)) /\ F("cancel", 0) \in Frame /\ F("cancel", 0).type = "cancel"
        BY <1>4, <3>1, Frames DEF Finally, F
      <4>2. InFlight(F("cancel", 0)) = 0
        BY <4>1, Weight
      <4> QED BY <4>1, <4>2, SendsA
    <3>2. CASE sink # "cancel"
      BY <1>4, <3>2 DEF Finally
    <3> QED BY <3>1, <3>2
  <2> QED BY <2>1, <2>2, Kept DEF Demanded, Whole
<1>5. ASSUME Unregister PROVE Demanded'
  <2>1. sent' = sent /\ credit' = credit /\ asked' = asked /\ ab' = ab /\ unheard' = unheard /\ closed' = closed
        /\ (bpc' \in Giving => bpc \in Giving) /\ (kind = "stream" => Pending' = Pending)
    BY <1>5 DEF Unregister, aVars, bVars, sockVars, vars, Giving, Pending
  <2> QED BY <2>1, Kept DEF Demanded, Whole
<1>6. ASSUME Cancel PROVE Demanded'
  <2>1. sent' = sent /\ credit' = credit /\ asked' = asked /\ ab' = ab /\ unheard' = unheard /\ closed' = closed
        /\ (bpc' \in Giving => bpc \in Giving) /\ (kind = "stream" => Pending' = Pending)
    BY <1>6 DEF Cancel, aVars, bVars, sockVars, vars, Giving, Pending
  <2> QED BY <2>1, Kept DEF Demanded, Whole
<1>7. ASSUME ReceiveA PROVE Demanded'
  <2>1. sent' = sent /\ credit' = credit /\ asked' = asked /\ ab' = ab /\ unheard' = unheard /\ closed' = closed
        /\ (bpc' \in Giving => bpc \in Giving) /\ (kind = "stream" => Pending' = Pending)
    BY <1>7 DEF ReceiveA, aVars, bVars, sockVars, vars, Giving, Pending
  <2> QED BY <2>1, Kept DEF Demanded, Whole
<1>8. ASSUME ReceiveB PROVE Demanded'
  <2>1. /\ ab # <<>> /\ ab' = Tail(ab) /\ ab[1] \in Frame /\ (ab[1].type = "request" => bpc = "idle")
        /\ sent' = sent /\ asked' = asked /\ closed' = closed /\ breg' = breg /\ Pending' = Pending
    BY <1>8, AtB DEF ReceiveB, aVars, Pending
  <2>2. Sum(ab) = InFlight(ab[1]) + Sum(ab') /\ Sum(ab') \in Nat /\ Len(ab) \in Nat /\ 1 <= Len(ab)
    BY <2>1, Takes
  <2>3. InFlight(ab[1]) \in Nat /\ (ab[1].type = "cancel" => InFlight(ab[1]) = 0)
        /\ (ab[1].type # "cancel" => InFlight(ab[1]) = ab[1].n)
    BY <2>1, Weight
  <2>4. SUFFICES ASSUME kind = "stream"
        PROVE  /\ sent + credit' + Sum(ab') + Pending <= asked
               /\ Whole' => sent + credit' + Sum(ab') + Pending = asked
    BY <2>1, Kept DEF Demanded
  <2>5. /\ sent + credit + Sum(ab) + Pending <= asked
        /\ Whole => sent + credit + Sum(ab) + Pending = asked
    BY <2>4 DEF Demanded
  <2>6. CASE ab[1].type = "request" /\ Respond(ab[1]) /\ UNCHANGED <<stopped, unheard>>
    <3>1. credit = 0 /\ bpc = "idle" /\ InFlight(ab[1]) = ab[1].n
      BY <2>1, <2>3, <2>6 DEF Answering, NotStarted
    <3>2. CASE bpc' = "ended" /\ credit' = credit
      BY <2>2, <2>3, <2>5, <3>2, Amounts DEF Whole, Giving
    <3>3. CASE bpc' = "subscribing" /\ credit' = ab[1].n
      <4>1. Whole' => Whole
        BY <2>1, <2>6, <3>1 DEF Whole, Giving
      <4> QED BY <2>2, <2>3, <2>5, <3>1, <3>3, <4>1, Amounts
    <3> QED BY <2>6, <3>2, <3>3 DEF Respond
  <2>7. CASE ab[1].type = "requestN" /\ Demand(ab[1]) /\ UNCHANGED <<bpc, stopped, ba>>
    <3>1. CASE breg
      <4>1. credit' = credit + ab[1].n /\ (Whole' => Whole)
        BY <2>1, <2>4, <2>7, <3>1 DEF Demand, Whole
      <4> QED BY <2>2, <2>3, <2>5, <2>7, <4>1, Amounts
    <3>2. CASE ~breg
      <4>1. credit' = credit
        BY <2>7, <3>2 DEF Demand
      <4>2. ~Whole'
        <5>1. CASE bpc \in {"idle", "subscribing"}
          BY <2>7, <3>2, <5>1 DEF Demand, Whole
        <5>2. CASE bpc \notin {"idle", "subscribing"}
          BY <2>7, <3>2, <5>2 DEF Whole, Giving, Answering, NotStarted
        <5> QED BY <5>1, <5>2
      <4> QED BY <2>2, <2>3, <2>5, <4>1, <4>2, Amounts
    <3> QED BY <3>1, <3>2
  <2>8. CASE ab[1].type = "cancel" /\ Halt /\ UNCHANGED <<bpc, credit, ba>>
    <3>1. credit' = credit /\ (Whole' => Whole)
      BY <2>1, <2>8 DEF Halt, Whole
    <3> QED BY <2>2, <2>3, <2>5, <2>8, <3>1, Amounts
  <2> QED BY <1>8, <2>6, <2>7, <2>8, AtB
<1>9. ASSUME OnSubscribe PROVE Demanded'
  <2>1. sent' = sent /\ credit' = credit /\ asked' = asked /\ ab' = ab /\ unheard' = unheard /\ closed' = closed
        /\ (bpc' \in Giving => bpc \in Giving) /\ (kind = "stream" => Pending' = Pending)
    BY <1>9 DEF OnSubscribe, aVars, bVars, sockVars, vars, Giving, Pending
  <2> QED BY <2>1, Kept DEF Demanded, Whole
<1>10. ASSUME OnSubscribeDone PROVE Demanded'
  <2>1. sent' = sent /\ credit' = credit /\ asked' = asked /\ ab' = ab /\ unheard' = unheard /\ closed' = closed
        /\ (bpc' \in Giving => bpc \in Giving) /\ (kind = "stream" => Pending' = Pending)
    BY <1>10 DEF OnSubscribeDone, aVars, bVars, sockVars, vars, Giving, Pending
  <2> QED BY <2>1, Kept DEF Demanded, Whole
<1>11. ASSUME Emit PROVE Demanded'
  <2>1. sent' = sent + 1 /\ credit' = credit - 1 /\ asked' = asked /\ ab' = ab /\ unheard' = unheard /\ closed' = closed
        /\ bpc' = bpc /\ Pending' = Pending
    BY <1>11 DEF Emit, aVars, sockVars, Pending
  <2> QED BY <2>1, Kept, Amounts DEF Demanded, Whole
<1>12. ASSUME End PROVE Demanded'
  <2>1. sent' = sent /\ credit' = credit /\ asked' = asked /\ ab' = ab /\ unheard' = unheard /\ closed' = closed
        /\ (bpc' \in Giving => bpc \in Giving) /\ (kind = "stream" => Pending' = Pending)
    BY <1>12 DEF End, aVars, bVars, sockVars, vars, Giving, Pending
  <2> QED BY <2>1, Kept DEF Demanded, Whole
<1>13. ASSUME EndCancelled PROVE Demanded'
  <2>1. sent' = sent /\ credit' = credit /\ asked' = asked /\ ab' = ab /\ unheard' = unheard /\ closed' = closed
        /\ (bpc' \in Giving => bpc \in Giving) /\ (kind = "stream" => Pending' = Pending)
    BY <1>13 DEF EndCancelled, aVars, bVars, sockVars, vars, Giving, Pending
  <2> QED BY <2>1, Kept DEF Demanded, Whole
<1>14. ASSUME Finish PROVE Demanded'
  <2>1. sent' = sent /\ credit' = credit /\ asked' = asked /\ ab' = ab /\ unheard' = unheard /\ closed' = closed
        /\ (bpc' \in Giving => bpc \in Giving) /\ (kind = "stream" => Pending' = Pending)
    BY <1>14 DEF Finish, aVars, bVars, sockVars, vars, Giving, Pending
  <2> QED BY <2>1, Kept DEF Demanded, Whole
<1>15. ASSUME NEW n \in 1..MaxN, AskFirst(n) PROVE Demanded'
  <2>1. sent' = sent /\ credit' = credit /\ asked' = asked + n /\ n \in Nat /\ ab' = ab /\ unheard' = unheard
        /\ closed' = closed /\ bpc' = bpc /\ Pending = 0 /\ Pending' = n
    BY <1>15, Numbers DEF AskFirst, bVars, sockVars, Pending
  <2> QED BY <2>1, Kept, Amounts DEF Demanded, Whole
<1>16. ASSUME NEW n \in 1..MaxN, AskMore(n) PROVE Demanded'
  <2>1. sent' = sent /\ credit' = credit /\ asked' = asked + n /\ n \in Nat /\ unheard' = unheard /\ closed' = closed
        /\ bpc' = bpc /\ Pending' = Pending
    BY <1>16 DEF AskMore, bVars, sockVars, Pending
  <2>2. SendA(F("requestN", n)) /\ F("requestN", n) \in Frame /\ F("requestN", n).type = "requestN" /\ F("requestN", n).n = n
    BY <1>16, Frames DEF AskMore, F
  <2>3. InFlight(F("requestN", n)) = n
    BY <2>2, Weight
  <2>4. \/ (closed[A] \/ swept[B]) /\ Sum(ab') = Sum(ab)
        \/ Sum(ab') = Sum(ab) + n
    BY <2>2, <2>3, SendsA
  <2>5. CASE (closed[A] \/ swept[B]) /\ Sum(ab') = Sum(ab)
    BY <2>1, <2>5, Kept, Amounts DEF Demanded, Whole
  <2>6. CASE Sum(ab') = Sum(ab) + n
    BY <2>1, <2>6, Kept, Amounts DEF Demanded, Whole
  <2> QED BY <2>4, <2>5, <2>6
<1>17. ASSUME NEW s \in Sides, Close(s) PROVE Demanded'
  <2>1. (closed[A] => closed'[A]) /\ (closed[B] => closed'[B])
    BY <1>17, Amounts DEF Close, Sides
  <2>2. sent' = sent /\ credit' = credit /\ asked' = asked /\ ab' = ab /\ unheard' = unheard
        /\ bpc' = bpc /\ Pending' = Pending
    BY <1>17 DEF Close, aVars, bVars, Pending
  <2> QED BY <2>1, <2>2, Kept DEF Demanded, Whole
<1>18. ASSUME SweepA PROVE Demanded'
  <2>1. sent' = sent /\ credit' = credit /\ asked' = asked /\ Sum(ab') <= Sum(ab) /\ Sum(ab') \in Nat
        /\ ~Whole' /\ Pending' = Pending
    BY <1>18, Cuts, Amounts DEF SweepA, aVars, bVars, Whole, Pending
  <2> QED BY <2>1, Kept, Amounts DEF Demanded
<1>19. ASSUME SweepB PROVE Demanded'
  <2>1. sent' = sent /\ credit' = credit /\ asked' = asked /\ Sum(ab') <= Sum(ab) /\ Sum(ab') \in Nat
        /\ ~Whole' /\ Pending' = Pending
    BY <1>19, Cuts, Amounts DEF SweepB, aVars, bVars, Whole, Pending
  <2> QED BY <2>1, Kept, Amounts DEF Demanded
<1>20. ASSUME UNCHANGED vars PROVE Demanded'
  <2>1. sent' = sent /\ credit' = credit /\ asked' = asked /\ ab' = ab /\ unheard' = unheard /\ closed' = closed
        /\ (bpc' \in Giving => bpc \in Giving) /\ (kind = "stream" => Pending' = Pending)
    BY <1>20 DEF aVars, bVars, sockVars, vars, Giving, Pending
  <2> QED BY <2>1, Kept DEF Demanded, Whole
<1> QED BY <1>1, <1>2, <1>3, <1>4, <1>5, <1>6, <1>7, <1>8, <1>9, <1>10, <1>11, <1>12, <1>13, <1>14, <1>15, <1>16, <1>17, <1>18, <1>19, <1>20 DEF Next, Requester, Responder

----------------------------------------------------------------------------

IInv == Types /\ Summed(ab) /\ Inv
LEMMA InvInit == Init => IInv
<1> SUFFICES ASSUME Init PROVE IInv
  OBVIOUS
<1>1. ab = <<>> /\ ba = <<>> /\ got = <<>> /\ <<>> \in Seq(Frame) /\ <<>> \in Seq(Nat) /\ Len(<<>>) = 0
  BY DEF Init
<1>2. Summed(ab) /\ Sum(ab) = 0
  BY <1>1, SumEmpty
<1>3. PlanType
  BY Numbers DEF Init, PlanType, ItemsOf
<1>4. total \in Nat
  BY <1>3, Numbers DEF PlanType, ItemsOf
<1>5. AType
  <2>1. 0 * MaxN = 0
    BY Numbers
  <2>2. 0 \in 0..RequestMax /\ 0 \in 0..MaxAsks /\ 0 \in 0..(0 * MaxN)
    BY <2>1, Numbers
  <2> QED BY <1>1, <2>2 DEF Init, AType
<1>6. BType
  <2>1. 0 \in Nat /\ 0 <= RequestMax /\ 0 \in 0..total
    BY <1>4, Numbers
  <2> QED BY <2>1 DEF Init, BType
<1>7. WireType
  BY <1>1 DEF Init, WireType
<1>8. Stages
  BY DEF Init, Stages, Early
<1>9. Requests
  BY <1>1, <1>2 DEF Init, Requests, NothingYet, OneRequest
<1>10. Answering
  BY <1>1 DEF Init, Answering, NotStarted, ItemsThenEnd, Answers
<1>11. Continues
  BY <1>1 DEF Init, Continues, InSequence, NothingLost
<1>12. Received
  BY <1>1 DEF Init, Received
<1>13. Demanded
  BY <1>2 DEF Init, Demanded, Pending
<1>14. Types
  BY <1>3, <1>5, <1>6, <1>7 DEF Types
<1> QED BY <1>2, <1>8, <1>9, <1>10, <1>11, <1>12, <1>13, <1>14 DEF IInv, Inv

LEMMA InvNext == IInv /\ [Next]_vars => IInv'
<1> SUFFICES ASSUME IInv, [Next]_vars PROVE IInv'
  OBVIOUS
<1>1. Types /\ Summed(ab) /\ Stages /\ Requests /\ Answering /\ Continues /\ Received /\ Demanded
  BY DEF IInv, Inv
<1>2. Types' /\ Summed(ab')
  BY <1>1, TypesStep
<1>3. Stages'
  BY <1>1, StagesStep
<1>4. Requests'
  BY <1>1, <1>2, RequestsStep
<1>5. Answering'
  BY <1>1, <1>2, AnsweringStep
<1>6. Continues'
  BY <1>1, <1>2, ContinuesStep
<1>7. Received'
  BY <1>1, <1>2, ReceivedStep
<1>8. Demanded'
  BY <1>1, <1>2, DemandedStep
<1> QED BY <1>2, <1>3, <1>4, <1>5, <1>6, <1>7, <1>8 DEF IInv, Inv

LEMMA InvDelivered == IInv => Delivered
<1> SUFFICES ASSUME IInv PROVE Delivered
  OBVIOUS
<1>1. Types /\ Summed(ab) /\ Stages /\ Requests /\ Answering /\ Continues /\ Received /\ Demanded
  BY DEF IInv, Inv
<1>2. asked \in 0..(MaxAsks * MaxN)
  <2>1. asks \in 0..MaxAsks /\ asked \in 0..(asks * MaxN)
    BY <1>1 DEF Types, AType
  <2>2. asks \in Nat /\ asks * MaxN \in Nat /\ asks * MaxN <= MaxAsks * MaxN /\ MaxAsks * MaxN \in Nat
    BY <2>1, Numbers
  <2> DEFINE p == asks * MaxN  m == MaxAsks * MaxN
  <2>3. p \in Nat /\ m \in Nat /\ p <= m /\ asked \in 0..p
    BY <2>1, <2>2
  <2> HIDE DEF p, m
  <2>4. asked \in 0..m
    BY <2>3
  <2> QED BY <2>4 DEF m
<1>3. credit \in 0..(IF kind = "stream" THEN asked ELSE RequestMax)
  <2>1. CASE kind = "stream"
    <3>1. sent + credit + Sum(ab) + Pending <= asked
      BY <1>1, <2>1 DEF Demanded
    <3>2. credit \in 0..asked
      BY <1>1, <3>1, Amounts
    <3> QED BY <2>1, <3>2
  <2>2. CASE kind = "response"
    <3>1. credit \in Nat /\ credit <= RequestMax /\ RequestMax \in Nat
      BY <1>1, <2>2, Numbers DEF Types, BType
    <3> QED BY <2>2, <3>1
  <2> QED BY <1>1, <2>1, <2>2 DEF Types, PlanType
<1>4. FrameType(ab) /\ FrameType(ba)
  <2>1. ASSUME NEW q \in Seq(Frame) PROVE FrameType(q)
    <3>1. ASSUME NEW i \in 1..Len(q) PROVE q[i].type \in FrameTypes /\ q[i].n \in 0..RequestMax
      <4>1. q[i] \in Frame
        BY <3>1
      <4> QED BY <4>1 DEF Frame
    <3> QED BY <3>1 DEF FrameType
  <2> QED BY <1>1, <2>1 DEF Types, WireType
<1>5. TypeOK
  BY <1>1, <1>2, <1>3, <1>4 DEF TypeOK, Types, AType, BType, WireType, Continues
<1>6. DemandKept
  <2>1. apc = "sent" => Pending = 0
    BY DEF Pending
  <2>2. Sum(ab) = OnTheWay
    BY DEF Sum, OnTheWay
  <2> QED BY <1>1, <2>1, <2>2, Amounts DEF DemandKept, Demanded, Whole, Giving
<1> QED BY <1>1, <1>5, <1>6 DEF Delivered

\* In every state of a stream, whatever is lost, cancelled or closed: the items
\* arrive in order and without a gap, completion means all of them, and no demand
\* is invented or lost.
THEOREM StreamsDelivered == Spec => []Delivered
<1>1. Init => IInv
  BY InvInit
<1>2. IInv /\ [Next]_vars => IInv'
  BY InvNext
<1>3. IInv => Delivered
  BY InvDelivered
<1> QED BY <1>1, <1>2, <1>3, PTL DEF Spec
=============================================================================
