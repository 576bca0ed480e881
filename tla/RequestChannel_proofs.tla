------------------------ MODULE RequestChannel_proofs ------------------------
(***************************************************************************)
(* Delivered, for any number of items and of demands.  The inductive       *)
(* invariant follows the frames of either direction: the request is the    *)
(* first of them, the items under way go on from the last one received,    *)
(* the demand under way is within what its sender asked for, a CANCEL is   *)
(* there only if the responder's subscriber cancelled, and the callback of *)
(* the responder is kept until two ends have been counted.                 *)
(***************************************************************************)
EXTENDS RequestChannel, SequenceTheorems, TLAPS
----------------------------------------------------------------------------
(* A queue of frames, counted.  Of the frames of a queue, those of some kinds *)
(* count one each.                                                            *)

Frame   == [type : FrameTypes, n : Nat]
Demands == {"request", "requestN"}
Items   == {"next", "final"}
Ones(f, K) == IF f.type \in K THEN 1 ELSE 0

\* From low on, the frames of q take a count no higher than high.
Counts(h, q, K, low, high) ==
  /\ h \in [0..Len(q) -> 0..high] /\ low <= h[0]
  /\ \A i \in 1..Len(q) : h[i - 1] + Ones(q[i], K) <= h[i]
Fits(q, K, low, high) == \E h : Counts(h, q, K, low, high)

\* The items of q are numbered from the one after low up to high, and the frame
\* that says that they are complete comes when they are all there.
Numbers(g, q, low, high, all) ==
  /\ g \in [0..Len(q) -> Nat] /\ g[0] = low /\ g[Len(q)] = high
  /\ \A i \in 1..Len(q) :
       /\ g[i] = g[i - 1] + Ones(q[i], Items)
       /\ q[i].type \in Items => q[i].n = g[i]
       /\ q[i].type \in {"final", "complete"} => g[i] = all
Numbered(q, low, high, all) == \E g : Numbers(g, q, low, high, all)

----------------------------------------------------------------------------
(* The types *)

Stages == {"idle", "refused", "returned", "subscribing", "stuck", "active", "ended"}
EndType ==
  /\ pc \in [Sides -> Stages]
  /\ reg \in [Sides -> BOOLEAN] /\ stopped \in [Sides -> BOOLEAN]
  /\ sink \in [Sides -> {"open", "complete", "error", "cancel"}]
  /\ fin \in [Sides -> {"none", "run", "done"}]
  /\ closed \in [Sides -> BOOLEAN]
CountType ==
  /\ total \in [Sides -> Nat] /\ (\A s \in Sides : total[s] <= MaxItems[s])
  /\ asked \in [Sides -> Nat] /\ (\A s \in Sides : asked[s] <= Asks[s])
  /\ sent \in [Sides -> Nat] /\ (\A s \in Sides : sent[s] <= total[s])
  /\ credit \in [Sides -> Nat] /\ calls \in Nat
WireType ==
  /\ got \in [Sides -> Seq(Nat)] /\ inbox \in [Sides -> Seq(Frame)]
  /\ final \in BOOLEAN /\ unheard \subseteq {"answer", "demand"} /\ crashed \in BOOLEAN
Types == EndType /\ CountType /\ WireType

----------------------------------------------------------------------------
(* The invariant *)

\* The requester registers its callback once, after its request; the responder
\* knows the channel from that request, which is the first frame it is sent.
Before == {"idle", "returned", "refused"}
StartA ==
  /\ pc[A] # "stuck"
  /\ pc[A] \in {"idle", "returned"} => asked[A] = 0
  /\ pc[A] \in Before \cup {"subscribing"} => ~reg[A] /\ sent[A] = 0 /\ credit[A] = 0
  /\ pc[A] = "active" /\ sink[A] = "open" => reg[A]
  /\ \A s \in Sides : sink[s] = "open" => fin[s] = "none"
Unsent == pc[A] \in Before => pc[B] = "idle" /\ \A s \in Sides : inbox[s] = <<>>
StartB ==
  /\ pc[B] # "returned"
  /\ pc[B] \in {"idle", "refused", "subscribing"} => sent[B] = 0
  /\ pc[B] = "idle" => credit[B] = 0 /\ asked[B] = 0
FirstRequest ==
  /\ \A i \in 1..Len(inbox[B]) : inbox[B][i].type = "request" <=> i = 1 /\ pc[B] = "idle"
  /\ pc[B] = "idle" /\ pc[A] \notin Before /\ Arrives => inbox[B] # <<>>

\* The responder keeps its callback while less than two ends have been counted.
One(b) == IF b THEN 1 ELSE 0
EndsCounted ==
  /\ calls = One(pc[B] \in {"ended", "stuck"}) + One(fin[B] = "done") + One(final)
  /\ reg[B] <=> pc[B] \in {"active", "ended"} /\ calls < 2
  /\ final => sent[B] = total[B] /\ pc[B] \in {"active", "ended"}

\* What a frame may be.
FramesOf(s) == {"requestN", "next", "complete", "error"} \cup
               (IF s = A THEN {"final", "cancel"} ELSE {"request"})
Proper(s, f, k) ==
  /\ f.type \in FramesOf(s)
  /\ f.n = IF f.type \in Demands THEN 1 ELSE IF f.type \in Items THEN f.n ELSE 0
  /\ f.type \in Items => f.n \in 1..k
Framed == \A s \in Sides : \A i \in 1..Len(inbox[s]) : Proper(s, inbox[s][i], sent[Other(s)])
Cancels ==
  crashed \/ (\E i \in 1..Len(inbox[A]) : inbox[A][i].type = "cancel") => sink[B] = "cancel"

\* Demand under way to a publisher, over what it has left, is within what was asked.
AllFit(q, K, low, high) == \A s \in Sides : Fits(q[s], K, low[s], high[s])
Unused == IF pc[A] \in Before \cup {"subscribing"} THEN 1 ELSE 0
Due    == [s \in Sides |-> credit[s] + IF s = A THEN Unused ELSE 0]
Limit  == [s \in Sides |-> IF s = A THEN asked[B] + 1 ELSE asked[A]]
Owed   == AllFit(inbox, Demands, Due, Limit)

\* Items under way to a subscriber, over those it has, are within what was sent.
Had  == [s \in Sides |-> Len(got[s])]
Most == [s \in Sides |-> sent[Other(s)]]
Possible == AllFit(inbox, Items, Had, Most)

\* A subscriber that still listens has had every item before those under way.
Hears(s) ==
  /\ sink[s] = "open"
  /\ IF s = A THEN "answer" \notin unheard /\ (reg[A] \/ pc[A] # "ended")
              ELSE reg[B] \/ pc[B] \in {"idle", "subscribing"}
Follows(s) ==
  Hears(s) => \E n \in Nat : Numbered(inbox[s], Len(got[s]), n, total[Other(s)])
                             /\ (Arrives => n = sent[Other(s)])
InSequence == \A s \in Sides : Follows(s)

InOrder == \A s \in Sides : got[s] \in Seq(1..MaxItems[Other(s)])

Inv == StartA /\ Unsent /\ StartB /\ FirstRequest /\ EndsCounted /\ Framed /\ Cancels /\ Owed /\ Possible
       /\ InSequence /\ InOrder /\ Received

----------------------------------------------------------------------------
(* Sequences of frames, and the counts of their kinds                         *)

LEMMA AtEnd ==
  ASSUME NEW q \in Seq(Frame), NEW f \in Frame
  PROVE  /\ Append(q, f) \in Seq(Frame) /\ Len(Append(q, f)) = Len(q) + 1 /\ Append(q, f)[Len(q) + 1] = f
         /\ (\A i \in 1..Len(q) : Append(q, f)[i] = q[i] /\ q[i] \in Frame) /\ Len(q) \in Nat
  OBVIOUS

LEMMA Rest ==
  ASSUME NEW q \in Seq(Frame), q # <<>>
  PROVE  /\ Tail(q) \in Seq(Frame) /\ Len(Tail(q)) = Len(q) - 1 /\ Head(q) = q[1] /\ Head(q) \in Frame
         /\ (\A i \in 1..Len(Tail(q)) : Tail(q)[i] = q[i + 1]) /\ Len(q) \in Nat /\ 1 <= Len(q)
  OBVIOUS

LEMMA Nothing == <<>> \in Seq(Frame) /\ Len(<<>>) = 0
  OBVIOUS

LEMMA OneOrNone == \A f, K : Ones(f, K) \in 0..1
  BY DEF Ones

\* A count leaves room below and above.
LEMMA FitsBetween ==
  ASSUME NEW q \in Seq(Frame), NEW K, NEW low \in Nat, NEW high \in Nat, Fits(q, K, low, high)
  PROVE  low <= high
<1>1. PICK h : Counts(h, q, K, low, high)
  BY DEF Fits
<1>2. Len(q) \in Nat /\ 0 \in 0..Len(q)
  OBVIOUS
<1> QED BY <1>1, <1>2 DEF Counts

LEMMA FitsWider ==
  ASSUME NEW q \in Seq(Frame), NEW K, NEW low \in Nat, NEW high \in Nat, Fits(q, K, low, high),
         NEW lower \in Nat, NEW higher \in Nat, lower <= low, high <= higher
  PROVE  Fits(q, K, lower, higher)
<1>1. PICK h : Counts(h, q, K, low, high)
  BY DEF Fits
<1>2. Len(q) \in Nat /\ 0 \in 0..Len(q) /\ 0..high \subseteq 0..higher
  OBVIOUS
<1>3. Counts(h, q, K, lower, higher)
  BY <1>1, <1>2 DEF Counts
<1> QED BY <1>3 DEF Fits

LEMMA FitsNone ==
  ASSUME NEW K, NEW low \in Nat, NEW high \in Nat, low <= high
  PROVE  Fits(<<>>, K, low, high)
<1> DEFINE h == [i \in 0..0 |-> high]
<1>1. Counts(h, <<>>, K, low, high)
  BY DEF Counts
<1> QED BY <1>1 DEF Fits

\* What a frame at the end, or taken off the front, does to a count.
LEMMA FitsAppend ==
  ASSUME NEW q \in Seq(Frame), NEW f \in Frame, NEW K, NEW low \in Nat, NEW high \in Nat,
         Fits(q, K, low, high)
  PROVE  Fits(Append(q, f), K, low, high + Ones(f, K))
<1> DEFINE n == Len(q)  r == Append(q, f)  w == Ones(f, K)
<1>1. PICK g : Counts(g, q, K, low, high)
  BY DEF Fits
<1>2. n \in Nat /\ Len(r) = n + 1 /\ r[n + 1] = f /\ \A i \in 1..n : r[i] = q[i]
  OBVIOUS
<1>3. w \in 0..1
  BY OneOrNone
<1>4. g \in [0..n -> 0..high] /\ low <= g[0] /\ \A i \in 1..n : g[i - 1] + Ones(q[i], K) <= g[i]
  BY <1>1 DEF Counts
<1> DEFINE h == [i \in 0..(n + 1) |-> IF i = n + 1 THEN g[n] + w ELSE g[i]]
<1> HIDE DEF n, r, w
<1>5. h \in [0..(n + 1) -> 0..(high + w)] /\ h[n + 1] = g[n] + w /\ \A i \in 0..n : h[i] = g[i]
  BY <1>2, <1>3, <1>4
<1> HIDE DEF h
<1>6. ASSUME NEW i \in 1..(n + 1) PROVE h[i - 1] + Ones(r[i], K) <= h[i]
  <2>1. CASE i = n + 1
    <3>1. i - 1 = n /\ n \in 0..n /\ g[n] \in Nat
      BY <2>1, <1>2, <1>4
    <3> QED BY <3>1, <2>1, <1>2, <1>3, <1>5 DEF w
  <2>2. CASE i \in 1..n
    <3>1. i \in 0..n /\ i - 1 \in 0..n /\ r[i] = q[i]
      BY <2>2, <1>2
    <3> QED BY <3>1, <2>2, <1>4, <1>5
  <2> QED BY <1>2, <2>1, <2>2
<1>7. low <= h[0]
  BY <1>2, <1>4, <1>5
<1>8. Counts(h, r, K, low, high + w)
  BY <1>2, <1>5, <1>6, <1>7 DEF Counts
<1> QED BY <1>8 DEF Fits, r, w

LEMMA FitsTail ==
  ASSUME NEW q \in Seq(Frame), q # <<>>, NEW K, NEW low \in Nat, NEW high \in Nat,
         Fits(q, K, low, high)
  PROVE  Fits(Tail(q), K, low + Ones(q[1], K), high)
<1> DEFINE n == Len(q)  r == Tail(q)  w == Ones(q[1], K)
<1>1. PICK g : Counts(g, q, K, low, high)
  BY DEF Fits
<1>2. n \in Nat \ {0} /\ Len(r) = n - 1 /\ \A i \in 1..(n - 1) : r[i] = q[i + 1]
  BY Rest
<1>3. w \in 0..1
  BY OneOrNone
<1>4. g \in [0..n -> 0..high] /\ low <= g[0] /\ \A i \in 1..n : g[i - 1] + Ones(q[i], K) <= g[i]
  BY <1>1 DEF Counts
<1> DEFINE h == [i \in 0..(n - 1) |-> g[i + 1]]
<1> HIDE DEF n, r
<1>5. h \in [0..(n - 1) -> 0..high] /\ \A i \in 0..(n - 1) : h[i] = g[i + 1]
  BY <1>2, <1>4
<1> HIDE DEF h
<1>6. ASSUME NEW i \in 1..(n - 1) PROVE h[i - 1] + Ones(r[i], K) <= h[i]
  <2>1. i + 1 \in 1..n /\ i - 1 \in 0..(n - 1) /\ i \in 0..(n - 1) /\ (i - 1) + 1 = i /\ (i + 1) - 1 = i
    BY <1>2
  <2> QED BY <2>1, <1>2, <1>4, <1>5
<1>7. low + w <= h[0]
  <2>1. 1 \in 1..n /\ 0 \in 0..(n - 1) /\ 1 - 1 = 0 /\ 0 + 1 = 1 /\ 0 \in 0..n /\ 1 \in 0..n
    BY <1>2
  <2>2. g[0] + w <= g[1] /\ h[0] = g[1] /\ g[0] \in Nat /\ g[1] \in Nat
    BY <2>1, <1>4, <1>5
  <2> HIDE DEF w
  <2> QED BY <2>2, <1>3, <1>4
<1>8. Counts(h, r, K, low + w, high)
  BY <1>2, <1>5, <1>6, <1>7 DEF Counts
<1> QED BY <1>8 DEF Fits, r

\* The same for the numbers of the items.
LEMMA NumberedNone ==
  ASSUME NEW low \in Nat, NEW all PROVE Numbered(<<>>, low, low, all)
<1> DEFINE g == [i \in 0..0 |-> low]
<1>1. Numbers(g, <<>>, low, low, all)
  BY DEF Numbers
<1> QED BY <1>1 DEF Numbered

LEMMA NumberedAppend ==
  ASSUME NEW q \in Seq(Frame), NEW f \in Frame, NEW low \in Nat, NEW high \in Nat, NEW all,
         Numbered(q, low, high, all),
         f.type \in Items => f.n = high + 1,
         f.type = "final" => f.n = all,
         f.type = "complete" => high = all
  PROVE  Numbered(Append(q, f), low, high + Ones(f, Items), all)
<1> DEFINE n == Len(q)  r == Append(q, f)  w == Ones(f, Items)
<1>1. PICK g : Numbers(g, q, low, high, all)
  BY DEF Numbered
<1>2. n \in Nat /\ Len(r) = n + 1 /\ r[n + 1] = f /\ \A i \in 1..n : r[i] = q[i]
  OBVIOUS
<1>3. w \in 0..1 /\ (f.type \in Items => w = 1) /\ (f.type = "complete" => w = 0) /\ ("final" \in Items)
  BY DEF Ones, Items
<1>4. /\ g \in [0..n -> Nat] /\ g[0] = low /\ g[n] = high
      /\ \A i \in 1..n :
           /\ g[i] = g[i - 1] + Ones(q[i], Items)
           /\ q[i].type \in Items => q[i].n = g[i]
           /\ q[i].type \in {"final", "complete"} => g[i] = all
  BY <1>1 DEF Numbers
<1> DEFINE h == [i \in 0..(n + 1) |-> IF i = n + 1 THEN high + w ELSE g[i]]
<1> HIDE DEF n, r, w
<1>5. h \in [0..(n + 1) -> Nat] /\ h[n + 1] = high + w /\ \A i \in 0..n : h[i] = g[i]
  BY <1>2, <1>3, <1>4
<1> HIDE DEF h
<1>6. ASSUME NEW i \in 1..(n + 1)
      PROVE /\ h[i] = h[i - 1] + Ones(r[i], Items)
            /\ r[i].type \in Items => r[i].n = h[i]
            /\ r[i].type \in {"final", "complete"} => h[i] = all
  <2>1. CASE i = n + 1
    <3>1. i - 1 = n /\ n \in 0..n /\ r[i] = f /\ h[i] = high + w /\ h[i - 1] = high
      BY <2>1, <1>2, <1>4, <1>5
    <3> QED BY <3>1, <1>3 DEF w
  <2>2. CASE i \in 1..n
    <3>1. i \in 0..n /\ i - 1 \in 0..n /\ r[i] = q[i]
      BY <2>2, <1>2
    <3> QED BY <3>1, <2>2, <1>4, <1>5
  <2> QED BY <1>2, <2>1, <2>2
<1>7. h[0] = low
  BY <1>2, <1>4, <1>5
<1>8. Numbers(h, r, low, high + w, all)
  BY <1>2, <1>5, <1>6, <1>7 DEF Numbers
<1> QED BY <1>8 DEF Numbered, r, w

LEMMA NumberedTail ==
  ASSUME NEW q \in Seq(Frame), q # <<>>, NEW low \in Nat, NEW high, NEW all,
         Numbered(q, low, high, all)
  PROVE  /\ Numbered(Tail(q), low + Ones(q[1], Items), high, all)
         /\ q[1].type \in Items => q[1].n = low + 1
         /\ q[1].type = "final" => q[1].n = all
         /\ q[1].type = "complete" => low = all
<1> DEFINE n == Len(q)  r == Tail(q)  w == Ones(q[1], Items)
<1>1. PICK g : Numbers(g, q, low, high, all)
  BY DEF Numbered
<1>2. n \in Nat \ {0} /\ Len(r) = n - 1 /\ \A i \in 1..(n - 1) : r[i] = q[i + 1]
  BY Rest
<1>3. w \in 0..1 /\ (q[1].type \in Items => w = 1) /\ (q[1].type = "complete" => w = 0) /\ ("final" \in Items)
  BY DEF Ones, Items
<1>4. /\ g \in [0..n -> Nat] /\ g[0] = low /\ g[n] = high
      /\ \A i \in 1..n :
           /\ g[i] = g[i - 1] + Ones(q[i], Items)
           /\ q[i].type \in Items => q[i].n = g[i]
           /\ q[i].type \in {"final", "complete"} => g[i] = all
  BY <1>1 DEF Numbers
<1> DEFINE h == [i \in 0..(n - 1) |-> g[i + 1]]
<1> HIDE DEF n, r
<1>5. h \in [0..(n - 1) -> Nat] /\ \A i \in 0..(n - 1) : h[i] = g[i + 1]
  BY <1>2, <1>4
<1> HIDE DEF h
<1>6. ASSUME NEW i \in 1..(n - 1)
      PROVE /\ h[i] = h[i - 1] + Ones(r[i], Items)
            /\ r[i].type \in Items => r[i].n = h[i]
            /\ r[i].type \in {"final", "complete"} => h[i] = all
  <2>1. i + 1 \in 1..n /\ i - 1 \in 0..(n - 1) /\ i \in 0..(n - 1) /\ (i - 1) + 1 = i /\ (i + 1) - 1 = i
    BY <1>2
  <2>2. h[i] = g[i + 1] /\ h[i - 1] = g[i] /\ r[i] = q[i + 1]
    BY <2>1, <1>2, <1>5
  <2>3. /\ g[i + 1] = g[i] + Ones(q[i + 1], Items)
        /\ q[i + 1].type \in Items => q[i + 1].n = g[i + 1]
        /\ q[i + 1].type \in {"final", "complete"} => g[i + 1] = all
    BY <2>1, <1>4
  <2> QED BY <2>2, <2>3
<1>7. /\ g[1] = low + w /\ (q[1].type \in Items => q[1].n = g[1])
      /\ (q[1].type \in {"final", "complete"} => g[1] = all) /\ h[0] = g[1]
  <2>1. 1 \in 1..n /\ 0 \in 0..(n - 1) /\ 1 - 1 = 0 /\ 0 + 1 = 1
    BY <1>2
  <2> QED BY <2>1, <1>4, <1>5
<1>8. h[n - 1] = high /\ n - 1 \in Nat
  BY <1>2, <1>4, <1>5
<1>9. Numbers(h, r, low + w, high, all)
  <2>1. h[0] = low + w
    BY <1>7
  <2> HIDE DEF w
  <2> QED BY <1>2, <1>5, <1>6, <1>8, <2>1 DEF Numbers
<1>10. Numbered(r, low + w, high, all)
  BY <1>9 DEF Numbered
<1> QED BY <1>3, <1>7, <1>10 DEF r

----------------------------------------------------------------------------
(* The types are kept                                                         *)

LEMMA Both ==
  /\ A \in Sides /\ B \in Sides /\ A # B /\ Other(A) = B /\ Other(B) = A
  /\ \A s \in Sides : (s = A \/ s = B) /\ Other(s) \in Sides /\ Other(s) # s /\ Other(Other(s)) = s
  /\ MaxItems \in [Sides -> Nat] /\ Asks \in [Sides -> Nat \ {0}]
  BY ChannelAssumption DEF A, B, Sides, Other

LEMMA Made ==
  \A t \in FrameTypes : \A k \in Nat : F(t, k) \in Frame /\ F(t, k).type = t /\ F(t, k).n = k
  BY DEF F, Frame

LEMMA Sends ==
  ASSUME Types, NEW s \in Sides, NEW f \in Frame, Send(s, f)
  PROVE  /\ inbox' \in [Sides -> Seq(Frame)] /\ inbox'[s] = inbox[s]
         /\ \/ ~Arrives /\ inbox'[Other(s)] = inbox[Other(s)]
            \/ Arrives /\ inbox'[Other(s)] = Append(inbox[Other(s)], f)
<1>1. inbox \in [Sides -> Seq(Frame)]
  BY DEF Types, WireType
<1>2. CASE ~Arrives
  BY <1>1, <1>2 DEF Send
<1>3. CASE Arrives
  <2>1. inbox' = [inbox EXCEPT ![Other(s)] = Append(inbox[Other(s)], f)]
    BY <1>3 DEF Send
  <2>2. Append(inbox[Other(s)], f) \in Seq(Frame)
    BY <1>1, Both, AtEnd
  <2> QED BY <1>1, <1>3, <2>1, <2>2, Both
<1> QED BY <1>2, <1>3

LEMMA InitTypes == Init => Types
<1> SUFFICES ASSUME Init PROVE Types
  OBVIOUS
<1>1. PICK i \in 0..MaxItems[A], j \in 0..MaxItems[B] : total = [s \in Sides |-> IF s = A THEN i ELSE j]
  BY DEF Init
<1>2. total \in [Sides -> Nat] /\ total[A] = i /\ total[B] = j
  BY <1>1, Both
<1>3. CountType
  <2>1. i <= MaxItems[A] /\ j <= MaxItems[B] /\ MaxItems[A] \in Nat /\ MaxItems[B] \in Nat
    BY Both
  <2>2. \A s \in Sides : total[s] <= MaxItems[s] /\ 0 <= total[s] /\ 0 <= Asks[s]
    BY <1>2, <2>1, Both
  <2> QED BY <1>2, <2>2 DEF CountType, Init
<1>4. EndType
  BY DEF EndType, Init, Stages
<1>5. WireType
  <2>1. <<>> \in Seq(Frame) /\ <<>> \in Seq(Nat)
    OBVIOUS
  <2> QED BY <2>1 DEF WireType, Init
<1> QED BY <1>3, <1>4, <1>5 DEF Types

LEMMA EndTypeStep ==
  ASSUME EndType, [Next]_vars
  PROVE  EndType'
<1>1. ASSUME Call PROVE EndType'
  BY <1>1, Both DEF Call, EndType, Stages, Goto, recvVars, sendVars
<1>2. ASSUME Request PROVE EndType'
  BY <1>2, Both DEF Request, EndType, Stages, Goto, sendVars
<1>3. ASSUME OnSubscribeA PROVE EndType'
  BY <1>3, Both DEF OnSubscribeA, EndType, Stages, Goto, recvVars
<1>4. ASSUME OnSubscribeDoneA PROVE EndType'
  BY <1>4, Both DEF OnSubscribeDoneA, EndType, Stages, Goto, recvVars, sendVars
<1>5. ASSUME EmitA PROVE EndType'
  BY <1>5, Both DEF EmitA, EndType, Stages, recvVars
<1>6. ASSUME EndA PROVE EndType'
  BY <1>6, Both DEF EndA, EndType, Stages, Goto, recvVars, sendVars
<1>7. ASSUME FinallyA PROVE EndType'
  BY <1>7, Both DEF FinallyA, EndType, Stages, sendVars
<1>8. ASSUME OnSubscribeB PROVE EndType'
  BY <1>8, Both DEF OnSubscribeB, EndType, Stages, Goto, recvVars, sendVars
<1>9. ASSUME OnSubscribeDoneB PROVE EndType'
  BY <1>9, Both DEF OnSubscribeDoneB, EndType, Stages, Goto, Count, recvVars, sendVars
<1>10. ASSUME EmitB PROVE EndType'
  BY <1>10, Both DEF EmitB, EndType, Stages, Count, recvVars
<1>11. ASSUME EndB PROVE EndType'
  BY <1>11, Both DEF EndB, EndType, Stages, Goto, Count, recvVars, sendVars
<1>12. ASSUME FinallyB PROVE EndType'
  BY <1>12, Both DEF FinallyB, EndType, Stages, Count, sendVars
<1>13. ASSUME NEW s \in Sides, Ask(s) PROVE EndType'
  BY <1>13, Both DEF Ask, EndType, Stages, sendVars
<1>14. ASSUME NEW s \in Sides, Cancel(s) PROVE EndType'
  BY <1>14, Both DEF Cancel, EndType, Stages, Terminate, sendVars
<1>15. ASSUME NEW s \in Sides, Receive(s) PROVE EndType'
  <2>1. CASE Head(inbox[s]).type = "request"
    <3>1. UNCHANGED <<reg, stopped, closed, sink, fin>> /\ (Goto(B, "refused") \/ Goto(B, "subscribing"))
      BY <1>15, <2>1 DEF Receive, Respond
    <3> QED BY <3>1, Both DEF EndType, Goto, Stages
  <2>2. CASE Head(inbox[s]).type # "request"
    <3>1. UNCHANGED <<pc, reg, stopped, closed>>
      BY <1>15, <2>2 DEF Receive
    <3>2. UNCHANGED <<sink, fin>> \/ Deliver(s, Head(inbox[s]))
      BY <1>15, <2>2 DEF Receive, Handle
    <3>3. sink' \in [Sides -> {"open", "complete", "error", "cancel"}]
          /\ fin' \in [Sides -> {"none", "run", "done"}]
      BY <3>2, Both DEF Deliver, EndType, Terminate
    <3> QED BY <3>1, <3>3 DEF EndType
  <2> QED BY <2>1, <2>2
<1>16. ASSUME NEW s \in Sides, Close(s) PROVE EndType'
  BY <1>16, Both DEF Close, EndType, Stages, Terminate
<1>17. ASSUME UNCHANGED vars PROVE EndType'
  BY <1>17, Both DEF EndType, Stages, recvVars, sendVars, vars
<1> QED BY <1>1, <1>2, <1>3, <1>4, <1>5, <1>6, <1>7, <1>8, <1>9, <1>10, <1>11, <1>12, <1>13, <1>14, <1>15,
       <1>16, <1>17 DEF Next, Requester, Responder

LEMMA CountTypeStep ==
  ASSUME Types, [Next]_vars
  PROVE  CountType'
<1>1. ASSUME Call PROVE CountType'
  BY <1>1, Both DEF Call, Types, CountType, recvVars, sendVars
<1>2. ASSUME Request PROVE CountType'
  <2>1. Asks[A] \in Nat /\ 1 <= Asks[A]
    BY Both
  <2> QED BY <1>2, <2>1, Both DEF Request, Types, CountType, sendVars
<1>3. ASSUME OnSubscribeA PROVE CountType'
  BY <1>3, Both DEF OnSubscribeA, Types, CountType, recvVars
<1>4. ASSUME OnSubscribeDoneA PROVE CountType'
  BY <1>4, Both DEF OnSubscribeDoneA, Types, CountType, recvVars, sendVars
<1>5. ASSUME EmitA PROVE CountType'
  BY <1>5, Both DEF EmitA, Types, CountType, recvVars
<1>6. ASSUME EndA PROVE CountType'
  BY <1>6, Both DEF EndA, Types, CountType, recvVars, sendVars
<1>7. ASSUME FinallyA PROVE CountType'
  BY <1>7, Both DEF FinallyA, Types, CountType, sendVars
<1>8. ASSUME OnSubscribeB PROVE CountType'
  BY <1>8, Both DEF OnSubscribeB, Types, CountType, recvVars, sendVars
<1>9. ASSUME OnSubscribeDoneB PROVE CountType'
  BY <1>9, Both DEF OnSubscribeDoneB, Types, CountType, Count, recvVars, sendVars
<1>10. ASSUME EmitB PROVE CountType'
  BY <1>10, Both DEF EmitB, Types, CountType, Count, recvVars
<1>11. ASSUME EndB PROVE CountType'
  BY <1>11, Both DEF EndB, Types, CountType, Count, recvVars, sendVars
<1>12. ASSUME FinallyB PROVE CountType'
  BY <1>12, Both DEF FinallyB, Types, CountType, Count, sendVars
<1>13. ASSUME NEW s \in Sides, Ask(s) PROVE CountType'
  <2>0. asked[s] \in Nat /\ Asks[s] \in Nat /\ asked[s] < Asks[s]
    BY <1>13, Both DEF Ask, Types, CountType
  <2>1. asked' = [asked EXCEPT ![s] = asked[s] + 1] /\ asked[s] + 1 <= Asks[s] /\ asked[s] \in Nat
    BY <1>13, <2>0 DEF Ask
  <2>2. asked' \in [Sides -> Nat] /\ \A t \in Sides : asked'[t] <= Asks[t]
    BY <2>1, Both DEF Types, CountType
  <2> QED BY <1>13, <2>2, Both DEF Ask, Types, CountType, sendVars
<1>14. ASSUME NEW s \in Sides, Cancel(s) PROVE CountType'
  BY <1>14, Both DEF Cancel, Types, CountType, sendVars
<1>15. ASSUME NEW s \in Sides, Receive(s) PROVE CountType'
  <2>0. inbox[s] # <<>> /\ inbox[s] \in Seq(Frame)
    BY <1>15 DEF Receive, Types, WireType
  <2>1. Head(inbox[s]).n \in Nat
    BY <2>0, Rest DEF Frame
  <2>2. CASE Head(inbox[s]).type = "request"
    BY <1>15, <2>1, <2>2, Both DEF Receive, Respond, Types, CountType
  <2>3. CASE Head(inbox[s]).type # "request"
    <3>1. UNCHANGED <<total, asked, sent, calls>>
      BY <1>15 DEF Receive
    <3>2. credit' = [credit EXCEPT ![s] = credit[s] + Head(inbox[s]).n] \/ credit' = credit
      BY <1>15, <2>3 DEF Receive, Handle
    <3>3. credit' \in [Sides -> Nat]
      BY <3>2, <2>1, Both DEF Types, CountType
    <3> QED BY <3>1, <3>3 DEF Types, CountType
  <2> QED BY <2>2, <2>3
<1>16. ASSUME NEW s \in Sides, Close(s) PROVE CountType'
  BY <1>16, Both DEF Close, Types, CountType
<1>17. ASSUME UNCHANGED vars PROVE CountType'
  BY <1>17, Both DEF Types, CountType, recvVars, sendVars, vars
<1> QED BY <1>1, <1>2, <1>3, <1>4, <1>5, <1>6, <1>7, <1>8, <1>9, <1>10, <1>11, <1>12, <1>13, <1>14, <1>15,
       <1>16, <1>17 DEF Next, Requester, Responder

LEMMA Frames ==
  ASSUME Types
  PROVE  /\ (F("request", 1) \in Frame /\ F("request", 1).type = "request" /\ F("request", 1).n = 1)
         /\ (F("requestN", 1) \in Frame /\ F("requestN", 1).type = "requestN" /\ F("requestN", 1).n = 1)
         /\ (F("error", 0) \in Frame /\ F("error", 0).type = "error" /\ F("error", 0).n = 0)
         /\ (F("complete", 0) \in Frame /\ F("complete", 0).type = "complete" /\ F("complete", 0).n = 0)
         /\ (F("cancel", 0) \in Frame /\ F("cancel", 0).type = "cancel" /\ F("cancel", 0).n = 0)
         /\ \A s \in Sides :
              LET f == F("next", sent[s] + 1)  l == F("final", sent[s] + 1) IN
              /\ sent[s] + 1 \in Nat
              /\ f \in Frame /\ f.type = "next" /\ f.n = sent[s] + 1
              /\ l \in Frame /\ l.type = "final" /\ l.n = sent[s] + 1
<1>1. {"request", "requestN", "error", "complete", "cancel", "next", "final"} \subseteq FrameTypes
  BY DEF FrameTypes
<1>2. \A s \in Sides : sent[s] + 1 \in Nat
  BY DEF Types, CountType
<1> QED BY <1>1, <1>2, Made

LEMMA EndsWith == \A s \in Sides : \A how \in Ends(s) : F(how, 0) \in {F("complete", 0), F("error", 0)}
  BY DEF Ends

LEMMA Takes ==
  ASSUME Types, NEW s \in Sides, inbox[s] # <<>>
  PROVE  /\ Tail(inbox[s]) \in Seq(Frame) /\ Head(inbox[s]) = inbox[s][1] /\ inbox[s][1] \in Frame
         /\ Len(Tail(inbox[s])) = Len(inbox[s]) - 1 /\ Len(inbox[s]) \in Nat /\ 1 <= Len(inbox[s])
         /\ \A i \in 1..Len(Tail(inbox[s])) : Tail(inbox[s])[i] = inbox[s][i + 1]
  BY Rest DEF Types, WireType

\* Only the responder receives a request.
LEMMA Requests ==
  ASSUME Types, Framed, NEW s \in Sides, inbox[s] # <<>>, Head(inbox[s]).type = "request"
  PROVE  s = B
<1>1. 1 \in 1..Len(inbox[s]) /\ inbox[s][1].type = "request"
  BY Takes
<1>2. inbox[s][1].type \in FramesOf(s)
  BY <1>1 DEF Framed, Proper
<1> QED BY <1>1, <1>2, Both DEF FramesOf

\* What is under way after a frame was received.
LEMMA Receives ==
  ASSUME Types, Framed, NEW s \in Sides, Receive(s)
  PROVE  /\ inbox[s] # <<>> /\ inbox' \in [Sides -> Seq(Frame)] /\ inbox'[s] = Tail(inbox[s])
         /\ \/ Head(inbox[s]).type # "request" /\ inbox'[Other(s)] = inbox[Other(s)]
            \/ /\ Head(inbox[s]).type = "request" /\ s = B
               /\ \/ inbox'[A] = inbox[A]
                  \/ Arrives /\ inbox'[A] = Append(inbox[A], F("error", 0)) /\ pc'[B] = "refused"
<1>1. inbox[s] # <<>>
  BY DEF Receive
<1>2. Tail(inbox[s]) \in Seq(Frame) /\ inbox \in [Sides -> Seq(Frame)] /\ pc \in [Sides -> Stages]
  BY <1>1, Takes DEF Types, WireType, EndType
<1>3. CASE Head(inbox[s]).type # "request"
  <2>1. inbox' = [inbox EXCEPT ![s] = Tail(inbox[s])]
    BY <1>3 DEF Receive
  <2> QED BY <1>1, <1>2, <1>3, <2>1, Both
<1>4. CASE Head(inbox[s]).type = "request"
  <2>1. s = B
    BY <1>1, <1>4, Requests
  <2>2. Respond(Head(inbox[s]).n)
    BY <1>4 DEF Receive
  <2>3. CASE inbox' = [inbox EXCEPT ![B] = Tail(inbox[B])]
    BY <1>1, <1>2, <1>4, <2>1, <2>3, Both
  <2>4. CASE /\ inbox' = [inbox EXCEPT ![A] = IF Arrives THEN Append(inbox[A], F("error", 0)) ELSE inbox[A],
                                       ![B] = Tail(inbox[B])]
             /\ pc' = [pc EXCEPT ![B] = "refused"]
    <3>1. Append(inbox[A], F("error", 0)) \in Seq(Frame)
      BY <1>2, Frames, Both, AtEnd
    <3> QED BY <1>1, <1>2, <1>4, <2>1, <2>4, <3>1, Both
  <2> QED BY <2>2, <2>3, <2>4 DEF Respond, Goto
<1> QED BY <1>3, <1>4

LEMMA InboxStep ==
  ASSUME Types, Framed, [Next]_vars
  PROVE  inbox' \in [Sides -> Seq(Frame)]
<1>1. ASSUME Call PROVE inbox' \in [Sides -> Seq(Frame)]
  BY <1>1 DEF Call, Types, WireType, recvVars, sendVars
<1>2. ASSUME Request PROVE inbox' \in [Sides -> Seq(Frame)]
  <2>1. Send(A, F("request", 1))
    BY <1>2 DEF Request
  <2> QED BY <2>1, Both, Sends, Frames
<1>3. ASSUME OnSubscribeA PROVE inbox' \in [Sides -> Seq(Frame)]
  BY <1>3 DEF OnSubscribeA, Types, WireType, recvVars
<1>4. ASSUME OnSubscribeDoneA PROVE inbox' \in [Sides -> Seq(Frame)]
  <2>1. Send(A, F("error", 0))
    BY <1>4 DEF OnSubscribeDoneA
  <2> QED BY <2>1, Both, Sends, Frames
<1>5. ASSUME EmitA PROVE inbox' \in [Sides -> Seq(Frame)]
  <2>1. Send(A, F("next", sent[A] + 1))
    BY <1>5 DEF EmitA
  <2> QED BY <2>1, Both, Sends, Frames
<1>6. ASSUME EndA PROVE inbox' \in [Sides -> Seq(Frame)]
  <2>1. PICK how \in Ends(A) : Send(A, F(how, 0))
    BY <1>6 DEF EndA
  <2> QED BY <2>1, Both, Sends, Frames, EndsWith
<1>7. ASSUME FinallyA PROVE inbox' \in [Sides -> Seq(Frame)]
  BY <1>7 DEF FinallyA, Types, WireType, sendVars
<1>8. ASSUME OnSubscribeB PROVE inbox' \in [Sides -> Seq(Frame)]
  BY <1>8 DEF OnSubscribeB, Types, WireType, recvVars, sendVars
<1>9. ASSUME OnSubscribeDoneB PROVE inbox' \in [Sides -> Seq(Frame)]
  <2>1. Send(B, F("error", 0))
    BY <1>9 DEF OnSubscribeDoneB
  <2> QED BY <2>1, Both, Sends, Frames
<1>10. ASSUME EmitB PROVE inbox' \in [Sides -> Seq(Frame)]
  <2>1. Send(B, F("next", sent[B] + 1)) \/ Send(B, F("final", sent[B] + 1))
    BY <1>10 DEF EmitB
  <2> QED BY <2>1, Both, Sends, Frames
<1>11. ASSUME EndB PROVE inbox' \in [Sides -> Seq(Frame)]
  <2>1. UNCHANGED inbox \/ \E how \in Ends(B) : Send(B, F(how, 0))
    BY <1>11 DEF EndB
  <2>2. CASE UNCHANGED inbox
    BY <2>2 DEF Types, WireType
  <2>3. CASE \E how \in Ends(B) : Send(B, F(how, 0))
    BY <2>3, Both, Sends, Frames, EndsWith
  <2> QED BY <2>1, <2>2, <2>3
<1>12. ASSUME FinallyB PROVE inbox' \in [Sides -> Seq(Frame)]
  <2>1. UNCHANGED inbox \/ Send(B, F("cancel", 0))
    BY <1>12 DEF FinallyB
  <2> QED BY <2>1, Both, Sends, Frames DEF Types, WireType
<1>13. ASSUME NEW s \in Sides, Ask(s) PROVE inbox' \in [Sides -> Seq(Frame)]
  <2>1. Send(s, F("requestN", 1))
    BY <1>13 DEF Ask
  <2> QED BY <2>1, Both, Sends, Frames
<1>14. ASSUME NEW s \in Sides, Cancel(s) PROVE inbox' \in [Sides -> Seq(Frame)]
  BY <1>14 DEF Cancel, Types, WireType, sendVars
<1>15. ASSUME NEW s \in Sides, Receive(s) PROVE inbox' \in [Sides -> Seq(Frame)]
  BY <1>15, Receives
<1>16. ASSUME NEW s \in Sides, Close(s) PROVE inbox' \in [Sides -> Seq(Frame)]
  <2>1. inbox \in [Sides -> Seq(Frame)] /\ inbox' = [inbox EXCEPT ![Other(s)] = <<>>]
    BY <1>16 DEF Close, Types, WireType
  <2> QED BY <2>1, Nothing, Both
<1>17. ASSUME UNCHANGED vars PROVE inbox' \in [Sides -> Seq(Frame)]
  BY <1>17 DEF Types, WireType, recvVars, sendVars, vars
<1> QED BY <1>1, <1>2, <1>3, <1>4, <1>5, <1>6, <1>7, <1>8, <1>9, <1>10, <1>11, <1>12, <1>13, <1>14, <1>15,
       <1>16, <1>17 DEF Next, Requester, Responder

RestType ==
  /\ got \in [Sides -> Seq(Nat)] /\ final \in BOOLEAN /\ crashed \in BOOLEAN
  /\ unheard \subseteq {"answer", "demand"}

LEMMA RestStep ==
  ASSUME Types, Framed, [Next]_vars
  PROVE  RestType'
<1>1. ASSUME Call PROVE RestType'
  BY <1>1 DEF Call, RestType, Types, WireType, recvVars, sendVars
<1>2. ASSUME Request PROVE RestType'
  BY <1>2 DEF Request, RestType, Types, WireType, sendVars
<1>3. ASSUME OnSubscribeA PROVE RestType'
  BY <1>3 DEF OnSubscribeA, RestType, Types, WireType, recvVars
<1>4. ASSUME OnSubscribeDoneA PROVE RestType'
  BY <1>4 DEF OnSubscribeDoneA, RestType, Types, WireType, recvVars, sendVars
<1>5. ASSUME EmitA PROVE RestType'
  BY <1>5 DEF EmitA, RestType, Types, WireType, recvVars
<1>6. ASSUME EndA PROVE RestType'
  BY <1>6 DEF EndA, RestType, Types, WireType, recvVars, sendVars
<1>7. ASSUME FinallyA PROVE RestType'
  BY <1>7 DEF FinallyA, RestType, Types, WireType, sendVars
<1>8. ASSUME OnSubscribeB PROVE RestType'
  BY <1>8 DEF OnSubscribeB, RestType, Types, WireType, recvVars, sendVars
<1>9. ASSUME OnSubscribeDoneB PROVE RestType'
  BY <1>9 DEF OnSubscribeDoneB, Count, RestType, Types, WireType, recvVars, sendVars
<1>10. ASSUME EmitB PROVE RestType'
  BY <1>10 DEF EmitB, Count, RestType, Types, WireType, recvVars
<1>11. ASSUME EndB PROVE RestType'
  BY <1>11 DEF EndB, Count, RestType, Types, WireType, recvVars, sendVars
<1>12. ASSUME FinallyB PROVE RestType'
  BY <1>12 DEF FinallyB, Count, RestType, Types, WireType, sendVars
<1>13. ASSUME NEW s \in Sides, Ask(s) PROVE RestType'
  BY <1>13 DEF Ask, RestType, Types, WireType, sendVars
<1>14. ASSUME NEW s \in Sides, Cancel(s) PROVE RestType'
  BY <1>14 DEF Cancel, Terminate, RestType, Types, WireType, sendVars
<1>15. ASSUME NEW s \in Sides, Receive(s) PROVE RestType'
  <2>0. inbox[s] # <<>>
    BY <1>15 DEF Receive
  <2>1. Head(inbox[s]).n \in Nat
    BY <2>0, Takes DEF Frame
  <2>2. got' = got \/ got' = [got EXCEPT ![s] = Append(got[s], Head(inbox[s]).n)]
    BY <1>15 DEF Receive, Handle, Deliver
  <2>3. got' \in [Sides -> Seq(Nat)]
    <3>1. got[s] \in Seq(Nat) /\ got \in [Sides -> Seq(Nat)]
      BY DEF Types, WireType
    <3>2. Append(got[s], Head(inbox[s]).n) \in Seq(Nat)
      BY <2>1, <3>1
    <3> QED BY <2>2, <3>1, <3>2
  <2>4. final' = final /\ (unheard' = unheard \/ Miss(s, Head(inbox[s])))
    BY <1>15 DEF Receive
  <2>5. crashed' \in BOOLEAN
    BY <1>15 DEF Receive, Handle, Types, WireType
  <2>6. unheard' \subseteq {"answer", "demand"}
    BY <2>4 DEF Miss, Types, WireType
  <2> QED BY <2>3, <2>4, <2>5, <2>6 DEF RestType, Types, WireType
<1>16. ASSUME NEW s \in Sides, Close(s) PROVE RestType'
  BY <1>16 DEF Close, Terminate, RestType, Types, WireType
<1>17. ASSUME UNCHANGED vars PROVE RestType'
  BY <1>17 DEF RestType, Types, WireType, recvVars, sendVars, vars
<1> QED BY <1>1, <1>2, <1>3, <1>4, <1>5, <1>6, <1>7, <1>8, <1>9, <1>10, <1>11, <1>12, <1>13, <1>14, <1>15,
       <1>16, <1>17 DEF Next, Requester, Responder

LEMMA TypesStep == ASSUME Types, Framed, [Next]_vars PROVE Types'
  BY EndTypeStep, CountTypeStep, InboxStep, RestStep DEF RestType, Types, WireType

----------------------------------------------------------------------------
(* How the two ends start and finish                                          *)
\* The ways in which a frame is received.
Opens(s, f) ==
  /\ s = B /\ f.type = "request" /\ pc'[A] = pc[A] /\ UNCHANGED <<sink, fin, got, unheard, crashed>>
  /\ credit'[A] = credit[A]
  /\ \/ pc'[B] = "refused" /\ credit'[B] = credit[B]
     \/ pc'[B] = "subscribing" /\ credit'[B] = f.n /\ inbox'[A] = inbox[A]
Delivers(s, f) ==
  /\ f.type \in {"next", "final", "complete", "error"} /\ reg[s]
  /\ UNCHANGED <<pc, credit, unheard, crashed>> /\ Deliver(s, f)
Credits(s, f) ==
  /\ f.type = "requestN" /\ reg[s] /\ credit' = [credit EXCEPT ![s] = credit[s] + f.n]
  /\ UNCHANGED <<pc, sink, fin, got, unheard, crashed>>
Crashes(s, f) ==
  /\ f.type = "cancel" /\ crashed' = TRUE
  /\ UNCHANGED <<pc, sink, fin, got, unheard, credit>>
Misses(s, f) ==
  /\ f.type # "request" /\ ~reg[s] /\ Miss(s, f)
  /\ UNCHANGED <<pc, sink, fin, got, crashed, credit>>

LEMMA Hands ==
  ASSUME Types, Framed, NEW s \in Sides, Receive(s)
  PROVE  /\ UNCHANGED <<total, final, reg, asked, sent, stopped, calls, closed>>
         /\ inbox[s] # <<>> /\ inbox[s][1] \in Frame
         /\ (s = B => pc[B] \notin {"subscribing", "stuck"})
         /\ \/ Opens(s, inbox[s][1]) \/ Delivers(s, inbox[s][1]) \/ Credits(s, inbox[s][1])
            \/ Crashes(s, inbox[s][1]) \/ Misses(s, inbox[s][1])
<1>1. UNCHANGED <<total, final, reg, asked, sent, stopped, calls, closed>> /\ inbox[s] # <<>>
      /\ (s = B => pc[B] \notin {"subscribing", "stuck"})
  BY DEF Receive
<1>2. Head(inbox[s]) = inbox[s][1] /\ inbox[s][1] \in Frame
  BY <1>1, Takes
<1> DEFINE f == inbox[s][1]
<1>3. CASE f.type = "request"
  <2>1. s = B
    BY <1>1, <1>2, <1>3, Requests
  <2>2. Respond(f.n) /\ UNCHANGED <<sink, fin, got, unheard, crashed>>
    BY <1>2, <1>3 DEF Receive
  <2>3. inbox[A] \in Seq(Frame) /\ inbox \in [Sides -> Seq(Frame)]
    BY Both DEF Types, WireType
  <2>4. CASE Goto(B, "refused") /\ UNCHANGED credit
    <3>1. pc'[A] = pc[A] /\ pc'[B] = "refused"
      BY <2>4, Both DEF Goto, Types, EndType
    <3> QED BY <1>1, <1>2, <1>3, <2>1, <2>2, <2>4, <3>1 DEF Opens
  <2>5. CASE Goto(B, "subscribing") /\ credit' = [credit EXCEPT ![B] = f.n]
             /\ inbox' = [inbox EXCEPT ![B] = Tail(inbox[B])]
    <3>1. pc'[A] = pc[A] /\ pc'[B] = "subscribing"
      BY <2>5, Both DEF Goto, Types, EndType
    <3>2. credit'[A] = credit[A] /\ credit'[B] = f.n
      BY <2>5, Both DEF Types, CountType
    <3>3. inbox'[A] = inbox[A]
      BY <2>3, <2>5, Both
    <3> QED BY <1>1, <1>2, <1>3, <2>1, <2>2, <3>1, <3>2, <3>3 DEF Opens
  <2> QED BY <2>2, <2>4, <2>5 DEF Respond
<1>4. CASE f.type # "request" /\ reg[s]
  <2>1. Handle(s, f) /\ UNCHANGED <<pc, unheard>>
    BY <1>2, <1>4 DEF Receive
  <2>2. CASE f.type \in {"next", "final", "complete", "error"} /\ Deliver(s, f) /\ UNCHANGED <<credit, crashed>>
    BY <1>1, <1>2, <1>4, <2>1, <2>2 DEF Delivers
  <2>3. CASE /\ f.type = "requestN"
             /\ credit' = [credit EXCEPT ![s] = credit[s] + f.n]
             /\ UNCHANGED <<sink, fin, got, crashed>>
    BY <1>1, <1>2, <1>4, <2>1, <2>3 DEF Credits
  <2>4. CASE /\ f.type = "cancel" /\ crashed' = TRUE
             /\ UNCHANGED <<credit, sink, fin, got>>
    BY <1>1, <1>2, <1>4, <2>1, <2>4 DEF Crashes
  <2> QED BY <2>1, <2>2, <2>3, <2>4 DEF Handle
<1>5. CASE f.type # "request" /\ ~reg[s]
  BY <1>1, <1>2, <1>5 DEF Receive, Misses
<1> QED BY <1>1, <1>2, <1>3, <1>4, <1>5

LEMMA StartAStep ==
  ASSUME Types, Inv, [Next]_vars
  PROVE  StartA'
<1>1. ASSUME Call PROVE StartA'
  BY <1>1, Both DEF Call, Types, EndType, CountType, Inv, StartA, Before, Goto, Begun, recvVars, sendVars
<1>2. ASSUME Request PROVE StartA'
  BY <1>2, Both DEF Request, Types, EndType, CountType, Inv, StartA, Before, Goto, Begun, sendVars
<1>3. ASSUME OnSubscribeA PROVE StartA'
  BY <1>3, Both DEF OnSubscribeA, Types, EndType, CountType, Inv, StartA, Before, Goto, Begun, recvVars
<1>4. ASSUME OnSubscribeDoneA PROVE StartA'
  BY <1>4, Both DEF OnSubscribeDoneA, Types, EndType, CountType, Inv, StartA, Before, Goto, Begun, recvVars,
         sendVars
<1>5. ASSUME EmitA PROVE StartA'
  <2>1. UNCHANGED <<pc, reg, sink, fin, asked>> /\ pc[A] = "active"
    BY <1>5 DEF EmitA, recvVars
  <2> QED BY <2>1, Both DEF Inv, StartA, Before
<1>6. ASSUME EndA PROVE StartA'
  BY <1>6, Both DEF EndA, Types, EndType, CountType, Inv, StartA, Before, Goto, Begun, recvVars, sendVars
<1>7. ASSUME FinallyA PROVE StartA'
  BY <1>7, Both DEF FinallyA, Types, EndType, CountType, Inv, StartA, Before, Begun, sendVars
<1>8. ASSUME OnSubscribeB PROVE StartA'
  BY <1>8, Both DEF OnSubscribeB, Types, EndType, CountType, Inv, StartA, Before, Goto, Begun, recvVars,
         sendVars
<1>9. ASSUME OnSubscribeDoneB PROVE StartA'
  BY <1>9, Both DEF OnSubscribeDoneB, Types, EndType, CountType, Inv, StartA, Before, Goto, Count, Begun,
         recvVars, sendVars
<1>10. ASSUME EmitB PROVE StartA'
  <2>1. UNCHANGED <<pc, sink, fin, asked>> /\ reg'[A] = reg[A] /\ sent'[A] = sent[A] /\ credit'[A] = credit[A]
    BY <1>10, Both DEF EmitB, Count, recvVars, Types, EndType, CountType
  <2> QED BY <2>1, Both DEF Inv, StartA, Before
<1>11. ASSUME EndB PROVE StartA'
  <2>1. UNCHANGED <<sink, fin, asked>> /\ pc'[A] = pc[A] /\ reg'[A] = reg[A] /\ sent'[A] = sent[A]
        /\ credit'[A] = credit[A]
    BY <1>11, Both DEF EndB, Count, Goto, recvVars, sendVars, Types, EndType, CountType
  <2> QED BY <2>1, Both DEF Inv, StartA, Before
<1>12. ASSUME FinallyB PROVE StartA'
  <2>1. UNCHANGED <<pc, sink, asked>> /\ reg'[A] = reg[A] /\ sent'[A] = sent[A] /\ credit'[A] = credit[A]
        /\ fin'[A] = fin[A] /\ fin[B] = "run"
    BY <1>12, Both DEF FinallyB, Count, sendVars, Types, EndType, CountType
  <2> QED BY <2>1, Both DEF Inv, StartA, Before
<1>13. ASSUME NEW s \in Sides, Ask(s) PROVE StartA'
  BY <1>13, Both DEF Ask, Types, EndType, CountType, Inv, StartA, Before, Begun, sendVars
<1>14. ASSUME NEW s \in Sides, Cancel(s) PROVE StartA'
  BY <1>14, Both DEF Cancel, Types, EndType, CountType, Inv, StartA, Before, Terminate, Begun, sendVars
<1>15. ASSUME NEW s \in Sides, Receive(s) PROVE StartA'
  <2>0. UNCHANGED <<reg, asked, sent>>
    BY <1>15, Hands DEF Inv
  <2>1. pc'[A] = pc[A] /\ (credit'[A] = credit[A] \/ reg[A])
        /\ \A t \in Sides : sink'[t] = "open" => sink[t] = "open" /\ fin'[t] = fin[t]
    <3> DEFINE f == inbox[s][1]
    <3>1. CASE Opens(s, f)
      BY <3>1, Both DEF Opens
    <3>2. CASE Delivers(s, f)
      BY <3>2, Both DEF Delivers, Deliver, Terminate, Types, EndType
    <3>3. CASE Credits(s, f)
      BY <3>3, Both DEF Credits, Types, CountType
    <3>4. CASE Crashes(s, f)
      BY <3>4 DEF Crashes
    <3>5. CASE Misses(s, f)
      BY <3>5 DEF Misses
    <3> QED BY <1>15, Hands, <3>1, <3>2, <3>3, <3>4, <3>5 DEF Inv
  <2> QED BY <2>0, <2>1, Both DEF Inv, StartA, Before
<1>16. ASSUME NEW s \in Sides, Close(s) PROVE StartA'
  <2>1. UNCHANGED <<pc, reg, asked, credit, sent>>
    BY <1>16 DEF Close
  <2>2. \A t \in Sides : sink'[t] = "open" => sink[t] = "open" /\ fin'[t] = fin[t]
    BY <1>16, Both DEF Close, Terminate, Types, EndType
  <2> QED BY <2>1, <2>2, Both DEF Inv, StartA, Before
<1>17. ASSUME UNCHANGED vars PROVE StartA'
  BY <1>17, Both DEF Types, EndType, CountType, Inv, StartA, Before, Begun, recvVars, sendVars, vars
<1> QED BY <1>1, <1>2, <1>3, <1>4, <1>5, <1>6, <1>7, <1>8, <1>9, <1>10, <1>11, <1>12, <1>13, <1>14, <1>15,
       <1>16, <1>17 DEF Next, Requester, Responder

LEMMA UnsentStep ==
  ASSUME Types, Inv, [Next]_vars
  PROVE  Unsent'
<1>1. ASSUME Call PROVE Unsent'
  BY <1>1, Both DEF Call, Inv, Unsent, Before, Goto, Types, EndType, recvVars, sendVars
<1>2. ASSUME Request PROVE Unsent'
  <2>1. Send(A, F("request", 1)) /\ pc[A] = "returned" /\ pc'[A] \in {"refused", "subscribing"}
        /\ pc'[B] = pc[B]
        /\ (pc'[A] = "refused" => closed[A])
    BY <1>2, Both DEF Request, Goto, Types, EndType
  <2>2. CASE closed[A]
    <3>1. ~Arrives
      BY <2>2 DEF Arrives
    <3> QED BY <2>1, <3>1 DEF Send, Inv, Unsent, Before
  <2>3. CASE ~closed[A]
    BY <2>1, <2>3 DEF Unsent, Before
  <2> QED BY <2>2, <2>3
<1>3. ASSUME OnSubscribeA PROVE Unsent'
  BY <1>3, Both DEF OnSubscribeA, Inv, Unsent, Before, Goto, Types, EndType, recvVars
<1>4. ASSUME OnSubscribeDoneA PROVE Unsent'
  BY <1>4, Both DEF OnSubscribeDoneA, Inv, Unsent, Before, Goto, Types, EndType, recvVars, sendVars
<1>5. ASSUME EmitA PROVE Unsent'
  BY <1>5 DEF EmitA, Unsent, Before
<1>6. ASSUME EndA PROVE Unsent'
  BY <1>6, Both DEF EndA, Inv, Unsent, Before, Goto, Types, EndType, recvVars, sendVars
<1>7. ASSUME FinallyA PROVE Unsent'
  BY <1>7, Both DEF FinallyA, Inv, Unsent, Before, Types, EndType, sendVars
<1>8. ASSUME OnSubscribeB PROVE Unsent'
  BY <1>8, Both DEF OnSubscribeB, Inv, Unsent, Before, Goto, Types, EndType, recvVars, sendVars
<1>9. ASSUME OnSubscribeDoneB PROVE Unsent'
  BY <1>9, Both DEF OnSubscribeDoneB, Inv, Unsent, Before, Goto, Types, EndType, Count, recvVars, sendVars
<1>10. ASSUME EmitB PROVE Unsent'
  BY <1>10 DEF EmitB, Inv, Unsent, Before
<1>11. ASSUME EndB PROVE Unsent'
  BY <1>11, Both DEF EndB, Goto, Inv, Unsent, Before, Types, EndType
<1>12. ASSUME FinallyB PROVE Unsent'
  <2>1. CASE pc[A] \in Before
    <3>1. pc[B] = "idle" /\ asked[B] > 0
      BY <1>12, <2>1 DEF FinallyB, Inv, Unsent
    <3> QED BY <3>1 DEF Inv, StartB
  <2>2. CASE pc[A] \notin Before
    BY <1>12, <2>2 DEF FinallyB, Unsent
  <2> QED BY <2>1, <2>2
<1>13. ASSUME NEW s \in Sides, Ask(s) PROVE Unsent'
  <2>1. pc[s] \notin Before /\ UNCHANGED pc
    BY <1>13 DEF Ask, Begun, Before
  <2> QED BY <2>1, Both DEF Inv, Unsent, Before
<1>14. ASSUME NEW s \in Sides, Cancel(s) PROVE Unsent'
  BY <1>14, Both DEF Cancel, Inv, Unsent, Before, Types, EndType, sendVars
<1>15. ASSUME NEW s \in Sides, Receive(s) PROVE Unsent'
  <2>1. pc'[A] = pc[A] /\ inbox[s] # <<>>
    <3>0. inbox[s] # <<>>
      BY <1>15 DEF Receive
    <3>1. CASE Head(inbox[s]).type = "request"
      BY <1>15, <3>0, <3>1, Both, Requests DEF Inv, Receive, Respond, Goto, Types, EndType
    <3>2. CASE Head(inbox[s]).type # "request"
      BY <1>15, <3>0, <3>2 DEF Receive
    <3> QED BY <3>1, <3>2
  <2> QED BY <2>1, Both DEF Inv, Unsent, Before
<1>16. ASSUME NEW s \in Sides, Close(s) PROVE Unsent'
  <2>1. UNCHANGED pc /\ \A t \in Sides : inbox'[t] = inbox[t] \/ inbox'[t] = <<>>
    BY <1>16, Both DEF Close, Types, WireType
  <2> QED BY <2>1 DEF Inv, Unsent, Before
<1>17. ASSUME UNCHANGED vars PROVE Unsent'
  BY <1>17, Both DEF Inv, Unsent, Before, Types, EndType, recvVars, sendVars, vars
<1> QED BY <1>1, <1>2, <1>3, <1>4, <1>5, <1>6, <1>7, <1>8, <1>9, <1>10, <1>11, <1>12, <1>13, <1>14, <1>15,
       <1>16, <1>17 DEF Next, Requester, Responder

----------------------------------------------------------------------------
(* The frames under way                                                      *)

\* What a frame may be, of those a side sends.
LEMMA Sent ==
  ASSUME Types
  PROVE  /\ \A k \in Nat : /\ Proper(B, F("request", 1), k) /\ Proper(A, F("cancel", 0), k)
                           /\ \A s \in Sides : /\ Proper(s, F("requestN", 1), k) /\ Proper(s, F("error", 0), k)
                                               /\ Proper(s, F("complete", 0), k)
         /\ \A s \in Sides : Proper(Other(s), F("next", sent[s] + 1), sent[s] + 1)
         /\ Proper(A, F("final", sent[B] + 1), sent[B] + 1)
<1>1. \A s \in Sides : sent[s] + 1 \in 1..(sent[s] + 1)
  BY DEF Types, CountType
<1> QED BY <1>1, Both, Frames DEF Proper, FramesOf, Demands, Items

LEMMA ProperKept ==
  ASSUME NEW s, NEW f, NEW k \in Nat, NEW m \in Nat, k <= m, Proper(s, f, k)
  PROVE  Proper(s, f, m)
  BY DEF Proper

\* The frames under way to a side change in one of these ways.
Moved(t) ==
  \/ inbox'[t] = inbox[t] \/ inbox'[t] = <<>>
  \/ inbox[t] # <<>> /\ inbox'[t] = Tail(inbox[t])
  \/ \E f \in Frame : inbox'[t] = Append(inbox[t], f) /\ Proper(t, f, sent'[Other(t)])

LEMMA AllProper ==
  ASSUME Types, Framed, Types', \A t \in Sides : sent[t] <= sent'[t], \A t \in Sides : Moved(t)
  PROVE  Framed'
<1> SUFFICES ASSUME NEW t \in Sides, NEW i \in 1..Len(inbox'[t])
             PROVE  Proper(t, inbox'[t][i], sent'[Other(t)])
  BY DEF Framed
<1>1. sent[Other(t)] \in Nat /\ sent'[Other(t)] \in Nat /\ sent[Other(t)] <= sent'[Other(t)]
  BY Both DEF Types, CountType
<1>2. \A j \in 1..Len(inbox[t]) : Proper(t, inbox[t][j], sent'[Other(t)])
  BY <1>1, ProperKept DEF Framed
<1>3. inbox[t] \in Seq(Frame)
  BY DEF Types, WireType
<1>4. CASE inbox'[t] = inbox[t]
  BY <1>2, <1>4
<1>5. CASE inbox'[t] = <<>>
  BY <1>5, Nothing
<1>6. CASE inbox[t] # <<>> /\ inbox'[t] = Tail(inbox[t])
  <2>1. inbox'[t][i] = inbox[t][i + 1] /\ i + 1 \in 1..Len(inbox[t])
    BY <1>3, <1>6, Rest
  <2> QED BY <2>1, <1>2
<1>7. CASE \E f \in Frame : inbox'[t] = Append(inbox[t], f) /\ Proper(t, f, sent'[Other(t)])
  <2>1. PICK f \in Frame : inbox'[t] = Append(inbox[t], f) /\ Proper(t, f, sent'[Other(t)])
    BY <1>7
  <2>2. (i \in 1..Len(inbox[t]) /\ inbox'[t][i] = inbox[t][i]) \/ inbox'[t][i] = f
    BY <1>3, <2>1, AtEnd
  <2> QED BY <2>1, <2>2, <1>2
<1> QED BY <1>4, <1>5, <1>6, <1>7 DEF Moved

LEMMA SendMoves ==
  ASSUME Types, NEW s \in Sides, NEW f \in Frame, Send(s, f), Proper(Other(s), f, sent'[s])
  PROVE  \A t \in Sides : Moved(t)
<1>1. inbox'[s] = inbox[s]
  BY Sends
<1>2. inbox'[Other(s)] = inbox[Other(s)] \/ inbox'[Other(s)] = Append(inbox[Other(s)], f)
  BY Sends
<1>3. Moved(s)
  BY <1>1 DEF Moved
<1>4. Moved(Other(s))
  BY <1>2, Both DEF Moved
<1> QED BY <1>3, <1>4, Both

\* The frames that a side sends.
LEMMA Sendings ==
  ASSUME Types, sent' \in [Sides -> Nat]
  PROVE  /\ Send(A, F("request", 1)) => \A t \in Sides : Moved(t)
         /\ \A s \in Sides : /\ Send(s, F("requestN", 1)) => \A t \in Sides : Moved(t)
                             /\ Send(s, F("error", 0)) => \A t \in Sides : Moved(t)
                             /\ Send(s, F("complete", 0)) => \A t \in Sides : Moved(t)
                             /\ Send(s, F("next", sent[s] + 1))
                                /\ sent'[s] = sent[s] + 1 => \A t \in Sides : Moved(t)
         /\ Send(B, F("cancel", 0)) => \A t \in Sides : Moved(t)
         /\ Send(B, F("final", sent[B] + 1)) /\ sent'[B] = sent[B] + 1 => \A t \in Sides : Moved(t)
<1>1. \A s \in Sides : sent'[s] \in Nat /\ Other(s) \in Sides
  BY Both
<1>2. ASSUME Send(A, F("request", 1)) PROVE \A t \in Sides : Moved(t)
  BY <1>1, <1>2, SendMoves, Sent, Frames, Both
<1>3. ASSUME NEW s \in Sides, Send(s, F("requestN", 1)) PROVE \A t \in Sides : Moved(t)
  BY <1>1, <1>3, SendMoves, Sent, Frames
<1>4. ASSUME NEW s \in Sides, Send(s, F("error", 0)) PROVE \A t \in Sides : Moved(t)
  BY <1>1, <1>4, SendMoves, Sent, Frames
<1>5. ASSUME NEW s \in Sides, Send(s, F("complete", 0)) PROVE \A t \in Sides : Moved(t)
  BY <1>1, <1>5, SendMoves, Sent, Frames
<1>6. ASSUME NEW s \in Sides, Send(s, F("next", sent[s] + 1)), sent'[s] = sent[s] + 1
      PROVE \A t \in Sides : Moved(t)
  <2>1. Proper(Other(s), F("next", sent[s] + 1), sent'[s]) /\ F("next", sent[s] + 1) \in Frame
    BY <1>6, Sent, Frames
  <2> QED BY <1>6, <2>1, SendMoves
<1>7. ASSUME Send(B, F("cancel", 0)) PROVE \A t \in Sides : Moved(t)
  BY <1>1, <1>7, SendMoves, Sent, Frames, Both
<1>8. ASSUME Send(B, F("final", sent[B] + 1)), sent'[B] = sent[B] + 1 PROVE \A t \in Sides : Moved(t)
  <2>1. Proper(A, F("final", sent[B] + 1), sent'[B]) /\ F("final", sent[B] + 1) \in Frame
    BY <1>8, Sent, Frames, Both
  <2> QED BY <1>8, <2>1, SendMoves, Both
<1> QED BY <1>2, <1>3, <1>4, <1>5, <1>6, <1>7, <1>8

LEMMA SentGrows == ASSUME Types, Inv, [Next]_vars PROVE \A t \in Sides : sent[t] <= sent'[t]
<1>1. sent' \in {sent, [sent EXCEPT ![A] = sent[A] + 1], [sent EXCEPT ![B] = sent[B] + 1]}
  BY DEF Next, Requester, Responder, Call, Request, OnSubscribeA, OnSubscribeDoneA, EmitA, EndA, FinallyA,
         OnSubscribeB, OnSubscribeDoneB, EmitB, EndB, FinallyB, Ask, Cancel,
         Receive, Close, recvVars, sendVars, vars
<1> QED BY <1>1, Both DEF Types, CountType

LEMMA MovedStep ==
  ASSUME Types, Inv, [Next]_vars
  PROVE  \A t \in Sides : Moved(t)
<1>1. ASSUME Call PROVE \A t \in Sides : Moved(t)
  BY <1>1 DEF Call, Moved, recvVars, sendVars
<1>2. ASSUME Request PROVE \A t \in Sides : Moved(t)
  <2>1. Send(A, F("request", 1)) /\ UNCHANGED sent
    BY <1>2 DEF Request, sendVars
  <2>2. sent' \in [Sides -> Nat]
    BY <2>1 DEF Types, CountType
  <2> QED BY <2>1, <2>2, Both, Sendings
<1>3. ASSUME OnSubscribeA PROVE \A t \in Sides : Moved(t)
  BY <1>3 DEF OnSubscribeA, Moved, recvVars
<1>4. ASSUME OnSubscribeDoneA PROVE \A t \in Sides : Moved(t)
  <2>1. Send(A, F("error", 0)) /\ UNCHANGED sent
    BY <1>4 DEF OnSubscribeDoneA, sendVars, recvVars
  <2>2. sent' \in [Sides -> Nat]
    BY <2>1 DEF Types, CountType
  <2> QED BY <2>1, <2>2, Both, Sendings
<1>5. ASSUME EmitA PROVE \A t \in Sides : Moved(t)
  <2>1. Send(A, F("next", sent[A] + 1)) /\ sent'[A] = sent[A] + 1 /\ sent' \in [Sides -> Nat]
    BY <1>5, Both DEF EmitA, Types, CountType
  <2> QED BY <2>1, Both, Sendings
<1>6. ASSUME EndA PROVE \A t \in Sides : Moved(t)
  <2>1. (Send(A, F("complete", 0)) \/ Send(A, F("error", 0))) /\ UNCHANGED sent
    BY <1>6, EndsWith, Both DEF EndA, sendVars
  <2>2. sent' \in [Sides -> Nat]
    BY <2>1 DEF Types, CountType
  <2> QED BY <2>1, <2>2, Both, Sendings DEF Moved
<1>7. ASSUME FinallyA PROVE \A t \in Sides : Moved(t)
  BY <1>7 DEF FinallyA, Moved, sendVars
<1>8. ASSUME OnSubscribeB PROVE \A t \in Sides : Moved(t)
  BY <1>8 DEF OnSubscribeB, Moved, recvVars, sendVars
<1>9. ASSUME OnSubscribeDoneB PROVE \A t \in Sides : Moved(t)
  <2>1. Send(B, F("error", 0)) /\ UNCHANGED sent
    BY <1>9 DEF OnSubscribeDoneB, sendVars, recvVars
  <2>2. sent' \in [Sides -> Nat]
    BY <2>1 DEF Types, CountType
  <2> QED BY <2>1, <2>2, Both, Sendings
<1>10. ASSUME EmitB PROVE \A t \in Sides : Moved(t)
  <2>1. Send(B, F("next", sent[B] + 1)) \/ Send(B, F("final", sent[B] + 1))
    BY <1>10 DEF EmitB
  <2>2. sent'[B] = sent[B] + 1 /\ sent' \in [Sides -> Nat]
    BY <1>10, Both DEF EmitB, Types, CountType
  <2> QED BY <2>1, <2>2, Both, Sendings
<1>11. ASSUME EndB PROVE \A t \in Sides : Moved(t)
  <2>1. (UNCHANGED inbox \/ Send(B, F("complete", 0)) \/ Send(B, F("error", 0))) /\ UNCHANGED sent
    BY <1>11, EndsWith, Both DEF EndB, sendVars
  <2>2. sent' \in [Sides -> Nat]
    BY <2>1 DEF Types, CountType
  <2> QED BY <2>1, <2>2, Both, Sendings DEF Moved
<1>12. ASSUME FinallyB PROVE \A t \in Sides : Moved(t)
  <2>1. (UNCHANGED inbox \/ Send(B, F("cancel", 0))) /\ UNCHANGED sent
    BY <1>12 DEF FinallyB, sendVars
  <2>2. sent' \in [Sides -> Nat]
    BY <2>1 DEF Types, CountType
  <2> QED BY <2>1, <2>2, Both, Sendings DEF Moved
<1>13. ASSUME NEW s \in Sides, Ask(s) PROVE \A t \in Sides : Moved(t)
  <2>1. Send(s, F("requestN", 1)) /\ UNCHANGED sent
    BY <1>13 DEF Ask, sendVars
  <2>2. sent' \in [Sides -> Nat]
    BY <2>1 DEF Types, CountType
  <2> QED BY <2>1, <2>2, Both, Sendings
<1>14. ASSUME NEW s \in Sides, Cancel(s) PROVE \A t \in Sides : Moved(t)
  BY <1>14 DEF Cancel, Moved, sendVars
<1>15. ASSUME NEW s \in Sides, Receive(s) PROVE \A t \in Sides : Moved(t)
  <2>1. UNCHANGED sent
    BY <1>15, Hands DEF Inv
  <2>2. sent'[A] \in Nat /\ sent'[B] \in Nat
    BY <2>1, Both DEF Types, CountType
  <2>3. Moved(s)
    BY <1>15, Receives DEF Inv, Moved
  <2>4. Moved(Other(s))
    BY <1>15, <2>2, Receives, Both, Frames, Sent DEF Inv, Moved
  <2> QED BY <2>3, <2>4, Both
<1>16. ASSUME NEW s \in Sides, Close(s) PROVE \A t \in Sides : Moved(t)
  <2>1. inbox \in [Sides -> Seq(Frame)] /\ inbox' = [inbox EXCEPT ![Other(s)] = <<>>]
    BY <1>16 DEF Close, Types, WireType
  <2> QED BY <2>1, Both DEF Moved
<1>17. ASSUME UNCHANGED vars PROVE \A t \in Sides : Moved(t)
  BY <1>17 DEF Moved, recvVars, sendVars, vars
<1> QED BY <1>1, <1>2, <1>3, <1>4, <1>5, <1>6, <1>7, <1>8, <1>9, <1>10, <1>11, <1>12, <1>13, <1>14, <1>15,
       <1>16, <1>17 DEF Next, Requester, Responder

LEMMA FramedStep == ASSUME Types, Inv, [Next]_vars PROVE Framed'
  BY TypesStep, SentGrows, MovedStep, AllProper DEF Inv

\* A request opens a channel that the responder does not know.
LEMMA Opening ==
  ASSUME Types, Inv, NEW s \in Sides, inbox[s] # <<>>
  PROVE  /\ s = B => (inbox[s][1].type = "request" <=> pc[B] = "idle")
         /\ inbox[s][1].type = "request" => s = B /\ inbox[s][1].n = 1 /\ pc[B] = "idle"
<1>1. 1 \in 1..Len(inbox[s])
  BY Takes
<1>2. Proper(s, inbox[s][1], sent[Other(s)])
  BY <1>1 DEF Inv, Framed
<1>3. s = B => (inbox[s][1].type = "request" <=> pc[B] = "idle")
  BY <1>1 DEF Inv, FirstRequest
<1> QED BY <1>2, <1>3, Both DEF Proper, FramesOf, Demands

LEMMA StartBStep ==
  ASSUME Types, Inv, [Next]_vars
  PROVE  StartB'
<1>1. ASSUME Call PROVE StartB'
  BY <1>1, Both DEF Call, Types, EndType, CountType, Inv, StartB, Goto, Begun, recvVars, sendVars
<1>2. ASSUME Request PROVE StartB'
  BY <1>2, Both DEF Request, Types, EndType, CountType, Inv, StartB, Goto, Begun, sendVars
<1>3. ASSUME OnSubscribeA PROVE StartB'
  BY <1>3, Both DEF OnSubscribeA, Types, EndType, CountType, Inv, StartB, Goto, Begun, recvVars
<1>4. ASSUME OnSubscribeDoneA PROVE StartB'
  BY <1>4, Both DEF OnSubscribeDoneA, Types, EndType, CountType, Inv, StartB, Goto, Begun, recvVars, sendVars
<1>5. ASSUME EmitA PROVE StartB'
  BY <1>5, Both DEF EmitA, Types, EndType, CountType, Inv, StartB, Begun, recvVars
<1>6. ASSUME EndA PROVE StartB'
  BY <1>6, Both DEF EndA, Types, EndType, CountType, Inv, StartB, Goto, Begun, recvVars, sendVars
<1>7. ASSUME FinallyA PROVE StartB'
  BY <1>7, Both DEF FinallyA, Types, EndType, CountType, Inv, StartB, Begun, sendVars
<1>8. ASSUME OnSubscribeB PROVE StartB'
  BY <1>8, Both DEF OnSubscribeB, Types, EndType, CountType, Inv, StartB, Goto, Begun, recvVars, sendVars
<1>9. ASSUME OnSubscribeDoneB PROVE StartB'
  BY <1>9, Both DEF OnSubscribeDoneB, Types, EndType, CountType, Inv, StartB, Goto, Count, Begun, recvVars,
         sendVars
<1>10. ASSUME EmitB PROVE StartB'
  <2>1. UNCHANGED <<pc, asked>> /\ pc[B] = "active"
    BY <1>10 DEF EmitB, recvVars
  <2> QED BY <2>1, Both DEF Inv, StartB
<1>11. ASSUME EndB PROVE StartB'
  BY <1>11, Both DEF EndB, Types, EndType, CountType, Inv, StartB, Goto, Count, Begun, recvVars, sendVars
<1>12. ASSUME FinallyB PROVE StartB'
  BY <1>12, Both DEF FinallyB, Types, EndType, CountType, Inv, StartB, Count, Begun, sendVars
<1>13. ASSUME NEW s \in Sides, Ask(s) PROVE StartB'
  BY <1>13, Both DEF Ask, Types, EndType, CountType, Inv, StartB, Begun, sendVars
<1>14. ASSUME NEW s \in Sides, Cancel(s) PROVE StartB'
  BY <1>14, Both DEF Cancel, Types, EndType, CountType, Inv, StartB, Terminate, Begun, sendVars
<1>15. ASSUME NEW s \in Sides, Receive(s) PROVE StartB'
  <2> DEFINE f == inbox[s][1]
  <2>1. UNCHANGED <<asked, sent>> /\ inbox[s] # <<>>
    BY <1>15, Hands DEF Inv
  <2>2. CASE Opens(s, f)
    <3>1. pc[B] = "idle"
      BY <2>1, <2>2, Opening DEF Opens
    <3> QED BY <2>1, <2>2, <3>1 DEF Inv, StartB, Opens
  <2>3. CASE Delivers(s, f)
    BY <2>1, <2>3 DEF Delivers, Inv, StartB
  <2>4. CASE Credits(s, f)
    <3>1. s = B => pc[B] # "idle"
      BY <2>4 DEF Credits, Inv, EndsCounted
    <3>2. UNCHANGED pc /\ (s = A => credit'[B] = credit[B])
      BY <2>4, Both DEF Credits, Types, CountType
    <3> QED BY <2>1, <3>1, <3>2, Both DEF Inv, StartB
  <2>5. CASE Crashes(s, f)
    BY <2>1, <2>5 DEF Crashes, Inv, StartB
  <2>6. CASE Misses(s, f)
    BY <2>1, <2>6 DEF Misses, Inv, StartB
  <2> QED BY <1>15, Hands, <2>2, <2>3, <2>4, <2>5, <2>6 DEF Inv
<1>16. ASSUME NEW s \in Sides, Close(s) PROVE StartB'
  BY <1>16 DEF Close, Inv, StartB
<1>17. ASSUME UNCHANGED vars PROVE StartB'
  BY <1>17, Both DEF Types, EndType, CountType, Inv, StartB, Begun, recvVars, sendVars, vars
<1> QED BY <1>1, <1>2, <1>3, <1>4, <1>5, <1>6, <1>7, <1>8, <1>9, <1>10, <1>11, <1>12, <1>13, <1>14, <1>15,
       <1>16, <1>17 DEF Next, Requester, Responder

LEMMA EndsStep ==
  ASSUME Types, Inv, [Next]_vars
  PROVE  EndsCounted'
<1>1. ASSUME Call PROVE EndsCounted'
  <2>1. UNCHANGED <<calls, final, total>> /\ pc'[B] = pc[B] /\ reg'[B] = reg[B] /\ fin'[B] = fin[B]
        /\ sent'[B] = sent[B]
    BY <1>1, Both DEF Call, Goto, Types, EndType, CountType, recvVars, sendVars
  <2> QED BY <2>1 DEF Inv, EndsCounted
<1>2. ASSUME Request PROVE EndsCounted'
  <2>1. UNCHANGED <<calls, final, total>> /\ pc'[B] = pc[B] /\ reg'[B] = reg[B] /\ fin'[B] = fin[B]
        /\ sent'[B] = sent[B]
    BY <1>2, Both DEF Request, Goto, Types, EndType, CountType, sendVars
  <2> QED BY <2>1 DEF Inv, EndsCounted
<1>3. ASSUME OnSubscribeA PROVE EndsCounted'
  <2>1. UNCHANGED <<calls, final, total>> /\ pc'[B] = pc[B] /\ reg'[B] = reg[B] /\ fin'[B] = fin[B]
        /\ sent'[B] = sent[B]
    BY <1>3, Both DEF OnSubscribeA, Goto, Types, EndType, CountType, recvVars
  <2> QED BY <2>1 DEF Inv, EndsCounted
<1>4. ASSUME OnSubscribeDoneA PROVE EndsCounted'
  <2>1. UNCHANGED <<calls, final, total>> /\ pc'[B] = pc[B] /\ reg'[B] = reg[B] /\ fin'[B] = fin[B]
        /\ sent'[B] = sent[B]
    BY <1>4, Both DEF OnSubscribeDoneA, Goto, Types, EndType, CountType, recvVars, sendVars
  <2> QED BY <2>1 DEF Inv, EndsCounted
<1>5. ASSUME EmitA PROVE EndsCounted'
  <2>1. UNCHANGED <<calls, final, total>> /\ pc'[B] = pc[B] /\ reg'[B] = reg[B] /\ fin'[B] = fin[B]
        /\ sent'[B] = sent[B]
    BY <1>5, Both DEF EmitA, Types, EndType, CountType, recvVars
  <2> QED BY <2>1 DEF Inv, EndsCounted
<1>6. ASSUME EndA PROVE EndsCounted'
  <2>1. UNCHANGED <<calls, final, total>> /\ pc'[B] = pc[B] /\ reg'[B] = reg[B] /\ fin'[B] = fin[B]
        /\ sent'[B] = sent[B]
    BY <1>6, Both DEF EndA, Goto, Types, EndType, CountType, recvVars, sendVars
  <2> QED BY <2>1 DEF Inv, EndsCounted
<1>7. ASSUME FinallyA PROVE EndsCounted'
  <2>1. UNCHANGED <<calls, final, total>> /\ pc'[B] = pc[B] /\ reg'[B] = reg[B] /\ fin'[B] = fin[B]
        /\ sent'[B] = sent[B]
    BY <1>7, Both DEF FinallyA, Types, EndType, CountType, sendVars
  <2> QED BY <2>1 DEF Inv, EndsCounted
<1>8. ASSUME OnSubscribeB PROVE EndsCounted'
  <2>1. UNCHANGED <<calls, final, total, fin, sent>> /\ pc[B] = "subscribing" /\ pc'[B] = "active"
        /\ reg'[B] = TRUE
    BY <1>8, Both DEF OnSubscribeB, Goto, Types, EndType, recvVars, sendVars
  <2>2. final = FALSE
    BY <2>1 DEF Inv, EndsCounted, Types, WireType
  <2> QED BY <2>1, <2>2 DEF Inv, EndsCounted, One
<1>9. ASSUME OnSubscribeDoneB PROVE EndsCounted'
  <2>1. UNCHANGED <<final, total, fin, sent>> /\ pc[B] = "subscribing" /\ pc'[B] = "stuck"
    BY <1>9, Both DEF OnSubscribeDoneB, Goto, Types, EndType, recvVars, sendVars
  <2>2. /\ calls \in Nat /\ (calls' = calls + 1) /\ (reg'[B] = IF calls + 1 = 2 THEN FALSE ELSE reg[B])
    BY <1>9, Both DEF OnSubscribeDoneB, Count, Types, EndType, CountType
  <2>3. final = FALSE
    BY <2>1 DEF Inv, EndsCounted, Types, WireType
  <2> QED BY <2>1, <2>2, <2>3 DEF Inv, EndsCounted, One, Types, EndType
<1>10. ASSUME EmitB PROVE EndsCounted'
  <2>1. UNCHANGED <<total, fin, pc>> /\ pc[B] = "active" /\ sent'[B] = sent[B] + 1 /\ sent[B] < total[B]
        /\ sent[B] \in Nat /\ total[B] \in Nat
    BY <1>10, Both DEF EmitB, Types, CountType, recvVars
  <2>2. final = FALSE
    BY <2>1 DEF Inv, EndsCounted, Types, WireType
  <2>3. CASE UNCHANGED <<calls, reg, final>>
    BY <2>1, <2>2, <2>3 DEF Inv, EndsCounted
  <2>4. CASE sent[B] + 1 = total[B] /\ final' = TRUE /\ Count
    <3>1. /\ calls \in Nat /\ calls' = calls + 1 /\ reg'[B] = (IF calls + 1 = 2 THEN FALSE ELSE reg[B])
      BY <2>4, Both DEF Count, Types, EndType, CountType
    <3> QED BY <2>1, <2>2, <2>4, <3>1 DEF Inv, EndsCounted, One, Types, EndType
  <2> QED BY <1>10, <2>3, <2>4 DEF EmitB
<1>11. ASSUME EndB PROVE EndsCounted'
  <2>1. UNCHANGED <<final, total, fin, sent>> /\ pc[B] = "active" /\ pc'[B] = "ended"
    BY <1>11, Both DEF EndB, Goto, Types, EndType, recvVars, sendVars
  <2>2. /\ calls \in Nat /\ (calls' = calls + 1) /\ (reg'[B] = IF calls + 1 = 2 THEN FALSE ELSE reg[B])
    BY <1>11, Both DEF EndB, Count, Types, EndType, CountType
  <2> QED BY <2>1, <2>2 DEF Inv, EndsCounted, One, Types, EndType
<1>12. ASSUME FinallyB PROVE EndsCounted'
  <2>1. UNCHANGED <<final, total, sent, pc>> /\ fin[B] = "run" /\ fin'[B] = "done"
    BY <1>12, Both DEF FinallyB, Types, EndType, sendVars
  <2>2. /\ calls \in Nat /\ (calls' = calls + 1) /\ (reg'[B] = IF calls + 1 = 2 THEN FALSE ELSE reg[B])
    BY <1>12, Both DEF FinallyB, Count, Types, EndType, CountType
  <2> QED BY <2>1, <2>2 DEF Inv, EndsCounted, One, Types, EndType
<1>13. ASSUME NEW s \in Sides, Ask(s) PROVE EndsCounted'
  <2>1. UNCHANGED <<calls, final, total>> /\ pc'[B] = pc[B] /\ reg'[B] = reg[B] /\ fin'[B] = fin[B]
        /\ sent'[B] = sent[B]
    BY <1>13, Both DEF Ask, Types, EndType, CountType, sendVars
  <2> QED BY <2>1 DEF Inv, EndsCounted
<1>14. ASSUME NEW s \in Sides, Cancel(s) PROVE EndsCounted'
  <2>1. UNCHANGED <<calls, final, total, pc, reg, sent>>
    BY <1>14 DEF Cancel, sendVars
  <2>2. fin'[B] = "done" <=> fin[B] = "done"
    BY <1>14, Both DEF Cancel, Terminate, Inv, StartA, Types, EndType
  <2> QED BY <2>1, <2>2 DEF Inv, EndsCounted, One
<1>15. ASSUME NEW s \in Sides, Receive(s) PROVE EndsCounted'
  <2> DEFINE f == inbox[s][1]
  <2>1. UNCHANGED <<calls, final, total, reg, sent>> /\ inbox[s] # <<>>
    BY <1>15, Hands DEF Inv
  <2>2. fin'[B] = "done" <=> fin[B] = "done"
    <3>1. CASE Delivers(s, f)
      BY <3>1, Both DEF Delivers, Deliver, Terminate, Inv, StartA, Types, EndType
    <3> QED BY <1>15, <3>1, Hands DEF Inv, Opens, Credits, Crashes, Misses
  <2>3. UNCHANGED pc \/ (pc[B] = "idle" /\ pc'[B] \in {"refused", "subscribing"})
    <3>1. CASE Opens(s, f)
      BY <2>1, <3>1, Opening DEF Opens
    <3> QED BY <1>15, <3>1, Hands DEF Inv, Delivers, Credits, Crashes, Misses
  <2>4. CASE UNCHANGED pc
    BY <2>1, <2>2, <2>4 DEF Inv, EndsCounted, One
  <2>5. CASE pc[B] = "idle" /\ pc'[B] \in {"refused", "subscribing"}
    BY <2>1, <2>2, <2>5 DEF Inv, EndsCounted, One
  <2> QED BY <2>3, <2>4, <2>5
<1>16. ASSUME NEW s \in Sides, Close(s) PROVE EndsCounted'
  <2>1. UNCHANGED <<calls, final, total, pc, reg, sent>>
    BY <1>16 DEF Close
  <2>2. fin'[B] = "done" <=> fin[B] = "done"
    BY <1>16, Both DEF Close, Terminate, Inv, StartA, Types, EndType
  <2> QED BY <2>1, <2>2 DEF Inv, EndsCounted, One
<1>17. ASSUME UNCHANGED vars PROVE EndsCounted'
  <2>1. UNCHANGED <<calls, final, total>> /\ pc'[B] = pc[B] /\ reg'[B] = reg[B] /\ fin'[B] = fin[B]
        /\ sent'[B] = sent[B]
    BY <1>17, Both DEF Types, EndType, CountType, recvVars, sendVars, vars
  <2> QED BY <2>1 DEF Inv, EndsCounted
<1> QED BY <1>1, <1>2, <1>3, <1>4, <1>5, <1>6, <1>7, <1>8, <1>9, <1>10, <1>11, <1>12, <1>13, <1>14, <1>15,
       <1>16, <1>17 DEF Next, Requester, Responder

\* The request is the first frame of all.
LEMMA FirstSame ==
  ASSUME Inv, pc'[B] = "idle" <=> pc[B] = "idle", inbox'[B] = inbox[B],
         pc[A] \in Before => pc'[A] \in Before, UNCHANGED closed
  PROVE  FirstRequest'
  BY DEF Inv, FirstRequest, Arrives

LEMMA FirstNext ==
  ASSUME Types, Inv, NEW f \in Frame, f.type # "request", Send(A, f),
         UNCHANGED closed, pc[A] \notin Before, pc'[B] = pc[B]
  PROVE  FirstRequest'
<1>1. inbox[B] \in Seq(Frame)
  BY Both DEF Types, WireType
<1>2. CASE ~Arrives /\ inbox'[B] = inbox[B]
  BY <1>2 DEF Inv, FirstRequest, Arrives
<1>3. CASE Arrives /\ inbox'[B] = Append(inbox[B], f)
  <2>1. Len(inbox'[B]) = Len(inbox[B]) + 1 /\ Len(inbox[B]) \in Nat /\ inbox'[B][Len(inbox[B]) + 1] = f
        /\ \A i \in 1..Len(inbox[B]) : inbox'[B][i] = inbox[B][i]
    BY <1>1, <1>3, AtEnd
  <2>2. pc[B] = "idle" => Len(inbox[B]) # 0
    BY <1>1, <1>3 DEF Inv, FirstRequest
  <2>3. \A i \in 1..Len(inbox'[B]) : inbox'[B][i].type = "request" <=> i = 1 /\ pc'[B] = "idle"
    <3> SUFFICES ASSUME NEW i \in 1..Len(inbox'[B])
                 PROVE  inbox'[B][i].type = "request" <=> i = 1 /\ pc[B] = "idle"
      OBVIOUS
    <3>1. CASE i = Len(inbox[B]) + 1
      BY <2>1, <2>2, <3>1
    <3>2. CASE i \in 1..Len(inbox[B])
      BY <2>1, <3>2 DEF Inv, FirstRequest
    <3> QED BY <2>1, <3>1, <3>2
  <2>4. inbox'[B] # <<>>
    BY <2>1, Nothing
  <2> QED BY <2>3, <2>4 DEF FirstRequest
<1> QED BY <1>2, <1>3, Sends, Both

LEMMA FirstStep ==
  ASSUME Types, Inv, [Next]_vars
  PROVE  FirstRequest'
<1>1. ASSUME Call PROVE FirstRequest'
  <2>1. inbox'[B] = inbox[B] /\ UNCHANGED closed /\ (pc'[B] = "idle" <=> pc[B] = "idle")
        /\ (pc[A] \in Before => pc'[A] \in Before)
    BY <1>1, Both DEF Call, Goto, Before, Types, EndType, recvVars, sendVars
  <2> QED BY <2>1, FirstSame
<1>2. ASSUME Request PROVE FirstRequest'
  <2>1. Send(A, F("request", 1)) /\ UNCHANGED closed /\ pc'[B] = pc[B] /\ pc[A] \in Before
    BY <1>2, Both DEF Request, Goto, Before, Types, EndType
  <2>2. inbox[B] = <<>> /\ pc[B] = "idle"
    BY <2>1, Both DEF Inv, Unsent
  <2>3. CASE ~Arrives /\ inbox'[B] = <<>>
    <3>1. ~Arrives'
      BY <2>1, <2>3 DEF Arrives
    <3> QED BY <2>3, <3>1, Nothing DEF FirstRequest
  <2>4. CASE Arrives /\ inbox'[B] = Append(<<>>, F("request", 1))
    <3>1. Len(inbox'[B]) = 1 /\ inbox'[B][1] = F("request", 1)
      BY <2>4, Nothing, AtEnd, Frames
    <3>2. \A i \in 1..Len(inbox'[B]) : i = 1 /\ inbox'[B][i].type = "request"
      BY <3>1, Frames
    <3> QED BY <2>1, <2>2, <3>1, <3>2, Nothing DEF FirstRequest
  <2> QED BY <2>1, <2>2, <2>3, <2>4, Sends, Frames, Both
<1>3. ASSUME OnSubscribeA PROVE FirstRequest'
  <2>1. inbox'[B] = inbox[B] /\ UNCHANGED closed /\ (pc'[B] = "idle" <=> pc[B] = "idle")
        /\ (pc[A] \in Before => pc'[A] \in Before)
    BY <1>3, Both DEF OnSubscribeA, Goto, Before, Types, EndType, recvVars
  <2> QED BY <2>1, FirstSame
<1>4. ASSUME OnSubscribeDoneA PROVE FirstRequest'
  <2>1. Send(A, F("error", 0)) /\ UNCHANGED closed /\ pc'[B] = pc[B] /\ pc[A] \notin Before
    BY <1>4, Both, EndsWith DEF OnSubscribeDoneA, Goto, Before, Types, EndType, recvVars, sendVars
  <2> QED BY <2>1, FirstNext, Frames, Both
<1>5. ASSUME EmitA PROVE FirstRequest'
  <2>1. Send(A, F("next", sent[A] + 1)) /\ UNCHANGED closed /\ pc'[B] = pc[B] /\ pc[A] \notin Before
    BY <1>5, Both, EndsWith DEF EmitA, Before, Types, EndType, recvVars
  <2> QED BY <2>1, FirstNext, Frames, Both
<1>6. ASSUME EndA PROVE FirstRequest'
  <2>1. (Send(A, F("complete", 0)) \/ Send(A, F("error", 0))) /\ UNCHANGED closed /\ pc'[B] = pc[B]
        /\ pc[A] \notin Before
    BY <1>6, Both, EndsWith DEF EndA, Goto, Before, Types, EndType, recvVars, sendVars
  <2> QED BY <2>1, FirstNext, Frames, Both
<1>7. ASSUME FinallyA PROVE FirstRequest'
  <2>1. inbox'[B] = inbox[B] /\ UNCHANGED closed /\ (pc'[B] = "idle" <=> pc[B] = "idle")
        /\ (pc[A] \in Before => pc'[A] \in Before)
    BY <1>7, Both DEF FinallyA, Before, Types, EndType, sendVars
  <2> QED BY <2>1, FirstSame
<1>8. ASSUME OnSubscribeB PROVE FirstRequest'
  <2>1. inbox'[B] = inbox[B] /\ UNCHANGED closed /\ (pc'[B] = "idle" <=> pc[B] = "idle")
        /\ (pc[A] \in Before => pc'[A] \in Before)
    BY <1>8, Both DEF OnSubscribeB, Goto, Before, Types, EndType, recvVars, sendVars
  <2> QED BY <2>1, FirstSame
<1>9. ASSUME OnSubscribeDoneB PROVE FirstRequest'
  <2>1. Send(B, F("error", 0)) /\ UNCHANGED closed /\ (pc'[B] = "idle" <=> pc[B] = "idle") /\ pc'[A] = pc[A]
    BY <1>9, Both, EndsWith DEF OnSubscribeDoneB, Goto, Types, EndType, recvVars, sendVars
  <2>2. inbox'[B] = inbox[B]
    BY <2>1, Sends, Frames, Both
  <2> QED BY <2>1, <2>2, FirstSame
<1>10. ASSUME EmitB PROVE FirstRequest'
  <2>1. (Send(B, F("next", sent[B] + 1)) \/ Send(B, F("final", sent[B] + 1))) /\ UNCHANGED closed
        /\ (pc'[B] = "idle" <=> pc[B] = "idle") /\ pc'[A] = pc[A]
    BY <1>10, Both, EndsWith DEF EmitB, Types, EndType, recvVars
  <2>2. inbox'[B] = inbox[B]
    BY <2>1, Sends, Frames, Both
  <2> QED BY <2>1, <2>2, FirstSame
<1>11. ASSUME EndB PROVE FirstRequest'
  <2>1. (UNCHANGED inbox \/ Send(B, F("complete", 0)) \/ Send(B, F("error", 0))) /\ UNCHANGED closed
        /\ (pc'[B] = "idle" <=> pc[B] = "idle") /\ pc'[A] = pc[A]
    BY <1>11, Both, EndsWith DEF EndB, Goto, Types, EndType, recvVars, sendVars
  <2>2. inbox'[B] = inbox[B]
    BY <2>1, Sends, Frames, Both
  <2> QED BY <2>1, <2>2, FirstSame
<1>12. ASSUME FinallyB PROVE FirstRequest'
  <2>1. (UNCHANGED inbox \/ Send(B, F("cancel", 0))) /\ UNCHANGED closed
        /\ (pc'[B] = "idle" <=> pc[B] = "idle") /\ pc'[A] = pc[A]
    BY <1>12, Both, EndsWith DEF FinallyB, Types, EndType, sendVars
  <2>2. inbox'[B] = inbox[B]
    BY <2>1, Sends, Frames, Both
  <2> QED BY <2>1, <2>2, FirstSame
<1>13. ASSUME NEW s \in Sides, Ask(s) PROVE FirstRequest'
  <2>1. Send(s, F("requestN", 1)) /\ UNCHANGED <<closed, pc>> /\ pc[s] \notin Before
    BY <1>13 DEF Ask, Begun, Before
  <2>2. CASE s = A
    BY <2>1, <2>2, FirstNext, Frames
  <2>3. CASE s = B
    <3>1. inbox'[B] = inbox[B]
      BY <2>1, <2>3, Sends, Frames
    <3> QED BY <2>1, <3>1, FirstSame
  <2> QED BY <2>2, <2>3, Both
<1>14. ASSUME NEW s \in Sides, Cancel(s) PROVE FirstRequest'
  <2>1. inbox'[B] = inbox[B] /\ UNCHANGED closed /\ (pc'[B] = "idle" <=> pc[B] = "idle")
        /\ (pc[A] \in Before => pc'[A] \in Before)
    BY <1>14, Both DEF Cancel, Before, Types, EndType, sendVars
  <2> QED BY <2>1, FirstSame
<1>15. ASSUME NEW s \in Sides, Receive(s) PROVE FirstRequest'
  <2> DEFINE f == inbox[s][1]
  <2>1. inbox[s] # <<>> /\ UNCHANGED closed /\ inbox'[s] = Tail(inbox[s])
    BY <1>15, Hands, Receives DEF Inv
  <2>2. CASE s = A
    <3>1. UNCHANGED pc
      BY <1>15, <2>2, Hands, Both DEF Inv, Opens, Delivers, Credits, Crashes, Misses
    <3>2. inbox'[B] = inbox[B]
      BY <1>15, <2>2, Receives, Both DEF Inv
    <3> QED BY <2>1, <3>1, <3>2, FirstSame
  <2>3. CASE s = B
    <3>1. pc'[B] # "idle"
      BY <1>15, <2>1, <2>3, Hands, Opening DEF Inv, Opens, Delivers, Credits, Crashes, Misses
    <3>2. ASSUME NEW i \in 1..Len(inbox'[B]) PROVE inbox'[B][i].type # "request"
      <4>1. inbox'[B][i] = inbox[B][i + 1] /\ i + 1 \in 1..Len(inbox[B]) /\ i + 1 # 1
        <5>1. inbox[B] # <<>> /\ inbox'[B] = Tail(inbox[B])
          BY <2>1, <2>3
        <5>2. /\ Len(inbox'[B]) = Len(inbox[B]) - 1 /\ Len(inbox[B]) \in Nat
              /\ \A j \in 1..Len(inbox'[B]) : inbox'[B][j] = inbox[B][j + 1]
          BY <5>1, Takes, Both
        <5> QED BY <5>2
      <4> QED BY <4>1 DEF Inv, FirstRequest
    <3> QED BY <3>1, <3>2 DEF FirstRequest
  <2> QED BY <2>2, <2>3, Both
<1>16. ASSUME NEW s \in Sides, Close(s) PROVE FirstRequest'
  <2>1. UNCHANGED pc /\ ~Arrives' /\ (inbox'[B] = inbox[B] \/ inbox'[B] = <<>>)
    BY <1>16, Both DEF Close, Arrives, Types, EndType, WireType
  <2> QED BY <2>1, Nothing DEF Inv, FirstRequest
<1>17. ASSUME UNCHANGED vars PROVE FirstRequest'
  <2>1. inbox'[B] = inbox[B] /\ UNCHANGED closed /\ (pc'[B] = "idle" <=> pc[B] = "idle")
        /\ (pc[A] \in Before => pc'[A] \in Before)
    BY <1>17, Both DEF Before, Types, EndType, recvVars, sendVars, vars
  <2> QED BY <2>1, FirstSame
<1> QED BY <1>1, <1>2, <1>3, <1>4, <1>5, <1>6, <1>7, <1>8, <1>9, <1>10, <1>11, <1>12, <1>13, <1>14, <1>15,
       <1>16, <1>17 DEF Next, Requester, Responder

\* A CANCEL is sent by a responder whose subscriber has cancelled.
Uncancelled ==
  \/ inbox'[A] = inbox[A]
  \/ inbox'[A] = <<>>
  \/ inbox[A] # <<>> /\ inbox'[A] = Tail(inbox[A])
  \/ \E f \in Frame : inbox'[A] = Append(inbox[A], f) /\ (f.type = "cancel" => sink'[B] = "cancel")
StaysCancelled ==
  /\ sink[B] = "cancel" => sink'[B] = "cancel"
  /\ crashed' => crashed \/ \E i \in 1..Len(inbox[A]) : inbox[A][i].type = "cancel"

LEMMA SendsNoCancel ==
  ASSUME Types, NEW s \in Sides, NEW f \in Frame, f.type = "cancel" => sink'[B] = "cancel", Send(s, f)
  PROVE  Uncancelled
<1>1. CASE s = A
  BY <1>1, Sends DEF Uncancelled
<1>2. CASE s = B
  <2>0. Other(s) = A
    BY <1>2, Both
  <2>1. inbox'[A] = inbox[A] \/ inbox'[A] = Append(inbox[A], f)
    BY <2>0, Sends
  <2> QED BY <2>1 DEF Uncancelled
<1> QED BY <1>1, <1>2, Both

LEMMA CancelsKept ==
  ASSUME Types, Inv, StaysCancelled, Uncancelled
  PROVE  Cancels'
<1> USE DEF StaysCancelled, Uncancelled
<1> SUFFICES ASSUME crashed' \/ \E i \in 1..Len(inbox'[A]) : inbox'[A][i].type = "cancel"
             PROVE  sink'[B] = "cancel"
  BY DEF Cancels
<1>0. inbox[A] \in Seq(Frame)
  BY Both DEF Types, WireType
<1>1. CASE crashed'
  BY <1>1 DEF Inv, Cancels
<1>2. ASSUME NEW i \in 1..Len(inbox'[A]), inbox'[A][i].type = "cancel" PROVE sink'[B] = "cancel"
  <2>1. CASE inbox'[A] = inbox[A]
    BY <1>2, <2>1 DEF Inv, Cancels
  <2>2. CASE inbox'[A] = <<>>
    BY <1>2, <2>2, Nothing
  <2>3. CASE inbox[A] # <<>> /\ inbox'[A] = Tail(inbox[A])
    <3>1. inbox'[A][i] = inbox[A][i + 1] /\ i + 1 \in 1..Len(inbox[A])
      BY <1>0, <2>3, Rest
    <3> QED BY <1>2, <3>1 DEF Inv, Cancels
  <2>4. CASE \E f \in Frame : inbox'[A] = Append(inbox[A], f) /\ (f.type = "cancel" => sink'[B] = "cancel")
    <3>1. PICK f \in Frame : inbox'[A] = Append(inbox[A], f) /\ (f.type = "cancel" => sink'[B] = "cancel")
      BY <2>4
    <3>2. (i \in 1..Len(inbox[A]) /\ inbox'[A][i] = inbox[A][i]) \/ inbox'[A][i] = f
      BY <1>0, <3>1, AtEnd
    <3> QED BY <1>2, <3>1, <3>2 DEF Inv, Cancels
  <2> QED BY <2>1, <2>2, <2>3, <2>4
<1> QED BY <1>1, <1>2

LEMMA CancelsStep ==
  ASSUME Types, Inv, [Next]_vars
  PROVE  Cancels'
<1>1. ASSUME Call PROVE Cancels'
  <2>1. inbox'[A] = inbox[A] /\ UNCHANGED crashed /\ (sink[B] = "cancel" => sink'[B] = "cancel")
    BY <1>1, Both DEF Call, Goto, Types, EndType, recvVars, sendVars
  <2>2. StaysCancelled /\ Uncancelled
    BY <2>1 DEF StaysCancelled, Uncancelled
  <2> QED BY <2>2, CancelsKept
<1>2. ASSUME Request PROVE Cancels'
  <2>1. Send(A, F("request", 1)) /\ UNCHANGED <<sink, crashed>>
    BY <1>2, EndsWith, Both DEF Request, sendVars
  <2>2. Uncancelled
    BY <2>1, SendsNoCancel, Frames, Both DEF Uncancelled
  <2>3. StaysCancelled
    BY <2>1 DEF StaysCancelled
  <2> QED BY <2>2, <2>3, CancelsKept
<1>3. ASSUME OnSubscribeA PROVE Cancels'
  <2>1. inbox'[A] = inbox[A] /\ UNCHANGED crashed /\ (sink[B] = "cancel" => sink'[B] = "cancel")
    BY <1>3, Both DEF OnSubscribeA, Goto, Types, EndType, recvVars
  <2>2. StaysCancelled /\ Uncancelled
    BY <2>1 DEF StaysCancelled, Uncancelled
  <2> QED BY <2>2, CancelsKept
<1>4. ASSUME OnSubscribeDoneA PROVE Cancels'
  <2>1. Send(A, F("error", 0)) /\ UNCHANGED <<sink, crashed>>
    BY <1>4, EndsWith, Both DEF OnSubscribeDoneA, recvVars, sendVars
  <2>2. Uncancelled
    BY <2>1, SendsNoCancel, Frames, Both DEF Uncancelled
  <2>3. StaysCancelled
    BY <2>1 DEF StaysCancelled
  <2> QED BY <2>2, <2>3, CancelsKept
<1>5. ASSUME EmitA PROVE Cancels'
  <2>1. Send(A, F("next", sent[A] + 1)) /\ UNCHANGED <<sink, crashed>>
    BY <1>5, EndsWith, Both DEF EmitA, recvVars
  <2>2. Uncancelled
    BY <2>1, SendsNoCancel, Frames, Both DEF Uncancelled
  <2>3. StaysCancelled
    BY <2>1 DEF StaysCancelled
  <2> QED BY <2>2, <2>3, CancelsKept
<1>6. ASSUME EndA PROVE Cancels'
  <2>1. (Send(A, F("complete", 0)) \/ Send(A, F("error", 0))) /\ UNCHANGED <<sink, crashed>>
    BY <1>6, EndsWith, Both DEF EndA, recvVars, sendVars
  <2>2. Uncancelled
    BY <2>1, SendsNoCancel, Frames, Both DEF Uncancelled
  <2>3. StaysCancelled
    BY <2>1 DEF StaysCancelled
  <2> QED BY <2>2, <2>3, CancelsKept
<1>7. ASSUME FinallyA PROVE Cancels'
  <2>1. inbox'[A] = inbox[A] /\ UNCHANGED crashed /\ (sink[B] = "cancel" => sink'[B] = "cancel")
    BY <1>7, Both DEF FinallyA, Types, EndType, sendVars
  <2>2. StaysCancelled /\ Uncancelled
    BY <2>1 DEF StaysCancelled, Uncancelled
  <2> QED BY <2>2, CancelsKept
<1>8. ASSUME OnSubscribeB PROVE Cancels'
  <2>1. inbox'[A] = inbox[A] /\ UNCHANGED crashed /\ (sink[B] = "cancel" => sink'[B] = "cancel")
    BY <1>8, Both DEF OnSubscribeB, Goto, Types, EndType, recvVars, sendVars
  <2>2. StaysCancelled /\ Uncancelled
    BY <2>1 DEF StaysCancelled, Uncancelled
  <2> QED BY <2>2, CancelsKept
<1>9. ASSUME OnSubscribeDoneB PROVE Cancels'
  <2>1. Send(B, F("error", 0)) /\ UNCHANGED <<sink, crashed>>
    BY <1>9, EndsWith, Both DEF OnSubscribeDoneB, recvVars, sendVars
  <2>2. Uncancelled
    BY <2>1, SendsNoCancel, Frames, Both DEF Uncancelled
  <2>3. StaysCancelled
    BY <2>1 DEF StaysCancelled
  <2> QED BY <2>2, <2>3, CancelsKept
<1>10. ASSUME EmitB PROVE Cancels'
  <2>1. (Send(B, F("next", sent[B] + 1)) \/ Send(B, F("final", sent[B] + 1))) /\ UNCHANGED <<sink, crashed>>
    BY <1>10, EndsWith, Both DEF EmitB, recvVars
  <2>2. Uncancelled
    BY <2>1, SendsNoCancel, Frames, Both DEF Uncancelled
  <2>3. StaysCancelled
    BY <2>1 DEF StaysCancelled
  <2> QED BY <2>2, <2>3, CancelsKept
<1>11. ASSUME EndB PROVE Cancels'
  <2>1. (UNCHANGED inbox \/ Send(B, F("complete", 0)) \/ Send(B, F("error", 0))) /\ UNCHANGED <<sink, crashed>>
    BY <1>11, EndsWith, Both DEF EndB, recvVars, sendVars
  <2>2. Uncancelled
    BY <2>1, SendsNoCancel, Frames, Both DEF Uncancelled
  <2>3. StaysCancelled
    BY <2>1 DEF StaysCancelled
  <2> QED BY <2>2, <2>3, CancelsKept
<1>12. ASSUME FinallyB PROVE Cancels'
  <2>1. UNCHANGED <<sink, crashed>>
    BY <1>12 DEF FinallyB
  <2>2. ASSUME sink[B] = "cancel" PROVE Uncancelled
    <3>1. Send(B, F("cancel", 0)) /\ sink'[B] = "cancel"
      BY <1>12, <2>1, <2>2 DEF FinallyB
    <3> QED BY <3>1, SendsNoCancel, Frames, Both
  <2>3. ASSUME sink[B] # "cancel" PROVE Uncancelled
    BY <1>12, <2>3 DEF FinallyB, Uncancelled
  <2>4. Uncancelled
    BY <2>2, <2>3
  <2>5. StaysCancelled
    BY <2>1 DEF StaysCancelled
  <2> QED BY <2>4, <2>5, CancelsKept
<1>13. ASSUME NEW s \in Sides, Ask(s) PROVE Cancels'
  <2>1. Send(s, F("requestN", 1)) /\ UNCHANGED <<sink, crashed>>
    BY <1>13 DEF Ask
  <2>2. Uncancelled
    BY <2>1, SendsNoCancel, Frames
  <2>3. StaysCancelled
    BY <2>1 DEF StaysCancelled
  <2> QED BY <2>2, <2>3, CancelsKept
<1>14. ASSUME NEW s \in Sides, Cancel(s) PROVE Cancels'
  <2>1. inbox'[A] = inbox[A] /\ UNCHANGED crashed /\ (sink[B] = "cancel" => sink'[B] = "cancel")
    BY <1>14, Both DEF Cancel, Terminate, Types, EndType, sendVars
  <2>2. StaysCancelled /\ Uncancelled
    BY <2>1 DEF StaysCancelled, Uncancelled
  <2> QED BY <2>2, CancelsKept
<1>15. ASSUME NEW s \in Sides, Receive(s) PROVE Cancels'
  <2> DEFINE f == inbox[s][1]
  <2>1. inbox[s] # <<>> /\ inbox'[s] = Tail(inbox[s])
    BY <1>15, Receives DEF Inv
  <2>2. s = B \/ s = A
    BY Both
  <2>3. \/ inbox'[A] = inbox[A]
        \/ inbox[A] # <<>> /\ inbox'[A] = Tail(inbox[A])
        \/ \E g \in Frame : inbox'[A] = Append(inbox[A], g) /\ g.type # "cancel"
    <3>1. CASE s = A
      BY <2>1, <3>1
    <3>2. CASE s = B
      <4>1. inbox'[A] = inbox[A] \/ inbox'[A] = Append(inbox[A], F("error", 0))
        BY <1>15, <3>2, Receives, Both DEF Inv
      <4> QED BY <4>1, Frames
    <3> QED BY <2>2, <3>1, <3>2
  <2>4. sink[B] = "cancel" => sink'[B] = "cancel"
    <3>1. CASE Delivers(s, f)
      BY <3>1, Both DEF Delivers, Deliver, Terminate, Types, EndType
    <3> QED BY <1>15, <3>1, Hands DEF Inv, Opens, Credits, Crashes, Misses
  <2>5. crashed' => crashed \/ \E i \in 1..Len(inbox[A]) : inbox[A][i].type = "cancel"
    <3>1. CASE Crashes(s, f)
      <4>1. 1 \in 1..Len(inbox[s])
        BY <2>1, Takes
      <4>2. Proper(s, f, sent[Other(s)])
        BY <4>1 DEF Inv, Framed
      <4>3. s = A
        BY <2>2, <3>1, <4>2, Both DEF Crashes, Proper, FramesOf
      <4> QED BY <3>1, <4>1, <4>3 DEF Crashes
    <3>2. CASE ~Crashes(s, f)
      BY <1>15, <3>2, Hands DEF Inv, Opens, Delivers, Credits, Misses
    <3> QED BY <3>1, <3>2
  <2>6. Uncancelled
    BY <2>3 DEF Uncancelled
  <2>7. StaysCancelled
    BY <2>4, <2>5 DEF StaysCancelled
  <2> QED BY <2>6, <2>7, CancelsKept
<1>16. ASSUME NEW s \in Sides, Close(s) PROVE Cancels'
  <2>1. UNCHANGED crashed /\ (inbox'[A] = inbox[A] \/ inbox'[A] = <<>>)
        /\ (sink[B] = "cancel" => sink'[B] = "cancel")
    BY <1>16, Both DEF Close, Terminate, Types, EndType, WireType
  <2>2. StaysCancelled /\ Uncancelled
    BY <2>1 DEF StaysCancelled, Uncancelled
  <2> QED BY <2>2, CancelsKept
<1>17. ASSUME UNCHANGED vars PROVE Cancels'
  <2>1. inbox'[A] = inbox[A] /\ UNCHANGED crashed /\ (sink[B] = "cancel" => sink'[B] = "cancel")
    BY <1>17, Both DEF Types, EndType, recvVars, sendVars, vars
  <2>2. StaysCancelled /\ Uncancelled
    BY <2>1 DEF StaysCancelled, Uncancelled
  <2> QED BY <2>2, CancelsKept
<1> QED BY <1>1, <1>2, <1>3, <1>4, <1>5, <1>6, <1>7, <1>8, <1>9, <1>10, <1>11, <1>12, <1>13, <1>14, <1>15,
       <1>16, <1>17 DEF Next, Requester, Responder

\* What a step does to the counts of both sides.

----------------------------------------------------------------------------
(* Demand and items are counted                                              *)

LEMMA FitQuiet ==
  ASSUME Types, NEW K,
         NEW lo \in [Sides -> Nat], NEW hi \in [Sides -> Nat], AllFit(inbox, K, lo, hi),
         NEW lo2 \in [Sides -> Nat], NEW hi2 \in [Sides -> Nat],
         \A t \in Sides : lo2[t] <= lo[t] /\ hi[t] <= hi2[t],
         \A t \in Sides : inbox'[t] = inbox[t] \/ inbox'[t] = <<>>
  PROVE  AllFit(inbox', K, lo2, hi2)
<1> SUFFICES ASSUME NEW t \in Sides PROVE Fits(inbox'[t], K, lo2[t], hi2[t])
  BY DEF AllFit
<1>1. lo[t] \in Nat /\ hi[t] \in Nat /\ lo2[t] \in Nat /\ hi2[t] \in Nat /\ inbox[t] \in Seq(Frame)
      /\ lo2[t] <= lo[t] /\ hi[t] <= hi2[t] /\ Fits(inbox[t], K, lo[t], hi[t])
  BY DEF AllFit, Types, WireType
<1>2. CASE inbox'[t] = inbox[t]
  BY <1>1, <1>2, FitsWider
<1>3. CASE inbox'[t] = <<>>
  <2>1. lo2[t] <= hi2[t]
    BY <1>1, FitsBetween
  <2> QED BY <1>1, <1>3, <2>1, FitsNone
<1> QED BY <1>2, <1>3

LEMMA FitSend ==
  ASSUME Types, NEW K,
         NEW lo \in [Sides -> Nat], NEW hi \in [Sides -> Nat], AllFit(inbox, K, lo, hi),
         NEW lo2 \in [Sides -> Nat], NEW hi2 \in [Sides -> Nat],
         NEW s \in Sides, NEW f \in Frame, Send(s, f),
         \A t \in Sides : lo2[t] <= lo[t] /\ hi[t] <= hi2[t],
         hi[Other(s)] + Ones(f, K) <= hi2[Other(s)]
  PROVE  AllFit(inbox', K, lo2, hi2)
<1> DEFINE t == Other(s)
<1>1. inbox'[s] = inbox[s] /\ (inbox'[t] = inbox[t] \/ inbox'[t] = Append(inbox[t], f))
  BY Sends
<1>2. CASE inbox'[t] = inbox[t]
  <2>1. \A u \in Sides : inbox'[u] = inbox[u]
    BY <1>1, <1>2, Both
  <2> QED BY <2>1, FitQuiet
<1>3. CASE inbox'[t] = Append(inbox[t], f)
  <2>1. lo[t] \in Nat /\ hi[t] \in Nat /\ lo2[t] \in Nat /\ hi2[t] \in Nat /\ inbox[t] \in Seq(Frame)
        /\ lo2[t] <= lo[t] /\ Fits(inbox[t], K, lo[t], hi[t]) /\ Ones(f, K) \in Nat
    <3>1. t \in Sides
      BY Both
    <3>2. Ones(f, K) \in Nat
      BY OneOrNone
    <3> QED BY <3>1, <3>2 DEF AllFit, Types, WireType
  <2>2. Fits(inbox'[t], K, lo[t], hi[t] + Ones(f, K)) /\ inbox'[t] \in Seq(Frame)
    BY <1>3, <2>1, FitsAppend, AtEnd
  <2>3. Fits(inbox'[t], K, lo2[t], hi2[t])
    <3> DEFINE h == hi[t] + Ones(f, K)
    <3>1. h \in Nat /\ h <= hi2[t] /\ Fits(inbox'[t], K, lo[t], h)
      BY <2>1, <2>2
    <3> HIDE DEF h
    <3> QED BY <2>1, <2>2, <3>1, FitsWider
  <2>4. Fits(inbox'[s], K, lo2[s], hi2[s])
    <3>1. lo[s] \in Nat /\ hi[s] \in Nat /\ lo2[s] \in Nat /\ hi2[s] \in Nat /\ inbox[s] \in Seq(Frame)
          /\ lo2[s] <= lo[s] /\ hi[s] <= hi2[s] /\ Fits(inbox[s], K, lo[s], hi[s])
      BY DEF AllFit, Types, WireType
    <3> QED BY <1>1, <3>1, FitsWider
  <2>5. \A u \in Sides : u = s \/ u = t
    BY Both
  <2> QED BY <2>3, <2>4, <2>5 DEF AllFit
<1> QED BY <1>1, <1>2, <1>3

LEMMA FitTake ==
  ASSUME Types, NEW K,
         NEW lo \in [Sides -> Nat], NEW hi \in [Sides -> Nat], AllFit(inbox, K, lo, hi),
         NEW lo2 \in [Sides -> Nat],
         NEW s \in Sides, inbox[s] # <<>>, inbox'[s] = Tail(inbox[s]),
         lo2[s] <= lo[s] + Ones(inbox[s][1], K), lo2[Other(s)] <= lo[Other(s)],
         \/ inbox'[Other(s)] = inbox[Other(s)]
         \/ \E f \in Frame : inbox'[Other(s)] = Append(inbox[Other(s)], f) /\ Ones(f, K) = 0
  PROVE  AllFit(inbox', K, lo2, hi)
<1> DEFINE t == Other(s)
<1>1. \A u \in Sides : lo[u] \in Nat /\ hi[u] \in Nat /\ lo2[u] \in Nat /\ inbox[u] \in Seq(Frame)
                       /\ Fits(inbox[u], K, lo[u], hi[u])
  BY DEF AllFit, Types, WireType
<1>2. Fits(inbox'[s], K, lo2[s], hi[s])
  <2> DEFINE l == lo[s] + Ones(inbox[s][1], K)
  <2>1. l \in Nat /\ lo2[s] <= l
    BY <1>1, OneOrNone
  <2>2. Fits(inbox'[s], K, l, hi[s]) /\ inbox'[s] \in Seq(Frame)
    BY <1>1, FitsTail, Rest
  <2>3. hi[s] \in Nat /\ lo2[s] \in Nat /\ hi[s] <= hi[s]
    BY <1>1
  <2> HIDE DEF l
  <2> QED BY <2>1, <2>2, <2>3, FitsWider
<1>3. Fits(inbox'[t], K, lo2[t], hi[t])
  <2>0. t \in Sides /\ lo2[t] <= lo[t]
    BY Both
  <2>1. CASE inbox'[t] = inbox[t]
    BY <1>1, <2>0, <2>1, FitsWider
  <2>2. ASSUME NEW f \in Frame, inbox'[t] = Append(inbox[t], f), Ones(f, K) = 0
        PROVE Fits(inbox'[t], K, lo2[t], hi[t])
    <3>1. Fits(inbox'[t], K, lo[t], hi[t] + 0) /\ inbox'[t] \in Seq(Frame)
      BY <1>1, <2>0, <2>2, FitsAppend, AtEnd
    <3>2. hi[t] + 0 = hi[t]
      BY <1>1, <2>0
    <3> QED BY <1>1, <2>0, <3>1, <3>2, FitsWider
  <2> QED BY <2>1, <2>2
<1>4. \A u \in Sides : u = s \/ u = t
  BY Both
<1> QED BY <1>2, <1>3, <1>4 DEF AllFit

\* What the frames count for.
LEMMA Weights ==
  ASSUME Types
  PROVE  /\ Ones(F("request", 1), Demands) = 1 /\ Ones(F("request", 1), Items) = 0
         /\ Ones(F("requestN", 1), Demands) = 1 /\ Ones(F("requestN", 1), Items) = 0
         /\ Ones(F("error", 0), Demands) = 0 /\ Ones(F("error", 0), Items) = 0
         /\ Ones(F("complete", 0), Demands) = 0 /\ Ones(F("complete", 0), Items) = 0
         /\ Ones(F("cancel", 0), Demands) = 0 /\ Ones(F("cancel", 0), Items) = 0
         /\ \A s \in Sides : /\ Ones(F("next", sent[s] + 1), Demands) = 0
            /\ Ones(F("next", sent[s] + 1), Items) = 1
                             /\ Ones(F("final", sent[s] + 1), Demands) = 0
                                /\ Ones(F("final", sent[s] + 1), Items) = 1
  BY Frames DEF Ones, Demands, Items

LEMMA Counters ==
  ASSUME Types
  PROVE  /\ Due \in [Sides -> Nat] /\ Limit \in [Sides -> Nat] /\ Had \in [Sides -> Nat]
            /\ Most \in [Sides -> Nat]
         /\ Due[A] = credit[A] + Unused /\ Due[B] = credit[B] /\ Unused \in 0..1 /\ credit[A] \in Nat
            /\ credit[B] \in Nat
         /\ Limit[A] = asked[B] + 1 /\ Limit[B] = asked[A] /\ asked[A] \in Nat /\ asked[B] \in Nat
         /\ \A s \in Sides : Had[s] = Len(got[s]) /\ Most[s] = sent[Other(s)] /\ Had[s] \in Nat
            /\ sent[s] \in Nat
<1>1. Unused \in 0..1
  BY DEF Unused
<1>2. \A s \in Sides : credit[s] \in Nat /\ asked[s] \in Nat /\ sent[s] \in Nat /\ Len(got[s]) \in Nat
  BY DEF Types, CountType, WireType
<1>3. \A s \in Sides : (credit[s] + IF s = A THEN Unused ELSE 0) \in Nat
  BY <1>1, <1>2
<1> HIDE DEF Unused
<1>4. Due \in [Sides -> Nat] /\ Due[A] = credit[A] + Unused /\ Due[B] = credit[B]
  BY <1>2, <1>3, Both DEF Due
<1>5. Limit \in [Sides -> Nat] /\ Limit[A] = asked[B] + 1 /\ Limit[B] = asked[A]
  BY <1>2, Both DEF Limit
<1>6. Had \in [Sides -> Nat] /\ Most \in [Sides -> Nat]
      /\ \A s \in Sides : Had[s] = Len(got[s]) /\ Most[s] = sent[Other(s)]
  BY <1>2, Both DEF Had, Most
<1> QED BY <1>1, <1>2, <1>4, <1>5, <1>6, Both
LEMMA CountersNext ==
  ASSUME Types'
  PROVE  /\ Due' \in [Sides -> Nat] /\ Limit' \in [Sides -> Nat] /\ Had' \in [Sides -> Nat]
            /\ Most' \in [Sides -> Nat]
         /\ Due'[A] = credit'[A] + Unused' /\ Due'[B] = credit'[B] /\ Unused' \in 0..1 /\ credit'[A] \in Nat
            /\ credit'[B] \in Nat
         /\ Limit'[A] = asked'[B] + 1 /\ Limit'[B] = asked'[A] /\ asked'[A] \in Nat /\ asked'[B] \in Nat
         /\ \A s \in Sides : Had'[s] = Len(got'[s]) /\ Most'[s] = sent'[Other(s)] /\ Had'[s] \in Nat
            /\ sent'[s] \in Nat
<1>1. Unused' \in 0..1
  BY DEF Unused
<1>2. \A s \in Sides : credit'[s] \in Nat /\ asked'[s] \in Nat /\ sent'[s] \in Nat /\ Len(got'[s]) \in Nat
  BY DEF Types, CountType, WireType
<1>3. \A s \in Sides : (credit'[s] + IF s = A THEN Unused' ELSE 0) \in Nat
  BY <1>1, <1>2
<1>4. Due' \in [Sides -> Nat] /\ Due'[A] = credit'[A] + Unused' /\ Due'[B] = credit'[B]
  BY <1>2, <1>3, Both DEF Due
<1>5. Limit' \in [Sides -> Nat] /\ Limit'[A] = asked'[B] + 1 /\ Limit'[B] = asked'[A]
  BY <1>2, Both DEF Limit
<1>6. Had' \in [Sides -> Nat] /\ Most' \in [Sides -> Nat]
      /\ \A s \in Sides : Had'[s] = Len(got'[s]) /\ Most'[s] = sent'[Other(s)]
  BY <1>2, Both DEF Had, Most
<1> QED BY <1>1, <1>2, <1>4, <1>5, <1>6, Both

LEMMA DueKept ==
  ASSUME Types, Types', credit'[A] + Unused' <= credit[A] + Unused, credit'[B] <= credit[B],
         asked[A] <= asked'[A], asked[B] <= asked'[B]
  PROVE  \A t \in Sides : Due'[t] <= Due[t] /\ Limit[t] <= Limit'[t]
<1>1. Due'[A] <= Due[A] /\ Limit[A] <= Limit'[A]
  BY Counters, CountersNext
<1>2. Due'[B] <= Due[B] /\ Limit[B] <= Limit'[B]
  BY Counters, CountersNext
<1> QED BY <1>1, <1>2, Both

LEMMA OwedQuiet ==
  ASSUME Types, Types', Inv, credit'[A] + Unused' <= credit[A] + Unused, credit'[B] <= credit[B],
         asked[A] <= asked'[A], asked[B] <= asked'[B],
         \A t \in Sides : inbox'[t] = inbox[t] \/ inbox'[t] = <<>>
  PROVE  Owed'
<1>1. Due \in [Sides -> Nat] /\ Limit \in [Sides -> Nat] /\ Due' \in [Sides -> Nat] /\ Limit' \in [Sides -> Nat]
  BY Counters, CountersNext
<1>2. AllFit(inbox, Demands, Due, Limit)
  BY DEF Inv, Owed
<1>3. \A t \in Sides : Due'[t] <= Due[t] /\ Limit[t] <= Limit'[t]
  BY DueKept
<1>4. AllFit(inbox', Demands, Due', Limit')
  BY <1>1, <1>2, <1>3, FitQuiet
<1> QED BY <1>4 DEF Owed

LEMMA OwedSend ==
  ASSUME Types, Types', Inv, credit'[A] + Unused' <= credit[A] + Unused, credit'[B] <= credit[B],
         asked[A] <= asked'[A], asked[B] <= asked'[B],
         NEW s \in Sides, NEW f \in Frame, Send(s, f), asked[s] + Ones(f, Demands) <= asked'[s]
  PROVE  Owed'
<1>1. Due \in [Sides -> Nat] /\ Limit \in [Sides -> Nat] /\ Due' \in [Sides -> Nat] /\ Limit' \in [Sides -> Nat]
  BY Counters, CountersNext
<1>2. AllFit(inbox, Demands, Due, Limit)
  BY DEF Inv, Owed
<1>3. \A t \in Sides : Due'[t] <= Due[t] /\ Limit[t] <= Limit'[t]
  BY DueKept
<1>4. Limit[Other(s)] + Ones(f, Demands) <= Limit'[Other(s)]
  <2>0. Ones(f, Demands) \in 0..1
    BY OneOrNone
  <2>1. CASE s = A
    BY <2>0, <2>1, Counters, CountersNext, Both
  <2>2. CASE s = B
    <3>1. Other(s) = A /\ asked[B] + Ones(f, Demands) <= asked'[B]
      BY <2>2, Both
    <3>2. Limit[A] = asked[B] + 1 /\ Limit'[A] = asked'[B] + 1 /\ asked[B] \in Nat /\ asked'[B] \in Nat
      BY Counters, CountersNext
    <3> QED BY <2>0, <3>1, <3>2
  <2> QED BY <2>1, <2>2, Both
<1>5. AllFit(inbox', Demands, Due', Limit')
  BY <1>1, <1>2, <1>3, <1>4, FitSend
<1> QED BY <1>5 DEF Owed

LEMMA OwedStep ==
  ASSUME Types, Types', Inv, [Next]_vars
  PROVE  Owed'
<1>1. ASSUME Call PROVE Owed'
  <2>1. /\ credit'[A] + Unused' <= credit[A] + Unused /\ credit'[B] <= credit[B]
        /\ asked[A] <= asked'[A] /\ asked[B] <= asked'[B]
    BY <1>1, Both DEF Call, Unused, Before, Goto, Inv, StartA, Types, EndType, CountType, recvVars, sendVars
  <2>2. \A t \in Sides : inbox'[t] = inbox[t] \/ inbox'[t] = <<>>
    BY <1>1, Both DEF Call, Types, WireType, recvVars, sendVars
  <2> QED BY <2>1, <2>2, OwedQuiet
<1>2. ASSUME Request PROVE Owed'
  <2>1. /\ UNCHANGED credit /\ pc[A] = "returned" /\ asked[A] = 0 /\ asked'[A] = 1 /\ asked'[B] = asked[B]
        /\ pc'[A] \in {"refused", "subscribing"} /\ Send(A, F("request", 1))
    BY <1>2, Both DEF Request, Goto, Inv, StartA, Types, EndType, CountType, sendVars
  <2>2. Unused' = 1 /\ Unused = 1
    BY <2>1 DEF Unused, Before
  <2>3. credit[A] \in Nat /\ credit[B] \in Nat /\ asked[B] \in Nat
    BY Counters
  <2>4. credit'[A] + Unused' <= credit[A] + Unused /\ credit'[B] <= credit[B]
        /\ asked[A] <= asked'[A] /\ asked[B] <= asked'[B] /\ asked[A] + 1 <= asked'[A]
    BY <2>1, <2>2, <2>3
  <2> QED BY <2>1, <2>4, OwedSend, Frames, Weights, Both
<1>3. ASSUME OnSubscribeA PROVE Owed'
  <2>1. /\ credit'[A] + Unused' <= credit[A] + Unused /\ credit'[B] <= credit[B]
        /\ asked[A] <= asked'[A] /\ asked[B] <= asked'[B]
    BY <1>3, Both DEF OnSubscribeA, Unused, Before, Goto, Inv, StartA, Types, EndType, CountType, recvVars
  <2>2. \A t \in Sides : inbox'[t] = inbox[t] \/ inbox'[t] = <<>>
    BY <1>3, Both DEF OnSubscribeA, Types, WireType, recvVars
  <2> QED BY <2>1, <2>2, OwedQuiet
<1>4. ASSUME OnSubscribeDoneA PROVE Owed'
  <2>1. /\ credit'[A] + Unused' <= credit[A] + Unused /\ credit'[B] <= credit[B]
        /\ UNCHANGED asked /\ asked[A] \in Nat /\ asked[B] \in Nat
    BY <1>4, Both DEF OnSubscribeDoneA, Unused, Before, Goto, Inv, StartA, Types, EndType, CountType,
           recvVars, sendVars
  <2>2. Send(A, F("error", 0))
    BY <1>4, EndsWith, Both DEF OnSubscribeDoneA
  <2>3. asked[A] <= asked'[A] /\ asked[B] <= asked'[B] /\ asked[A] + 0 <= asked'[A] /\ asked[B] + 0 <= asked'[B]
    BY <2>1
  <2> QED BY <2>1, <2>2, <2>3, OwedSend, OwedQuiet, Frames, Weights, Both
<1>5. ASSUME EmitA PROVE Owed'
  <2>1. /\ credit'[A] + Unused' <= credit[A] + Unused /\ credit'[B] <= credit[B]
        /\ UNCHANGED asked /\ asked[A] \in Nat /\ asked[B] \in Nat
    BY <1>5, Both DEF EmitA, Unused, Before, Inv, StartA, Types, EndType, CountType, recvVars
  <2>2. Send(A, F("next", sent[A] + 1))
    BY <1>5, EndsWith, Both DEF EmitA
  <2>3. asked[A] <= asked'[A] /\ asked[B] <= asked'[B] /\ asked[A] + 0 <= asked'[A] /\ asked[B] + 0 <= asked'[B]
    BY <2>1
  <2> QED BY <2>1, <2>2, <2>3, OwedSend, OwedQuiet, Frames, Weights, Both
<1>6. ASSUME EndA PROVE Owed'
  <2>1. /\ credit'[A] + Unused' <= credit[A] + Unused /\ credit'[B] <= credit[B]
        /\ UNCHANGED asked /\ asked[A] \in Nat /\ asked[B] \in Nat
    BY <1>6, Both DEF EndA, Unused, Before, Goto, Inv, StartA, Types, EndType, CountType, recvVars, sendVars
  <2>2. (Send(A, F("complete", 0)) \/ Send(A, F("error", 0)))
    BY <1>6, EndsWith, Both DEF EndA
  <2>3. asked[A] <= asked'[A] /\ asked[B] <= asked'[B] /\ asked[A] + 0 <= asked'[A] /\ asked[B] + 0 <= asked'[B]
    BY <2>1
  <2> QED BY <2>1, <2>2, <2>3, OwedSend, OwedQuiet, Frames, Weights, Both
<1>7. ASSUME FinallyA PROVE Owed'
  <2>1. /\ credit'[A] + Unused' <= credit[A] + Unused /\ credit'[B] <= credit[B]
        /\ asked[A] <= asked'[A] /\ asked[B] <= asked'[B]
    BY <1>7, Both DEF FinallyA, Unused, Before, Inv, StartA, Types, EndType, CountType, sendVars
  <2>2. \A t \in Sides : inbox'[t] = inbox[t] \/ inbox'[t] = <<>>
    BY <1>7, Both DEF FinallyA, Types, WireType, sendVars
  <2> QED BY <2>1, <2>2, OwedQuiet
<1>8. ASSUME OnSubscribeB PROVE Owed'
  <2>1. /\ credit'[A] + Unused' <= credit[A] + Unused /\ credit'[B] <= credit[B]
        /\ asked[A] <= asked'[A] /\ asked[B] <= asked'[B]
    BY <1>8, Both DEF OnSubscribeB, Unused, Before, Goto, Inv, StartA, Types, EndType, CountType, recvVars,
           sendVars
  <2>2. \A t \in Sides : inbox'[t] = inbox[t] \/ inbox'[t] = <<>>
    BY <1>8, Both DEF OnSubscribeB, Types, WireType, recvVars, sendVars
  <2> QED BY <2>1, <2>2, OwedQuiet
<1>9. ASSUME OnSubscribeDoneB PROVE Owed'
  <2>1. /\ credit'[A] + Unused' <= credit[A] + Unused /\ credit'[B] <= credit[B]
        /\ UNCHANGED asked /\ asked[A] \in Nat /\ asked[B] \in Nat
    BY <1>9, Both DEF OnSubscribeDoneB, Unused, Before, Goto, Count, Inv, StartA, Types, EndType, CountType,
           recvVars, sendVars
  <2>2. Send(B, F("error", 0))
    BY <1>9, EndsWith, Both DEF OnSubscribeDoneB
  <2>3. asked[A] <= asked'[A] /\ asked[B] <= asked'[B] /\ asked[A] + 0 <= asked'[A] /\ asked[B] + 0 <= asked'[B]
    BY <2>1
  <2> QED BY <2>1, <2>2, <2>3, OwedSend, OwedQuiet, Frames, Weights, Both
<1>10. ASSUME EmitB PROVE Owed'
  <2>1. /\ credit'[A] + Unused' <= credit[A] + Unused /\ credit'[B] <= credit[B]
        /\ UNCHANGED asked /\ asked[A] \in Nat /\ asked[B] \in Nat
    BY <1>10, Both DEF EmitB, Unused, Before, Count, Inv, StartA, Types, EndType, CountType, recvVars
  <2>2. (Send(B, F("next", sent[B] + 1)) \/ Send(B, F("final", sent[B] + 1)))
    BY <1>10, EndsWith, Both DEF EmitB
  <2>3. asked[A] <= asked'[A] /\ asked[B] <= asked'[B] /\ asked[A] + 0 <= asked'[A] /\ asked[B] + 0 <= asked'[B]
    BY <2>1
  <2> QED BY <2>1, <2>2, <2>3, OwedSend, OwedQuiet, Frames, Weights, Both
<1>11. ASSUME EndB PROVE Owed'
  <2>1. /\ credit'[A] + Unused' <= credit[A] + Unused /\ credit'[B] <= credit[B]
        /\ UNCHANGED asked /\ asked[A] \in Nat /\ asked[B] \in Nat
    BY <1>11, Both DEF EndB, Unused, Before, Goto, Count, Inv, StartA, Types, EndType, CountType, recvVars,
           sendVars
  <2>2. (UNCHANGED inbox \/ Send(B, F("complete", 0)) \/ Send(B, F("error", 0)))
    BY <1>11, EndsWith, Both DEF EndB
  <2>3. asked[A] <= asked'[A] /\ asked[B] <= asked'[B] /\ asked[A] + 0 <= asked'[A] /\ asked[B] + 0 <= asked'[B]
    BY <2>1
  <2> QED BY <2>1, <2>2, <2>3, OwedSend, OwedQuiet, Frames, Weights, Both
<1>12. ASSUME FinallyB PROVE Owed'
  <2>1. /\ credit'[A] + Unused' <= credit[A] + Unused /\ credit'[B] <= credit[B]
        /\ UNCHANGED asked /\ asked[A] \in Nat /\ asked[B] \in Nat
    BY <1>12, Both DEF FinallyB, Unused, Before, Count, Inv, StartA, Types, EndType, CountType, sendVars
  <2>2. (UNCHANGED inbox \/ Send(B, F("cancel", 0)))
    BY <1>12, EndsWith, Both DEF FinallyB
  <2>3. asked[A] <= asked'[A] /\ asked[B] <= asked'[B] /\ asked[A] + 0 <= asked'[A] /\ asked[B] + 0 <= asked'[B]
    BY <2>1
  <2> QED BY <2>1, <2>2, <2>3, OwedSend, OwedQuiet, Frames, Weights, Both
<1>13. ASSUME NEW s \in Sides, Ask(s) PROVE Owed'
  <2>1. UNCHANGED <<credit, pc>> /\ Send(s, F("requestN", 1)) /\ asked' = [asked EXCEPT ![s] = asked[s] + 1]
    BY <1>13 DEF Ask, sendVars
  <2>2. credit[A] \in Nat /\ credit[B] \in Nat /\ asked[A] \in Nat /\ asked[B] \in Nat /\ Unused \in 0..1
        /\ Unused' = Unused
    BY <2>1, Counters DEF Unused
  <2>3. asked[s] + 1 <= asked'[s] /\ asked[A] <= asked'[A] /\ asked[B] <= asked'[B]
    BY <2>1, <2>2, Both DEF Types, CountType
  <2>4. credit'[A] + Unused' <= credit[A] + Unused /\ credit'[B] <= credit[B]
    BY <2>1, <2>2
  <2> QED BY <2>1, <2>3, <2>4, OwedSend, Frames, Weights
<1>14. ASSUME NEW s \in Sides, Cancel(s) PROVE Owed'
  <2>1. /\ credit'[A] + Unused' <= credit[A] + Unused /\ credit'[B] <= credit[B]
        /\ asked[A] <= asked'[A] /\ asked[B] <= asked'[B]
    BY <1>14, Both DEF Cancel, Unused, Before, Inv, StartA, Types, EndType, CountType, sendVars
  <2>2. \A t \in Sides : inbox'[t] = inbox[t] \/ inbox'[t] = <<>>
    BY <1>14, Both DEF Cancel, Types, WireType, sendVars
  <2> QED BY <2>1, <2>2, OwedQuiet
<1>15. ASSUME NEW s \in Sides, Receive(s) PROVE Owed'
  <2> DEFINE f == inbox[s][1]
  <2>1. inbox[s] # <<>> /\ inbox'[s] = Tail(inbox[s]) /\ UNCHANGED asked
    BY <1>15, Receives, Hands DEF Inv
  <2>2. \/ inbox'[Other(s)] = inbox[Other(s)]
        \/ \E g \in Frame : inbox'[Other(s)] = Append(inbox[Other(s)], g) /\ Ones(g, Demands) = 0
    <3>1. inbox'[Other(s)] = inbox[Other(s)] \/ inbox'[Other(s)] = Append(inbox[Other(s)], F("error", 0))
      BY <1>15, Receives, Both DEF Inv
    <3>2. F("error", 0) \in Frame /\ Ones(F("error", 0), Demands) = 0
      BY Frames, Weights
    <3> QED BY <3>1, <3>2
  <2>3. Due'[s] <= Due[s] + Ones(f, Demands) /\ Due'[Other(s)] <= Due[Other(s)]
    <3>0. Ones(f, Demands) \in 0..1
      BY OneOrNone
    <3>1. CASE Opens(s, f)
      <4>1. s = B /\ f.n = 1 /\ credit[B] = 0 /\ Ones(f, Demands) = 1
        BY <2>1, <3>1, Opening DEF Opens, Inv, StartB, Ones, Demands
      <4>2. pc'[A] = pc[A] /\ credit'[A] = credit[A] /\ credit'[B] \in {0, 1}
        BY <3>1, <4>1 DEF Opens
      <4>3. Unused' = Unused
        BY <4>2 DEF Unused
      <4>4. Due'[A] = Due[A] /\ Due[B] = 0 /\ Due'[B] \in {0, 1} /\ Due[A] \in Nat
        <5>1. Due'[A] = credit'[A] + Unused' /\ Due'[B] = credit'[B]
          BY CountersNext
        <5>2. Due[A] = credit[A] + Unused /\ Due[B] = credit[B] /\ Due[A] \in Nat
          BY Counters, Both
        <5> QED BY <4>1, <4>2, <4>3, <5>1, <5>2
      <4>5. Other(s) = A
        BY <4>1, Both
      <4> QED BY <4>1, <4>4, <4>5
    <3>2. CASE Credits(s, f)
      <4>1. f.n = 1 /\ Ones(f, Demands) = 1
        <5>1. Proper(s, f, sent[Other(s)])
          BY <2>1, Takes DEF Inv, Framed
        <5> QED BY <3>2, <5>1 DEF Proper, Credits, Ones, Demands
      <4>2. UNCHANGED pc /\ credit'[s] = credit[s] + 1 /\ credit'[Other(s)] = credit[Other(s)]
        BY <3>2, <4>1, Both DEF Credits, Types, CountType
      <4>3. Unused' = Unused
        BY <4>2 DEF Unused
      <4>0. /\ Due[A] = credit[A] + Unused /\ Due[B] = credit[B] /\ Unused \in 0..1 /\ credit[A] \in Nat
            /\ credit[B] \in Nat /\ Due'[A] = credit'[A] + Unused' /\ Due'[B] = credit'[B]
        BY Counters, CountersNext
      <4>4. CASE s = A
        <5>1. credit'[A] = credit[A] + 1 /\ credit'[B] = credit[B] /\ Other(s) = B
          BY <4>2, <4>4, Both
        <5> QED BY <4>0, <4>1, <4>3, <4>4, <5>1
      <4>5. CASE s = B
        <5>1. credit'[B] = credit[B] + 1 /\ credit'[A] = credit[A] /\ Other(s) = A
          BY <4>2, <4>5, Both
        <5> QED BY <4>0, <4>1, <4>3, <4>5, <5>1
      <4> QED BY <4>4, <4>5, Both
    <3>3. CASE UNCHANGED <<pc, credit>>
      <4>1. Unused' = Unused
        BY <3>3 DEF Unused
      <4>2. Due'[A] = Due[A] /\ Due'[B] = Due[B] /\ Due[A] \in Nat /\ Due[B] \in Nat
        BY <3>3, <4>1, Counters, CountersNext, Both
      <4> QED BY <3>0, <4>2, Both
    <3> QED BY <1>15, Hands, <3>1, <3>2, <3>3 DEF Inv, Delivers, Crashes, Misses
  <2>4. Due \in [Sides -> Nat] /\ Limit \in [Sides -> Nat] /\ Due' \in [Sides -> Nat]
    BY Counters, CountersNext
  <2>5. Limit' = Limit
    BY <2>1 DEF Limit
  <2>6. AllFit(inbox, Demands, Due, Limit)
    BY DEF Inv, Owed
  <2>7. AllFit(inbox', Demands, Due', Limit)
    BY <2>1, <2>2, <2>3, <2>4, <2>6, FitTake
  <2> QED BY <2>5, <2>7 DEF Owed
<1>16. ASSUME NEW s \in Sides, Close(s) PROVE Owed'
  <2>1. UNCHANGED <<pc, credit, asked>> /\ \A t \in Sides : inbox'[t] = inbox[t] \/ inbox'[t] = <<>>
    BY <1>16, Both DEF Close, Types, WireType
  <2>2. Unused' = Unused /\ Unused \in Nat /\ credit[A] \in Nat /\ credit[B] \in Nat /\ asked[A] \in Nat
        /\ asked[B] \in Nat
    BY <2>1, Counters DEF Unused
  <2>3. /\ credit'[A] + Unused' <= credit[A] + Unused /\ credit'[B] <= credit[B]
        /\ asked[A] <= asked'[A] /\ asked[B] <= asked'[B]
    BY <2>1, <2>2
  <2> QED BY <2>1, <2>3, OwedQuiet
<1>17. ASSUME UNCHANGED vars PROVE Owed'
  <2>1. /\ credit'[A] + Unused' <= credit[A] + Unused /\ credit'[B] <= credit[B]
        /\ asked[A] <= asked'[A] /\ asked[B] <= asked'[B]
    BY <1>17, Both DEF Unused, Before, Inv, StartA, Types, EndType, CountType, recvVars, sendVars, vars
  <2>2. \A t \in Sides : inbox'[t] = inbox[t] \/ inbox'[t] = <<>>
    BY <1>17, Both DEF Types, WireType, recvVars, sendVars, vars
  <2> QED BY <2>1, <2>2, OwedQuiet
<1> QED BY <1>1, <1>2, <1>3, <1>4, <1>5, <1>6, <1>7, <1>8, <1>9, <1>10, <1>11, <1>12, <1>13, <1>14, <1>15,
       <1>16, <1>17 DEF Next, Requester, Responder

LEMMA PossibleQuiet ==
  ASSUME Types, Types', Inv, UNCHANGED got, \A t \in Sides : sent[t] <= sent'[t],
         \A t \in Sides : inbox'[t] = inbox[t] \/ inbox'[t] = <<>>
  PROVE  Possible'
<1>1. Had \in [Sides -> Nat] /\ Most \in [Sides -> Nat] /\ Had' \in [Sides -> Nat] /\ Most' \in [Sides -> Nat]
  BY Counters, CountersNext
<1>2. AllFit(inbox, Items, Had, Most)
  BY DEF Inv, Possible
<1>3. \A t \in Sides : Had'[t] <= Had[t] /\ Most[t] <= Most'[t]
  <2> TAKE t \in Sides
  <2>1. Other(t) \in Sides
    BY Both
  <2>2. Had'[t] = Had[t] /\ Had[t] \in Nat
    BY Counters, CountersNext
  <2>3. Most[t] = sent[Other(t)] /\ Most'[t] = sent'[Other(t)] /\ sent[Other(t)] <= sent'[Other(t)]
    BY <2>1, Counters, CountersNext
  <2> QED BY <2>2, <2>3
<1>4. AllFit(inbox', Items, Had', Most')
  BY <1>1, <1>2, <1>3, FitQuiet
<1> QED BY <1>4 DEF Possible

LEMMA PossibleSend ==
  ASSUME Types, Types', Inv, UNCHANGED got, \A t \in Sides : sent[t] <= sent'[t],
         NEW s \in Sides, NEW f \in Frame, Send(s, f), sent[s] + Ones(f, Items) <= sent'[s]
  PROVE  Possible'
<1>1. Had \in [Sides -> Nat] /\ Most \in [Sides -> Nat] /\ Had' \in [Sides -> Nat] /\ Most' \in [Sides -> Nat]
  BY Counters, CountersNext
<1>2. AllFit(inbox, Items, Had, Most)
  BY DEF Inv, Possible
<1>3. \A t \in Sides : Had'[t] <= Had[t] /\ Most[t] <= Most'[t]
  <2> TAKE t \in Sides
  <2>1. Other(t) \in Sides
    BY Both
  <2>2. Had'[t] = Had[t] /\ Had[t] \in Nat
    BY Counters, CountersNext
  <2>3. Most[t] = sent[Other(t)] /\ Most'[t] = sent'[Other(t)] /\ sent[Other(t)] <= sent'[Other(t)]
    BY <2>1, Counters, CountersNext
  <2> QED BY <2>2, <2>3
<1>4. Most[Other(s)] + Ones(f, Items) <= Most'[Other(s)]
  <2>1. Other(s) \in Sides /\ Other(Other(s)) = s
    BY Both
  <2>2. Most[Other(s)] = sent[s] /\ Most'[Other(s)] = sent'[s]
    BY <2>1, Counters, CountersNext
  <2> QED BY <2>2
<1>5. AllFit(inbox', Items, Had', Most')
  BY <1>1, <1>2, <1>3, <1>4, FitSend
<1> QED BY <1>5 DEF Possible

LEMMA PossibleStep ==
  ASSUME Types, Types', Inv, [Next]_vars
  PROVE  Possible'
<1>1. ASSUME Call PROVE Possible'
  <2>1. UNCHANGED got
    BY <1>1 DEF Call, recvVars
  <2>2. \A t \in Sides : inbox'[t] = inbox[t] \/ inbox'[t] = <<>>
    BY <1>1, Both DEF Call, Types, WireType, recvVars, sendVars
  <2> QED BY <2>1, <2>2, SentGrows, PossibleQuiet
<1>2. ASSUME Request PROVE Possible'
  <2>1. UNCHANGED <<got, sent>> /\ \A t \in Sides : sent[t] + 0 <= sent'[t]
    <3>1. UNCHANGED <<got, sent>>
      BY <1>2 DEF Request, sendVars
    <3>2. \A t \in Sides : sent[t] \in Nat
      BY Counters
    <3> QED BY <3>1, <3>2
  <2>2. Send(A, F("request", 1))
    BY <1>2, EndsWith, Both DEF Request
  <2> QED BY <2>1, <2>2, SentGrows, PossibleSend, PossibleQuiet, Frames, Weights, Both
<1>3. ASSUME OnSubscribeA PROVE Possible'
  <2>1. UNCHANGED got
    BY <1>3 DEF OnSubscribeA, recvVars
  <2>2. \A t \in Sides : inbox'[t] = inbox[t] \/ inbox'[t] = <<>>
    BY <1>3, Both DEF OnSubscribeA, Types, WireType, recvVars
  <2> QED BY <2>1, <2>2, SentGrows, PossibleQuiet
<1>4. ASSUME OnSubscribeDoneA PROVE Possible'
  <2>1. UNCHANGED <<got, sent>> /\ \A t \in Sides : sent[t] + 0 <= sent'[t]
    <3>1. UNCHANGED <<got, sent>>
      BY <1>4 DEF OnSubscribeDoneA, recvVars, sendVars
    <3>2. \A t \in Sides : sent[t] \in Nat
      BY Counters
    <3> QED BY <3>1, <3>2
  <2>2. Send(A, F("error", 0))
    BY <1>4, EndsWith, Both DEF OnSubscribeDoneA
  <2> QED BY <2>1, <2>2, SentGrows, PossibleSend, PossibleQuiet, Frames, Weights, Both
<1>5. ASSUME EmitA PROVE Possible'
  <2>1. UNCHANGED got /\ sent[A] + 1 <= sent'[A]
    BY <1>5, Both DEF EmitA, recvVars, Types, CountType
  <2>2. Send(A, F("next", sent[A] + 1))
    BY <1>5 DEF EmitA
  <2> QED BY <2>1, <2>2, SentGrows, PossibleSend, Frames, Weights, Both
<1>6. ASSUME EndA PROVE Possible'
  <2>1. UNCHANGED <<got, sent>> /\ \A t \in Sides : sent[t] + 0 <= sent'[t]
    <3>1. UNCHANGED <<got, sent>>
      BY <1>6 DEF EndA, recvVars, sendVars
    <3>2. \A t \in Sides : sent[t] \in Nat
      BY Counters
    <3> QED BY <3>1, <3>2
  <2>2. (Send(A, F("complete", 0)) \/ Send(A, F("error", 0)))
    BY <1>6, EndsWith, Both DEF EndA
  <2> QED BY <2>1, <2>2, SentGrows, PossibleSend, PossibleQuiet, Frames, Weights, Both
<1>7. ASSUME FinallyA PROVE Possible'
  <2>1. UNCHANGED got
    BY <1>7 DEF FinallyA
  <2>2. \A t \in Sides : inbox'[t] = inbox[t] \/ inbox'[t] = <<>>
    BY <1>7, Both DEF FinallyA, Types, WireType, sendVars
  <2> QED BY <2>1, <2>2, SentGrows, PossibleQuiet
<1>8. ASSUME OnSubscribeB PROVE Possible'
  <2>1. UNCHANGED got
    BY <1>8 DEF OnSubscribeB, recvVars
  <2>2. \A t \in Sides : inbox'[t] = inbox[t] \/ inbox'[t] = <<>>
    BY <1>8, Both DEF OnSubscribeB, Types, WireType, recvVars, sendVars
  <2> QED BY <2>1, <2>2, SentGrows, PossibleQuiet
<1>9. ASSUME OnSubscribeDoneB PROVE Possible'
  <2>1. UNCHANGED <<got, sent>> /\ \A t \in Sides : sent[t] + 0 <= sent'[t]
    <3>1. UNCHANGED <<got, sent>>
      BY <1>9 DEF OnSubscribeDoneB, recvVars, sendVars
    <3>2. \A t \in Sides : sent[t] \in Nat
      BY Counters
    <3> QED BY <3>1, <3>2
  <2>2. Send(B, F("error", 0))
    BY <1>9, EndsWith, Both DEF OnSubscribeDoneB
  <2> QED BY <2>1, <2>2, SentGrows, PossibleSend, PossibleQuiet, Frames, Weights, Both
<1>10. ASSUME EmitB PROVE Possible'
  <2>1. UNCHANGED got /\ sent[B] + 1 <= sent'[B]
    BY <1>10, Both DEF EmitB, recvVars, Types, CountType
  <2>2. (Send(B, F("next", sent[B] + 1)) \/ Send(B, F("final", sent[B] + 1)))
    BY <1>10 DEF EmitB
  <2> QED BY <2>1, <2>2, SentGrows, PossibleSend, Frames, Weights, Both
<1>11. ASSUME EndB PROVE Possible'
  <2>1. UNCHANGED <<got, sent>> /\ \A t \in Sides : sent[t] + 0 <= sent'[t]
    <3>1. UNCHANGED <<got, sent>>
      BY <1>11 DEF EndB, recvVars, sendVars
    <3>2. \A t \in Sides : sent[t] \in Nat
      BY Counters
    <3> QED BY <3>1, <3>2
  <2>2. (UNCHANGED inbox \/ Send(B, F("complete", 0)) \/ Send(B, F("error", 0)))
    BY <1>11, EndsWith, Both DEF EndB
  <2> QED BY <2>1, <2>2, SentGrows, PossibleSend, PossibleQuiet, Frames, Weights, Both
<1>12. ASSUME FinallyB PROVE Possible'
  <2>1. UNCHANGED <<got, sent>> /\ \A t \in Sides : sent[t] + 0 <= sent'[t]
    <3>1. UNCHANGED <<got, sent>>
      BY <1>12 DEF FinallyB, sendVars
    <3>2. \A t \in Sides : sent[t] \in Nat
      BY Counters
    <3> QED BY <3>1, <3>2
  <2>2. (UNCHANGED inbox \/ Send(B, F("cancel", 0)))
    BY <1>12, EndsWith, Both DEF FinallyB
  <2> QED BY <2>1, <2>2, SentGrows, PossibleSend, PossibleQuiet, Frames, Weights, Both
<1>13. ASSUME NEW s \in Sides, Ask(s) PROVE Possible'
  <2>1. UNCHANGED <<got, sent>> /\ \A t \in Sides : sent[t] + 0 <= sent'[t]
    <3>1. UNCHANGED <<got, sent>>
      BY <1>13 DEF Ask, sendVars
    <3>2. \A t \in Sides : sent[t] \in Nat
      BY Counters
    <3> QED BY <3>1, <3>2
  <2>2. Send(s, F("requestN", 1))
    BY <1>13, EndsWith, Both DEF Ask
  <2> QED BY <2>1, <2>2, SentGrows, PossibleSend, PossibleQuiet, Frames, Weights, Both
<1>14. ASSUME NEW s \in Sides, Cancel(s) PROVE Possible'
  <2>1. UNCHANGED got
    BY <1>14 DEF Cancel
  <2>2. \A t \in Sides : inbox'[t] = inbox[t] \/ inbox'[t] = <<>>
    BY <1>14, Both DEF Cancel, Types, WireType, sendVars
  <2> QED BY <2>1, <2>2, SentGrows, PossibleQuiet
<1>15. ASSUME NEW s \in Sides, Receive(s) PROVE Possible'
  <2> DEFINE f == inbox[s][1]
  <2>1. inbox[s] # <<>> /\ inbox'[s] = Tail(inbox[s]) /\ UNCHANGED sent
    BY <1>15, Receives, Hands DEF Inv
  <2>2. \/ inbox'[Other(s)] = inbox[Other(s)]
        \/ \E g \in Frame : inbox'[Other(s)] = Append(inbox[Other(s)], g) /\ Ones(g, Items) = 0
    <3>1. inbox'[Other(s)] = inbox[Other(s)] \/ inbox'[Other(s)] = Append(inbox[Other(s)], F("error", 0))
      BY <1>15, Receives, Both DEF Inv
    <3>2. F("error", 0) \in Frame /\ Ones(F("error", 0), Items) = 0
      BY Frames, Weights
    <3> QED BY <3>1, <3>2
  <2>3. Had'[s] <= Had[s] + Ones(f, Items) /\ Had'[Other(s)] <= Had[Other(s)]
    <3>0. Ones(f, Items) \in 0..1
      BY OneOrNone
    <3>1. CASE UNCHANGED got
      <4>1. Had'[s] = Had[s] /\ Had'[Other(s)] = Had[Other(s)] /\ Had[s] \in Nat /\ Had[Other(s)] \in Nat
        <5>1. Other(s) \in Sides
          BY Both
        <5> QED BY <5>1, <3>1, Counters, CountersNext
      <4> QED BY <3>0, <4>1
    <3>2. CASE f.n > 0 /\ got' = [got EXCEPT ![s] = Append(got[s], f.n)]
               /\ f.type \in {"next", "final", "complete", "error"}
      <4>1. Ones(f, Items) = 1 /\ f.n \in Nat
        <5>1. Proper(s, f, sent[Other(s)]) /\ f \in Frame
          BY <2>1, Takes DEF Inv, Framed
        <5> QED BY <3>2, <5>1 DEF Proper, Ones, Items, Demands, Frame
      <4>2. got[s] \in Seq(Nat) /\ got[Other(s)] \in Seq(Nat) /\ got \in [Sides -> Seq(Nat)]
        BY Both DEF Types, WireType
      <4>3. got'[s] = Append(got[s], f.n) /\ got'[Other(s)] = got[Other(s)]
        BY <3>2, <4>2, Both
      <4>4. Len(got'[s]) = Len(got[s]) + 1
        BY <4>1, <4>2, <4>3
      <4>5. Had'[s] = Len(got'[s]) /\ Had[s] = Len(got[s]) /\ Had[s] \in Nat
        BY Counters, CountersNext
      <4>6. Had'[Other(s)] = Had[Other(s)] /\ Had[Other(s)] \in Nat
        <5>1. Other(s) \in Sides
          BY Both
        <5> QED BY <5>1, <4>3, Counters, CountersNext
      <4> QED BY <4>1, <4>4, <4>5, <4>6
    <3>3. CASE Delivers(s, f)
      BY <3>1, <3>2, <3>3 DEF Delivers, Deliver
    <3> QED BY <1>15, Hands, <3>1, <3>3 DEF Inv, Opens, Credits, Crashes, Misses
  <2>4. Had \in [Sides -> Nat] /\ Most \in [Sides -> Nat] /\ Had' \in [Sides -> Nat]
    BY Counters, CountersNext
  <2>5. Most' = Most
    BY <2>1 DEF Most
  <2>6. AllFit(inbox, Items, Had, Most)
    BY DEF Inv, Possible
  <2>7. AllFit(inbox', Items, Had', Most)
    BY <2>1, <2>2, <2>3, <2>4, <2>6, FitTake
  <2> QED BY <2>5, <2>7 DEF Possible
<1>16. ASSUME NEW s \in Sides, Close(s) PROVE Possible'
  <2>1. UNCHANGED got
    BY <1>16 DEF Close
  <2>2. \A t \in Sides : inbox'[t] = inbox[t] \/ inbox'[t] = <<>>
    BY <1>16, Both DEF Close, Types, WireType
  <2> QED BY <2>1, <2>2, SentGrows, PossibleQuiet
<1>17. ASSUME UNCHANGED vars PROVE Possible'
  <2>1. UNCHANGED got
    BY <1>17 DEF recvVars, vars
  <2>2. \A t \in Sides : inbox'[t] = inbox[t] \/ inbox'[t] = <<>>
    BY <1>17, Both DEF Types, WireType, recvVars, sendVars, vars
  <2> QED BY <2>1, <2>2, SentGrows, PossibleQuiet
<1> QED BY <1>1, <1>2, <1>3, <1>4, <1>5, <1>6, <1>7, <1>8, <1>9, <1>10, <1>11, <1>12, <1>13, <1>14, <1>15,
       <1>16, <1>17 DEF Next, Requester, Responder

----------------------------------------------------------------------------
(* Items arrive in order                                                     *)

\* What a step does to what follows the items of a side.
LEMMA FollowsQuiet ==
  ASSUME NEW t \in Sides, Inv, Hears(t)' => Hears(t), UNCHANGED total, got'[t] = got[t],
         inbox'[t] = inbox[t], Arrives' => Arrives /\ sent'[Other(t)] = sent[Other(t)]
  PROVE  Follows(t)'
<1> SUFFICES ASSUME Hears(t)'
             PROVE  \E n \in Nat : /\ Numbered(inbox'[t], Len(got'[t]), n, total'[Other(t)])
                                   /\ Arrives' => n = sent'[Other(t)]
  BY DEF Follows
<1>1. PICK n \in Nat : Numbered(inbox[t], Len(got[t]), n, total[Other(t)]) /\ (Arrives => n = sent[Other(t)])
  BY DEF Inv, InSequence, Follows
<1>2. Numbered(inbox'[t], Len(got'[t]), n, total'[Other(t)])
  BY <1>1
<1>3. Arrives' => n = sent'[Other(t)]
  BY <1>1
<1> QED BY <1>2, <1>3

LEMMA FollowsGone ==
  ASSUME NEW t \in Sides, Types, UNCHANGED total, got'[t] = got[t], inbox'[t] = <<>>, ~Arrives'
  PROVE  Follows(t)'
<1>1. Len(got[t]) \in Nat
  BY DEF Types, WireType
<1>2. Numbered(<<>>, Len(got[t]), Len(got[t]), total[Other(t)])
  BY <1>1, NumberedNone
<1> QED BY <1>1, <1>2 DEF Follows

\* A frame that a side sends is the last of those under way to the other.
Reaches(s, f) ==
  \/ ~Arrives /\ inbox'[Other(s)] = inbox[Other(s)]
  \/ Arrives /\ inbox'[Other(s)] = Append(inbox[Other(s)], f)

LEMMA FollowsSend ==
  ASSUME Types, Inv, NEW s \in Sides, NEW f \in Frame, Reaches(s, f), UNCHANGED <<total, closed>>,
         sent'[s] = sent[s] + Ones(f, Items),
         f.type \in Items => f.n = sent[s] + 1,
         f.type = "final" => sent[s] + 1 = total[s],
         f.type = "complete" => sent[s] = total[s],
         Hears(Other(s))' => Hears(Other(s)), got'[Other(s)] = got[Other(s)]
  PROVE  Follows(Other(s))'
<1> DEFINE t == Other(s)
<1>0. t \in Sides /\ Other(t) = s
  BY Both
<1>1. Arrives' <=> Arrives
  BY DEF Arrives
<1>2. CASE ~Arrives /\ inbox'[t] = inbox[t]
  BY <1>0, <1>1, <1>2, FollowsQuiet
<1>3. CASE Arrives /\ inbox'[t] = Append(inbox[t], f)
  <2> SUFFICES ASSUME Hears(t)'
               PROVE  \E n \in Nat : /\ Numbered(inbox'[t], Len(got'[t]), n, total'[Other(t)])
                                     /\ Arrives' => n = sent'[Other(t)]
    BY DEF Follows
  <2>1. PICK n \in Nat : Numbered(inbox[t], Len(got[t]), n, total[s]) /\ (Arrives => n = sent[s])
    BY <1>0 DEF Inv, InSequence, Follows
  <2>2. n = sent[s]
    BY <1>3, <2>1
  <2>3. inbox[t] \in Seq(Frame) /\ Len(got[t]) \in Nat /\ Ones(f, Items) \in 0..1
    BY <1>0, OneOrNone DEF Types, WireType
  <2>4. (f.type = "final" => f.n = total[s]) /\ (f.type \in Items => f.n = n + 1)
        /\ (f.type = "complete" => n = total[s])
    BY <2>2 DEF Items
  <2>5. Numbered(Append(inbox[t], f), Len(got[t]), n + Ones(f, Items), total[s])
    BY <2>1, <2>3, <2>4, NumberedAppend
  <2>6. n + Ones(f, Items) \in Nat /\ n + Ones(f, Items) = sent'[s]
    BY <2>2, <2>3
  <2> QED BY <1>0, <1>3, <2>5, <2>6
<1> QED BY <1>2, <1>3 DEF Reaches

LEMMA FollowsTail ==
  ASSUME NEW t \in Sides, Types, Inv, inbox[t] # <<>>, inbox'[t] = Tail(inbox[t]),
         UNCHANGED <<total, closed, sent>>,
         Hears(t)' => Hears(t) /\ Len(got'[t]) = Len(got[t]) + Ones(inbox[t][1], Items)
  PROVE  Follows(t)'
<1> SUFFICES ASSUME Hears(t)'
             PROVE  \E n \in Nat : /\ Numbered(inbox'[t], Len(got'[t]), n, total'[Other(t)])
                                   /\ Arrives' => n = sent'[Other(t)]
  BY DEF Follows
<1>1. PICK n \in Nat : Numbered(inbox[t], Len(got[t]), n, total[Other(t)]) /\ (Arrives => n = sent[Other(t)])
  BY DEF Inv, InSequence, Follows
<1>2. inbox[t] \in Seq(Frame) /\ Len(got[t]) \in Nat
  BY DEF Types, WireType
<1>3. Numbered(Tail(inbox[t]), Len(got[t]) + Ones(inbox[t][1], Items), n, total[Other(t)])
  BY <1>1, <1>2, NumberedTail
<1>4. Numbered(inbox'[t], Len(got'[t]), n, total'[Other(t)])
  BY <1>3
<1>5. Arrives' => n = sent'[Other(t)]
  BY <1>1 DEF Arrives
<1> QED BY <1>4, <1>5

\* What a subscriber that listens is told by the frame it receives.
LEMMA Heard ==
  ASSUME NEW t \in Sides, Types, Inv, inbox[t] # <<>>, Hears(t)
  PROVE  /\ inbox[t][1].type \in Items => inbox[t][1].n = Len(got[t]) + 1
         /\ inbox[t][1].type = "final" => inbox[t][1].n = total[Other(t)]
         /\ inbox[t][1].type = "complete" => Len(got[t]) = total[Other(t)]
<1>1. PICK n \in Nat : Numbered(inbox[t], Len(got[t]), n, total[Other(t)])
  BY DEF Inv, InSequence, Follows
<1>2. inbox[t] \in Seq(Frame) /\ Len(got[t]) \in Nat
  BY DEF Types, WireType
<1> QED BY <1>1, <1>2, NumberedTail

LEMMA HearsLess ==
  ASSUME Types, Inv, NEW t \in Sides, [Next]_vars
  PROVE  (Hears(t)' => Hears(t))
<1>1. ASSUME Call PROVE (Hears(t)' => Hears(t))
  <2>1. sink'[t] = "open" => sink[t] = "open"
    BY <1>1, Both DEF Call, Types, EndType, recvVars, sendVars
  <2>2. UNCHANGED unheard /\ (reg'[t] => reg[t])
    BY <1>1, Both DEF Call, Types, EndType, recvVars, sendVars
  <2>3. /\ pc'[A] # "ended" => pc[A] # "ended"
        /\ pc'[B] \in {"idle", "subscribing"} => pc[B] \in {"idle", "subscribing"}
    BY <1>1, Both DEF Call, Goto, Types, EndType, recvVars, sendVars
  <2>4. CASE t = A
    BY <2>1, <2>2, <2>3, <2>4, Both DEF Hears
  <2>5. CASE t = B
    BY <2>1, <2>2, <2>3, <2>5, Both DEF Hears
  <2> QED BY <2>4, <2>5, Both
<1>2. ASSUME Request PROVE (Hears(t)' => Hears(t))
  <2>1. sink'[t] = "open" => sink[t] = "open"
    BY <1>2, Both DEF Request, Types, EndType, sendVars
  <2>2. UNCHANGED unheard /\ (reg'[t] => reg[t])
    BY <1>2, Both DEF Request, Types, EndType, sendVars
  <2>3. /\ pc'[A] # "ended" => pc[A] # "ended"
        /\ pc'[B] \in {"idle", "subscribing"} => pc[B] \in {"idle", "subscribing"}
    BY <1>2, Both DEF Request, Goto, Types, EndType, sendVars
  <2>4. CASE t = A
    BY <2>1, <2>2, <2>3, <2>4, Both DEF Hears
  <2>5. CASE t = B
    BY <2>1, <2>2, <2>3, <2>5, Both DEF Hears
  <2> QED BY <2>4, <2>5, Both
<1>3. ASSUME OnSubscribeA PROVE (Hears(t)' => Hears(t))
  <2>1. UNCHANGED <<sink, unheard>> /\ pc[A] = "subscribing" /\ pc'[B] = pc[B] /\ reg'[B] = reg[B]
    BY <1>3, Both DEF OnSubscribeA, Goto, Types, EndType, recvVars
  <2> QED BY <2>1, Both DEF Hears
<1>4. ASSUME OnSubscribeDoneA PROVE (Hears(t)' => Hears(t))
  <2>1. sink'[t] = "open" => sink[t] = "open"
    BY <1>4, Both DEF OnSubscribeDoneA, Types, EndType, recvVars, sendVars
  <2>2. UNCHANGED unheard /\ (reg'[t] => reg[t])
    BY <1>4, Both DEF OnSubscribeDoneA, Types, EndType, recvVars, sendVars
  <2>3. /\ pc'[A] # "ended" => pc[A] # "ended"
        /\ pc'[B] \in {"idle", "subscribing"} => pc[B] \in {"idle", "subscribing"}
    BY <1>4, Both DEF OnSubscribeDoneA, Goto, Types, EndType, recvVars, sendVars
  <2>4. CASE t = A
    BY <2>1, <2>2, <2>3, <2>4, Both DEF Hears
  <2>5. CASE t = B
    BY <2>1, <2>2, <2>3, <2>5, Both DEF Hears
  <2> QED BY <2>4, <2>5, Both
<1>5. ASSUME EmitA PROVE (Hears(t)' => Hears(t))
  <2>1. sink'[t] = "open" => sink[t] = "open"
    BY <1>5, Both DEF EmitA, Types, EndType, recvVars
  <2>2. UNCHANGED unheard /\ (reg'[t] => reg[t])
    BY <1>5, Both DEF EmitA, Types, EndType, recvVars
  <2>3. /\ pc'[A] # "ended" => pc[A] # "ended"
        /\ pc'[B] \in {"idle", "subscribing"} => pc[B] \in {"idle", "subscribing"}
    BY <1>5, Both DEF EmitA, Types, EndType, recvVars
  <2>4. CASE t = A
    BY <2>1, <2>2, <2>3, <2>4, Both DEF Hears
  <2>5. CASE t = B
    BY <2>1, <2>2, <2>3, <2>5, Both DEF Hears
  <2> QED BY <2>4, <2>5, Both
<1>6. ASSUME EndA PROVE (Hears(t)' => Hears(t))
  <2>1. sink'[t] = "open" => sink[t] = "open"
    BY <1>6, Both DEF EndA, Types, EndType, recvVars, sendVars
  <2>2. UNCHANGED unheard /\ (reg'[t] => reg[t])
    BY <1>6, Both DEF EndA, Types, EndType, recvVars, sendVars
  <2>3. /\ pc'[A] # "ended" => pc[A] # "ended"
        /\ pc'[B] \in {"idle", "subscribing"} => pc[B] \in {"idle", "subscribing"}
    BY <1>6, Both DEF EndA, Goto, Types, EndType, recvVars, sendVars
  <2>4. CASE t = A
    BY <2>1, <2>2, <2>3, <2>4, Both DEF Hears
  <2>5. CASE t = B
    BY <2>1, <2>2, <2>3, <2>5, Both DEF Hears
  <2> QED BY <2>4, <2>5, Both
<1>7. ASSUME FinallyA PROVE (Hears(t)' => Hears(t))
  <2>1. sink'[t] = "open" => sink[t] = "open"
    BY <1>7, Both DEF FinallyA, Types, EndType, sendVars
  <2>2. UNCHANGED unheard /\ (reg'[t] => reg[t])
    BY <1>7, Both DEF FinallyA, Types, EndType, sendVars
  <2>3. /\ pc'[A] # "ended" => pc[A] # "ended"
        /\ pc'[B] \in {"idle", "subscribing"} => pc[B] \in {"idle", "subscribing"}
    BY <1>7, Both DEF FinallyA, Types, EndType, sendVars
  <2>4. CASE t = A
    BY <2>1, <2>2, <2>3, <2>4, Both DEF Hears
  <2>5. CASE t = B
    BY <2>1, <2>2, <2>3, <2>5, Both DEF Hears
  <2> QED BY <2>4, <2>5, Both
<1>8. ASSUME OnSubscribeB PROVE (Hears(t)' => Hears(t))
  <2>1. UNCHANGED <<sink, unheard>> /\ pc[B] = "subscribing" /\ pc'[A] = pc[A] /\ reg'[A] = reg[A]
    BY <1>8, Both DEF OnSubscribeB, Goto, Types, EndType, recvVars
  <2> QED BY <2>1, Both DEF Hears
<1>9. ASSUME OnSubscribeDoneB PROVE (Hears(t)' => Hears(t))
  <2>1. sink'[t] = "open" => sink[t] = "open"
    BY <1>9, Both DEF OnSubscribeDoneB, Types, EndType, recvVars, sendVars
  <2>2. UNCHANGED unheard /\ (reg'[t] => reg[t])
    BY <1>9, Both DEF OnSubscribeDoneB, Count, Types, EndType, recvVars, sendVars
  <2>3. /\ pc'[A] # "ended" => pc[A] # "ended"
        /\ pc'[B] \in {"idle", "subscribing"} => pc[B] \in {"idle", "subscribing"}
    BY <1>9, Both DEF OnSubscribeDoneB, Goto, Types, EndType, recvVars, sendVars
  <2>4. CASE t = A
    BY <2>1, <2>2, <2>3, <2>4, Both DEF Hears
  <2>5. CASE t = B
    BY <2>1, <2>2, <2>3, <2>5, Both DEF Hears
  <2> QED BY <2>4, <2>5, Both
<1>10. ASSUME EmitB PROVE (Hears(t)' => Hears(t))
  <2>1. sink'[t] = "open" => sink[t] = "open"
    BY <1>10, Both DEF EmitB, Types, EndType, recvVars
  <2>2. UNCHANGED unheard /\ (reg'[t] => reg[t])
    BY <1>10, Both DEF EmitB, Count, Types, EndType, recvVars
  <2>3. /\ pc'[A] # "ended" => pc[A] # "ended"
        /\ pc'[B] \in {"idle", "subscribing"} => pc[B] \in {"idle", "subscribing"}
    BY <1>10, Both DEF EmitB, Types, EndType, recvVars
  <2>4. CASE t = A
    BY <2>1, <2>2, <2>3, <2>4, Both DEF Hears
  <2>5. CASE t = B
    BY <2>1, <2>2, <2>3, <2>5, Both DEF Hears
  <2> QED BY <2>4, <2>5, Both
<1>11. ASSUME EndB PROVE (Hears(t)' => Hears(t))
  <2>1. sink'[t] = "open" => sink[t] = "open"
    BY <1>11, Both DEF EndB, Types, EndType, recvVars, sendVars
  <2>2. UNCHANGED unheard /\ (reg'[t] => reg[t])
    BY <1>11, Both DEF EndB, Count, Types, EndType, recvVars, sendVars
  <2>3. /\ pc'[A] # "ended" => pc[A] # "ended"
        /\ pc'[B] \in {"idle", "subscribing"} => pc[B] \in {"idle", "subscribing"}
    BY <1>11, Both DEF EndB, Goto, Types, EndType, recvVars, sendVars
  <2>4. CASE t = A
    BY <2>1, <2>2, <2>3, <2>4, Both DEF Hears
  <2>5. CASE t = B
    BY <2>1, <2>2, <2>3, <2>5, Both DEF Hears
  <2> QED BY <2>4, <2>5, Both
<1>12. ASSUME FinallyB PROVE (Hears(t)' => Hears(t))
  <2>1. sink'[t] = "open" => sink[t] = "open"
    BY <1>12, Both DEF FinallyB, Types, EndType, sendVars
  <2>2. UNCHANGED unheard /\ (reg'[t] => reg[t])
    BY <1>12, Both DEF FinallyB, Count, Types, EndType, sendVars
  <2>3. /\ pc'[A] # "ended" => pc[A] # "ended"
        /\ pc'[B] \in {"idle", "subscribing"} => pc[B] \in {"idle", "subscribing"}
    BY <1>12, Both DEF FinallyB, Types, EndType, sendVars
  <2>4. CASE t = A
    BY <2>1, <2>2, <2>3, <2>4, Both DEF Hears
  <2>5. CASE t = B
    BY <2>1, <2>2, <2>3, <2>5, Both DEF Hears
  <2> QED BY <2>4, <2>5, Both
<1>13. ASSUME NEW s \in Sides, Ask(s) PROVE (Hears(t)' => Hears(t))
  <2>1. sink'[t] = "open" => sink[t] = "open"
    BY <1>13, Both DEF Ask, Types, EndType, sendVars
  <2>2. UNCHANGED unheard /\ (reg'[t] => reg[t])
    BY <1>13, Both DEF Ask, Types, EndType, sendVars
  <2>3. /\ pc'[A] # "ended" => pc[A] # "ended"
        /\ pc'[B] \in {"idle", "subscribing"} => pc[B] \in {"idle", "subscribing"}
    BY <1>13, Both DEF Ask, Types, EndType, sendVars
  <2>4. CASE t = A
    BY <2>1, <2>2, <2>3, <2>4, Both DEF Hears
  <2>5. CASE t = B
    BY <2>1, <2>2, <2>3, <2>5, Both DEF Hears
  <2> QED BY <2>4, <2>5, Both
<1>14. ASSUME NEW s \in Sides, Cancel(s) PROVE (Hears(t)' => Hears(t))
  <2>1. sink'[t] = "open" => sink[t] = "open"
    BY <1>14, Both DEF Cancel, Terminate, Types, EndType, sendVars
  <2>2. UNCHANGED unheard /\ (reg'[t] => reg[t])
    BY <1>14, Both DEF Cancel, Types, EndType, sendVars
  <2>3. /\ pc'[A] # "ended" => pc[A] # "ended"
        /\ pc'[B] \in {"idle", "subscribing"} => pc[B] \in {"idle", "subscribing"}
    BY <1>14, Both DEF Cancel, Types, EndType, sendVars
  <2>4. CASE t = A
    BY <2>1, <2>2, <2>3, <2>4, Both DEF Hears
  <2>5. CASE t = B
    BY <2>1, <2>2, <2>3, <2>5, Both DEF Hears
  <2> QED BY <2>4, <2>5, Both
<1>15. ASSUME NEW s \in Sides, Receive(s) PROVE (Hears(t)' => Hears(t))
  <2> DEFINE f == inbox[s][1]
  <2>0. UNCHANGED reg /\ inbox[s] # <<>>
    BY <1>15, Hands DEF Inv
  <2>1. CASE Opens(s, f)
    <3>1. pc[B] = "idle" /\ pc'[A] = pc[A] /\ UNCHANGED <<sink, unheard>>
      BY <2>0, <2>1, Opening DEF Opens
    <3> QED BY <2>0, <3>1, Both DEF Hears
  <2>2. CASE Delivers(s, f)
    <3>1. UNCHANGED <<pc, unheard>> /\ (sink'[t] = "open" => sink[t] = "open")
      BY <2>2, Both DEF Delivers, Deliver, Terminate, Types, EndType
    <3> QED BY <2>0, <3>1 DEF Hears
  <2>3. CASE Credits(s, f) \/ Crashes(s, f)
    BY <2>0, <2>3 DEF Credits, Crashes, Hears
  <2>4. CASE Misses(s, f)
    <3>1. UNCHANGED <<pc, sink>> /\ ("answer" \in unheard => "answer" \in unheard')
      BY <2>4 DEF Misses, Miss
    <3> QED BY <2>0, <3>1 DEF Hears
  <2> QED BY <1>15, Hands, <2>1, <2>2, <2>3, <2>4 DEF Inv
<1>16. ASSUME NEW s \in Sides, Close(s) PROVE (Hears(t)' => Hears(t))
  <2>1. sink'[t] = "open" => sink[t] = "open"
    BY <1>16, Both DEF Close, Terminate, Types, EndType
  <2>2. UNCHANGED unheard /\ (reg'[t] => reg[t])
    BY <1>16, Both DEF Close, Types, EndType
  <2>3. /\ pc'[A] # "ended" => pc[A] # "ended"
        /\ pc'[B] \in {"idle", "subscribing"} => pc[B] \in {"idle", "subscribing"}
    BY <1>16, Both DEF Close, Types, EndType
  <2>4. CASE t = A
    BY <2>1, <2>2, <2>3, <2>4, Both DEF Hears
  <2>5. CASE t = B
    BY <2>1, <2>2, <2>3, <2>5, Both DEF Hears
  <2> QED BY <2>4, <2>5, Both
<1>17. ASSUME UNCHANGED vars PROVE (Hears(t)' => Hears(t))
  <2>1. sink'[t] = "open" => sink[t] = "open"
    BY <1>17, Both DEF Types, EndType, recvVars, sendVars, vars
  <2>2. UNCHANGED unheard /\ (reg'[t] => reg[t])
    BY <1>17, Both DEF Types, EndType, recvVars, sendVars, vars
  <2>3. /\ pc'[A] # "ended" => pc[A] # "ended"
        /\ pc'[B] \in {"idle", "subscribing"} => pc[B] \in {"idle", "subscribing"}
    BY <1>17, Both DEF Types, EndType, recvVars, sendVars, vars
  <2>4. CASE t = A
    BY <2>1, <2>2, <2>3, <2>4, Both DEF Hears
  <2>5. CASE t = B
    BY <2>1, <2>2, <2>3, <2>5, Both DEF Hears
  <2> QED BY <2>4, <2>5, Both
<1> QED BY <1>1, <1>2, <1>3, <1>4, <1>5, <1>6, <1>7, <1>8, <1>9, <1>10, <1>11, <1>12, <1>13, <1>14, <1>15,
       <1>16, <1>17 DEF Next, Requester, Responder

LEMMA SequenceQuiet ==
  ASSUME Types, Inv, [Next]_vars, UNCHANGED <<total, got, inbox, sent, closed>>
  PROVE  InSequence'
<1>1. ASSUME NEW t \in Sides PROVE Follows(t)'
  <2>1. Hears(t)' => Hears(t)
    BY HearsLess
  <2>2. Arrives' => Arrives
    BY DEF Arrives
  <2> QED BY <2>1, <2>2, FollowsQuiet
<1> QED BY <1>1 DEF InSequence

LEMMA SequenceSend ==
  ASSUME Types, Inv, [Next]_vars, NEW s \in Sides, NEW f \in Frame, Send(s, f), UNCHANGED <<total, closed, got>>,
         sent'[s] = sent[s] + Ones(f, Items), sent'[Other(s)] = sent[Other(s)],
         f.type \in Items => f.n = sent[s] + 1,
         f.type = "final" => sent[s] + 1 = total[s],
         f.type = "complete" => sent[s] = total[s]
  PROVE  InSequence'
<1>1. inbox'[s] = inbox[s] /\ Reaches(s, f)
  BY Sends DEF Reaches
<1>2. Follows(Other(s))'
  <2>1. Hears(Other(s))' => Hears(Other(s))
    BY Both, HearsLess
  <2> QED BY <1>1, <2>1, FollowsSend
<1>3. Follows(s)'
  <2>1. Hears(s)' => Hears(s)
    BY HearsLess
  <2>2. Arrives' => Arrives
    BY DEF Arrives
  <2> QED BY <1>1, <2>1, <2>2, FollowsQuiet
<1> QED BY <1>2, <1>3, Both DEF InSequence

\* Every item that a subscriber listens for is delivered to it.
LEMMA Listens ==
  ASSUME Types, Inv, [Next]_vars, NEW s \in Sides, Receive(s), Hears(s)'
  PROVE  Hears(s) /\ Len(got'[s]) = Len(got[s]) + Ones(inbox[s][1], Items)
<1> DEFINE f == inbox[s][1]
<1>0. Hears(s) /\ sink[s] = "open" /\ UNCHANGED reg /\ inbox[s] # <<>> /\ f \in Frame
      /\ (s = B => pc[B] \notin {"subscribing", "stuck"})
  <2>1. Hears(s)
    BY HearsLess
  <2>2. UNCHANGED reg /\ inbox[s] # <<>> /\ f \in Frame /\ (s = B => pc[B] \notin {"subscribing", "stuck"})
    BY Hands DEF Inv
  <2> QED BY <2>1, <2>2 DEF Hears
<1>1. got[s] \in Seq(Nat) /\ Len(got[s]) \in Nat /\ got \in [Sides -> Seq(Nat)]
  BY DEF Types, WireType
<1>2. f.n \in Nat /\ (f.type \in Items => f.n > 0)
      /\ (f.type \in {"complete", "error"} => f.n = 0 /\ Ones(f, Items) = 0)
         /\ (f.type \in Items => Ones(f, Items) = 1)
  <2>1. Proper(s, f, sent[Other(s)])
    BY <1>0, Takes DEF Inv, Framed
  <2> QED BY <1>0, <2>1 DEF Proper, Frame, Demands, Items, Ones
<1>3. CASE Opens(s, f) \/ Credits(s, f) \/ Crashes(s, f)
  <2>1. UNCHANGED got /\ f.type \in {"request", "requestN", "cancel"}
    BY <1>3 DEF Opens, Credits, Crashes
  <2>2. Ones(f, Items) = 0
    BY <2>1 DEF Ones, Items
  <2> QED BY <1>0, <1>1, <2>1, <2>2
<1>4. CASE Delivers(s, f)
  <2>1. f.type \in {"next", "final", "complete", "error"} /\ Deliver(s, f)
    BY <1>4 DEF Delivers
  <2>2. CASE f.type \in Items
    <3>1. got' = [got EXCEPT ![s] = Append(got[s], f.n)]
      BY <1>0, <1>2, <2>1, <2>2 DEF Deliver
    <3>2. got'[s] = Append(got[s], f.n) /\ Len(Append(got[s], f.n)) = Len(got[s]) + 1
      BY <1>1, <1>2, <3>1
    <3> QED BY <1>0, <1>2, <2>2, <3>2
  <2>3. CASE f.type \in {"complete", "error"}
    <3>1. got' = got
      BY <1>2, <2>1, <2>3 DEF Deliver
    <3> QED BY <1>0, <1>1, <1>2, <2>3, <3>1
  <2> QED BY <2>1, <2>2, <2>3 DEF Items
<1>5. CASE Misses(s, f)
  <2>1. UNCHANGED <<pc, sink, got>> /\ ~reg[s] /\ Miss(s, f) /\ f.type # "request"
    BY <1>5 DEF Misses
  <2>2. CASE f.type = "requestN"
    <3>1. Ones(f, Items) = 0
      BY <2>2 DEF Ones, Items
    <3> QED BY <1>0, <1>1, <2>1, <3>1
  <2>3. CASE f.type # "requestN"
    <3>1. CASE s = A
      <4>1. pc[A] # "ended" /\ "answer" \notin unheard'
        BY <1>0, <2>1, <3>1 DEF Hears
      <4>2. pc[A] # "subscribing"
        BY <2>1, <2>3, <3>1, <4>1 DEF Miss
      <4>3. pc[A] \notin Before
        BY <1>0, <3>1 DEF Inv, Unsent
      <4>4. pc[A] # "active" /\ pc[A] # "stuck"
        BY <1>0, <2>1, <3>1 DEF Inv, StartA
      <4>5. pc[A] \in Stages
        BY Both DEF Types, EndType
      <4> QED BY <4>1, <4>2, <4>3, <4>4, <4>5 DEF Stages, Before
    <3>2. CASE s = B
      <4>1. pc[B] \in {"idle", "subscribing"}
        BY <1>0, <2>1, <3>2, Both DEF Hears
      <4>2. pc[B] # "idle"
        BY <1>0, <2>1, <3>2, Opening
      <4> QED BY <1>0, <3>2, <4>1, <4>2
    <3> QED BY <3>1, <3>2, Both
  <2> QED BY <2>2, <2>3
<1> QED BY Hands, <1>3, <1>4, <1>5 DEF Inv

LEMMA SequenceReceive ==
  ASSUME Types, Inv, [Next]_vars, NEW s \in Sides, Receive(s)
  PROVE  InSequence'
<1> DEFINE t == Other(s)
<1>0. UNCHANGED <<total, sent, closed>> /\ inbox[s] # <<>> /\ inbox'[s] = Tail(inbox[s])
  BY Hands, Receives DEF Inv
<1>1. Follows(s)'
  BY <1>0, Listens, FollowsTail
<1>2. got'[t] = got[t] /\ (Hears(t)' => Hears(t)) /\ (Arrives' <=> Arrives) /\ t \in Sides
  <2>1. UNCHANGED got \/ Deliver(s, inbox[s][1])
    BY Hands DEF Inv, Opens, Delivers, Credits, Crashes, Misses
  <2>2. got'[t] = got[t]
    BY <2>1, Both DEF Deliver, Types, WireType
  <2> QED BY <1>0, <2>2, Both, HearsLess DEF Arrives
<1>3. ASSUME inbox'[t] = inbox[t] PROVE Follows(t)'
  BY <1>0, <1>2, <1>3, FollowsQuiet, Both
<1>4. ASSUME s = B, Arrives, inbox'[A] = Append(inbox[A], F("error", 0)) PROVE Follows(t)'
  <2>1. Reaches(B, F("error", 0))
    BY <1>4, Both DEF Reaches
  <2>2. sent'[B] = sent[B] + Ones(F("error", 0), Items)
    <3>1. sent' = sent /\ sent[B] \in Nat
      BY <1>0, Both DEF Types, CountType
    <3>2. Ones(F("error", 0), Items) = 0
      BY Weights
    <3> QED BY <3>1, <3>2
  <2> QED BY <1>0, <1>2, <1>4, <2>1, <2>2, Frames, FollowsSend, Both DEF Items
<1>5. Follows(t)'
  BY <1>3, <1>4, Receives, Both DEF Inv
<1> QED BY <1>1, <1>5, Both DEF InSequence

LEMMA SequenceClose ==
  ASSUME Types, Inv, [Next]_vars, NEW s \in Sides, Close(s)
  PROVE  InSequence'
<1> DEFINE t == Other(s)
<1>0. UNCHANGED <<total, got, sent>> /\ inbox' = [inbox EXCEPT ![t] = <<>>]
      /\ closed' = [closed EXCEPT ![s] = TRUE]
  BY DEF Close
<1>1. ~Arrives' /\ inbox'[t] = <<>> /\ inbox'[s] = inbox[s] /\ t \in Sides
  BY <1>0, Both DEF Arrives, Types, WireType, EndType
<1>2. Follows(t)'
  BY <1>0, <1>1, FollowsGone
<1>3. Follows(s)'
  BY <1>0, <1>1, HearsLess, FollowsQuiet
<1> QED BY <1>2, <1>3, Both DEF InSequence

LEMMA InSequenceStep ==
  ASSUME Types, Inv, [Next]_vars
  PROVE  InSequence'
<1>1. ASSUME Call PROVE InSequence'
  <2>1. UNCHANGED <<total, got, inbox, sent, closed>>
    BY <1>1 DEF Call, recvVars, sendVars
  <2> QED BY <2>1, SequenceQuiet
<1>2. ASSUME Request PROVE InSequence'
  <2>1. Send(A, F("request", 1)) /\ UNCHANGED <<total, closed, got, sent>>
    BY <1>2 DEF Request, sendVars
  <2>2. sent'[A] = sent[A] + Ones(F("request", 1), Items) /\ sent'[Other(A)] = sent[Other(A)]
    BY <2>1, Weights, Both DEF Types, CountType
  <2> QED BY <2>1, <2>2, Frames, SequenceSend, Both DEF Items
<1>3. ASSUME OnSubscribeA PROVE InSequence'
  <2>1. UNCHANGED <<total, got, inbox, sent, closed>>
    BY <1>3 DEF OnSubscribeA, recvVars
  <2> QED BY <2>1, SequenceQuiet
<1>4. ASSUME OnSubscribeDoneA PROVE InSequence'
  <2>1. Send(A, F("error", 0)) /\ UNCHANGED <<total, closed, got, sent>>
    BY <1>4 DEF OnSubscribeDoneA, recvVars, sendVars
  <2>2. sent'[A] = sent[A] + Ones(F("error", 0), Items) /\ sent'[Other(A)] = sent[Other(A)]
    BY <2>1, Weights, Both DEF Types, CountType
  <2> QED BY <2>1, <2>2, Frames, SequenceSend, Both DEF Items
<1>5. ASSUME EmitA PROVE InSequence'
  <2>1. UNCHANGED <<total, closed, got>> /\ sent'[A] = sent[A] + 1 /\ sent'[Other(A)] = sent[Other(A)]
    BY <1>5, Both DEF EmitA, recvVars, Types, CountType
  <2>2. sent[A] \in Nat
    BY Both DEF Types, CountType
  <2>3. CASE Send(A, F("next", sent[A] + 1))
    BY <2>1, <2>2, <2>3, Frames, Weights, SequenceSend, Both DEF Items
  <2> QED BY <1>5, <2>3 DEF EmitA
<1>6. ASSUME EndA PROVE InSequence'
  <2>1. UNCHANGED <<total, closed, got, sent>> /\ (stopped[A] \/ sent[A] = total[A])
    BY <1>6 DEF EndA, recvVars, sendVars
  <2>2. \A how \in Ends(A) : how \in {"error", "complete"} /\ (how = "complete" => sent[A] = total[A])
    BY <2>1 DEF Ends
  <2>3. ASSUME NEW f \in {F("complete", 0), F("error", 0)}
        PROVE sent'[A] = sent[A] + Ones(f, Items) /\ sent'[Other(A)] = sent[Other(A)]
    BY <2>1, Weights, Both DEF Types, CountType
  <2>4. CASE Send(A, F("error", 0))
    BY <2>1, <2>3, <2>4, Frames, SequenceSend, Both DEF Items
  <2>5. CASE Send(A, F("complete", 0)) /\ sent[A] = total[A]
    BY <2>1, <2>3, <2>5, Frames, SequenceSend, Both DEF Items
  <2> QED BY <1>6, <2>2, <2>4, <2>5 DEF EndA
<1>7. ASSUME FinallyA PROVE InSequence'
  <2>1. UNCHANGED <<total, got, inbox, sent, closed>>
    BY <1>7 DEF FinallyA, sendVars
  <2> QED BY <2>1, SequenceQuiet
<1>8. ASSUME OnSubscribeB PROVE InSequence'
  <2>1. UNCHANGED <<total, got, inbox, sent, closed>>
    BY <1>8 DEF OnSubscribeB, recvVars, sendVars
  <2> QED BY <2>1, SequenceQuiet
<1>9. ASSUME OnSubscribeDoneB PROVE InSequence'
  <2>1. Send(B, F("error", 0)) /\ UNCHANGED <<total, closed, got, sent>>
    BY <1>9 DEF OnSubscribeDoneB, recvVars, sendVars
  <2>2. sent'[B] = sent[B] + Ones(F("error", 0), Items) /\ sent'[Other(B)] = sent[Other(B)]
    BY <2>1, Weights, Both DEF Types, CountType
  <2> QED BY <2>1, <2>2, Frames, SequenceSend, Both DEF Items
<1>10. ASSUME EmitB PROVE InSequence'
  <2>1. UNCHANGED <<total, closed, got>> /\ sent'[B] = sent[B] + 1 /\ sent'[Other(B)] = sent[Other(B)]
    BY <1>10, Both DEF EmitB, recvVars, Types, CountType
  <2>2. sent[B] \in Nat
    BY Both DEF Types, CountType
  <2>3. CASE Send(B, F("next", sent[B] + 1))
    BY <2>1, <2>2, <2>3, Frames, Weights, SequenceSend, Both DEF Items
  <2>4. CASE Send(B, F("final", sent[B] + 1)) /\ sent[B] + 1 = total[B]
    BY <2>1, <2>2, <2>4, Frames, Weights, SequenceSend, Both DEF Items
  <2> QED BY <1>10, <2>3, <2>4 DEF EmitB
<1>11. ASSUME EndB PROVE InSequence'
  <2>1. UNCHANGED <<total, closed, got, sent>> /\ (stopped[B] \/ sent[B] = total[B])
    BY <1>11 DEF EndB, recvVars, sendVars
  <2>2. \A how \in Ends(B) : how \in {"error", "complete"} /\ (how = "complete" => sent[B] = total[B])
    BY <2>1 DEF Ends
  <2>3. ASSUME NEW f \in {F("complete", 0), F("error", 0)}
        PROVE sent'[B] = sent[B] + Ones(f, Items) /\ sent'[Other(B)] = sent[Other(B)]
    BY <2>1, Weights, Both DEF Types, CountType
  <2>4. CASE Send(B, F("error", 0))
    BY <2>1, <2>3, <2>4, Frames, SequenceSend, Both DEF Items
  <2>5. CASE Send(B, F("complete", 0)) /\ sent[B] = total[B]
    BY <2>1, <2>3, <2>5, Frames, SequenceSend, Both DEF Items
  <2>6. CASE UNCHANGED inbox
    BY <2>1, <2>6, SequenceQuiet
  <2> QED BY <1>11, <2>2, <2>4, <2>5, <2>6 DEF EndB
<1>12. ASSUME FinallyB PROVE InSequence'
  <2>1. UNCHANGED <<total, closed, got, sent>>
    BY <1>12 DEF FinallyB, sendVars
  <2>2. CASE UNCHANGED inbox
    BY <2>1, <2>2, SequenceQuiet
  <2>3. CASE Send(B, F("cancel", 0))
    <3>1. sent'[B] = sent[B] + Ones(F("cancel", 0), Items)
      BY <2>1, Weights, Both DEF Types, CountType
    <3> QED BY <2>1, <2>3, <3>1, Frames, SequenceSend, Both DEF Items
  <2> QED BY <1>12, <2>2, <2>3 DEF FinallyB
<1>13. ASSUME NEW s \in Sides, Ask(s) PROVE InSequence'
  <2>1. Send(s, F("requestN", 1)) /\ UNCHANGED <<total, closed, got, sent>>
    BY <1>13 DEF Ask, sendVars
  <2>2. sent'[s] = sent[s] + Ones(F("requestN", 1), Items) /\ sent'[Other(s)] = sent[Other(s)]
    BY <2>1, Weights, Both DEF Types, CountType
  <2> QED BY <2>1, <2>2, Frames, SequenceSend, Both DEF Items
<1>14. ASSUME NEW s \in Sides, Cancel(s) PROVE InSequence'
  <2>1. UNCHANGED <<total, got, inbox, sent, closed>>
    BY <1>14 DEF Cancel, sendVars
  <2> QED BY <2>1, SequenceQuiet
<1>15. ASSUME NEW s \in Sides, Receive(s) PROVE InSequence'
  BY <1>15, SequenceReceive
<1>16. ASSUME NEW s \in Sides, Close(s) PROVE InSequence'
  BY <1>16, SequenceClose
<1>17. ASSUME UNCHANGED vars PROVE InSequence'
  <2>1. UNCHANGED <<total, got, inbox, sent, closed>>
    BY <1>17 DEF recvVars, sendVars, vars
  <2> QED BY <2>1, SequenceQuiet
<1> QED BY <1>1, <1>2, <1>3, <1>4, <1>5, <1>6, <1>7, <1>8, <1>9, <1>10, <1>11, <1>12, <1>13, <1>14, <1>15,
       <1>16, <1>17 DEF Next, Requester, Responder

LEMMA InOrderStep ==
  ASSUME Types, Types', Inv, [Next]_vars
  PROVE  InOrder'
<1> SUFFICES ASSUME NEW t \in Sides PROVE got'[t] \in Seq(1..MaxItems[Other(t)])
  BY DEF InOrder
<1>0. got[t] \in Seq(1..MaxItems[Other(t)])
  BY DEF Inv, InOrder
<1>1. CASE UNCHANGED got
  BY <1>0, <1>1
<1>2. ASSUME NEW s \in Sides, Receive(s) PROVE got'[t] \in Seq(1..MaxItems[Other(t)])
  <2> DEFINE f == inbox[s][1]
  <2>1. CASE ~Delivers(s, f)
    BY <1>0, <1>2, <2>1, Hands DEF Inv, Opens, Credits, Crashes, Misses
  <2>2. CASE Delivers(s, f)
    <3>1. inbox[s] # <<>>
      BY <1>2, Hands DEF Inv
    <3>2. f.n > 0 => f.n \in 1..MaxItems[Other(s)]
      <4>1. Proper(s, f, sent[Other(s)]) /\ f.type \notin Demands
        BY <2>2, <3>1, Takes DEF Inv, Framed, Delivers, Demands
      <4>2. f.n > 0 => f.n \in 1..sent[Other(s)]
        BY <4>1 DEF Proper
      <4>3. Other(s) \in Sides
        BY Both
      <4>4. sent[Other(s)] <= MaxItems[Other(s)] /\ sent[Other(s)] \in Nat /\ MaxItems[Other(s)] \in Nat
        BY <4>3, Both DEF Types, CountType
      <4> QED BY <4>2, <4>4
    <3>3. CASE f.n > 0 /\ got' = [got EXCEPT ![s] = Append(got[s], f.n)]
      <4>1. s = t => Append(got[s], f.n) \in Seq(1..MaxItems[Other(t)])
        BY <1>0, <3>2, <3>3
      <4> QED BY <1>0, <3>3, <4>1 DEF Types, WireType
    <3> QED BY <1>0, <2>2, <3>3 DEF Delivers, Deliver
  <2> QED BY <2>1, <2>2
<1>3. UNCHANGED got \/ \E s \in Sides : Receive(s)
  BY DEF Next, Requester, Responder, Call, Request, OnSubscribeA, OnSubscribeDoneA, EmitA, EndA, FinallyA,
         OnSubscribeB, OnSubscribeDoneB, EmitB, EndB, FinallyB, Ask, Cancel, Close, recvVars, vars
<1> QED BY <1>1, <1>2, <1>3

LEMMA ReceivedQuiet ==
  ASSUME Types, Inv, UNCHANGED <<got, total>>, "answer" \in unheard => "answer" \in unheard',
         \A t \in Sides : sink'[t] = "complete" => sink[t] = "complete"
  PROVE  Received'
  BY DEF Inv, Received

LEMMA ReceivedTake ==
  ASSUME Types, Inv, [Next]_vars, NEW s \in Sides, Receive(s)
  PROVE  Received'
<1> DEFINE f == inbox[s][1]
<1>0. UNCHANGED <<total, reg>> /\ inbox[s] # <<>> /\ f \in Frame
  BY Hands DEF Inv
<1>1. CASE ~Delivers(s, f)
  <2>1. UNCHANGED <<got, sink>> /\ ("answer" \in unheard => "answer" \in unheard')
    BY <1>1, Hands DEF Inv, Opens, Credits, Crashes, Misses, Miss
  <2> QED BY <1>0, <2>1, ReceivedQuiet
<1>2. CASE Delivers(s, f)
  <2>1. f.type \in {"next", "final", "complete", "error"} /\ reg[s] /\ UNCHANGED <<pc, unheard>>
        /\ Deliver(s, f)
    BY <1>2 DEF Delivers
  <2>2. got \in [Sides -> Seq(Nat)] /\ sink \in [Sides -> {"open", "complete", "error", "cancel"}]
    BY DEF Types, WireType, EndType
  <2>3. CASE sink[s] # "open"
    <3>1. got' = got /\ sink' = sink
      BY <2>1, <2>3 DEF Deliver, Terminate
    <3> QED BY <1>0, <2>1, <3>1, ReceivedQuiet
  <2>4. CASE sink[s] = "open" /\ s = A /\ "answer" \in unheard
    <3>1. got'[B] = got[B] /\ sink'[B] = sink[B]
      BY <2>1, <2>2, <2>4, Both DEF Deliver, Terminate
    <3> QED BY <1>0, <2>1, <2>4, <3>1, Both DEF Inv, Received
  <2>5. CASE sink[s] = "open" /\ (s = B \/ "answer" \notin unheard)
    <3>1. Hears(s)
      BY <2>1, <2>5, Both DEF Hears
    <3>2. /\ f.type \in Items => f.n = Len(got[s]) + 1
          /\ f.type = "final" => f.n = total[Other(s)]
          /\ f.type = "complete" => Len(got[s]) = total[Other(s)]
      BY <1>0, <3>1, Heard
    <3>3. f.type \in {"complete", "error"} => f.n = 0
      <4>1. Proper(s, f, sent[Other(s)])
        BY <1>0, Takes DEF Inv, Framed
      <4> QED BY <4>1 DEF Proper, Demands, Items
    <3>4. \A t \in Sides : t # s => got'[t] = got[t] /\ sink'[t] = sink[t]
      BY <2>1, <2>2 DEF Deliver, Terminate
    <3>5. /\ \A i \in 1..Len(got[s]) : got[s][i] = i
          /\ Len(got[s]) \in Nat /\ got[s] \in Seq(Nat)
      BY <2>2, <2>5 DEF Inv, Received
    <3>6. /\ \A i \in 1..Len(got'[s]) : got'[s][i] = i
          /\ sink'[s] = "complete" => Len(got'[s]) = total[Other(s)]
      <4>1. CASE f.type \in Items
        <5>1. got' = [got EXCEPT ![s] = Append(got[s], f.n)]
          BY <2>1, <2>5, <3>2, <3>5, <4>1 DEF Deliver
        <5>2. got'[s] = Append(got[s], Len(got[s]) + 1)
          BY <2>2, <3>2, <4>1, <5>1
        <5>3. Len(got'[s]) = Len(got[s]) + 1 /\ \A i \in 1..Len(got'[s]) : got'[s][i] = i
          BY <3>5, <5>2
        <5>4. sink'[s] = "complete" => f.type = "final"
          BY <2>1, <2>2, <2>5, <4>1 DEF Deliver, Items
        <5> QED BY <3>2, <4>1, <5>3, <5>4
      <4>2. CASE f.type \in {"complete", "error"}
        <5>1. got' = got
          BY <2>1, <3>3, <4>2 DEF Deliver
        <5>2. sink'[s] = "complete" => f.type = "complete"
          BY <2>1, <2>2, <2>5, <4>2 DEF Deliver, Terminate
        <5> QED BY <3>2, <3>5, <5>1, <5>2
      <4> QED BY <2>1, <4>1, <4>2 DEF Items
    <3>7. ASSUME NEW t \in Sides, t = B \/ "answer" \notin unheard'
          PROVE /\ \A i \in 1..Len(got'[t]) : got'[t][i] = i
                /\ sink'[t] = "complete" => Len(got'[t]) = total'[Other(t)]
      <4>1. CASE t = s
        BY <1>0, <3>6, <4>1
      <4>2. CASE t # s
        BY <1>0, <2>1, <3>4, <3>7, <4>2 DEF Inv, Received
      <4> QED BY <4>1, <4>2
    <3> QED BY <3>7 DEF Received
  <2> QED BY <2>3, <2>4, <2>5, Both
<1> QED BY <1>1, <1>2

LEMMA ReceivedStep ==
  ASSUME Types, Inv, [Next]_vars
  PROVE  Received'
<1>1. ASSUME Call PROVE Received'
  <2>1. UNCHANGED <<got, total, unheard>> /\ \A t \in Sides : sink'[t] = "complete" => sink[t] = "complete"
    BY <1>1 DEF Call, Types, EndType, recvVars, sendVars
  <2> QED BY <2>1, ReceivedQuiet
<1>2. ASSUME Request PROVE Received'
  <2>1. UNCHANGED <<got, total, unheard>> /\ \A t \in Sides : sink'[t] = "complete" => sink[t] = "complete"
    BY <1>2 DEF Request, Types, EndType, sendVars
  <2> QED BY <2>1, ReceivedQuiet
<1>3. ASSUME OnSubscribeA PROVE Received'
  <2>1. UNCHANGED <<got, total, unheard>> /\ \A t \in Sides : sink'[t] = "complete" => sink[t] = "complete"
    BY <1>3 DEF OnSubscribeA, Types, EndType, recvVars
  <2> QED BY <2>1, ReceivedQuiet
<1>4. ASSUME OnSubscribeDoneA PROVE Received'
  <2>1. UNCHANGED <<got, total, unheard>> /\ \A t \in Sides : sink'[t] = "complete" => sink[t] = "complete"
    BY <1>4 DEF OnSubscribeDoneA, Types, EndType, recvVars, sendVars
  <2> QED BY <2>1, ReceivedQuiet
<1>5. ASSUME EmitA PROVE Received'
  <2>1. UNCHANGED <<got, total, unheard>> /\ \A t \in Sides : sink'[t] = "complete" => sink[t] = "complete"
    BY <1>5 DEF EmitA, Types, EndType, recvVars
  <2> QED BY <2>1, ReceivedQuiet
<1>6. ASSUME EndA PROVE Received'
  <2>1. UNCHANGED <<got, total, unheard>> /\ \A t \in Sides : sink'[t] = "complete" => sink[t] = "complete"
    BY <1>6 DEF EndA, Types, EndType, recvVars, sendVars
  <2> QED BY <2>1, ReceivedQuiet
<1>7. ASSUME FinallyA PROVE Received'
  <2>1. UNCHANGED <<got, total, unheard>> /\ \A t \in Sides : sink'[t] = "complete" => sink[t] = "complete"
    BY <1>7 DEF FinallyA, Types, EndType, sendVars
  <2> QED BY <2>1, ReceivedQuiet
<1>8. ASSUME OnSubscribeB PROVE Received'
  <2>1. UNCHANGED <<got, total, unheard>> /\ \A t \in Sides : sink'[t] = "complete" => sink[t] = "complete"
    BY <1>8 DEF OnSubscribeB, Types, EndType, recvVars, sendVars
  <2> QED BY <2>1, ReceivedQuiet
<1>9. ASSUME OnSubscribeDoneB PROVE Received'
  <2>1. UNCHANGED <<got, total, unheard>> /\ \A t \in Sides : sink'[t] = "complete" => sink[t] = "complete"
    BY <1>9 DEF OnSubscribeDoneB, Types, EndType, recvVars, sendVars
  <2> QED BY <2>1, ReceivedQuiet
<1>10. ASSUME EmitB PROVE Received'
  <2>1. UNCHANGED <<got, total, unheard>> /\ \A t \in Sides : sink'[t] = "complete" => sink[t] = "complete"
    BY <1>10 DEF EmitB, Types, EndType, recvVars
  <2> QED BY <2>1, ReceivedQuiet
<1>11. ASSUME EndB PROVE Received'
  <2>1. UNCHANGED <<got, total, unheard>> /\ \A t \in Sides : sink'[t] = "complete" => sink[t] = "complete"
    BY <1>11 DEF EndB, Types, EndType, recvVars, sendVars
  <2> QED BY <2>1, ReceivedQuiet
<1>12. ASSUME FinallyB PROVE Received'
  <2>1. UNCHANGED <<got, total, unheard>> /\ \A t \in Sides : sink'[t] = "complete" => sink[t] = "complete"
    BY <1>12 DEF FinallyB, Types, EndType, sendVars
  <2> QED BY <2>1, ReceivedQuiet
<1>13. ASSUME NEW s \in Sides, Ask(s) PROVE Received'
  <2>1. UNCHANGED <<got, total, unheard>> /\ \A t \in Sides : sink'[t] = "complete" => sink[t] = "complete"
    BY <1>13 DEF Ask, Types, EndType, sendVars
  <2> QED BY <2>1, ReceivedQuiet
<1>14. ASSUME NEW s \in Sides, Cancel(s) PROVE Received'
  <2>1. UNCHANGED <<got, total, unheard>> /\ \A t \in Sides : sink'[t] = "complete" => sink[t] = "complete"
    BY <1>14 DEF Cancel, Terminate, Types, EndType, sendVars
  <2> QED BY <2>1, ReceivedQuiet
<1>15. ASSUME NEW s \in Sides, Receive(s) PROVE Received'
  BY <1>15, ReceivedTake
<1>16. ASSUME NEW s \in Sides, Close(s) PROVE Received'
  <2>1. UNCHANGED <<got, total, unheard>> /\ \A t \in Sides : sink'[t] = "complete" => sink[t] = "complete"
    BY <1>16 DEF Close, Terminate, Types, EndType
  <2> QED BY <2>1, ReceivedQuiet
<1>17. ASSUME UNCHANGED vars PROVE Received'
  <2>1. UNCHANGED <<got, total, unheard>> /\ \A t \in Sides : sink'[t] = "complete" => sink[t] = "complete"
    BY <1>17 DEF Types, EndType, recvVars, sendVars, vars
  <2> QED BY <2>1, ReceivedQuiet
<1> QED BY <1>1, <1>2, <1>3, <1>4, <1>5, <1>6, <1>7, <1>8, <1>9, <1>10, <1>11, <1>12, <1>13, <1>14, <1>15,
       <1>16, <1>17 DEF Next, Requester, Responder

----------------------------------------------------------------------------
(* The invariant of every state                                              *)

LEMMA InvInit == Init => Types /\ Inv
<1> SUFFICES ASSUME Init PROVE Inv
  BY InitTypes
<1>1. Types
  BY InitTypes
<1>2. \A s \in Sides : /\ inbox[s] = <<>> /\ got[s] = <<>> /\ pc[s] = "idle" /\ ~reg[s] /\ sink[s] = "open"
                       /\ fin[s] = "none" /\ asked[s] = 0 /\ credit[s] = 0 /\ sent[s] = 0
  BY DEF Init
<1>3. calls = 0 /\ final = FALSE /\ crashed = FALSE
  BY DEF Init
<1>4. StartA /\ Unsent /\ StartB /\ FirstRequest
  BY <1>2, Both, Nothing DEF StartA, Unsent, StartB, FirstRequest, Before
<1>5. EndsCounted
  BY <1>2, <1>3, Both DEF EndsCounted, One
<1>6. Framed /\ Cancels
  BY <1>2, <1>3, Both, Nothing DEF Framed, Cancels
<1>7. \A s \in Sides : Due[s] <= Limit[s] /\ Had[s] <= Most[s]
  <2>1. Len(<<>>) = 0
    BY Nothing
  <2>2. Due[A] = Unused /\ Due[B] = 0 /\ Limit[A] = 1 /\ Limit[B] = 0 /\ Unused \in 0..1
    BY <1>1, <1>2, Counters, Both
  <2>3. \A s \in Sides : Had[s] = 0 /\ Most[s] = 0
    <3>1. \A s \in Sides : Other(s) \in Sides /\ Had[s] = Len(got[s]) /\ Most[s] = sent[Other(s)]
      BY <1>1, Counters, Both
    <3> QED BY <1>2, <2>1, <3>1
  <2> QED BY <2>2, <2>3, Both
<1>8. Owed /\ Possible
  <2>1. \A s \in Sides : Due[s] \in Nat /\ Limit[s] \in Nat /\ Had[s] \in Nat /\ Most[s] \in Nat
    BY <1>1, Counters
  <2>2. \A s \in Sides : Fits(inbox[s], Demands, Due[s], Limit[s]) /\ Fits(inbox[s], Items, Had[s], Most[s])
    BY <1>2, <1>7, <2>1, FitsNone
  <2> QED BY <2>2 DEF Owed, Possible, AllFit
<1>9. InSequence
  <2>1. ASSUME NEW s \in Sides PROVE Follows(s)
    <3>1. Numbered(inbox[s], Len(got[s]), 0, total[Other(s)]) /\ sent[Other(s)] = 0
      BY <1>2, Nothing, NumberedNone, Both
    <3> QED BY <3>1 DEF Follows
  <2> QED BY <2>1 DEF InSequence
<1>10. InOrder /\ Received
  <2>1. Len(<<>>) = 0
    BY Nothing
  <2>2. ASSUME NEW s \in Sides PROVE got[s] \in Seq(1..MaxItems[Other(s)])
    <3> DEFINE S == 1..MaxItems[Other(s)]
    <3>1. <<>> \in Seq(S)
      OBVIOUS
    <3>2. got[s] = <<>>
      BY <1>2
    <3> QED BY <3>1, <3>2
  <2> QED BY <1>2, <2>1, <2>2 DEF InOrder, Received
<1> QED BY <1>4, <1>5, <1>6, <1>8, <1>9, <1>10 DEF Inv

LEMMA InvStep == Types /\ Inv /\ [Next]_vars => Types' /\ Inv'
<1> SUFFICES ASSUME Types, Inv, [Next]_vars PROVE Types' /\ Inv'
  OBVIOUS
<1>1. Types'
  BY TypesStep DEF Inv
<1>2. StartA' /\ Unsent' /\ StartB' /\ FirstRequest'
  BY StartAStep, UnsentStep, StartBStep, FirstStep
<1>3. EndsCounted' /\ Framed' /\ Cancels'
  BY EndsStep, FramedStep, CancelsStep
<1>4. Owed' /\ Possible' /\ InOrder'
  BY <1>1, OwedStep, PossibleStep, InOrderStep
<1>5. InSequence' /\ Received'
  BY InSequenceStep, ReceivedStep
<1> QED BY <1>1, <1>2, <1>3, <1>4, <1>5 DEF Inv

\* The invariant implies what a channel promises.
LEMMA InvDelivered == Types /\ Inv => Delivered
<1> SUFFICES ASSUME Types, Inv PROVE Delivered
  OBVIOUS
<1>1. Received
  BY DEF Inv
<1>2. HalvesKept
  <2>1. SUFFICES ASSUME pc[B] \in {"active", "ended"}, ~reg[B], ~final PROVE pc[B] = "ended" /\ fin[B] = "done"
    BY DEF HalvesKept
  <2>2. calls = One(pc[B] \in {"ended", "stuck"}) + One(fin[B] = "done") + One(final) /\ ~(calls < 2)
    BY <2>1 DEF Inv, EndsCounted
  <2> QED BY <2>1, <2>2 DEF One
<1>3. OnlyCancelCrashes
  BY DEF Inv, Cancels, OnlyCancelCrashes
<1>4. TypeOK
  <2>1. calls \in 0..3
    BY DEF Inv, EndsCounted, One
  <2>2. \A s \in Sides : asked[s] \in 0..Asks[s]
    BY Both DEF Types, CountType
  <2>3. ASSUME NEW s \in Sides
        PROVE /\ got[s] \in Seq(1..MaxItems[Other(s)]) /\ Len(got[s]) <= sent[Other(s)]
                 /\ sent[s] \in 0..total[s]
              /\ credit[s] \in 0..(IF s = A THEN asked[B] + 1 ELSE asked[A])
              /\ \A i \in 1..Len(inbox[s]) : inbox[s][i].type \in FrameTypes
    <3>1. got[s] \in Seq(1..MaxItems[Other(s)])
      BY DEF Inv, InOrder
    <3>2. Due[s] \in Nat /\ Limit[s] \in Nat /\ Had[s] \in Nat /\ Most[s] \in Nat /\ inbox[s] \in Seq(Frame)
      BY Counters DEF Types, WireType
    <3>3. Due[s] <= Limit[s] /\ Had[s] <= Most[s]
      BY <3>2, FitsBetween DEF Inv, Owed, Possible, AllFit
    <3>4. Len(got[s]) <= sent[Other(s)]
      BY <3>3, Counters
    <3>5. sent[s] \in 0..total[s]
      BY DEF Types, CountType
    <3>6. credit[s] \in 0..(IF s = A THEN asked[B] + 1 ELSE asked[A])
      <4>1. CASE s = A
        BY <3>3, <4>1, Counters
      <4>2. CASE s = B
        BY <3>3, <4>2, Counters, Both
      <4> QED BY <4>1, <4>2, Both
    <3>7. ASSUME NEW i \in 1..Len(inbox[s]) PROVE inbox[s][i].type \in FrameTypes
      <4>1. inbox[s][i] \in Frame
        BY <3>2
      <4> QED BY <4>1 DEF Frame
    <3> QED BY <3>1, <3>4, <3>5, <3>6, <3>7
  <2> QED BY <2>1, <2>2, <2>3 DEF TypeOK, Types, EndType, WireType, Stages
<1> QED BY <1>1, <1>2, <1>3, <1>4 DEF Delivered

\* In every state of a channel, whatever either side cancels, ends or closes: the
\* variables keep their types and no publisher is owed more demand than was asked
\* for; a subscriber has its peer's items in order and without a gap, and is told
\* that they are complete only when it has them all; the responder forgets the
\* channel only after both halves; only a cancel of the responder crashes.
THEOREM ChannelDelivered == Spec => []Delivered
<1>1. Init => Types /\ Inv
  BY InvInit
<1>2. Types /\ Inv /\ [Next]_vars => Types' /\ Inv'
  BY InvStep
<1>3. Types /\ Inv => Delivered
  BY InvDelivered
<1> QED BY <1>1, <1>2, <1>3, PTL DEF Spec
==============================================================================
