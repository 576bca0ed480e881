----------------------- MODULE TransportReader_proofs -----------------------
(***************************************************************************)
(* Every invariant of TransportReader, for any number of frames.  The      *)
(* inductive invariant follows the frames of a parity through one half of  *)
(* the reader: handled, in a handler's hands, in the channel, in the       *)
(* backlog, they are numbered without a gap up to the last that arrived.   *)
(* What a step does to a half is a lemma about values, and serves the odd  *)
(* frames and the even ones alike.                                         *)
(***************************************************************************)
EXTENDS TransportReader, SequenceTheorems, TLAPS

Frames == 1..MaxFrames
InHand(h) == IF h = 0 THEN 0 ELSE 1

HalfType(c, b, d, s, r, h, n, done) ==
  /\ c \in Seq(Frames) /\ Len(c) <= 1 /\ b \in Seq(Frames) /\ done \in Seq(Frames)
  /\ d \in BOOLEAN /\ s \in BOOLEAN
  /\ r \in {"idle", "loading", "ended"}
  /\ h \in 0..MaxFrames /\ n \in 0..MaxFrames

HalfClosed(c, b, d, s, r, h) ==
  /\ s => d /\ b = <<>>
  /\ r # "loading" => h = 0
  /\ r = "ended" => s /\ c = <<>>

HalfOrder(c, b, h, n, done) ==
  /\ \A i \in 1..Len(done) : done[i] = i
  /\ h # 0 => h = Len(done) + 1
  /\ Len(c) = 1 => c[1] = Len(done) + InHand(h) + 1
  /\ \A i \in 1..Len(b) : b[i] = Len(done) + InHand(h) + Len(c) + i
  /\ n = Len(done) + InHand(h) + Len(c) + Len(b)

Half(c, b, d, s, r, h, n, done) ==
  /\ HalfType(c, b, d, s, r, h, n, done)
  /\ HalfClosed(c, b, d, s, r, h)
  /\ HalfOrder(c, b, h, n, done)

LEMMA Single ==
  ASSUME NEW S, NEW x \in S
  PROVE  <<x>> \in Seq(S) /\ Len(<<x>>) = 1 /\ <<x>>[1] = x
  OBVIOUS

LEMMA LenZero ==
  ASSUME NEW S, NEW q \in Seq(S)
  PROVE  Len(q) \in Nat /\ (q = <<>> <=> Len(q) = 0)
  BY EmptySeq

LEMMA HalfAtStart ==
  ASSUME ReaderAssumption PROVE Half(<<>>, <<>>, FALSE, FALSE, "idle", 0, 0, <<>>)
<1>1. <<>> \in Seq(Frames) /\ Len(<<>>) = 0
  BY EmptySeq
<1>2. HalfType(<<>>, <<>>, FALSE, FALSE, "idle", 0, 0, <<>>)
  BY <1>1, ReaderAssumption DEF HalfType, ReaderAssumption
<1>3. HalfOrder(<<>>, <<>>, 0, 0, <<>>)
  BY <1>1 DEF HalfOrder, InHand
<1>4. HalfClosed(<<>>, <<>>, FALSE, FALSE, "idle", 0)
  BY DEF HalfClosed
<1> QED BY <1>2, <1>3, <1>4 DEF Half

\* Put of the next frame.
LEMMA HalfPut ==
  ASSUME NEW c, NEW b, NEW d, NEW s, NEW r, NEW h, NEW n, NEW done, NEW c2, NEW b2,
         ReaderAssumption, Half(c, b, d, s, r, h, n, done), ~d, n < MaxFrames,
         \/ c = <<>> /\ b = <<>> /\ c2 = <<n + 1>> /\ b2 = b
         \/ b2 = Append(b, n + 1) /\ c2 = c
  PROVE  Half(c2, b2, d, s, r, h, n + 1, done)
<1> USE ReaderAssumption DEF ReaderAssumption
<1> DEFINE x == n + 1
<1>1. x \in Frames /\ n \in Nat
  BY DEF Half, HalfType, Frames
<1>2. /\ Len(c) \in Nat /\ Len(b) \in Nat /\ Len(done) \in Nat /\ InHand(h) \in Nat
  BY LenZero DEF Half, HalfType, InHand
<1>3. ~s /\ r # "ended"
  BY DEF Half, HalfType, HalfClosed
<1>4. CASE c = <<>> /\ b = <<>> /\ c2 = <<x>> /\ b2 = b
  <2>1. c2 \in Seq(Frames) /\ Len(c2) = 1 /\ c2[1] = x
    BY <1>1, <1>4, Single
  <2>2. Len(c) = 0 /\ Len(b) = 0
    BY <1>4, EmptySeq
  <2>3. HalfType(c2, b2, d, s, r, h, x, done)
    BY <1>1, <1>4, <2>1 DEF Half, HalfType, Frames
  <2>4. HalfOrder(c2, b2, h, x, done)
    BY <1>2, <1>4, <2>1, <2>2 DEF Half, HalfOrder
  <2>5. HalfClosed(c2, b2, d, s, r, h)
    BY <1>3, <1>4 DEF Half, HalfClosed
  <2> QED BY <2>3, <2>4, <2>5 DEF Half
<1>5. CASE b2 = Append(b, x) /\ c2 = c
  <2>1. b2 \in Seq(Frames) /\ Len(b2) = Len(b) + 1
        /\ (\A i \in 1..Len(b) : b2[i] = b[i]) /\ b2[Len(b) + 1] = x
    BY <1>1, <1>5, AppendProperties DEF Half, HalfType
  <2>2. HalfType(c2, b2, d, s, r, h, x, done)
    BY <1>1, <1>5, <2>1 DEF Half, HalfType, Frames
  <2>3. \A i \in 1..Len(b2) : b2[i] = Len(done) + InHand(h) + Len(c2) + i
    <3>1. n = Len(done) + InHand(h) + Len(c) + Len(b)
      BY DEF Half, HalfOrder
    <3>2. \A i \in 1..Len(b) : b[i] = Len(done) + InHand(h) + Len(c) + i
      BY DEF Half, HalfOrder
    <3>3. x = Len(done) + InHand(h) + Len(c) + (Len(b) + 1)
      BY <1>2, <3>1
    <3> HIDE DEF x
    <3>4. ASSUME NEW i \in 1..Len(b2)
          PROVE  b2[i] = Len(done) + InHand(h) + Len(c2) + i
      <4>1. CASE i \in 1..Len(b)
        BY <1>5, <2>1, <3>2, <4>1
      <4>2. CASE i = Len(b) + 1
        BY <1>5, <2>1, <3>3, <4>2
      <4> QED BY <1>2, <2>1, <4>1, <4>2
    <3> QED BY <3>4
  <2>4. HalfOrder(c2, b2, h, x, done)
    <3>1. x = Len(done) + InHand(h) + Len(c2) + Len(b2)
      BY <1>2, <1>5, <2>1 DEF Half, HalfOrder
    <3> HIDE DEF x
    <3> QED BY <1>5, <2>3, <3>1 DEF Half, HalfOrder
  <2>5. HalfClosed(c2, b2, d, s, r, h)
    BY <1>3, <1>5 DEF Half, HalfClosed
  <2> QED BY <2>2, <2>4, <2>5 DEF Half
<1> QED BY <1>4, <1>5

\* A dispatcher receives a frame.
LEMMA HalfTake ==
  ASSUME NEW c, NEW b, NEW d, NEW s, NEW r, NEW h, NEW n, NEW done, NEW c2,
         ReaderAssumption, Half(c, b, d, s, r, h, n, done), r = "idle", c # <<>>, c2 = <<>>
  PROVE  Half(c2, b, d, s, "loading", Head(c), n, done)
<1> USE ReaderAssumption DEF ReaderAssumption
<1>1. Len(c) = 1 /\ Len(b) \in Nat /\ Len(done) \in Nat /\ h = 0
  <2>1. c \in Seq(Frames) /\ Len(c) <= 1 /\ b \in Seq(Frames) /\ done \in Seq(Frames)
    BY DEF Half, HalfType
  <2>2. Len(c) \in Nat /\ Len(c) # 0 /\ Len(b) \in Nat /\ Len(done) \in Nat
    BY <2>1, LenZero
  <2>3. h = 0
    BY DEF Half, HalfClosed
  <2> QED BY <2>1, <2>2, <2>3
<1>2. Head(c) = c[1] /\ Head(c) \in Frames
  BY <1>1, HeadTailProperties DEF Half, HalfType
<1>3. Head(c) = Len(done) + 1
  BY <1>1, <1>2 DEF Half, HalfOrder, InHand
<1>4. InHand(Head(c)) = 1 /\ InHand(h) = 0
  BY <1>1, <1>2 DEF InHand, Frames
<1>5. c2 \in Seq(Frames) /\ Len(c2) = 0
  BY EmptySeq
<1>6. HalfType(c2, b, d, s, "loading", Head(c), n, done)
  <2>1. Head(c) \in 0..MaxFrames
    BY <1>2 DEF Frames
  <2>2. Len(c2) <= 1
    BY <1>5
  <2> QED BY <1>5, <2>1, <2>2 DEF Half, HalfType
<1>7. HalfOrder(c2, b, Head(c), n, done)
  <2>1. \A i \in 1..Len(b) : b[i] = Len(done) + 1 + 0 + i
    BY <1>1, <1>4 DEF Half, HalfOrder
  <2>2. n = Len(done) + 1 + 0 + Len(b)
    BY <1>1, <1>4 DEF Half, HalfOrder
  <2>3. \A i \in 1..Len(done) : done[i] = i
    BY DEF Half, HalfOrder
  <2>4. Len(c2) = 0 /\ ~(Len(c2) = 1)
    BY <1>5
  <2>5. /\ \A i \in 1..Len(b) : b[i] = Len(done) + InHand(Head(c)) + Len(c2) + i
        /\ n = Len(done) + InHand(Head(c)) + Len(c2) + Len(b)
    BY <1>4, <2>1, <2>2, <2>4
  <2>6. Head(c) # 0 => Head(c) = Len(done) + 1
    BY <1>3
  <2>7. Len(c2) = 1 => c2[1] = Len(done) + InHand(Head(c)) + 1
    BY <2>4
  <2> QED BY ONLY <2>3, <2>5, <2>6, <2>7, Zenon DEF HalfOrder
<1>8. HalfClosed(c2, b, d, s, "loading", Head(c))
  BY DEF Half, HalfClosed
<1> QED BY <1>6, <1>7, <1>8 DEF Half

\* A handler returns.
LEMMA HalfDispatch ==
  ASSUME NEW c, NEW b, NEW d, NEW s, NEW r, NEW h, NEW n, NEW done,
         ReaderAssumption, Half(c, b, d, s, r, h, n, done), h # 0
  PROVE  Half(c, b, d, s, r, 0, n, Append(done, h))
<1> USE ReaderAssumption DEF ReaderAssumption
<1> DEFINE e == Append(done, h)
<1>1. h \in Frames /\ h = Len(done) + 1
  BY DEF Half, HalfType, HalfOrder, Frames
<1>2. e \in Seq(Frames) /\ Len(e) = Len(done) + 1
      /\ (\A i \in 1..Len(done) : e[i] = done[i]) /\ e[Len(done) + 1] = h
  BY <1>1, AppendProperties DEF Half, HalfType
<1>3. Len(c) \in Nat /\ Len(b) \in Nat /\ Len(done) \in Nat
  BY LenZero DEF Half, HalfType
<1>4. InHand(h) = 1 /\ InHand(0) = 0
  BY DEF InHand
<1> HIDE DEF e
<1>5. \A i \in 1..Len(e) : e[i] = i
  <2>1. ASSUME NEW i \in 1..Len(e) PROVE e[i] = i
    <3>1. CASE i \in 1..Len(done)
      BY <1>2, <3>1 DEF Half, HalfOrder
    <3>2. CASE i = Len(done) + 1
      BY <1>1, <1>2, <3>2
    <3> QED BY <1>2, <1>3, <3>1, <3>2
  <2> QED BY <2>1
<1>6. HalfOrder(c, b, 0, n, e)
  <2>1. Len(e) + 0 = Len(done) + 1
    BY <1>2, <1>3
  <2>2. Len(c) = 1 => c[1] = Len(e) + 0 + 1
    BY <1>4, <2>1 DEF Half, HalfOrder
  <2>3. \A i \in 1..Len(b) : b[i] = Len(e) + 0 + Len(c) + i
    BY <1>4, <2>1 DEF Half, HalfOrder
  <2>4. n = Len(e) + 0 + Len(c) + Len(b)
    BY <1>4, <2>1 DEF Half, HalfOrder
  <2> QED BY <1>4, <1>5, <2>2, <2>3, <2>4 DEF HalfOrder
<1>7. HalfType(c, b, d, s, r, 0, n, e)
  BY <1>2 DEF Half, HalfType
<1>8. HalfClosed(c, b, d, s, r, 0)
  BY DEF Half, HalfClosed
<1> QED BY <1>6, <1>7, <1>8 DEF Half, e

\* Load moves the head of the backlog; on a drained, disposed buffer it closes.
LEMMA HalfLoad ==
  ASSUME NEW c, NEW b, NEW d, NEW s, NEW r, NEW h, NEW n, NEW done,
         NEW c2, NEW b2, NEW s2,
         ReaderAssumption, Half(c, b, d, s, r, h, n, done), r = "loading", h = 0,
         \/ b # <<>> /\ c = <<>> /\ c2 = <<Head(b)>> /\ b2 = Tail(b)
         \/ ~(b # <<>> /\ c = <<>>) /\ c2 = c /\ b2 = b,
         s2 = (s \/ (b = <<>> /\ d))
  PROVE  Half(c2, b2, d, s2, "idle", h, n, done)
<1> USE ReaderAssumption DEF ReaderAssumption
<1>1. c \in Seq(Frames) /\ b \in Seq(Frames) /\ done \in Seq(Frames)
      /\ Len(c) <= 1 /\ d \in BOOLEAN /\ s \in BOOLEAN
  BY DEF Half, HalfType
<1>2. Len(c) \in Nat /\ Len(b) \in Nat /\ Len(done) \in Nat
  BY <1>1, LenZero
<1>3. (s => d /\ b = <<>>) /\ InHand(h) = 0
  BY DEF Half, HalfClosed, InHand
<1>4. CASE b # <<>> /\ c = <<>> /\ c2 = <<Head(b)>> /\ b2 = Tail(b)
  <2>1. /\ Head(b) \in Frames /\ Head(b) = b[1] /\ b2 \in Seq(Frames)
        /\ Len(b2) = Len(b) - 1 /\ \A i \in 1..Len(b2) : b2[i] = b[i + 1]
    BY <1>1, <1>4, HeadTailProperties
  <2>2. c2 \in Seq(Frames) /\ Len(c2) = 1 /\ c2[1] = b[1]
    BY <1>4, <2>1, Single
  <2>3. Len(c) = 0 /\ Len(b) > 0
    BY <1>1, <1>2, <1>4, LenZero
  <2>4. s2 = FALSE /\ s = FALSE
    BY <1>1, <1>3, <1>4
  <2>5. \A i \in 1..Len(b) : b[i] = Len(done) + 0 + 0 + i
    BY <1>3, <2>3 DEF Half, HalfOrder
  <2>6. c2[1] = Len(done) + 0 + 1
    BY <1>2, <2>2, <2>3, <2>5
  <2>7. \A i \in 1..Len(b2) : b2[i] = Len(done) + 0 + Len(c2) + i
    <3>1. ASSUME NEW i \in 1..Len(b2) PROVE b2[i] = Len(done) + 0 + Len(c2) + i
      <4>1. i + 1 \in 1..Len(b)
        BY <1>2, <2>1
      <4>2. b2[i] = Len(done) + 0 + 0 + (i + 1)
        BY <2>1, <2>5, <4>1
      <4> QED BY <1>2, <2>2, <4>2
    <3> QED BY <3>1
  <2>8. n = Len(done) + 0 + Len(c2) + Len(b2)
    <3>1. n = Len(done) + 0 + 0 + Len(b)
      BY <1>3, <2>3 DEF Half, HalfOrder
    <3> QED BY <1>2, <2>1, <2>2, <3>1
  <2>9. HalfOrder(c2, b2, h, n, done)
    BY <1>3, <2>6, <2>7, <2>8 DEF Half, HalfOrder
  <2>10. HalfType(c2, b2, d, s2, "idle", h, n, done)
    BY <1>1, <2>1, <2>2, <2>4 DEF Half, HalfType
  <2>11. HalfClosed(c2, b2, d, s2, "idle", h)
    BY <2>4 DEF HalfClosed
  <2> QED BY <2>9, <2>10, <2>11 DEF Half
<1>5. CASE ~(b # <<>> /\ c = <<>>) /\ c2 = c /\ b2 = b
  <2>1. HalfOrder(c2, b2, h, n, done)
    BY <1>5 DEF Half
  <2>2. HalfType(c2, b2, d, s2, "idle", h, n, done)
    BY <1>1, <1>5 DEF Half, HalfType
  <2>3. HalfClosed(c2, b2, d, s2, "idle", h)
    BY <1>1, <1>3, <1>5 DEF HalfClosed
  <2> QED BY <2>1, <2>2, <2>3 DEF Half
<1> QED BY <1>4, <1>5

\* A dispatcher's range loop ends.
LEMMA HalfEnd ==
  ASSUME NEW c, NEW b, NEW d, NEW s, NEW r, NEW h, NEW n, NEW done,
         Half(c, b, d, s, r, h, n, done), r = "idle", s, c = <<>>
  PROVE  Half(c, b, d, s, "ended", h, n, done)
<1>1. HalfType(c, b, d, s, "ended", h, n, done)
  BY DEF Half, HalfType
<1>2. HalfClosed(c, b, d, s, "ended", h)
  BY DEF Half, HalfClosed
<1> QED BY <1>1, <1>2 DEF Half

-----------------------------------------------------------------------------

OddHalf  == Half(oc, ob, od, os, or, hand["odd"], arrived["odd"], dispatched["odd"])
EvenHalf == Half(ec, eb, ed, es, er, hand["even"], arrived["even"], dispatched["even"])

Ended(r) == IF r = "ended" THEN 1 ELSE 0
Total == arrived["odd"] + arrived["even"] + zeros

Shapes ==
  /\ rpc \in {"select", "read", "disposeOdd", "disposeEven", "join", "close", "returned"}
  /\ hand \in [Parity -> 0..MaxFrames] /\ arrived \in [Parity -> 0..MaxFrames]
  /\ dispatched \in [Parity -> Seq(Frames)]
  /\ zeros \in Nat /\ Total <= MaxFrames
  /\ err \in BOOLEAN /\ cancelled \in BOOLEAN

\* One post of done for each dispatcher that ended, received by Start.
Joins ==
  /\ posted \in BOOLEAN /\ joined \in 0..2 /\ connOpen \in BOOLEAN
  /\ joined + (IF posted THEN 1 ELSE 0) = Ended(or) + Ended(er)
  /\ rpc \in {"close", "returned"} => joined = 2
  /\ rpc = "join" => joined \in 0..1
  /\ rpc \notin {"join", "close", "returned"} => joined = 0

\* After a late read the next select finds the error.
Lates ==
  /\ late \in 0..1
  /\ late = 1 => Total >= 1
  /\ late = 1 => (rpc = "select" /\ err) \/ rpc \notin {"select", "read"}

IInv == Shapes /\ OddHalf /\ EvenHalf /\ Joins /\ Lates

LEMMA Initially == Init => IInv
<1> SUFFICES ASSUME Init PROVE IInv
  OBVIOUS
<1> USE ReaderAssumption DEF ReaderAssumption
<1>1. Shapes
  <2>1. <<>> \in Seq(Frames)
    BY EmptySeq
  <2>2. dispatched \in [Parity -> Seq(Frames)]
    BY <2>1 DEF Init
  <2>3. hand \in [Parity -> 0..MaxFrames] /\ arrived \in [Parity -> 0..MaxFrames]
    BY DEF Init
  <2>4. zeros \in Nat /\ Total <= MaxFrames
    BY DEF Init, Total, Parity
  <2>5. rpc = "select" /\ err = FALSE /\ cancelled = FALSE
    BY DEF Init
  <2> QED BY <2>2, <2>3, <2>4, <2>5 DEF Shapes
<1>2. OddHalf /\ EvenHalf
  BY HalfAtStart DEF Init, OddHalf, EvenHalf, odd!Init, even!Init, Parity
<1>3. Joins
  <2>1. or = "idle" /\ er = "idle"
    BY DEF Init, odd!Init, even!Init
  <2>2. posted = FALSE /\ joined = 0 /\ connOpen = TRUE /\ rpc = "select"
    BY DEF Init
  <2>3. Ended(or) = 0 /\ Ended(er) = 0
    BY <2>1 DEF Ended
  <2>4. joined + (IF posted THEN 1 ELSE 0) = Ended(or) + Ended(er)
    BY <2>2, <2>3
  <2>5. joined \in 0..2 /\ joined \in 0..1
    BY <2>2
  <2>6. rpc \notin {"join", "close", "returned"} /\ posted \in BOOLEAN /\ connOpen \in BOOLEAN
    BY <2>2, Zenon
  <2> QED BY <2>2, <2>4, <2>5, <2>6 DEF Joins
<1>4. Lates
  BY DEF Init, Lates
<1> QED BY <1>1, <1>2, <1>3, <1>4 DEF IInv

LEMMA ShapesPreserved == IInv /\ [Next]_vars => Shapes'
<1> SUFFICES ASSUME IInv, [Next]_vars PROVE Shapes'
  OBVIOUS
<1> USE ReaderAssumption DEF ReaderAssumption, Shapes, Total
<1>0. Shapes
  BY DEF IInv
<1>1. CASE Select \/ DisposeOdd \/ DisposeEven \/ Join \/ Close \/ ReadEnds \/ Cancel
  BY <1>0, <1>1 DEF Select, DisposeOdd, DisposeEven, Join, Close, ReadEnds, Cancel, flowVars, stopVars
<1>2. ASSUME NEW p \in Parity, ReadInto(p) PROVE Shapes'
  <2>1. /\ arrived' = [arrived EXCEPT ![p] = @ + 1] /\ rpc' = "select"
        /\ UNCHANGED <<hand, zeros, dispatched, err, cancelled>>
        /\ Total < MaxFrames
    BY <1>2 DEF ReadInto, MayRead
  <2>2. arrived' \in [Parity -> 0..MaxFrames]
    BY <1>0, <2>1 DEF Parity
  <2>3. Total' <= MaxFrames
    BY <1>0, <2>1 DEF Parity
  <2>4. /\ rpc' = "select" /\ hand' \in [Parity -> 0..MaxFrames] /\ zeros' \in Nat
        /\ dispatched' \in [Parity -> Seq(Frames)]
        /\ err' \in BOOLEAN /\ cancelled' \in BOOLEAN
    BY <1>0, <2>1
  <2> HIDE DEF Total
  <2> QED BY <2>2, <2>3, <2>4
<1>3. CASE ReadZero
  BY <1>0, <1>3 DEF ReadZero, MayRead, Parity
<1>4. CASE TakeOdd
  <2>1. Head(oc) \in 0..MaxFrames
    <3>1. oc \in Seq(Frames) /\ oc # <<>>
      BY <1>4 DEF IInv, OddHalf, Half, HalfType, TakeOdd, odd!Receive
    <3> QED BY <3>1, HeadTailProperties DEF Frames
  <2> QED BY <1>0, <1>4, <2>1 DEF TakeOdd, Take, flowVars, stopVars
<1>5. CASE TakeEven
  <2>1. Head(ec) \in 0..MaxFrames
    <3>1. ec \in Seq(Frames) /\ ec # <<>>
      BY <1>5 DEF IInv, EvenHalf, Half, HalfType, TakeEven, even!Receive
    <3> QED BY <3>1, HeadTailProperties DEF Frames
  <2> QED BY <1>0, <1>5, <2>1 DEF TakeEven, Take, flowVars, stopVars
<1>6. ASSUME NEW p \in Parity, Dispatch(p) PROVE Shapes'
  <2>1. hand[p] \in Frames
    BY <1>0, <1>6 DEF Dispatch, Frames
  <2>2. Append(dispatched[p], hand[p]) \in Seq(Frames)
    BY <1>0, <2>1, AppendProperties
  <2>3. dispatched' \in [Parity -> Seq(Frames)] /\ hand' \in [Parity -> 0..MaxFrames]
    BY <1>0, <1>6, <2>2 DEF Dispatch
  <2> QED BY <1>0, <1>6, <2>3 DEF Dispatch
<1>7. CASE LoadOdd \/ LoadEven \/ EndOdd \/ EndEven
  BY <1>0, <1>7 DEF LoadOdd, LoadEven, EndOdd, EndEven, AfterDispatch, Post, flowVars, stopVars
<1>8. CASE UNCHANGED vars
  BY <1>0, <1>8 DEF vars, flowVars, stopVars
<1>9. "odd" \in Parity /\ "even" \in Parity
  BY DEF Parity
<1> QED BY <1>1, <1>2, <1>3, <1>4, <1>5, <1>6, <1>7, <1>8, <1>9
        DEF Next, ReaderStep, OddStep, EvenStep, ReadOdd, ReadEven

LEMMA OddPreserved == IInv /\ [Next]_vars => OddHalf'
<1> SUFFICES ASSUME IInv, [Next]_vars PROVE OddHalf'
  OBVIOUS
<1> DEFINE Kept == UNCHANGED oddVars /\ hand'["odd"] = hand["odd"]
                   /\ arrived'["odd"] = arrived["odd"] /\ dispatched'["odd"] = dispatched["odd"]
<1>0. Shapes /\ OddHalf /\ "odd" \in Parity /\ "even" \in Parity /\ "odd" # "even"
  BY DEF IInv, Parity
<1>1. Kept => OddHalf'
  BY <1>0 DEF OddHalf, oddVars
<1>2. CASE Select \/ ReadZero \/ ReadEnds \/ DisposeEven \/ Join \/ Close \/ Cancel
  BY <1>1, <1>2 DEF Select, ReadZero, ReadEnds, DisposeEven, Join, Close, Cancel, flowVars
<1>3. CASE ReadEven \/ TakeEven \/ Dispatch("even") \/ LoadEven \/ EndEven
  BY <1>0, <1>1, <1>3 DEF ReadEven, ReadInto, TakeEven, Take, Dispatch, LoadEven, AfterDispatch,
                          EndEven, Post, flowVars, Shapes
<1>4. CASE ReadOdd
  <2>1. hand' = hand /\ dispatched' = dispatched /\ arrived'["odd"] = arrived["odd"] + 1
    BY <1>0, <1>4 DEF ReadOdd, ReadInto, Shapes
  <2>2. arrived["odd"] < MaxFrames
    <3>1. arrived["odd"] + arrived["even"] + zeros < MaxFrames
      BY <1>4 DEF ReadOdd, ReadInto, MayRead
    <3>2. arrived["odd"] \in 0..MaxFrames /\ arrived["even"] \in 0..MaxFrames /\ zeros \in Nat
      BY <1>0 DEF Shapes
    <3> QED BY <3>1, <3>2, ReaderAssumption DEF ReaderAssumption
  <2>3. ~od /\ UNCHANGED <<od, os, or>>
    BY <1>4 DEF ReadOdd, odd!Put
  <2>4. \/ oc = <<>> /\ ob = <<>> /\ oc' = <<arrived["odd"] + 1>> /\ ob' = ob
        \/ ob' = Append(ob, arrived["odd"] + 1) /\ oc' = oc
    BY <1>4 DEF ReadOdd, odd!Put
  <2>5. Half(oc', ob', od, os, or, hand["odd"], arrived["odd"] + 1, dispatched["odd"])
    BY <1>0, <2>2, <2>3, <2>4, ReaderAssumption, HalfPut DEF OddHalf
  <2> QED BY <2>1, <2>3, <2>5 DEF OddHalf
<1>5. CASE TakeOdd
  <2>1. /\ or = "idle" /\ oc # <<>> /\ oc' = <<>> /\ or' = "loading"
        /\ UNCHANGED <<ob, od, os>>
    BY <1>5 DEF TakeOdd, odd!Receive
  <2>2. hand'["odd"] = Head(oc) /\ arrived' = arrived /\ dispatched' = dispatched
    BY <1>0, <1>5 DEF TakeOdd, Take, flowVars, Shapes
  <2>3. Half(oc', ob, od, os, "loading", Head(oc), arrived["odd"], dispatched["odd"])
    BY <1>0, <2>1, ReaderAssumption, HalfTake DEF OddHalf
  <2> QED BY <2>1, <2>2, <2>3 DEF OddHalf
<1>6. CASE Dispatch("odd")
  <2>1. /\ hand["odd"] # 0 /\ hand'["odd"] = 0 /\ arrived' = arrived /\ UNCHANGED oddVars
        /\ dispatched'["odd"] = Append(dispatched["odd"], hand["odd"])
    BY <1>0, <1>6 DEF Dispatch, Shapes
  <2>2. Half(oc, ob, od, os, or, 0, arrived["odd"], Append(dispatched["odd"], hand["odd"]))
    BY <1>0, <2>1, ReaderAssumption, HalfDispatch DEF OddHalf
  <2> QED BY <2>1, <2>2 DEF OddHalf, oddVars
<1>7. CASE LoadOdd
  <2>1. /\ hand["odd"] = 0 /\ hand' = hand /\ arrived' = arrived /\ dispatched' = dispatched
        /\ or = "loading" /\ or' = "idle" /\ od' = od
        /\ os' = (os \/ (ob = <<>> /\ od))
    BY <1>7 DEF LoadOdd, AfterDispatch, odd!Load, flowVars
  <2>2. \/ ob # <<>> /\ oc = <<>> /\ oc' = <<Head(ob)>> /\ ob' = Tail(ob)
        \/ ~(ob # <<>> /\ oc = <<>>) /\ oc' = oc /\ ob' = ob
    BY <1>7 DEF LoadOdd, odd!Load
  <2>3. Half(oc', ob', od, os', "idle", hand["odd"], arrived["odd"], dispatched["odd"])
    BY <1>0, <2>1, <2>2, ReaderAssumption, HalfLoad DEF OddHalf
  <2> QED BY <2>1, <2>3 DEF OddHalf
<1>8. CASE DisposeOdd
  <2>1. /\ od' = TRUE /\ os' = (os \/ ob = <<>>) /\ UNCHANGED <<oc, ob, or>>
        /\ hand' = hand /\ arrived' = arrived /\ dispatched' = dispatched
    BY <1>8 DEF DisposeOdd, odd!Dispose, flowVars
  <2>2. /\ od' \in BOOLEAN /\ os' \in BOOLEAN
        /\ (os' => ob = <<>>) /\ (os' => od') /\ (os => os')
    BY <1>0, <2>1 DEF OddHalf, Half, HalfType, HalfClosed
  <2>3. HalfType(oc, ob, od', os', or, hand["odd"], arrived["odd"], dispatched["odd"])
    BY <1>0, <2>2 DEF OddHalf, Half, HalfType
  <2>4. HalfClosed(oc, ob, od', os', or, hand["odd"])
    BY <1>0, <2>2 DEF OddHalf, Half, HalfType, HalfClosed
  <2>5. HalfOrder(oc, ob, hand["odd"], arrived["odd"], dispatched["odd"])
    BY <1>0 DEF OddHalf, Half
  <2> QED BY <2>1, <2>3, <2>4, <2>5 DEF OddHalf, Half
<1>9. CASE EndOdd
  <2>1. /\ or = "idle" /\ os /\ oc = <<>> /\ or' = "ended" /\ UNCHANGED <<oc, ob, od, os>>
        /\ hand' = hand /\ arrived' = arrived /\ dispatched' = dispatched
    BY <1>9 DEF EndOdd, odd!End, Post, flowVars
  <2>2. Half(oc, ob, od, os, "ended", hand["odd"], arrived["odd"], dispatched["odd"])
    BY <1>0, <2>1, HalfEnd DEF OddHalf
  <2> QED BY <2>1, <2>2 DEF OddHalf
<1>10. CASE UNCHANGED vars
  BY <1>1, <1>10 DEF vars, flowVars
<1> QED BY <1>2, <1>3, <1>4, <1>5, <1>6, <1>7, <1>8, <1>9, <1>10
        DEF Next, ReaderStep, OddStep, EvenStep

LEMMA EvenPreserved == IInv /\ [Next]_vars => EvenHalf'
<1> SUFFICES ASSUME IInv, [Next]_vars PROVE EvenHalf'
  OBVIOUS
<1> DEFINE Kept == UNCHANGED evenVars /\ hand'["even"] = hand["even"]
                   /\ arrived'["even"] = arrived["even"] /\ dispatched'["even"] = dispatched["even"]
<1>0. Shapes /\ EvenHalf /\ "odd" \in Parity /\ "even" \in Parity /\ "odd" # "even"
  BY DEF IInv, Parity
<1>1. Kept => EvenHalf'
  BY <1>0 DEF EvenHalf, evenVars
<1>2. CASE Select \/ ReadZero \/ ReadEnds \/ DisposeOdd \/ Join \/ Close \/ Cancel
  BY <1>1, <1>2 DEF Select, ReadZero, ReadEnds, DisposeOdd, Join, Close, Cancel, flowVars
<1>3. CASE ReadOdd \/ TakeOdd \/ Dispatch("odd") \/ LoadOdd \/ EndOdd
  BY <1>0, <1>1, <1>3 DEF ReadOdd, ReadInto, TakeOdd, Take, Dispatch, LoadOdd, AfterDispatch,
                          EndOdd, Post, flowVars, Shapes
<1>4. CASE ReadEven
  <2>1. hand' = hand /\ dispatched' = dispatched /\ arrived'["even"] = arrived["even"] + 1
    BY <1>0, <1>4 DEF ReadEven, ReadInto, Shapes
  <2>2. arrived["even"] < MaxFrames
    <3>1. arrived["odd"] + arrived["even"] + zeros < MaxFrames
      BY <1>4 DEF ReadEven, ReadInto, MayRead
    <3>2. arrived["odd"] \in 0..MaxFrames /\ arrived["even"] \in 0..MaxFrames /\ zeros \in Nat
      BY <1>0 DEF Shapes
    <3> QED BY <3>1, <3>2, ReaderAssumption DEF ReaderAssumption
  <2>3. ~ed /\ UNCHANGED <<ed, es, er>>
    BY <1>4 DEF ReadEven, even!Put
  <2>4. \/ ec = <<>> /\ eb = <<>> /\ ec' = <<arrived["even"] + 1>> /\ eb' = eb
        \/ eb' = Append(eb, arrived["even"] + 1) /\ ec' = ec
    BY <1>4 DEF ReadEven, even!Put
  <2>5. Half(ec', eb', ed, es, er, hand["even"], arrived["even"] + 1, dispatched["even"])
    BY <1>0, <2>2, <2>3, <2>4, ReaderAssumption, HalfPut DEF EvenHalf
  <2> QED BY <2>1, <2>3, <2>5 DEF EvenHalf
<1>5. CASE TakeEven
  <2>1. /\ er = "idle" /\ ec # <<>> /\ ec' = <<>> /\ er' = "loading"
        /\ UNCHANGED <<eb, ed, es>>
    BY <1>5 DEF TakeEven, even!Receive
  <2>2. hand'["even"] = Head(ec) /\ arrived' = arrived /\ dispatched' = dispatched
    BY <1>0, <1>5 DEF TakeEven, Take, flowVars, Shapes
  <2>3. Half(ec', eb, ed, es, "loading", Head(ec), arrived["even"], dispatched["even"])
    BY <1>0, <2>1, ReaderAssumption, HalfTake DEF EvenHalf
  <2> QED BY <2>1, <2>2, <2>3 DEF EvenHalf
<1>6. CASE Dispatch("even")
  <2>1. /\ hand["even"] # 0 /\ hand'["even"] = 0 /\ arrived' = arrived /\ UNCHANGED evenVars
        /\ dispatched'["even"] = Append(dispatched["even"], hand["even"])
    BY <1>0, <1>6 DEF Dispatch, Shapes
  <2>2. Half(ec, eb, ed, es, er, 0, arrived["even"], Append(dispatched["even"], hand["even"]))
    BY <1>0, <2>1, ReaderAssumption, HalfDispatch DEF EvenHalf
  <2> QED BY <2>1, <2>2 DEF EvenHalf, evenVars
<1>7. CASE LoadEven
  <2>1. /\ hand["even"] = 0 /\ hand' = hand /\ arrived' = arrived /\ dispatched' = dispatched
        /\ er = "loading" /\ er' = "idle" /\ ed' = ed
        /\ es' = (es \/ (eb = <<>> /\ ed))
    BY <1>7 DEF LoadEven, AfterDispatch, even!Load, flowVars
  <2>2. \/ eb # <<>> /\ ec = <<>> /\ ec' = <<Head(eb)>> /\ eb' = Tail(eb)
        \/ ~(eb # <<>> /\ ec = <<>>) /\ ec' = ec /\ eb' = eb
    BY <1>7 DEF LoadEven, even!Load
  <2>3. Half(ec', eb', ed, es', "idle", hand["even"], arrived["even"], dispatched["even"])
    BY <1>0, <2>1, <2>2, ReaderAssumption, HalfLoad DEF EvenHalf
  <2> QED BY <2>1, <2>3 DEF EvenHalf
<1>8. CASE DisposeEven
  <2>1. /\ ed' = TRUE /\ es' = (es \/ eb = <<>>) /\ UNCHANGED <<ec, eb, er>>
        /\ hand' = hand /\ arrived' = arrived /\ dispatched' = dispatched
    BY <1>8 DEF DisposeEven, even!Dispose, flowVars
  <2>2. /\ ed' \in BOOLEAN /\ es' \in BOOLEAN
        /\ (es' => eb = <<>>) /\ (es' => ed') /\ (es => es')
    BY <1>0, <2>1 DEF EvenHalf, Half, HalfType, HalfClosed
  <2>3. HalfType(ec, eb, ed', es', er, hand["even"], arrived["even"], dispatched["even"])
    BY <1>0, <2>2 DEF EvenHalf, Half, HalfType
  <2>4. HalfClosed(ec, eb, ed', es', er, hand["even"])
    BY <1>0, <2>2 DEF EvenHalf, Half, HalfType, HalfClosed
  <2>5. HalfOrder(ec, eb, hand["even"], arrived["even"], dispatched["even"])
    BY <1>0 DEF EvenHalf, Half
  <2> QED BY <2>1, <2>3, <2>4, <2>5 DEF EvenHalf, Half
<1>9. CASE EndEven
  <2>1. /\ er = "idle" /\ es /\ ec = <<>> /\ er' = "ended" /\ UNCHANGED <<ec, eb, ed, es>>
        /\ hand' = hand /\ arrived' = arrived /\ dispatched' = dispatched
    BY <1>9 DEF EndEven, even!End, Post, flowVars
  <2>2. Half(ec, eb, ed, es, "ended", hand["even"], arrived["even"], dispatched["even"])
    BY <1>0, <2>1, HalfEnd DEF EvenHalf
  <2> QED BY <2>1, <2>2 DEF EvenHalf
<1>10. CASE UNCHANGED vars
  BY <1>1, <1>10 DEF vars, flowVars
<1> QED BY <1>2, <1>3, <1>4, <1>5, <1>6, <1>7, <1>8, <1>9, <1>10
        DEF Next, ReaderStep, OddStep, EvenStep

LEMMA JoinsPreserved == IInv /\ [Next]_vars => Joins'
<1> SUFFICES ASSUME IInv, [Next]_vars PROVE Joins'
  OBVIOUS
<1> DEFINE Same == UNCHANGED <<posted, joined, connOpen>>
<1> DEFINE Before == {"select", "read", "disposeOdd", "disposeEven"}
<1>0. Shapes /\ Joins
  BY DEF IInv
<1>1. (UNCHANGED or => Ended(or)' = Ended(or)) /\ (UNCHANGED er => Ended(er)' = Ended(er))
  BY DEF Ended
<1>2. Same /\ UNCHANGED <<or, er, rpc>> => Joins'
  BY <1>0, <1>1 DEF Joins
<1>3. Same /\ UNCHANGED <<or, er>> /\ rpc \in Before /\ rpc' \in Before \cup {"join"} => Joins'
  BY <1>0, <1>1 DEF Joins
<1>4. CASE Select \/ ReadZero \/ ReadEnds
  BY <1>3, <1>4 DEF Select, ReadZero, ReadEnds, MayRead, oddVars, evenVars, joinVars
<1>5. CASE ReadOdd \/ ReadEven
  BY <1>3, <1>5 DEF ReadOdd, ReadEven, ReadInto, MayRead, odd!Put, even!Put, oddVars, evenVars, joinVars
<1>6. CASE DisposeOdd \/ DisposeEven
  BY <1>3, <1>6 DEF DisposeOdd, DisposeEven, odd!Dispose, even!Dispose, oddVars, evenVars, joinVars
<1>7. CASE Cancel \/ Dispatch("odd") \/ Dispatch("even")
  BY <1>2, <1>7 DEF Cancel, Dispatch, oddVars, evenVars, joinVars
<1>8. CASE TakeOdd \/ TakeEven \/ LoadOdd \/ LoadEven
  <2>1. Same /\ rpc' = rpc
    BY <1>8 DEF TakeOdd, TakeEven, LoadOdd, LoadEven, Take, AfterDispatch, joinVars
  <2>2. Ended(or)' = Ended(or) /\ Ended(er)' = Ended(er)
    BY <1>1, <1>8 DEF TakeOdd, TakeEven, LoadOdd, LoadEven, odd!Receive, even!Receive,
                      odd!Load, even!Load, oddVars, evenVars, Ended
  <2> QED BY <1>0, <2>1, <2>2 DEF Joins
<1>9. CASE Join
  <2>1. /\ rpc = "join" /\ posted = TRUE /\ posted' = FALSE /\ joined' = joined + 1
        /\ rpc' = (IF joined = 1 THEN "close" ELSE "join")
        /\ UNCHANGED <<or, er, connOpen>>
    BY <1>0, <1>9 DEF Join, Joins, oddVars, evenVars
  <2>2. joined \in 0..1
    BY <1>0, <2>1 DEF Joins
  <2>3. joined' + (IF posted' THEN 1 ELSE 0) = (Ended(or) + Ended(er))'
    BY <1>0, <1>1, <2>1, <2>2 DEF Joins
  <2>4. joined' \in 0..2 /\ posted' \in BOOLEAN /\ connOpen' \in BOOLEAN
    <3>1. joined' \in 0..2
      BY <2>1, <2>2
    <3>2. posted' \in BOOLEAN /\ connOpen' = connOpen
      BY <2>1, Zenon
    <3> QED BY <1>0, <3>1, <3>2 DEF Joins
  <2>5. CASE joined = 1
    BY <2>1, <2>3, <2>4, <2>5 DEF Joins
  <2>6. CASE joined = 0
    BY <2>1, <2>3, <2>4, <2>6 DEF Joins
  <2> QED BY <2>2, <2>5, <2>6
<1>10. CASE Close
  <2>1. rpc = "close" /\ rpc' = "returned" /\ connOpen' = FALSE
        /\ UNCHANGED <<or, er, posted, joined>>
    BY <1>10 DEF Close, oddVars, evenVars
  <2> QED BY <1>0, <1>1, <2>1 DEF Joins
<1>11. CASE EndOdd \/ EndEven
  <2>1. /\ posted = FALSE /\ posted' = TRUE /\ UNCHANGED <<rpc, joined, connOpen>>
    BY <1>0, <1>11 DEF EndOdd, EndEven, Post, Joins
  <2>2. (Ended(or) + Ended(er))' = Ended(or) + Ended(er) + 1
    BY <1>11 DEF EndOdd, EndEven, odd!End, even!End, oddVars, evenVars, Ended
  <2>3. joined \in 0..2 /\ joined + 0 = Ended(or) + Ended(er)
    BY <1>0, <2>1 DEF Joins
  <2> QED BY <1>0, <2>1, <2>2, <2>3 DEF Joins
<1>12. CASE UNCHANGED vars
  BY <1>2, <1>12 DEF vars, oddVars, evenVars, joinVars
<1> QED BY <1>4, <1>5, <1>6, <1>7, <1>8, <1>9, <1>10, <1>11, <1>12
        DEF Next, ReaderStep, OddStep, EvenStep

LEMMA LatesPreserved == IInv /\ [Next]_vars => Lates'
<1> SUFFICES ASSUME IInv, [Next]_vars PROVE Lates'
  OBVIOUS
<1>0. Shapes /\ Lates
  BY DEF IInv
<1>1. UNCHANGED <<late, rpc, arrived, zeros>> /\ (err => err') => Lates'
  BY <1>0 DEF Lates, Total
<1>2. CASE TakeOdd \/ TakeEven \/ LoadOdd \/ LoadEven \/ EndOdd \/ EndEven
  BY <1>1, <1>2 DEF TakeOdd, TakeEven, LoadOdd, LoadEven, EndOdd, EndEven,
                    Take, AfterDispatch, Post, flowVars, stopVars
<1>6. CASE Dispatch("odd") \/ Dispatch("even")
  <2>1. UNCHANGED <<late, rpc, arrived, zeros>> /\ err' \in {err, TRUE}
    BY <1>6 DEF Dispatch
  <2> QED BY <1>1, <2>1
<1>7. CASE Cancel \/ UNCHANGED vars
  BY <1>1, <1>7 DEF Cancel, vars, flowVars, stopVars
<1>3. CASE ReadOdd \/ ReadEven \/ ReadZero
  <2>1. rpc = "read" /\ rpc' \in {"select", "disposeOdd"} /\ err' = err
        /\ late' = IF err THEN late + 1 ELSE late
    BY <1>3 DEF ReadOdd, ReadEven, ReadZero, ReadInto, MayRead, CountLate
  <2>2. late = 0
    BY <1>0, <2>1 DEF Lates
  <2>3. Total' >= 1
    <3>1. CASE ReadZero
      BY <1>0, <3>1 DEF ReadZero, Shapes, Total, Parity
    <3>2. CASE ReadOdd
      BY <1>0, <3>2 DEF ReadOdd, ReadInto, Shapes, Total, Parity
    <3>3. CASE ReadEven
      BY <1>0, <3>3 DEF ReadEven, ReadInto, Shapes, Total, Parity
    <3> QED BY <1>3, <3>1, <3>2, <3>3
  <2> QED BY <1>0, <2>1, <2>2, <2>3 DEF Lates, Shapes
<1>4. CASE Select
  <2>1. UNCHANGED <<late, arrived, zeros>> /\ rpc' \in {"read", "disposeOdd"}
        /\ (rpc' = "read" => ~err) /\ rpc = "select"
    BY <1>4 DEF Select, flowVars
  <2> QED BY <1>0, <2>1 DEF Lates, Total
<1>5. CASE ReadEnds \/ DisposeOdd \/ DisposeEven \/ Join \/ Close
  <2>1. UNCHANGED <<late, arrived, zeros>> /\ rpc' \notin {"select", "read"}
    BY <1>5 DEF ReadEnds, DisposeOdd, DisposeEven, Join, Close, flowVars, stopVars
  <2> QED BY <1>0, <2>1 DEF Lates, Total
<1> QED BY <1>2, <1>3, <1>4, <1>5, <1>6, <1>7 DEF Next, ReaderStep, OddStep, EvenStep

LEMMA Always == Spec => []IInv
<1>1. IInv /\ [Next]_vars => IInv'
  BY ShapesPreserved, OddPreserved, EvenPreserved, JoinsPreserved, LatesPreserved DEF IInv
<1> QED BY Initially, <1>1, PTL DEF Spec

-----------------------------------------------------------------------------

\* The frames of a parity, hence of a stream, are handled in their order.
THEOREM FramesInOrder == Spec => []InOrder
<1>1. IInv => InOrder
  <2> SUFFICES ASSUME IInv, NEW p \in Parity, NEW i \in DOMAIN dispatched[p]
               PROVE  dispatched[p][i] = i
    BY DEF InOrder
  <2>1. dispatched[p] \in Seq(Frames)
    BY DEF IInv, Shapes
  <2>2. i \in 1..Len(dispatched[p])
    BY <2>1
  <2>3. p = "odd" \/ p = "even"
    BY DEF Parity
  <2> QED BY <2>2, <2>3 DEF IInv, OddHalf, EvenHalf, Half, HalfOrder
<1> QED BY <1>1, Always, PTL

\* Start closes the connection after the last frame it read has been handled.
THEOREM StartDrains == Spec => []DrainedAtClose
<1>1. IInv => DrainedAtClose
  <2> SUFFICES ASSUME IInv, rpc \in {"close", "returned"}
               PROVE  /\ or = "ended" /\ er = "ended"
                      /\ \A p \in Parity : hand[p] = 0 /\ Len(dispatched[p]) = arrived[p]
    BY DEF DrainedAtClose
  <2>1. joined = 2
    BY DEF IInv, Joins
  <2>2. Ended(or) \in 0..1 /\ Ended(er) \in 0..1
    BY DEF Ended
  <2>3. Ended(or) = 1 /\ Ended(er) = 1
    BY <2>1, <2>2 DEF IInv, Joins
  <2>4. or = "ended" /\ er = "ended"
    BY <2>3 DEF Ended
  <2>5. hand["odd"] = 0 /\ oc = <<>> /\ ob = <<>>
    BY <2>4 DEF IInv, OddHalf, Half, HalfClosed
  <2>6. hand["even"] = 0 /\ ec = <<>> /\ eb = <<>>
    BY <2>4 DEF IInv, EvenHalf, Half, HalfClosed
  <2>7. Len(oc) = 0 /\ Len(ob) = 0 /\ Len(ec) = 0 /\ Len(eb) = 0
    BY <2>5, <2>6, EmptySeq
  <2>8. Len(dispatched["odd"]) \in Nat /\ Len(dispatched["even"]) \in Nat
    BY LenZero DEF IInv, OddHalf, EvenHalf, Half, HalfType
  <2>9. arrived["odd"] = Len(dispatched["odd"])
    BY <2>5, <2>7, <2>8 DEF IInv, OddHalf, Half, HalfOrder, InHand
  <2>10. arrived["even"] = Len(dispatched["even"])
    BY <2>6, <2>7, <2>8 DEF IInv, EvenHalf, Half, HalfOrder, InHand
  <2> QED BY <2>4, <2>5, <2>6, <2>9, <2>10 DEF Parity
<1> QED BY <1>1, Always, PTL

\* Neither Put nor Load ever sends on a closed channel.
THEOREM ChannelsOpen == Spec => []NoSendOnClosed
<1>1. IInv => NoSendOnClosed
  BY DEF IInv, OddHalf, EvenHalf, Half, HalfClosed, NoSendOnClosed,
         odd!ClosedIsFinal, even!ClosedIsFinal
<1> QED BY <1>1, Always, PTL

\* A failed handler lets at most one more frame in.
THEOREM OneLateRead == Spec => []AtMostOneLateRead
<1>1. IInv => AtMostOneLateRead
  BY DEF IInv, Lates, AtMostOneLateRead
<1> QED BY <1>1, Always, PTL

\* Start ends cleanly, whatever the peer sends and whenever a handler fails.
THEOREM StopsCleanly == Spec => []CleanStop
BY StartDrains, ChannelsOpen, OneLateRead, PTL DEF CleanStop

\* Both buffers and all counters keep their types and bounds.
THEOREM ReaderTypes == Spec => []TypeOK
<1>1. IInv => TypeOK
  <2> SUFFICES ASSUME IInv PROVE TypeOK
    OBVIOUS
  <2>0. MaxFrames \in Nat
    BY ReaderAssumption DEF ReaderAssumption
  <2>1. odd!TypeOK /\ even!TypeOK
    BY DEF IInv, OddHalf, EvenHalf, Half, HalfType, Frames, odd!TypeOK, even!TypeOK
  <2>2. ASSUME NEW p \in Parity PROVE Len(dispatched[p]) <= arrived[p]
    <3>1. /\ Len(oc) \in Nat /\ Len(ob) \in Nat /\ Len(dispatched["odd"]) \in Nat
          /\ Len(ec) \in Nat /\ Len(eb) \in Nat /\ Len(dispatched["even"]) \in Nat
      BY LenZero DEF IInv, OddHalf, EvenHalf, Half, HalfType
    <3>2. CASE p = "odd"
      <4>1. arrived["odd"] = Len(dispatched["odd"]) + InHand(hand["odd"]) + Len(oc) + Len(ob)
        BY DEF IInv, OddHalf, Half, HalfOrder
      <4>2. InHand(hand["odd"]) \in Nat
        BY DEF InHand
      <4> QED BY <3>1, <3>2, <4>1, <4>2
    <3>3. CASE p = "even"
      <4>1. arrived["even"] = Len(dispatched["even"]) + InHand(hand["even"]) + Len(ec) + Len(eb)
        BY DEF IInv, EvenHalf, Half, HalfOrder
      <4>2. InHand(hand["even"]) \in Nat
        BY DEF InHand
      <4> QED BY <3>1, <3>3, <4>1, <4>2
    <3> QED BY <3>2, <3>3 DEF Parity
  <2>3. arrived["odd"] \in Nat /\ arrived["even"] \in Nat /\ zeros \in 0..MaxFrames
        /\ late \in 0..MaxFrames
    BY <2>0 DEF IInv, Shapes, Lates, Total, Parity
  <2>4. /\ rpc \in {"select", "read", "disposeOdd", "disposeEven", "join", "close", "returned"}
        /\ hand \in [Parity -> 0..MaxFrames] /\ arrived \in [Parity -> 0..MaxFrames]
        /\ err \in BOOLEAN /\ cancelled \in BOOLEAN
    BY DEF IInv, Shapes
  <2>5. posted \in BOOLEAN /\ joined \in 0..2 /\ connOpen \in BOOLEAN
    BY DEF IInv, Joins
  <2> QED BY <2>1, <2>2, <2>3, <2>4, <2>5 DEF TypeOK
<1> QED BY <1>1, Always, PTL

-----------------------------------------------------------------------------

\* The prefix of a queue of at most one item, and the rest behind it.
LEMMA AppendBehind ==
  ASSUME NEW S, NEW h \in Seq(S), NEW t \in Seq(S), NEW x \in S
  PROVE  h \o Append(t, x) = Append(h \o t, x)
  OBVIOUS

LEMMA HeadAndTail ==
  ASSUME NEW S, NEW s \in Seq(S), s # <<>>
  PROVE  <<Head(s)>> \o Tail(s) = s
  OBVIOUS

LEMMA TailOfOne ==
  ASSUME NEW S, NEW h \in Seq(S), NEW t \in Seq(S), Len(h) = 1
  PROVE  h \o t # <<>> /\ Tail(h \o t) = t
<1> DEFINE q == h \o t
<1>a. /\ q \in Seq(S) /\ Len(q) = Len(h) + Len(t)
      /\ \A j \in 1..(Len(h) + Len(t)) : q[j] = IF j <= Len(h) THEN h[j] ELSE t[j - Len(h)]
  BY ConcatProperties
<1>1. q \in Seq(S) /\ Len(q) = 1 + Len(t)
  BY <1>a
<1>2. \A j \in 1..(1 + Len(t)) : j > 1 => q[j] = t[j - 1]
  <2> HIDE DEF q
  <2>1. Len(t) \in Nat
    BY LenProperties
  <2>2. \A j \in 1..(1 + Len(t)) : j > 1 => ~(j <= 1)
    BY <2>1
  <2> QED BY <1>a, <2>2
<1> HIDE DEF q
<1>3. Len(t) \in Nat /\ q # <<>>
  BY <1>1, EmptySeq
<1>4. Tail(q) \in Seq(S) /\ Len(Tail(q)) = Len(t)
        /\ \A i \in 1..Len(t) : Tail(q)[i] = q[i + 1]
  BY <1>1, <1>3, HeadTailProperties
<1>5. \A i \in 1..Len(t) : q[i + 1] = t[i]
  <2>1. ASSUME NEW i \in 1..Len(t) PROVE q[i + 1] = t[i]
    <3>1. i + 1 \in 1..(1 + Len(t)) /\ i + 1 > 1 /\ (i + 1) - 1 = i
      BY <1>3
    <3> QED BY <1>2, <3>1
  <2> QED BY <2>1
<1>6. Tail(q) = t
  BY <1>4, <1>5, SeqEqual
<1> QED BY <1>3, <1>6 DEF q

LEMMA SingleItem ==
  ASSUME NEW S, NEW x \in S
  PROVE  <<x>> \in Seq(S) /\ Len(<<x>>) = 1 /\ <<x>> # <<>>
  OBVIOUS

\* Whatever the reader does, to the buffer of the odd frames it is a step of
\* the buffer, or none.
LEMMA OddSteps == IInv /\ [Next]_vars => [odd!Next]_(odd!vars)
<1> SUFFICES ASSUME IInv, [Next]_vars PROVE [odd!Next]_(odd!vars)
  OBVIOUS
<1>1. CASE ReadOdd
  <2>1. arrived["odd"] + 1 \in 1..MaxFrames
    <3>1. arrived["odd"] + arrived["even"] + zeros < MaxFrames
      BY <1>1 DEF ReadOdd, ReadInto, MayRead
    <3>2. arrived["odd"] \in 0..MaxFrames /\ arrived["even"] \in 0..MaxFrames /\ zeros \in Nat
      BY DEF IInv, Shapes, Parity
    <3> QED BY <3>1, <3>2, ReaderAssumption DEF ReaderAssumption
  <2> QED BY <1>1, <2>1 DEF ReadOdd, odd!Put, odd!Next
<1>2. CASE TakeOdd
  BY <1>2 DEF TakeOdd, odd!Receive, odd!Next
<1>3. CASE LoadOdd
  BY <1>3 DEF LoadOdd, odd!Load, odd!Next
<1>4. CASE DisposeOdd
  BY <1>4 DEF DisposeOdd, odd!Dispose, odd!Next
<1>5. CASE EndOdd
  BY <1>5 DEF EndOdd, odd!End, odd!Next
<1>6. CASE Select \/ ReadZero \/ ReadEnds \/ DisposeEven \/ Join \/ Close \/ Cancel
  BY <1>6 DEF Select, ReadZero, ReadEnds, DisposeEven, Join, Close, Cancel, oddVars, odd!vars
<1>7. CASE \/ ReadEven \/ TakeEven \/ LoadEven \/ EndEven
           \/ Dispatch("odd") \/ Dispatch("even")
  BY <1>7 DEF ReadEven, TakeEven, LoadEven, EndEven, Dispatch, oddVars, odd!vars
<1>8. CASE UNCHANGED vars
  BY <1>8 DEF vars, oddVars, odd!vars
<1> QED BY <1>1, <1>2, <1>3, <1>4, <1>5, <1>6, <1>7, <1>8
        DEF Next, ReaderStep, OddStep, EvenStep

\* The inductive invariant: a waiting reader has work, unless there is none.
BufferInv == odd!TypeOK /\ odd!ClosedIsFinal /\ odd!NobodyStranded

LEMMA BufferInitially == odd!Init => BufferInv
<1> SUFFICES ASSUME odd!Init PROVE BufferInv
  OBVIOUS
<1>2. odd!TypeOK
  <2>1. oc \in Seq(1..MaxFrames) /\ Len(oc) = 0 /\ ob \in Seq(1..MaxFrames)
    BY EmptySeq DEF odd!Init
  <2>2. od = FALSE /\ os = FALSE /\ or = "idle"
    BY DEF odd!Init
  <2>3. Len(oc) <= 1
    BY <2>1
  <2>4. or \in {"idle", "loading", "ended"} /\ od \in BOOLEAN /\ os \in BOOLEAN
    BY <2>2
  <2> QED BY <2>1, <2>3, <2>4 DEF odd!TypeOK
<1> QED BY <1>2 DEF odd!Init, BufferInv, odd!ClosedIsFinal, odd!NobodyStranded

LEMMA BufferPreserved == BufferInv /\ [odd!Next]_(odd!vars) => BufferInv'
<1> SUFFICES ASSUME BufferInv, [odd!Next]_(odd!vars) PROVE BufferInv'
  OBVIOUS
<1> USE DEF BufferInv, odd!TypeOK, odd!ClosedIsFinal, odd!NobodyStranded
<1>1. ASSUME NEW x \in 1..MaxFrames, odd!Put(x) PROVE BufferInv'
  <2>1. CASE ob = <<>> /\ oc = <<>>
    <3>1. /\ oc' = <<x>> /\ ob' = <<>> /\ ~od
          /\ od' = od /\ os' = os /\ or' = or
      BY <1>1, <2>1 DEF odd!Put
    <3>2. oc' \in Seq(1..MaxFrames) /\ Len(oc') = 1 /\ oc' # <<>>
      BY <3>1, SingleItem
    <3> QED BY <3>1, <3>2
  <2>2. CASE ~(ob = <<>> /\ oc = <<>>)
    <3>1. /\ oc' = oc /\ ob' = Append(ob, x) /\ ~od
          /\ od' = od /\ os' = os /\ or' = or
      BY <1>1, <2>2 DEF odd!Put
    <3>2. \A S : \A q \in Seq(S) : \A y \in S : Append(q, y) \in Seq(S)
      OBVIOUS
    <3>3. ob' \in Seq(1..MaxFrames)
      BY <1>1, <3>1, <3>2
    <3> QED BY <2>2, <3>1, <3>3
  <2> QED BY <2>1, <2>2
<1>2. CASE odd!Receive
  BY <1>2 DEF odd!Receive
<1>3. CASE odd!Load
  <2>1. CASE ob # <<>> /\ oc = <<>>
    <3>0. \A S : \A q \in Seq(S) : q # <<>> => Head(q) \in S /\ Tail(q) \in Seq(S)
      OBVIOUS
    <3>1. Head(ob) \in 1..MaxFrames /\ Tail(ob) \in Seq(1..MaxFrames)
      BY <2>1, <3>0
    <3>2. <<Head(ob)>> \in Seq(1..MaxFrames) /\ Len(<<Head(ob)>>) = 1
      BY <3>1, SingleItem
    <3>3. <<Head(ob)>> # <<>>
      BY <3>2
    <3>4. oc' = <<Head(ob)>> /\ ob' = Tail(ob)
      BY <1>3, <2>1 DEF odd!Load
    <3>5. /\ or = "loading" /\ or' = "idle"
          /\ os' = (os \/ (ob = <<>> /\ od)) /\ od' = od
      BY <1>3 DEF odd!Load
    <3>6. oc' \in Seq(1..MaxFrames) /\ Len(oc') <= 1 /\ oc' # <<>> /\ ob' \in Seq(1..MaxFrames)
      BY <3>1, <3>2, <3>3, <3>4
    <3>7. os' = FALSE /\ od' \in BOOLEAN
      BY <2>1, <3>5
    <3> QED BY <3>5, <3>6, <3>7
  <2>2. CASE ~(ob # <<>> /\ oc = <<>>)
    BY <1>3, <2>2 DEF odd!Load
  <2> QED BY <2>1, <2>2
<1>4. CASE odd!Dispose
  BY <1>4 DEF odd!Dispose
<1>5. CASE odd!End
  BY <1>5 DEF odd!End
<1>6. CASE UNCHANGED odd!vars
  BY <1>6 DEF odd!vars
<1> QED BY <1>1, <1>2, <1>3, <1>4, <1>5, <1>6 DEF odd!Next

LEMMA BufferInitRefines == odd!Init => odd!Fifo!Init
  BY ConcatEmptySeq DEF odd!Init, odd!Fifo!Init

LEMMA BufferStepRefines == BufferInv /\ [odd!Next]_(odd!vars) => [odd!Fifo!Next]_(odd!Fifo!vars)
<1> SUFFICES ASSUME BufferInv, [odd!Next]_(odd!vars) PROVE [odd!Fifo!Next]_(odd!Fifo!vars)
  OBVIOUS
<1> USE DEF BufferInv, odd!TypeOK
<1>1. ASSUME NEW x \in 1..MaxFrames, odd!Put(x) PROVE odd!Fifo!Next
  <2>1. oc' \o ob' = Append(oc \o ob, x)
    <3>1. CASE ob = <<>> /\ oc = <<>>
      <4>1. oc' = <<x>> /\ ob' = <<>> /\ Append(<<>> \o <<>>, x) = <<x>> /\ <<x>> \o <<>> = <<x>>
        BY <1>1, <3>1 DEF odd!Put
      <4> QED BY <3>1, <4>1
    <3>2. CASE ~(ob = <<>> /\ oc = <<>>)
      <4>1. oc' = oc /\ ob' = Append(ob, x)
        BY <1>1, <3>2 DEF odd!Put
      <4>2. oc \o Append(ob, x) = Append(oc \o ob, x)
        BY <1>1, AppendBehind
      <4> QED BY <4>1, <4>2
    <3> QED BY <3>1, <3>2
  <2> QED BY <1>1, <2>1 DEF odd!Put, odd!Fifo!Next, odd!Fifo!Accept
<1>2. CASE odd!Receive
  <2>1. oc \o ob # <<>> /\ Tail(oc \o ob) = ob
    BY <1>2, TailOfOne DEF odd!Receive
  <2>2. oc' \o ob' = Tail(oc \o ob)
    BY <1>2, <2>1, ConcatEmptySeq DEF odd!Receive
  <2> QED BY <1>2, <2>1, <2>2 DEF odd!Receive, odd!Fifo!Next, odd!Fifo!Deliver
<1>3. CASE odd!Load
  <2>1. oc' \o ob' = oc \o ob
    <3>1. CASE ob # <<>> /\ oc = <<>>
      BY <1>3, <3>1, HeadAndTail, ConcatEmptySeq DEF odd!Load
    <3>2. CASE ~(ob # <<>> /\ oc = <<>>)
      BY <1>3, <3>2 DEF odd!Load
    <3> QED BY <3>1, <3>2
  <2> QED BY <1>3, <2>1 DEF odd!Load, odd!Fifo!vars
<1>4. CASE odd!Dispose
  BY <1>4 DEF odd!Dispose, odd!Fifo!Next, odd!Fifo!Shut
<1>5. CASE odd!End
  <2>1. oc \o ob = <<>> /\ oc' \o ob' = <<>> /\ od
    BY <1>5 DEF odd!End, odd!ClosedIsFinal
  <2> QED BY <1>5, <2>1 DEF odd!End, odd!Fifo!Next, odd!Fifo!End
<1>6. CASE UNCHANGED odd!vars
  BY <1>6 DEF odd!vars, odd!Fifo!vars
<1> QED BY <1>1, <1>2, <1>3, <1>4, <1>5, <1>6 DEF odd!Next

LEMMA BufferAlways == Spec => odd!Spec /\ []BufferInv
<1>1. Init => odd!Init
  BY DEF Init
<1>2. odd!Init => BufferInv
  BY BufferInitially
<1>3. BufferInv /\ [odd!Next]_(odd!vars) => BufferInv'
  BY BufferPreserved
<1> QED BY <1>1, <1>2, <1>3, OddSteps, Always, PTL DEF Spec, odd!Spec

\* A handler that waits on the empty channel of the odd frames' buffer has nothing
\* left in the backlog, and finds the channel closed once the buffer is disposed.
THEOREM ReaderNeverStranded == Spec => []odd!NobodyStranded
  BY BufferAlways, PTL DEF BufferInv

\* The buffer of the odd frames, inside the reader, is a FIFO queue: what the
\* handler receives from it is what was put, in that order, and its loop ends
\* exactly when the buffer is disposed and drained.
THEOREM OddImplementsFifo == Spec => OddIsFifo
<1>1. odd!Init => odd!Fifo!Init
  BY BufferInitRefines
<1>2. BufferInv /\ [odd!Next]_(odd!vars) => [odd!Fifo!Next]_(odd!Fifo!vars)
  BY BufferStepRefines
<1> QED BY <1>1, <1>2, BufferAlways, PTL DEF odd!Spec, odd!Fifo!Spec, OddIsFifo
=============================================================================
