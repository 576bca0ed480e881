------------------------ MODULE Fragmentation_proofs ------------------------
(***************************************************************************)
(* Theorems about Fragmentation: from an mtu of 14 on, whatever the sizes  *)
(* and the number of the payloads, and wherever a CANCEL or a REQUEST_N    *)
(* falls.                                                                  *)
(*   SplitsFit      no frame is too long, none is one its receiver refuses *)
(*   PayloadsJoined what is joined and dispatched is what was sent, but    *)
(*                  for what SeldomCut, Whole and NothingLeft let be cut   *)
(*   CutStaysLost   what is left of a cut request never is dispatched      *)
(***************************************************************************)
EXTENDS Fragmentation, SequenceTheorems, TLAPS

----------------------------------------------------------------------------
(* The inductive invariant of the splitter *)

Frame ==
  [type : {"REQUEST", "PAYLOAD"}, of : Nat, skip : {0, 4}, meta : Seq(Nat), data : Seq(Nat),
   metadata : BOOLEAN, follow : BOOLEAN, next : BOOLEAN, complete : BOOLEAN]

Marks == {[type |-> t] : t \in {"CANCEL", "REQUEST_N", "ERROR"}}

\* the frames that fit into n bytes and that Validate accepts
Fitting(n) == {f \in Frame : FrameLen(f) <= n /\ Valid(f)} \cup Marks

Joiners ==
  [open : {TRUE}, of : Nat, type : {"REQUEST", "PAYLOAD"}, next : BOOLEAN, complete : BOOLEAN,
   inMetadata : BOOLEAN, meta : Seq(Nat), data : Seq(Nat)] \cup {NoJoiner}

Control ==
  /\ mtu \in Mtus /\ kind \in Kinds /\ sent \in Seq(Payload) /\ Len(sent) <= MaxPayloads
  /\ split \in BOOLEAN /\ ended \in {"no", "final", "yes"} /\ cancel \in BOOLEAN
  /\ callback \in {"none", "in", "gone"} /\ completed \in BOOLEAN /\ dead \in {"no", "panic"}
  /\ cut \subseteq Nat /\ joiner \in Joiners

\* a split has something left to send, and each fragment took a byte at least
Cursors ==
  /\ idx \in Nat /\ cursor1 \in Nat /\ cursor2 \in Nat
  /\ idx <= cursor1 + cursor2
  /\ split => /\ sent # <<>>
              /\ cursor1 <= Current.m /\ cursor2 <= Current.d
              /\ cursor1 + cursor2 < Current.m + Current.d

IInv == Control /\ Cursors /\ wire \in Seq(Fitting(mtu))

\* the mtu from which a first fragment has room for a byte of metadata: header,
\* initial request n and metadata length take thirteen
LongEnough == \A n \in Mtus : n >= 14

LEMMA MarksFit == \A n : Marks \subseteq Fitting(n)
BY DEF Fitting

LEMMA CurrentIs ==
  ASSUME IInv, sent # <<>>
  PROVE  Current \in Payload /\ Current.m \in Nat /\ Current.d \in Nat /\ Current.final \in BOOLEAN
<1>1. sent \in Seq(Payload) /\ Len(sent) \in 1..Len(sent)
  BY DEF IInv, Control
<1>2. Current \in Payload
  BY <1>1 DEF Current
<1> QED BY <1>2, SizeAssumption DEF Payload

\* Bytes(lo, hi) are hi - lo positions.
LEMMA BytesAre ==
  ASSUME NEW lo \in Nat, NEW hi \in Nat, lo <= hi
  PROVE  /\ Bytes(lo, hi) \in Seq(Nat) /\ Len(Bytes(lo, hi)) = hi - lo
         /\ (Bytes(lo, hi) = <<>> <=> lo = hi)
<1>1. hi - lo \in Nat /\ \A i \in 1..(hi - lo) : lo + i \in Nat
  OBVIOUS
<1>2. Bytes(lo, hi) \in Seq(Nat) /\ Len(Bytes(lo, hi)) = hi - lo
  BY <1>1 DEF Bytes
<1> QED BY <1>2

LEMMA WholeBytes ==
  ASSUME NEW hi \in Nat
  PROVE  Bytes(0, hi) \in Seq(Nat) /\ Len(Bytes(0, hi)) = hi /\ (Bytes(0, hi) = <<>> <=> hi = 0)
<1>1. 0 \in Nat /\ 0 <= hi /\ hi - 0 = hi
  OBVIOUS
<1>2. Bytes(0, hi) \in Seq(Nat) /\ Len(Bytes(0, hi)) = hi - 0 /\ (Bytes(0, hi) = <<>> <=> 0 = hi)
  BY <1>1, BytesAre
<1> QED BY <1>1, <1>2

\* A frame of so many bytes of metadata and data is long as FrameLen counts, and
\* valid if the flag promises no more than there is.
LEMMA FrameFits ==
  ASSUME NEW n \in Nat, NEW f \in Frame,
         f.skip + Len(f.data) + (IF f.meta = <<>> THEN 0 ELSE 3 + Len(f.meta)) + 6 <= n,
         f.metadata => f.meta # <<>>
  PROVE  f \in Fitting(n)
<1>1. f.skip \in {0, 4} /\ Len(f.data) \in Nat /\ Len(f.meta) \in Nat
  BY DEF Frame
<1>2. FrameLen(f) <= n
  BY <1>1 DEF FrameLen, FrameHeaderLen
<1>3. Valid(f)
  <2>1. CASE f.meta # <<>>
    <3>1. FrameLen(f) = 6 + f.skip + Len(f.data) + (3 + Len(f.meta))
      BY <2>1 DEF FrameLen, FrameHeaderLen
    <3>2. \A s, d, m \in Nat : (6 + s + d + (3 + m)) - 6 >= s + 3
      OBVIOUS
    <3>3. FrameLen(f) - 6 >= f.skip + 3
      BY <1>1, <3>1, <3>2
    <3> QED BY <3>3 DEF Valid, FrameHeaderLen
  <2>2. CASE f.meta = <<>>
    BY <2>2 DEF Valid
  <2> QED BY <2>1, <2>2
<1> QED BY <1>2, <1>3 DEF Fitting

\* A cursor that is given room moves, by no more than the room, and not beyond the end.
LEMMA Advances ==
  ASSUME NEW end \in Nat, NEW from \in Nat, from <= end, NEW room \in Nat
  PROVE  LET to == Least(end, from + room) IN
           /\ to \in Nat /\ from <= to /\ to <= end /\ to - from <= room
           /\ room > 0 /\ from < end => to > from
<1>1. CASE end < from + room
  BY <1>1 DEF Least
<1>2. CASE ~(end < from + room)
  BY <1>2 DEF Least
<1> QED BY <1>1, <1>2

----------------------------------------------------------------------------
(* The steps *)

LEMMA SendFits ==
  ASSUME LongEnough, IInv, NEW p \in Payload, Send(p)
  PROVE  IInv'
<1>1. Control /\ Cursors /\ wire \in Seq(Fitting(mtu)) /\ mtu \in Nat /\ mtu >= 14
  BY MtuAssumption DEF IInv, Control, LongEnough
<1>2. p.m \in Nat /\ p.d \in Nat /\ p.final \in BOOLEAN
  BY SizeAssumption DEF Payload
<1>3. /\ sent' = Append(sent, p) /\ ended' = (IF p.final THEN "final" ELSE "no") /\ mtu' = mtu
      /\ UNCHANGED <<kind, cancel, joiner, cut, callback, got, completed, dead>>
  BY DEF Send, recvVars
<1>4. /\ sent' \in Seq(Payload) /\ Len(sent') = Len(sent) + 1 /\ sent' # <<>>
      /\ sent'[Len(sent')] = p
  BY <1>1, <1>3 DEF Control
<1>5. Len(sent') <= MaxPayloads
  BY <1>1, <1>4, SizeAssumption DEF Send, MaySend, Control
<1> DEFINE n == Len(sent) + 1
<1>6. Skip(n, 0) \in {0, 4}
  BY DEF Skip
<1>7. CASE Size(p, Skip(n, 0)) > mtu
  <2>1. split' = TRUE /\ idx' = 0 /\ cursor1' = 0 /\ cursor2' = 0 /\ wire' = wire
    BY <1>7 DEF Send
  <2>2. p.m + p.d > 0
    BY <1>1, <1>2, <1>6, <1>7 DEF Size, FrameHeaderLen
  <2>3. Control'
    BY <1>1, <1>2, <1>3, <1>4, <1>5, <2>1 DEF Control
  <2>4. Cursors'
    BY <1>2, <1>4, <2>1, <2>2, SizeAssumption DEF Cursors, Current
  <2> QED BY <1>1, <1>3, <2>1, <2>3, <2>4 DEF IInv
<1>8. CASE ~(Size(p, Skip(n, 0)) > mtu)
  <2> DEFINE f == [type |-> Type(n, 0), of |-> n, skip |-> Skip(n, 0), meta |-> Bytes(0, p.m), data |-> Bytes(0, p.d),
                   metadata |-> p.m > 0, follow |-> FALSE, next |-> TRUE, complete |-> p.final]
  <2>1. wire' = Append(wire, f) /\ UNCHANGED <<split, idx, cursor1, cursor2>>
    BY <1>8 DEF Send, SendWhole, splitVars
  <2>2. /\ Bytes(0, p.m) \in Seq(Nat) /\ Len(Bytes(0, p.m)) = p.m /\ (Bytes(0, p.m) = <<>> <=> p.m = 0)
        /\ Bytes(0, p.d) \in Seq(Nat) /\ Len(Bytes(0, p.d)) = p.d
    BY <1>2, WholeBytes
  <2>3. f \in Frame
    <3>1. Type(n, 0) \in {"REQUEST", "PAYLOAD"}
      BY DEF Type
    <3>2. n \in Nat
      BY <1>1 DEF Control
    <3> QED BY <3>1, <3>2, <1>2, <1>6, <2>2 DEF Frame
  <2>4. f \in Fitting(mtu)
    <3>a. /\ f.skip = Skip(n, 0) /\ f.data = Bytes(0, p.d) /\ f.meta = Bytes(0, p.m)
          /\ (f.metadata <=> p.m > 0)
      OBVIOUS
    <3> DEFINE s == Skip(n, 0)
    <3>b. 6 + s + p.d + (IF p.m = 0 THEN 0 ELSE 3 + p.m) <= mtu /\ s \in Nat /\ f.skip = s
      <4>1. s \in {0, 4} /\ f.skip = s
        BY <1>6, <3>a
      <4>2. ~(6 + s + p.d + (IF p.m = 0 THEN 0 ELSE 3 + p.m) > mtu)
        BY <1>8 DEF Size, FrameHeaderLen
      <4> HIDE DEF f, n, s
      <4>3. (IF p.m = 0 THEN 0 ELSE 3 + p.m) \in Nat
        BY <1>2
      <4>4. \A k \in Nat : ~(6 + s + p.d + k > mtu) => 6 + s + p.d + k <= mtu
        BY <1>1, <1>2, <4>1
      <4> QED BY <4>1, <4>2, <4>3, <4>4
    <3> HIDE DEF f, n, s
    <3>1. f.skip + Len(f.data) + (IF f.meta = <<>> THEN 0 ELSE 3 + Len(f.meta)) + 6 <= mtu
      <4>1. CASE p.m = 0
        BY <1>1, <1>2, <2>2, <3>a, <3>b, <4>1
      <4>2. CASE p.m # 0
        <5>1. f.meta # <<>> /\ Len(f.meta) = p.m /\ Len(f.data) = p.d
          BY <2>2, <3>a, <4>2
        <5>2. 6 + s + p.d + (3 + p.m) <= mtu /\ p.m \in Nat /\ p.d \in Nat /\ mtu \in Nat
          BY <1>1, <1>2, <3>b, <4>2
        <5>3. s + p.d + (3 + p.m) + 6 <= mtu
          BY <3>b, <5>2
        <5> QED BY <3>b, <5>1, <5>3
      <4> QED BY <4>1, <4>2
    <3>2. f.metadata => f.meta # <<>>
      BY <1>2, <2>2, <3>a
    <3> QED BY <1>1, <2>3, <3>1, <3>2, FrameFits
  <2>5. wire' \in Seq(Fitting(mtu'))
    <3> HIDE DEF f
    <3> QED BY <1>1, <1>3, <2>1, <2>4
  <2>6. Control'
    BY <1>1, <1>2, <1>3, <1>4, <1>5, <2>1 DEF Control
  <2>7. Cursors'
    <3>1. ~split
      BY DEF Send, MaySend
    <3> QED BY <1>1, <2>1, <3>1 DEF Cursors
  <2> QED BY <2>5, <2>6, <2>7 DEF IInv
<1> QED BY <1>7, <1>8

LEMMA FragmentFits ==
  ASSUME LongEnough, IInv, Fragment
  PROVE  IInv'
<1> DEFINE p    == Current
           n    == Len(sent)
           more == HasMetadata(p)
           skip == Skip(n, idx)
           room == Most(0, Room(n, idx, more))
           c1   == Least(p.m, cursor1 + room)
           c2   == DataCursor(p, room - (c1 - cursor1))
           goOn == Follows(p, c1, c2)
           f    == [type |-> Type(n, idx), of |-> n, skip |-> skip,
                    meta |-> Bytes(cursor1, c1), data |-> Bytes(cursor2, c2),
                    metadata |-> more, follow |-> goOn, next |-> TRUE,
                    complete |-> p.final /\ ~goOn]
<1>1. Control /\ Cursors /\ split /\ wire \in Seq(Fitting(mtu)) /\ mtu \in Nat /\ mtu >= 14
  BY MtuAssumption DEF IInv, Control, LongEnough, Fragment
<1>2. /\ wire' = Append(wire, f) /\ cursor1' = c1 /\ cursor2' = c2 /\ idx' = idx + 1 /\ split' = goOn
      /\ UNCHANGED <<mtu, kind, sent, ended, cancel, joiner, cut, callback, got, completed, dead>>
  BY DEF Fragment, recvVars
<1>3. p.m \in Nat /\ p.d \in Nat /\ p.final \in BOOLEAN /\ sent # <<>>
  BY <1>1, CurrentIs DEF Cursors
<1>4. skip \in {0, 4} /\ Type(n, idx) \in {"REQUEST", "PAYLOAD"} /\ more \in BOOLEAN
  BY DEF Skip, Type, HasMetadata
<1>5. /\ cursor1 \in Nat /\ cursor2 \in Nat /\ idx \in Nat /\ idx <= cursor1 + cursor2
      /\ cursor1 <= p.m /\ cursor2 <= p.d /\ cursor1 + cursor2 < p.m + p.d
  BY <1>1 DEF Cursors
<1>6. /\ room = mtu - 6 - skip - (IF more THEN 3 ELSE 0) /\ room \in Nat /\ room >= 1
  BY <1>1, <1>4 DEF Room, Most, FrameHeaderLen
<1>7. /\ c1 \in Nat /\ cursor1 <= c1 /\ c1 <= p.m /\ c1 <= cursor1 + room
      /\ more => c1 > cursor1
      /\ ~more => c1 = cursor1 /\ cursor1 = p.m
  <2> HIDE DEF room
  <2> QED BY <1>3, <1>5, <1>6 DEF Least, HasMetadata
<1>8. /\ c2 \in Nat /\ cursor2 <= c2 /\ c2 <= p.d
      /\ (c1 - cursor1) + (c2 - cursor2) <= room
      /\ c1 + c2 > cursor1 + cursor2
  <2> DEFINE left == room - (c1 - cursor1)
  <2>1. p.d \in Nat
    BY <1>3, SizeAssumption
  <2>2. left \in Nat /\ left = room - (c1 - cursor1)
    <3> HIDE DEF room, c1, p
    <3> QED BY <1>5, <1>6, <1>7
  <2>3. c2 = Least(p.d, cursor2 + left)
    BY DEF DataCursor
  <2> HIDE DEF room, c1, c2, p, left, more
  <2>4. /\ c2 \in Nat /\ cursor2 <= c2 /\ c2 <= p.d /\ c2 - cursor2 <= left
        /\ left > 0 /\ cursor2 < p.d => c2 > cursor2
    BY <1>5, <2>1, <2>2, <2>3, Advances
  <2>5. (c1 - cursor1) + (c2 - cursor2) <= room
    BY <1>5, <1>6, <1>7, <2>2, <2>4
  <2>6. c1 + c2 > cursor1 + cursor2
    <3>1. CASE more
      BY <1>5, <1>7, <2>4, <3>1
    <3>2. CASE ~more
      <4>1. c1 = cursor1 /\ left > 0 /\ cursor2 < p.d
        BY <1>5, <1>6, <1>7, <2>1, <2>2, <3>2
      <4> QED BY <1>5, <2>4, <4>1
    <3> QED BY <3>1, <3>2
  <2> QED BY <2>4, <2>5, <2>6
<1>9. f \in Fitting(mtu)
  <2>1. /\ Bytes(cursor1, c1) \in Seq(Nat) /\ Len(Bytes(cursor1, c1)) = c1 - cursor1
        /\ Bytes(cursor1, c1) = <<>> <=> c1 = cursor1
        /\ Bytes(cursor2, c2) \in Seq(Nat) /\ Len(Bytes(cursor2, c2)) = c2 - cursor2
    <3> HIDE DEF c1, c2
    <3> QED BY <1>5, <1>7, <1>8, BytesAre
  <2>2. goOn \in BOOLEAN /\ (p.final /\ ~goOn) \in BOOLEAN
    BY DEF Follows
  <2> HIDE DEF room, c1, c2, goOn, more, skip, p, n
  <2>3. f \in Frame
    <3>1. n \in Nat
      BY <1>1 DEF Control, n
    <3> QED BY <1>4, <2>1, <2>2, <3>1 DEF Frame
  <2>a. /\ f.skip = skip /\ f.data = Bytes(cursor2, c2) /\ f.meta = Bytes(cursor1, c1)
        /\ f.metadata = more
    OBVIOUS
  <2> HIDE DEF f
  <2>4. f.skip + Len(f.data) + (IF f.meta = <<>> THEN 0 ELSE 3 + Len(f.meta)) + 6 <= mtu
    <3>1. CASE more
      <4>1. room = mtu - 6 - skip - 3 /\ c1 > cursor1
        BY <1>6, <1>7, <3>1
      <4>2. Len(f.meta) = c1 - cursor1 /\ Len(f.data) = c2 - cursor2 /\ f.meta # <<>> /\ f.skip = skip
        BY <1>5, <1>7, <2>a, <2>1, <4>1
      <4>3. f.skip + Len(f.data) + (3 + Len(f.meta)) + 6 <= mtu
        BY <1>1, <1>4, <1>5, <1>6, <1>7, <1>8, <4>1, <4>2
      <4> QED BY <4>2, <4>3
    <3>2. CASE ~more
      BY <1>1, <1>4, <1>5, <1>6, <1>7, <1>8, <2>1, <2>a, <3>2
    <3> QED BY <3>1, <3>2
  <2>5. f.metadata => f.meta # <<>>
    BY <1>5, <1>7, <2>a, <2>1
  <2> QED BY <1>1, <2>3, <2>4, <2>5, FrameFits
<1> HIDE DEF f, room, c1, c2
<1>10. wire' \in Seq(Fitting(mtu'))
  BY <1>1, <1>2, <1>9
<1>11. Control'
  BY <1>1, <1>2 DEF Control, Follows
<1>12. Cursors'
  <2>1. Current' = p
    BY <1>2 DEF Current
  <2>2. split' => c1 + c2 < p.m + p.d
    BY <1>2 DEF Follows
  <2> HIDE DEF p, goOn
  <2>4. idx + 1 \in Nat /\ idx + 1 <= c1 + c2
    BY <1>5, <1>7, <1>8
  <2> QED BY <1>2, <1>3, <1>7, <1>8, <2>1, <2>2, <2>4 DEF Cursors
<1> QED BY <1>10, <1>11, <1>12 DEF IInv

LEMMA CompleteFits ==
  ASSUME LongEnough, IInv, Complete
  PROVE  IInv'
<1> DEFINE f == [type |-> "PAYLOAD", of |-> Len(sent), skip |-> 0, meta |-> <<>>, data |-> <<>>,
                 metadata |-> FALSE, follow |-> FALSE, next |-> FALSE, complete |-> TRUE]
<1>1. Control /\ Cursors /\ wire \in Seq(Fitting(mtu)) /\ mtu \in Nat /\ mtu >= 14 /\ Len(sent) \in Nat
  BY MtuAssumption DEF IInv, Control, LongEnough
<1>2. /\ wire' = Append(wire, f) /\ ended' = "yes"
      /\ UNCHANGED <<mtu, kind, sent, split, idx, cursor1, cursor2, cancel, joiner, cut, callback, got,
                     completed, dead>>
  BY DEF Complete, recvVars, splitVars
<1>3. f \in Frame
  BY <1>1 DEF Frame
<1>4. f \in Fitting(mtu)
  BY <1>1, <1>3, FrameFits
<1> HIDE DEF f
<1>5. wire' \in Seq(Fitting(mtu'))
  BY <1>1, <1>2, <1>4
<1> QED BY <1>1, <1>2, <1>5 DEF IInv, Control, Cursors, Current

\* What is deleted had a number.
LEMMA DeleteKeeps ==
  ASSUME Control, DeleteFragment
  PROVE  joiner' \in Joiners /\ cut' \subseteq Nat
<1>1. joiner \in Joiners /\ cut \subseteq Nat
  BY DEF Control
<1>2. joiner.open => joiner.of \in Nat
  <2>1. CASE joiner = NoJoiner
    BY <2>1 DEF NoJoiner
  <2>2. CASE joiner # NoJoiner
    BY <1>1, <2>2 DEF Joiners
  <2> QED BY <2>1, <2>2
<1> QED BY <1>1, <1>2 DEF DeleteFragment, Joiners

\* The sender's other frames have no bytes to fit, and the receiver's callback
\* has nothing to do with the splitter.
LEMMA MarkFits ==
  ASSUME IInv, Fail \/ Cancel \/ Demand \/ Register \/ Unregister
  PROVE  IInv'
<1>1. /\ UNCHANGED <<mtu, kind, sent, split, idx, cursor1, cursor2, got, completed, dead>>
      /\ UNCHANGED <<joiner, cut>> \/ DeleteFragment
      /\ ended' \in {"yes", ended} /\ cancel' \in {TRUE, cancel} /\ callback' \in {"in", "gone", callback}
  BY DEF Fail, Cancel, Demand, Register, Unregister, recvVars, sendVars, splitVars
<1>2. wire' = wire \/ \E m \in Marks : wire' = Append(wire, m)
  BY DEF Fail, Cancel, Demand, Register, Unregister, Mark, Marks
<1>3. wire' \in Seq(Fitting(mtu'))
  <2>1. wire \in Seq(Fitting(mtu)) /\ mtu' = mtu
    BY <1>1 DEF IInv
  <2>2. ASSUME NEW m \in Marks, wire' = Append(wire, m)
        PROVE  wire' \in Seq(Fitting(mtu))
    <3>1. m \in Fitting(mtu)
      BY <2>2, MarksFit
    <3> QED BY <2>1, <2>2, <3>1
  <2> QED BY <1>2, <2>1, <2>2
<1>4. joiner' \in Joiners /\ cut' \subseteq Nat
  BY <1>1, DeleteKeeps DEF IInv, Control
<1> QED BY <1>1, <1>3, <1>4 DEF IInv, Control, Cursors, Current

\* A handler of a frame without bytes.
LEMMA HandleMark ==
  ASSUME NEW m \in Marks, Handle(m)
  PROVE  /\ m.type = "CANCEL" => ReceiveCancel
         /\ m.type = "REQUEST_N" => ReceiveRequestN
         /\ m.type = "ERROR" => ReceiveError
         /\ m.type \in {"CANCEL", "REQUEST_N", "ERROR"}
BY DEF Handle, Marks

LEMMA HandleFrame ==
  ASSUME NEW n, NEW f \in Fitting(n), f \notin Marks, Handle(f)
  PROVE  f \in Frame /\ f.type \in {"REQUEST", "PAYLOAD"} /\ Receive(f)
<1>1. f \in Frame /\ Valid(f)
  BY DEF Fitting
<1>2. f.type \in {"REQUEST", "PAYLOAD"}
  BY <1>1 DEF Frame
<1> QED BY <1>1, <1>2 DEF Handle

LEMMA ReadKeeps ==
  ASSUME IInv, Read
  PROVE  IInv'
<1>1. PICK f \in {wire[i] : i \in DOMAIN wire} :
        Arrives(f) /\ Handle(f) /\ UNCHANGED <<mtu, kind, sendVars>>
  BY DEF Read
<1>2. Control /\ Cursors /\ wire \in Seq(Fitting(mtu)) /\ wire # <<>> /\ f = Head(wire) /\ wire' = Tail(wire)
  BY <1>1 DEF IInv, Arrives
<1>3. f \in Fitting(mtu) /\ wire' \in Seq(Fitting(mtu))
  BY <1>2
<1>4. UNCHANGED <<mtu, kind, sent, split, idx, cursor1, cursor2, ended, cancel>>
  BY <1>1 DEF sendVars, splitVars
<1>5. Cursors'
  BY <1>2, <1>4 DEF Cursors, Current
<1>6. CASE f \in Marks
  <2>1. ReceiveCancel \/ ReceiveRequestN \/ ReceiveError
    BY <1>1, <1>6, HandleMark
  <2>2. UNCHANGED <<joiner, cut>> \/ DeleteFragment
    BY <2>1 DEF ReceiveCancel, ReceiveRequestN, ReceiveError
  <2>3. joiner' \in Joiners /\ cut' \subseteq Nat
    BY <1>2, <2>2, DeleteKeeps DEF Control
  <2>4. callback' = callback /\ completed' \in BOOLEAN /\ dead' \in {"no", "panic"}
    BY <1>2, <2>1 DEF ReceiveCancel, ReceiveRequestN, ReceiveError, Control
  <2> QED BY <1>2, <1>3, <1>4, <1>5, <2>3, <2>4 DEF IInv, Control
<1>7. CASE f \notin Marks
  <2>1. f \in Frame /\ Receive(f)
    BY <1>1, <1>3, <1>7, HandleFrame
  <2> DEFINE j == IF joiner.open THEN Push(joiner, f) ELSE NewJoiner(f)
  <2>3. j \in Joiners /\ j.complete \in BOOLEAN
    <3>1. CASE joiner.open
      <4>1. joiner \in Joiners \ {NoJoiner}
        BY <1>2, <3>1 DEF Control, NoJoiner
      <4>2. /\ joiner.inMetadata \in BOOLEAN /\ joiner.meta \in Seq(Nat) /\ joiner.data \in Seq(Nat)
            /\ f.metadata \in BOOLEAN /\ f.meta \in Seq(Nat) /\ f.data \in Seq(Nat)
        BY <4>1, <2>1 DEF Joiners, Frame
      <4>3. /\ (joiner.inMetadata /\ f.metadata) \in BOOLEAN
            /\ joiner.meta \o f.meta \in Seq(Nat) /\ joiner.data \o f.data \in Seq(Nat)
        BY <4>2
      <4> QED BY <3>1, <4>1, <4>2, <4>3 DEF Joiners, Push
    <3>2. CASE ~joiner.open
      BY <2>1, <3>2 DEF Joiners, NewJoiner, Frame
    <3> QED BY <3>1, <3>2
  <2>4. joiner' \in Joiners /\ UNCHANGED <<cut, dead>>
    BY <2>1, <2>3 DEF Receive, Joiners
  <2>5. callback' \in {"none", "in", "gone"} /\ completed' \in BOOLEAN
    <3>1. UNCHANGED <<callback, completed>> \/ Dispatch(j)
      BY <2>1 DEF Receive
    <3> HIDE DEF j
    <3>2. completed' \in BOOLEAN
      BY <3>1, <1>2, <2>3 DEF Dispatch, Control
    <3>3. callback' \in {"none", "in", "gone"}
      BY <3>1, <1>2 DEF Dispatch, Control
    <3> QED BY <3>2, <3>3
  <2> QED BY <1>2, <1>3, <1>4, <1>5, <2>4, <2>5 DEF IInv, Control
<1> QED BY <1>6, <1>7

LEMMA InitFits == Init => IInv
<1> SUFFICES ASSUME Init PROVE IInv
  OBVIOUS
<1>1. Control
  <2>1. sent \in Seq(Payload) /\ Len(sent) <= MaxPayloads
    BY SizeAssumption DEF Init
  <2>2. joiner \in Joiners /\ callback \in {"none", "in", "gone"}
    BY DEF Init, Joiners
  <2> QED BY <2>1, <2>2 DEF Init, Control
<1>2. Cursors
  BY DEF Init, Cursors
<1>3. wire \in Seq(Fitting(mtu))
  BY DEF Init
<1> QED BY <1>1, <1>2, <1>3 DEF IInv

LEMMA StepFits == LongEnough /\ IInv /\ [Next]_vars => IInv'
<1> SUFFICES ASSUME LongEnough, IInv, [Next]_vars PROVE IInv'
  OBVIOUS
<1>1. CASE UNCHANGED vars
  BY <1>1 DEF vars, sendVars, splitVars, recvVars, IInv, Control, Cursors, Current
<1> QED BY <1>1, SendFits, FragmentFits, CompleteFits, MarkFits, ReadKeeps DEF Next

\* From an mtu of 14 on (header, request n, metadata length and a byte), SplitSkip
\* keeps its cursors inside the payload and sends no frame that is longer than the
\* mtu or that Validate refuses, whatever the payload's sizes.
THEOREM SplitsFit ==
  ASSUME LongEnough
  PROVE  Spec => []Splits
<1>1. IInv => Splits
  <2> SUFFICES ASSUME IInv PROVE Splits
    OBVIOUS
  <2>1. Control /\ Cursors /\ wire \in Seq(Fitting(mtu))
    BY DEF IInv
  <2>2. joiner.open \in BOOLEAN
    <3>1. joiner \in Joiners
      BY <2>1 DEF Control
    <3>2. CASE joiner = NoJoiner
      BY <3>2 DEF NoJoiner
    <3>3. CASE joiner # NoJoiner
      BY <3>1, <3>3 DEF Joiners
    <3> QED BY <3>2, <3>3
  <2>3. idx \in 0..(cursor1 + cursor2)
    BY <2>1 DEF Cursors
  <2>4. TypeOK
    <3>1. \A v \in {cancel, joiner.open, completed} : v \in BOOLEAN
      BY <2>1, <2>2 DEF Control
    <3>2. cursor1 \in Nat /\ cursor2 \in Nat /\ (split => sent # <<>> /\ cursor1 <= Current.m /\ cursor2 <= Current.d)
      BY <2>1 DEF Cursors
    <3>3. dead \in {"no", "invalid", "panic"}
      BY <2>1 DEF Control
    <3> QED BY <2>1, <2>3, <3>1, <3>2, <3>3 DEF Control, TypeOK
  <2>5. FitsMtu
    <3>1. ASSUME NEW i \in DOMAIN wire, wire[i].type \in {"REQUEST", "PAYLOAD"}
          PROVE  FrameLen(wire[i]) <= mtu
      BY <2>1, <3>1 DEF Fitting, Marks
    <3> QED BY <2>1, <3>1 DEF FitsMtu, Control
  <2> QED BY <2>4, <2>5 DEF Splits
<1>2. IInv /\ [Next]_vars => IInv'
  BY StepFits
<1> QED BY <1>1, <1>2, InitFits, PTL DEF Spec

----------------------------------------------------------------------------
(* The line of frames between the two sockets *)

\* how far a stream has got: at byte a of the metadata and b of the data of its
\* n-th payload, with or without the end of the stream
Place == [n : Nat \ {0}, a : Nat, b : Nat, fin : BOOLEAN]

Begun(x) == x.a + x.b > 0

\* CANCEL and REQUEST_N leave the stream where it is, and never fall into a
\* request-response
CarriesMark(k, f, x, y) ==
  /\ f.type \in {"CANCEL", "REQUEST_N"} /\ y = x
  /\ f.type = "CANCEL" => k \in {"stream", "answer", "response"}
  /\ f.type = "REQUEST_N" => k \in {"stream", "channel", "answer"}
  /\ k = "response" => ~Begun(x)

\* ERROR and the frame of Complete come between two payloads
CarriesError(k, f, x, y) ==
  /\ f.type = "ERROR" /\ ~Begun(x)
  /\ y = [x EXCEPT !.fin = TRUE]

CarriesEnd(k, f, x, y) ==
  /\ f.type = "PAYLOAD" /\ ~f.follow /\ ~f.next /\ f.complete /\ ~Begun(x)
  /\ y = [x EXCEPT !.fin = TRUE]

\* a frame with the next bytes of payload p, up to a and b
CarriesBytes(k, p, f, x, y) ==
  /\ f.next /\ (f.metadata <=> x.a < p.m) /\ f.of = x.n /\ ~x.fin
  /\ f.type = IF k \in Requests /\ x.n = 1 /\ ~Begun(x) THEN "REQUEST" ELSE "PAYLOAD"
  /\ \E a \in x.a..p.m, b \in x.b..p.d :
       /\ f.meta = Bytes(x.a, a) /\ f.data = Bytes(x.b, b)
       /\ IF f.follow
            THEN a + b > 0 /\ y = [x EXCEPT !.a = a, !.b = b]
            ELSE /\ a = p.m /\ b = p.d
                 /\ y.n = x.n + 1 /\ y.a = 0 /\ y.b = 0
                 /\ y.fin => f.complete /\ ~Begun(x) /\ k \notin Requests

Carries(s, k, f, x, y) ==
  \/ CarriesMark(k, f, x, y) \/ CarriesError(k, f, x, y) \/ CarriesEnd(k, f, x, y)
  \/ x.n \in 1..Len(s) /\ f.type \in {"REQUEST", "PAYLOAD"} /\ CarriesBytes(k, s[x.n], f, x, y)

\* where the sender is
AtSender(y) ==
  /\ y.n = IF split THEN Len(sent) ELSE Len(sent) + 1
  /\ y.a = IF split THEN cursor1 ELSE 0
  /\ y.b = IF split THEN cursor2 ELSE 0
  /\ y.fin => ended # "no" /\ ~split
  /\ ended # "no" /\ ~y.fin => ended = "final" /\ sent # <<>> /\ Size(Current, 0) > mtu

\* where the receiver is: what it has joined of the payload under way, which is
\* all that came, unless some of it was cut,
Gathering(x) ==
  /\ joiner.open =>
       /\ Begun(x) /\ joiner.of = x.n /\ joiner.next /\ (joiner.inMetadata \/ x.a = sent[x.n].m)
       /\ joiner.type = IF kind \in Requests /\ x.n = 1 /\ 1 \notin cut THEN "REQUEST" ELSE "PAYLOAD"
       /\ \E a \in 0..x.a, b \in 0..x.b :
            /\ joiner.meta = Bytes(a, x.a) /\ joiner.data = Bytes(b, x.b)
            /\ x.n \notin cut => a = 0 /\ b = 0
  /\ Begun(x) /\ ~joiner.open => x.n \in cut

\* and what it has dispatched, by what it knows of the stream
Knowing(x) ==
  /\ \A n \in cut : n \in 1..x.n /\ (n = x.n => Begun(x))
  /\ cut # {} => kind \in {"stream", "channel", "answer"} \/ (kind = "reply" /\ callback = "gone")
  /\ callback = "none" => got = <<>>
  /\ kind = "reply" => callback # "none"
  /\ kind \in Requests => (callback = "none" <=> x.n = 1 \/ 1 \in cut)
  /\ callback = "in" /\ kind # "answer" => Len(got) = x.n - 1 /\ cut = {}
  /\ callback = "in" /\ got # <<>> => got[Len(got)].of = x.n - 1
  /\ callback = "in" /\ x.fin => completed \/ (kind = "answer" /\ got = <<>>)

Within(x) == Begun(x) => x.n \in 1..Len(sent) /\ x.a <= sent[x.n].m /\ x.b <= sent[x.n].d

AtReceiver(x) == Gathering(x) /\ Knowing(x) /\ Within(x)

\* a request is one payload, and only its first fragment is numbered zero
OneRequest == kind \in {"stream", "response"} => Len(sent) <= 1
FirstIsFirst == split /\ idx = 0 => cursor1 = 0 /\ cursor2 = 0

\* the frames of w take the stream from x to y, one after the other
Line(s, k, w, x, y) ==
  \E at \in [1..(Len(w) + 1) -> Place] :
    /\ at[1] = x /\ at[Len(w) + 1] = y
    /\ \A i \in 1..Len(w) : Carries(s, k, w[i], at[i], at[i + 1])

LEMMA LineNil ==
  ASSUME NEW s, NEW k, NEW x \in Place
  PROVE  Line(s, k, <<>>, x, x)
<1> DEFINE at == [i \in 1..1 |-> x]
<1>1. Len(<<>>) = 0 /\ 0 + 1 = 1 /\ 1..0 = {}
  OBVIOUS
<1>2. at \in [1..1 -> Place] /\ at[1] = x
  OBVIOUS
<1> QED BY <1>1, <1>2 DEF Line

LEMMA LineEmpty ==
  ASSUME NEW s, NEW k, NEW x, NEW y, Line(s, k, <<>>, x, y)
  PROVE  x = y
<1>1. Len(<<>>) = 0 /\ 0 + 1 = 1
  OBVIOUS
<1> QED BY <1>1 DEF Line

LEMMA LineAppend ==
  ASSUME NEW S, NEW s, NEW k, NEW w \in Seq(S), NEW f, NEW x, NEW y, NEW z \in Place,
         Line(s, k, w, x, y), Carries(s, k, f, y, z)
  PROVE  Line(s, k, Append(w, f), x, z)
<1> DEFINE n == Len(w)   v == Append(w, f)
<1>1. n \in Nat /\ Len(v) = n + 1 /\ v[n + 1] = f /\ \A i \in 1..n : v[i] = w[i]
  <2>1. w \in Seq(S \cup {f})
    OBVIOUS
  <2> QED BY <2>1
<1>2. PICK at \in [1..(n + 1) -> Place] :
        /\ at[1] = x /\ at[n + 1] = y
        /\ \A i \in 1..n : Carries(s, k, w[i], at[i], at[i + 1])
  BY DEF Line
<1> DEFINE to == [i \in 1..(n + 2) |-> IF i = n + 2 THEN z ELSE at[i]]
<1> HIDE DEF n, v
<1>3. to \in [1..(n + 2) -> Place]
  <2>1. \A i \in 1..(n + 2) : i # n + 2 => i \in 1..(n + 1)
    BY <1>1
  <2> QED BY <1>2, <2>1
<1>4. to[1] = x /\ to[n + 2] = z
  <2>1. 1 \in 1..(n + 2) /\ n + 2 \in 1..(n + 2) /\ 1 # n + 2
    BY <1>1
  <2> QED BY <1>2, <2>1
<1>5. ASSUME NEW i \in 1..(n + 1)
      PROVE  Carries(s, k, v[i], to[i], to[i + 1])
  <2>1. CASE i = n + 1
    <3>1. i \in 1..(n + 2) /\ i # n + 2 /\ i + 1 = n + 2 /\ n + 2 \in 1..(n + 2)
      BY <1>1, <2>1
    <3>2. to[i] = y /\ to[i + 1] = z /\ v[i] = f
      BY <1>1, <1>2, <2>1, <3>1
    <3> QED BY <3>2
  <2>2. CASE i # n + 1
    <3>1. i \in 1..n /\ i \in 1..(n + 2) /\ i # n + 2 /\ i + 1 # n + 2 /\ i + 1 \in 1..(n + 2)
      BY <1>1, <2>2
    <3>2. to[i] = at[i] /\ to[i + 1] = at[i + 1] /\ v[i] = w[i]
      BY <1>1, <3>1
    <3> QED BY <1>2, <3>1, <3>2
  <2> QED BY <2>1, <2>2
<1> HIDE DEF to
<1>6. Len(v) + 1 = n + 2
  BY <1>1
<1> QED BY <1>1, <1>3, <1>4, <1>5, <1>6 DEF Line, v

LEMMA LineTail ==
  ASSUME NEW S, NEW s, NEW k, NEW w \in Seq(S), w # <<>>, NEW x, NEW y, Line(s, k, w, x, y)
  PROVE  \E z \in Place : Carries(s, k, Head(w), x, z) /\ Line(s, k, Tail(w), z, y)
<1> DEFINE n == Len(w)   v == Tail(w)
<1>1. n \in Nat /\ n >= 1 /\ Len(v) = n - 1 /\ w[1] = Head(w) /\ \A i \in 1..(n - 1) : v[i] = w[i + 1]
  OBVIOUS
<1>2. PICK at \in [1..(n + 1) -> Place] :
        /\ at[1] = x /\ at[n + 1] = y
        /\ \A i \in 1..n : Carries(s, k, w[i], at[i], at[i + 1])
  BY DEF Line
<1> DEFINE to == [i \in 1..n |-> at[i + 1]]
<1> HIDE DEF n, v
<1>3. to \in [1..n -> Place]
  <2>1. \A i \in 1..n : i + 1 \in 1..(n + 1)
    BY <1>1
  <2> QED BY <1>2, <2>1
<1>4. to[1] = at[2] /\ to[n] = y /\ at[2] \in Place
  <2>1. 1 \in 1..n /\ n \in 1..n /\ 1 + 1 = 2 /\ 2 \in 1..(n + 1)
    BY <1>1
  <2> QED BY <1>2, <2>1
<1>5. Carries(s, k, Head(w), x, at[2])
  <2>1. 1 \in 1..n /\ 1 + 1 = 2
    BY <1>1
  <2> QED BY <1>1, <1>2, <2>1
<1>6. ASSUME NEW i \in 1..(n - 1)
      PROVE  Carries(s, k, v[i], to[i], to[i + 1])
  <2>1. i \in 1..n /\ i + 1 \in 1..n /\ v[i] = w[i + 1]
    BY <1>1
  <2>2. to[i] = at[i + 1] /\ to[i + 1] = at[(i + 1) + 1]
    BY <2>1
  <2> QED BY <1>2, <2>1, <2>2
<1> HIDE DEF to
<1>7. Len(v) + 1 = n
  BY <1>1
<1>8. Line(s, k, v, at[2], y)
  BY <1>1, <1>3, <1>4, <1>6, <1>7 DEF Line
<1> QED BY <1>4, <1>5, <1>8 DEF v

\* A payload more at the sender changes nothing for what is under way.
LEMMA LineStays ==
  ASSUME NEW s \in Seq(Payload), NEW k, NEW w, NEW x, NEW y, NEW p \in Payload, Line(s, k, w, x, y)
  PROVE  Line(Append(s, p), k, w, x, y)
<1>1. Len(s) \in Nat /\ Len(Append(s, p)) = Len(s) + 1 /\ \A n \in 1..Len(s) : Append(s, p)[n] = s[n]
  OBVIOUS
<1>2. ASSUME NEW f, NEW u, NEW v, Carries(s, k, f, u, v)
      PROVE  Carries(Append(s, p), k, f, u, v)
  <2>1. CASE CarriesMark(k, f, u, v) \/ CarriesError(k, f, u, v) \/ CarriesEnd(k, f, u, v)
    BY <2>1 DEF Carries
  <2>2. CASE u.n \in 1..Len(s) /\ f.type \in {"REQUEST", "PAYLOAD"} /\ CarriesBytes(k, s[u.n], f, u, v)
    <3>1. u.n \in 1..Len(Append(s, p)) /\ Append(s, p)[u.n] = s[u.n]
      BY <1>1, <2>2
    <3>2. CarriesBytes(k, Append(s, p)[u.n], f, u, v)
      BY <2>2, <3>1
    <3> QED BY <2>2, <3>1, <3>2 DEF Carries
  <2> QED BY <1>2, <2>1, <2>2 DEF Carries
<1> QED BY <1>2 DEF Line

----------------------------------------------------------------------------
(* The sender's steps *)

Items == [of : Nat, meta : Seq(Nat), data : Seq(Nat)]

\* what is under way leads from the receiver to the sender
JInv ==
  /\ OneRequest /\ FirstIsFirst /\ got \in Seq(Items) /\ Whole /\ InOrder
  /\ \E x, y \in Place : AtReceiver(x) /\ AtSender(y) /\ Line(sent, kind, wire, x, y)

\* The receiver does not see that the sender goes on.
LEMMA ReceiverStays ==
  ASSUME NEW x, AtReceiver(x), Whole, InOrder, got \in Seq(Items), UNCHANGED <<kind, recvVars>>,
         Len(sent) \in Nat, Len(sent') \in Nat, Len(sent') >= Len(sent), \A i \in 1..Len(sent) : sent'[i] = sent[i],
         DOMAIN sent = 1..Len(sent), DOMAIN sent' = 1..Len(sent'), x \in Place
  PROVE  AtReceiver(x)' /\ (Whole /\ InOrder /\ got \in Seq(Items))'
<1>1. \A i \in 1..Len(sent) : i \in 1..Len(sent')
  OBVIOUS
<1>2. UNCHANGED <<joiner, cut, callback, got, completed, dead, kind>>
  BY DEF recvVars
<1>3. Within(x)'
  BY <1>1 DEF AtReceiver, Within
<1>4. Knowing(x)'
  BY <1>2 DEF AtReceiver, Knowing
<1>5. Gathering(x)'
  <2>1. Gathering(x) /\ (Begun(x) => sent'[x.n] = sent[x.n])
    BY DEF AtReceiver, Within
  <2> QED BY <1>2, <2>1 DEF Gathering
<1>6. Whole'
  BY <1>1, <1>2 DEF Whole
<1>7. InOrder'
  BY <1>2 DEF InOrder
<1> QED BY <1>2, <1>3, <1>4, <1>5, <1>6, <1>7 DEF AtReceiver

LEMMA SendLine ==
  ASSUME IInv, JInv, NEW p \in Payload, Send(p)
  PROVE  JInv'
<1>1. Control /\ wire \in Seq(Fitting(mtu)) /\ ~split /\ ended = "no"
  BY DEF IInv, Send, MaySend
<1>2. PICK x \in Place, y \in Place : AtReceiver(x) /\ AtSender(y) /\ Line(sent, kind, wire, x, y)
  BY DEF JInv
<1>3. /\ sent' = Append(sent, p) /\ ended' = (IF p.final THEN "final" ELSE "no") /\ mtu' = mtu /\ kind' = kind
      /\ UNCHANGED <<kind, recvVars>>
  BY DEF Send
<1>4. p.m \in Nat /\ p.d \in Nat /\ p.final \in BOOLEAN
  BY SizeAssumption DEF Payload
<1> DEFINE n == Len(sent) + 1
<1>5. /\ sent \in Seq(Payload) /\ Len(sent) \in Nat /\ sent' \in Seq(Payload) /\ Len(sent') = n /\ sent'[n] = p
      /\ \A i \in 1..Len(sent) : sent'[i] = sent[i]
      /\ DOMAIN sent = 1..Len(sent) /\ DOMAIN sent' = 1..Len(sent')
  BY <1>1, <1>3 DEF Control
<1>6. AtReceiver(x)' /\ (Whole /\ InOrder /\ got \in Seq(Items))'
  BY <1>2, <1>3, <1>5, ReceiverStays DEF JInv
<1>7. OneRequest'
  BY <1>3, <1>5 DEF OneRequest, Send, MaySend
<1>8. y.n = n /\ y.a = 0 /\ y.b = 0 /\ ~y.fin
  BY <1>1, <1>2 DEF AtSender
<1>9. Line(sent', kind', wire, x, y)
  BY <1>2, <1>3, <1>5, LineStays
<1>10. Current' = p /\ sent' # <<>>
  BY <1>5 DEF Current
<1>11. CASE Size(p, Skip(n, 0)) > mtu
  <2>1. split' = TRUE /\ idx' = 0 /\ cursor1' = 0 /\ cursor2' = 0 /\ wire' = wire
    BY <1>11 DEF Send
  <2>2. p.final => Skip(n, 0) = 0
    BY DEF Send, MaySend, Skip, Requests
  <2>3. p.final => Size(p, 0)' > mtu'
    BY <1>3, <1>11, <2>2 DEF Size, FrameHeaderLen
  <2>4. AtSender(y)'
    BY <1>3, <1>5, <1>8, <1>10, <2>1, <2>3 DEF AtSender, Size, FrameHeaderLen
  <2>5. FirstIsFirst'
    BY <2>1 DEF FirstIsFirst
  <2> QED BY <1>3, <1>6, <1>7, <1>9, <2>1, <2>4, <2>5 DEF JInv
<1>12. CASE ~(Size(p, Skip(n, 0)) > mtu)
  <2> DEFINE f == [type |-> Type(n, 0), of |-> n, skip |-> Skip(n, 0), meta |-> Bytes(0, p.m), data |-> Bytes(0, p.d),
                   metadata |-> p.m > 0, follow |-> FALSE, next |-> TRUE, complete |-> p.final]
             z == [n |-> y.n + 1, a |-> 0, b |-> 0, fin |-> p.final]
  <2>1. wire' = Append(wire, f) /\ UNCHANGED <<split, idx, cursor1, cursor2>>
    BY <1>12 DEF Send, SendWhole, splitVars
  <2>2. z \in Place
    BY <1>4, <1>5, <1>8 DEF Place
  <2>3. CarriesBytes(kind', p, f, y, z)
    <3>1. ~Begun(y)
      BY <1>8 DEF Begun
    <3>2. f.type = IF kind' \in Requests /\ y.n = 1 /\ ~Begun(y) THEN "REQUEST" ELSE "PAYLOAD"
      BY <1>3, <1>8, <3>1 DEF Type
    <3>3. /\ f.next /\ f.metadata = (p.m > 0) /\ f.meta = Bytes(0, p.m) /\ f.data = Bytes(0, p.d)
          /\ ~f.follow /\ f.complete = p.final /\ f.of = n
          /\ z.n = y.n + 1 /\ z.a = 0 /\ z.b = 0 /\ (z.fin <=> p.final)
      BY <1>8
    <3>4. p.final => kind' \notin Requests
      BY <1>3 DEF Send, MaySend
    <3>5. p.m \in y.a..p.m /\ p.d \in y.b..p.d
      BY <1>4, <1>8
    <3> HIDE DEF f, z, n
    <3>6. \E a \in y.a..p.m, b \in y.b..p.d :
           /\ f.meta = Bytes(y.a, a) /\ f.data = Bytes(y.b, b)
           /\ a = p.m /\ b = p.d
      BY <1>8, <3>3, <3>5
    <3> QED BY <1>8, <3>1, <3>2, <3>3, <3>4, <3>6 DEF CarriesBytes
  <2>4. f.type \in {"REQUEST", "PAYLOAD"}
    BY DEF Type
  <2>5. Carries(sent', kind', f, y, z)
    <3>1. y.n \in 1..Len(sent') /\ sent'[y.n] = p
      BY <1>5, <1>8
    <3> HIDE DEF f, z
    <3> QED BY <2>3, <2>4, <3>1 DEF Carries
  <2>6. Line(sent', kind', wire', x, z)
    <3> HIDE DEF f, z
    <3> QED BY <1>1, <1>9, <2>1, <2>2, <2>5, LineAppend
  <2>7. AtSender(z)'
    <3>1. z.n = n + 1 /\ z.a = 0 /\ z.b = 0 /\ (z.fin <=> p.final)
      BY <1>8
    <3>2. split' = FALSE /\ Len(sent') = n
      BY <1>1, <1>3, <1>5, <2>1 DEF Control
    <3>3. ended' # "no" <=> p.final
      BY <1>3
    <3> HIDE DEF z, n
    <3> QED BY <1>8, <3>1, <3>2, <3>3 DEF AtSender
  <2>8. FirstIsFirst'
    BY <1>1, <2>1 DEF FirstIsFirst
  <2> HIDE DEF f, z
  <2> QED BY <1>2, <1>6, <1>7, <2>2, <2>6, <2>7, <2>8 DEF JInv
<1> QED BY <1>11, <1>12

\* What the sender adds to the line without a payload takes it from place to place.
LEMMA MarkLine ==
  ASSUME IInv, JInv, NEW m, NEW y \in Place, NEW z \in Place, NEW x \in Place,
         AtReceiver(x), Line(sent, kind, wire, x, y), wire' = Append(wire, m), Carries(sent, kind, m, y, z),
         AtSender(z)', UNCHANGED <<mtu, kind, sent, splitVars, recvVars>>
  PROVE  JInv'
<1>1. Control /\ wire \in Seq(Fitting(mtu))
  BY DEF IInv
<1>2. UNCHANGED <<kind, recvVars>> /\ UNCHANGED <<mtu, kind, sent, split, idx, cursor1, cursor2>>
  BY DEF recvVars, splitVars
<1>3. sent \in Seq(Payload) /\ Len(sent) \in Nat /\ DOMAIN sent = 1..Len(sent)
  BY <1>1 DEF Control
<1>4. AtReceiver(x)' /\ (Whole /\ InOrder /\ got \in Seq(Items))'
  BY <1>2, <1>3, ReceiverStays DEF JInv
<1>5. Line(sent, kind, wire', x, z)
  BY <1>1, LineAppend
<1>6. OneRequest' /\ FirstIsFirst'
  BY <1>2 DEF JInv, OneRequest, FirstIsFirst
<1> QED BY <1>2, <1>4, <1>5, <1>6 DEF JInv

LEMMA EndLine ==
  ASSUME IInv, JInv, Complete \/ Fail
  PROVE  JInv'
<1> DEFINE f == [type |-> "PAYLOAD", of |-> Len(sent), skip |-> 0, meta |-> <<>>, data |-> <<>>,
                 metadata |-> FALSE, follow |-> FALSE, next |-> FALSE, complete |-> TRUE]
           e == [type |-> "ERROR"]
<1>1. PICK x \in Place, y \in Place : AtReceiver(x) /\ AtSender(y) /\ Line(sent, kind, wire, x, y)
  BY DEF JInv
<1>2. /\ wire' = Append(wire, f) \/ wire' = Append(wire, e)
      /\ ~split /\ ended' = "yes" /\ UNCHANGED <<mtu, kind, sent, splitVars, cancel, recvVars>>
  BY DEF Complete, Fail, MayEnd, Mark
<1>3. y.n = Len(sent) + 1 /\ y.a = 0 /\ y.b = 0 /\ ~Begun(y)
  BY <1>1, <1>2 DEF AtSender, Begun
<1> DEFINE z == [y EXCEPT !.fin = TRUE]
<1>4. z \in Place /\ z.n = y.n /\ z.a = y.a /\ z.b = y.b /\ z.fin
  BY DEF Place
<1>5. Carries(sent, kind, f, y, z)
  BY <1>3 DEF Carries, CarriesEnd
<1>6. Carries(sent, kind, e, y, z)
  BY <1>3 DEF Carries, CarriesError
<1> HIDE DEF f, e, z
<1>7. AtSender(z)'
  BY <1>2, <1>3, <1>4 DEF AtSender, splitVars
<1> QED BY <1>1, <1>2, <1>4, <1>5, <1>6, <1>7, MarkLine

LEMMA CancelLine ==
  ASSUME IInv, JInv, Cancel \/ Demand
  PROVE  JInv'
<1> DEFINE c == [type |-> "CANCEL"]   r == [type |-> "REQUEST_N"]
<1>1. PICK x \in Place, y \in Place : AtReceiver(x) /\ AtSender(y) /\ Line(sent, kind, wire, x, y)
  BY DEF JInv
<1>2. /\ \/ /\ wire' = Append(wire, c)
            /\ kind \in {"stream", "answer"} \/ (kind = "response" /\ ~split)
         \/ wire' = Append(wire, r) /\ kind \in {"stream", "channel", "answer"}
      /\ UNCHANGED ended /\ UNCHANGED <<mtu, kind, sent, splitVars, recvVars>>
  BY DEF Cancel, Demand, Mark
<1>3. ~split => ~Begun(y)
  BY <1>1 DEF AtSender, Begun
<1>4. AtSender(y)'
  BY <1>1, <1>2 DEF AtSender, Current, Size, FrameHeaderLen, splitVars
<1>5. CASE wire' = Append(wire, c) /\ (kind \in {"stream", "answer"} \/ (kind = "response" /\ ~split))
  <2>1. Carries(sent, kind, c, y, y)
    BY <1>3, <1>5 DEF Carries, CarriesMark
  <2> HIDE DEF c
  <2> QED BY <1>1, <1>2, <1>4, <1>5, <2>1, MarkLine
<1>6. CASE wire' = Append(wire, r) /\ kind \in {"stream", "channel", "answer"}
  <2>1. Carries(sent, kind, r, y, y)
    BY <1>6 DEF Carries, CarriesMark
  <2> HIDE DEF r
  <2> QED BY <1>1, <1>2, <1>4, <1>6, <2>1, MarkLine
<1> QED BY <1>2, <1>5, <1>6

\* The bytes of a fragment begin where the split is and do not go beyond the end.
LEMMA FragmentBytes ==
  ASSUME IInv, Fragment
  PROVE  LET p    == Current
             more == HasMetadata(p)
             room == Most(0, Room(Len(sent), idx, more))
             c1   == Least(p.m, cursor1 + room)
             c2   == DataCursor(p, room - (c1 - cursor1))
         IN /\ c1 \in Nat /\ cursor1 <= c1 /\ c1 <= p.m
            /\ c2 \in Nat /\ cursor2 <= c2 /\ c2 <= p.d
            /\ p.m \in Nat /\ p.d \in Nat /\ cursor1 \in Nat /\ cursor2 \in Nat
<1> DEFINE p    == Current
           more == HasMetadata(p)
           room == Most(0, Room(Len(sent), idx, more))
           c1   == Least(p.m, cursor1 + room)
           left == room - (c1 - cursor1)
           c2   == DataCursor(p, left)
<1>1. Control /\ Cursors /\ split /\ mtu \in Nat
  BY MtuAssumption DEF IInv, Control, Fragment
<1>2. p.m \in Nat /\ p.d \in Nat
  BY <1>1, CurrentIs, SizeAssumption DEF Cursors
<1>3. cursor1 \in Nat /\ cursor2 \in Nat /\ cursor1 <= p.m /\ cursor2 <= p.d
  BY <1>1 DEF Cursors
<1>4. room \in Nat
  <2>1. Skip(Len(sent), idx) \in {0, 4}
    BY DEF Skip
  <2>2. Room(Len(sent), idx, more) \in Int
    BY <1>1, <2>1 DEF Room, FrameHeaderLen
  <2> HIDE DEF more
  <2> QED BY <2>2 DEF Most
<1> HIDE DEF room, more, p
<1>5. c1 \in Nat /\ cursor1 <= c1 /\ c1 <= p.m /\ c1 - cursor1 <= room
  BY <1>2, <1>3, <1>4, Advances
<1> HIDE DEF c1
<1>6. left \in Nat
  BY <1>3, <1>4, <1>5
<1> HIDE DEF left
<1>7. c2 \in Nat /\ cursor2 <= c2 /\ c2 <= p.d
  BY <1>2, <1>3, <1>6, Advances DEF DataCursor
<1> QED BY <1>2, <1>3, <1>5, <1>7 DEF c1, room, more, p, left

LEMMA FragmentLine ==
  ASSUME IInv, IInv', JInv, Fragment
  PROVE  JInv'
<1> DEFINE p    == Current
           n    == Len(sent)
           more == HasMetadata(p)
           room == Most(0, Room(n, idx, more))
           c1   == Least(p.m, cursor1 + room)
           c2   == DataCursor(p, room - (c1 - cursor1))
           goOn == Follows(p, c1, c2)
           f    == [type |-> Type(n, idx), of |-> n, skip |-> Skip(n, idx),
                    meta |-> Bytes(cursor1, c1), data |-> Bytes(cursor2, c2),
                    metadata |-> more, follow |-> goOn, next |-> TRUE,
                    complete |-> p.final /\ ~goOn]
<1>1. Control /\ Cursors /\ Cursors' /\ split /\ wire \in Seq(Fitting(mtu))
  BY DEF IInv, Fragment
<1>2. PICK x \in Place, y \in Place : AtReceiver(x) /\ AtSender(y) /\ Line(sent, kind, wire, x, y)
  BY DEF JInv
<1>3. /\ wire' = Append(wire, f) /\ cursor1' = c1 /\ cursor2' = c2 /\ idx' = idx + 1 /\ split' = goOn
      /\ UNCHANGED <<mtu, kind, sent, ended>> /\ UNCHANGED <<kind, recvVars>>
  BY DEF Fragment
<1>4. /\ sent \in Seq(Payload) /\ Len(sent) \in Nat /\ DOMAIN sent = 1..Len(sent)
      /\ sent # <<>> /\ n \in 1..Len(sent) /\ p = sent[n]
  BY <1>1 DEF Control, Cursors, Current
<1>5. AtReceiver(x)' /\ (Whole /\ InOrder /\ got \in Seq(Items))'
  BY <1>2, <1>3, <1>4, ReceiverStays DEF JInv
<1>6. y.n = n /\ y.a = cursor1 /\ y.b = cursor2 /\ ~y.fin
  BY <1>1, <1>2 DEF AtSender
<1>7. /\ c1 \in Nat /\ cursor1 <= c1 /\ c1 <= p.m
      /\ c2 \in Nat /\ cursor2 <= c2 /\ c2 <= p.d
      /\ p.m \in Nat /\ p.d \in Nat /\ cursor1 \in Nat /\ cursor2 \in Nat
  BY FragmentBytes
<1>8. /\ f.type = Type(n, idx) /\ f.meta = Bytes(cursor1, c1) /\ f.data = Bytes(cursor2, c2)
      /\ f.metadata = more /\ f.follow = goOn /\ f.next /\ f.of = n
  OBVIOUS
<1>9. (more <=> cursor1 < p.m) /\ (goOn <=> c1 + c2 < p.m + p.d)
  BY DEF HasMetadata, Follows
<1> HIDE DEF f, c1, c2, goOn, more, room
<1>10. f.type = IF kind \in Requests /\ y.n = 1 /\ ~Begun(y) THEN "REQUEST" ELSE "PAYLOAD"
  <2>1. idx = 0 <=> ~Begun(y)
    <3>1. idx \in Nat /\ idx <= cursor1 + cursor2 /\ (idx = 0 => cursor1 = 0 /\ cursor2 = 0)
      BY <1>1 DEF Cursors, JInv, FirstIsFirst
    <3> QED BY <1>6, <1>7, <3>1 DEF Begun
  <2> QED BY <1>6, <1>8, <2>1 DEF Type
<1>11. OneRequest'
  BY <1>3 DEF JInv, OneRequest
<1>12. FirstIsFirst'
  BY <1>1, <1>3 DEF FirstIsFirst, Cursors
<1>13. ended # "no" => ended = "final" /\ sent # <<>> /\ Size(Current, 0) > mtu
  BY <1>2, <1>6 DEF AtSender
<1>14. ASSUME NEW z \in Place, CarriesBytes(kind, p, f, y, z), AtSender(z)'
       PROVE  JInv'
  <2>1. f.type \in {"REQUEST", "PAYLOAD"}
    BY <1>10
  <2>2. Carries(sent, kind, f, y, z)
    BY <1>4, <1>6, <1>14, <2>1 DEF Carries
  <2>3. Line(sent, kind, wire', x, z)
    BY <1>1, <1>2, <1>3, <1>14, <2>2, LineAppend
  <2> QED BY <1>2, <1>3, <1>5, <1>11, <1>12, <1>14, <2>3 DEF JInv
<1>15. CASE goOn
  <2> DEFINE z == [y EXCEPT !.a = c1, !.b = c2]
  <2>1. z \in Place /\ z.n = y.n /\ z.a = c1 /\ z.b = c2 /\ z.fin = y.fin
    BY <1>7 DEF Place
  <2>2. c1 + c2 > 0
    BY <1>1, <1>3, <1>7 DEF Cursors
  <2>3. CarriesBytes(kind, p, f, y, z)
    <3>1. c1 \in y.a..p.m /\ c2 \in y.b..p.d
      BY <1>6, <1>7
    <3> QED BY <1>6, <1>8, <1>9, <1>10, <1>15, <2>2, <3>1 DEF CarriesBytes
  <2>4. \E u \in Place : u = z /\ AtSender(u)'
    <3>1. PICK u \in Place : u = z
      BY <2>1
    <3>2. u.n = y.n /\ u.a = c1 /\ u.b = c2 /\ u.fin = y.fin
      BY <2>1, <3>1
    <3> HIDE DEF z
    <3>3. AtSender(u)'
      BY <1>3, <1>6, <1>13, <1>15, <3>2 DEF AtSender, Current, Size, FrameHeaderLen
    <3> QED BY <3>1, <3>3
  <2> QED BY <2>3, <2>4, <1>14
<1>16. CASE ~goOn
  <2> DEFINE z == [n |-> y.n + 1, a |-> 0, b |-> 0, fin |-> y.fin]
  <2>1. z \in Place /\ z.n = y.n + 1 /\ z.a = 0 /\ z.b = 0 /\ z.fin = y.fin
    <3>1. y.n + 1 \in Nat \ {0}
      BY <1>4, <1>6
    <3> QED BY <3>1 DEF Place
  <2> HIDE DEF z
  <2>2. c1 = p.m /\ c2 = p.d
    BY <1>7, <1>9, <1>16
  <2>3. CarriesBytes(kind, p, f, y, z)
    <3>1. p.m \in y.a..p.m /\ p.d \in y.b..p.d
      BY <1>6, <1>7, <2>2
    <3> QED BY <1>6, <1>8, <1>9, <1>10, <1>16, <2>1, <2>2, <3>1 DEF CarriesBytes
  <2>4. AtSender(z)'
    BY <1>3, <1>6, <1>13, <1>16, <2>1 DEF AtSender, Current, Size, FrameHeaderLen
  <2> QED BY <2>1, <2>3, <2>4, <1>14
<1> QED BY <1>15, <1>16

----------------------------------------------------------------------------
(* The receiver's steps *)

\* Bytes that begin where others end follow them.
LEMMA BytesJoin ==
  \A from, lo, hi \in Nat :
    from <= lo /\ lo <= hi => Bytes(from, lo) \o Bytes(lo, hi) = Bytes(from, hi)
<1> SUFFICES ASSUME NEW from \in Nat, NEW lo \in Nat, NEW hi \in Nat, from <= lo, lo <= hi
             PROVE  Bytes(from, lo) \o Bytes(lo, hi) = Bytes(from, hi)
  OBVIOUS
<1> DEFINE u == Bytes(from, lo)   v == Bytes(lo, hi)   w == Bytes(from, hi)
<1>1. /\ u \in Seq(Nat) /\ Len(u) = lo - from /\ \A i \in 1..(lo - from) : u[i] = from + i
      /\ w \in Seq(Nat) /\ Len(w) = hi - from /\ \A i \in 1..(hi - from) : w[i] = from + i
      /\ v \in Seq(Nat) /\ Len(v) = hi - lo /\ \A i \in 1..(hi - lo) : v[i] = lo + i
  <2>1. /\ u \in Seq(Nat) /\ Len(u) = lo - from /\ w \in Seq(Nat) /\ Len(w) = hi - from
        /\ v \in Seq(Nat) /\ Len(v) = hi - lo
    <3>1. from <= hi
      OBVIOUS
    <3> QED BY <3>1, BytesAre
  <2>2. /\ \A i \in 1..(lo - from) : u[i] = from + i
        /\ \A i \in 1..(hi - from) : w[i] = from + i
        /\ \A i \in 1..(hi - lo) : v[i] = lo + i
    BY DEF Bytes
  <2> QED BY <2>1, <2>2
<1> HIDE DEF u, v, w
<1>3. /\ u \o v \in Seq(Nat) /\ Len(u \o v) = hi - from
      /\ \A i \in 1..(hi - from) : (u \o v)[i] = IF i <= lo - from THEN u[i] ELSE v[i - (lo - from)]
  <2>1. /\ u \o v \in Seq(Nat) /\ Len(u \o v) = Len(u) + Len(v)
        /\ \A i \in 1..Len(u) + Len(v) : (u \o v)[i] = IF i <= Len(u) THEN u[i] ELSE v[i - Len(u)]
    BY <1>1, ConcatProperties
  <2>2. Len(u) = lo - from /\ Len(u) + Len(v) = hi - from
    BY <1>1
  <2> QED BY <2>1, <2>2
<1>4. ASSUME NEW i \in 1..(hi - from)
      PROVE  (u \o v)[i] = w[i]
  <2>1. CASE i <= lo - from
    <3>1. i \in 1..(lo - from)
      BY <2>1
    <3> QED BY <1>1, <1>3, <2>1, <3>1
  <2>2. CASE ~(i <= lo - from)
    <3>1. i - (lo - from) \in 1..(hi - lo) /\ lo + (i - (lo - from)) = from + i
      BY <2>2
    <3>2. v[i - (lo - from)] = lo + (i - (lo - from))
      BY <1>1, <3>1
    <3>3. (u \o v)[i] = v[i - (lo - from)]
      BY <1>3, <2>2
    <3>4. w[i] = from + i
      BY <1>1
    <3> QED BY <3>1, <3>2, <3>3, <3>4
  <2> QED BY <2>1, <2>2
<1>5. u \o v = w
  BY <1>1, <1>3, <1>4, SeqEqual
<1> QED BY <1>5 DEF u, v, w

Joint(f) == IF joiner.open THEN Push(joiner, f) ELSE NewJoiner(f)

\* the sizes of the payload under way
LEMMA SizesAre ==
  ASSUME IInv, NEW x \in Place, x.n \in 1..Len(sent)
  PROVE  /\ x.a \in Nat /\ x.b \in Nat /\ x.n \in Nat /\ x.n >= 1
         /\ sent[x.n] \in Payload /\ sent[x.n].m \in Nat /\ sent[x.n].d \in Nat
<1>1. sent[x.n] \in Payload
  BY DEF IInv, Control
<1>2. sent[x.n].m \in Nat /\ sent[x.n].d \in Nat
  BY <1>1, SizeAssumption DEF Payload
<1>3. x.a \in Nat /\ x.b \in Nat /\ x.n \in Nat /\ x.n >= 1
  BY DEF Place
<1> QED BY <1>1, <1>2, <1>3

\* Fragments that come in their order are put together in their order.
LEMMA Joining ==
  ASSUME IInv, NEW x \in Place, AtReceiver(x), NEW f \in Frame, x.n \in 1..Len(sent),
         f.next, f.metadata <=> x.a < sent[x.n].m, f.of = x.n,
         f.type = IF kind \in Requests /\ x.n = 1 /\ ~Begun(x) THEN "REQUEST" ELSE "PAYLOAD",
         NEW a \in x.a..sent[x.n].m, NEW b \in x.b..sent[x.n].d, f.meta = Bytes(x.a, a), f.data = Bytes(x.b, b)
  PROVE  LET j == Joint(f) IN
           /\ j.open = TRUE /\ j.of = x.n /\ j.next
           /\ j.type = IF kind \in Requests /\ x.n = 1 /\ 1 \notin cut THEN "REQUEST" ELSE "PAYLOAD"
           /\ j.inMetadata \/ a = sent[x.n].m
           /\ \E u \in 0..a, v \in 0..b :
                /\ j.meta = Bytes(u, a) /\ j.data = Bytes(v, b)
                /\ x.n \notin cut => u = 0 /\ v = 0
           /\ ~Begun(x) => j.complete = f.complete
<1> DEFINE p == sent[x.n]
<1>1. x.a \in Nat /\ x.b \in Nat /\ p.m \in Nat /\ p.d \in Nat /\ joiner \in Joiners
  BY SizesAre DEF IInv, Control
<1>2. a \in Nat /\ b \in Nat /\ x.a <= a /\ a <= p.m /\ x.b <= b /\ b <= p.d
  BY <1>1
<1> HIDE DEF p
<1>3. f.metadata <=> x.a < p.m
  BY DEF p
<1>4. CASE joiner.open
  <2>1. /\ joiner.type = IF kind \in Requests /\ x.n = 1 /\ 1 \notin cut THEN "REQUEST" ELSE "PAYLOAD"
        /\ joiner.next /\ joiner.of = x.n /\ (joiner.inMetadata \/ x.a = p.m) /\ Begun(x)
    BY <1>4 DEF AtReceiver, Gathering, p
  <2>2. PICK u \in 0..x.a, v \in 0..x.b :
          /\ joiner.meta = Bytes(u, x.a) /\ joiner.data = Bytes(v, x.b)
          /\ x.n \notin cut => u = 0 /\ v = 0
    BY <1>4 DEF AtReceiver, Gathering
  <2>3. joiner \in Joiners \ {NoJoiner}
    BY <1>1, <1>4 DEF NoJoiner
  <2> DEFINE more == joiner.inMetadata /\ f.metadata
             j == Push(joiner, f)
  <2>4. /\ j.open = TRUE /\ j.of = joiner.of /\ j.next = joiner.next /\ j.type = joiner.type /\ j.inMetadata = more
        /\ j.meta = IF more THEN joiner.meta \o f.meta ELSE joiner.meta
        /\ j.data = joiner.data \o f.data
    BY <2>3 DEF Joiners, Push
  <2> HIDE DEF j
  <2>5. u \in 0..a /\ v \in 0..b
    BY <1>1, <1>2
  <2>6. j.data = Bytes(v, b)
    <3>1. v \in Nat /\ v <= x.b
      BY <1>1
    <3>2. Bytes(v, x.b) \o Bytes(x.b, b) = Bytes(v, b)
      <4>1. x.b \in Nat /\ b \in Nat /\ x.b <= b
        BY <1>1, <1>2
      <4> QED BY <3>1, <4>1, BytesJoin
    <3> QED BY <2>2, <2>4, <3>2
  <2>7. j.meta = Bytes(u, a) /\ (j.inMetadata \/ a = p.m)
    <3>1. CASE more
      <4>1. u \in Nat /\ u <= x.a
        BY <1>1
      <4>2. Bytes(u, x.a) \o Bytes(x.a, a) = Bytes(u, a)
        <5>1. x.a \in Nat /\ a \in Nat /\ x.a <= a
          BY <1>1, <1>2
        <5> QED BY <4>1, <5>1, BytesJoin
      <4> QED BY <2>2, <2>4, <3>1, <4>2
    <3>2. CASE ~more
      <4>1. x.a = p.m /\ a = x.a
        BY <1>1, <1>2, <1>3, <2>1, <3>2
      <4> QED BY <2>2, <2>4, <3>2, <4>1
    <3> QED BY <3>1, <3>2
  <2>8. Joint(f) = j
    BY <1>4 DEF Joint, j
  <2> QED BY <2>1, <2>2, <2>4, <2>5, <2>6, <2>7, <2>8 DEF p
<1>5. CASE ~joiner.open
  <2>1. Begun(x) => x.n \in cut
    BY <1>5 DEF AtReceiver, Gathering
  <2>2. ~Begun(x) => x.a = 0 /\ x.b = 0 /\ x.n \notin cut
    <3>1. ~Begun(x) => x.n \notin cut
      BY DEF AtReceiver, Knowing, Place
    <3> QED BY <1>1, <3>1 DEF Begun
  <2>3. Joint(f) = NewJoiner(f)
    BY <1>5 DEF Joint
  <2> DEFINE j == NewJoiner(f)
  <2>4. /\ j.open = TRUE /\ j.of = f.of /\ j.next = f.next /\ j.type = f.type /\ j.inMetadata = f.metadata
        /\ j.meta = f.meta /\ j.data = f.data /\ j.complete = f.complete
    BY DEF NewJoiner
  <2> HIDE DEF j
  <2>5. f.metadata \/ a = p.m
    BY <1>1, <1>2, <1>3
  <2>6. x.a \in 0..a /\ x.b \in 0..b /\ (x.n \notin cut => x.a = 0 /\ x.b = 0)
    BY <1>1, <1>2, <2>1, <2>2
  <2>7. f.type = IF kind \in Requests /\ x.n = 1 /\ 1 \notin cut THEN "REQUEST" ELSE "PAYLOAD"
    BY <2>1, <2>2
  <2> QED BY <2>3, <2>4, <2>5, <2>6, <2>7 DEF j, p
<1> QED BY <1>4, <1>5

\* CANCEL and REQUEST_N throw away what is joined, or nothing.
LEMMA ReadMark ==
  ASSUME IInv, JInv, NEW x \in Place, NEW z \in Place, AtReceiver(x), NEW f, CarriesMark(kind, f, x, z),
         f.type = "CANCEL" => ReceiveCancel, f.type = "REQUEST_N" => ReceiveRequestN,
         UNCHANGED <<mtu, kind, sendVars>>
  PROVE  AtReceiver(z)' /\ UNCHANGED <<got>> /\ cut \subseteq cut'
<1>1. /\ z = x /\ f.type \in {"CANCEL", "REQUEST_N"}
      /\ f.type = "CANCEL" => kind \in {"stream", "answer", "response"}
      /\ f.type = "REQUEST_N" => kind \in {"stream", "channel", "answer"}
      /\ kind = "response" => ~Begun(x)
  BY DEF CarriesMark
<1>2. /\ UNCHANGED <<callback, got, completed>> /\ UNCHANGED <<kind, sent>>
      /\ \/ DeleteFragment /\ (f.type = "CANCEL" \/ callback # "in")
         \/ UNCHANGED <<joiner, cut>>
  BY <1>1 DEF ReceiveCancel, ReceiveRequestN, sendVars
<1>3. Gathering(x) /\ Knowing(x) /\ Within(x)
  BY DEF AtReceiver
<1>4. Within(x)'
  BY <1>2, <1>3 DEF Within
<1>5. CASE UNCHANGED <<joiner, cut>>
  BY <1>1, <1>2, <1>3, <1>4, <1>5 DEF AtReceiver, Gathering, Knowing
<1>6. CASE DeleteFragment /\ (f.type = "CANCEL" \/ callback # "in")
  <2>1. ~joiner'.open /\ cut' = cut \cup (IF joiner.open THEN {joiner.of} ELSE {})
    BY <1>6 DEF DeleteFragment, NoJoiner
  <2>2. CASE ~joiner.open
    <3>1. cut' = cut
      BY <2>1, <2>2
    <3> QED BY <1>1, <1>2, <1>3, <1>4, <2>1, <2>2, <3>1 DEF AtReceiver, Gathering, Knowing
  <2>3. CASE joiner.open
    <3>1. Begun(x) /\ joiner.of = x.n /\ x.n \in 1..Len(sent)
      BY <1>3, <2>3 DEF Gathering, Within
    <3>2. cut' = cut \cup {x.n}
      BY <2>1, <2>3, <3>1
    <3>3. Gathering(x)'
      BY <2>1, <3>2 DEF Gathering
    <3>4. kind \in {"stream", "channel", "answer"}
      BY <1>1, <3>1
    <3>5. callback # "in" \/ kind = "answer"
      <4>1. ASSUME callback = "in", kind # "answer"
            PROVE  FALSE
        <5>1. f.type = "CANCEL" /\ kind = "stream"
          BY <1>1, <1>2, <1>6, <3>4, <4>1
        <5>2. x.n # 1
          BY <1>3, <4>1, <5>1 DEF Knowing, Requests
        <5>3. Len(sent) <= 1 /\ Len(sent) \in Nat
          BY <5>1 DEF JInv, OneRequest, IInv, Control
        <5> QED BY <3>1, <5>2, <5>3
      <4> QED BY <4>1
    <3>6. \A n \in cut' : n \in 1..x.n /\ (n = x.n => Begun(x))
      BY <1>3, <3>1, <3>2 DEF Knowing, Place
    <3>7. kind \in Requests => (callback = "none" <=> x.n = 1 \/ 1 \in cut')
      BY <1>3, <3>2 DEF Knowing
    <3>8. Knowing(x)'
      BY <1>2, <1>3, <3>4, <3>5, <3>6, <3>7 DEF Knowing
    <3> QED BY <1>1, <1>2, <1>4, <3>2, <3>3, <3>8 DEF AtReceiver
  <2> QED BY <2>2, <2>3
<1> QED BY <1>2, <1>5, <1>6

\* The end of the stream finds no fragment before it.
LEMMA ReadEnd ==
  ASSUME IInv, NEW x \in Place, NEW z \in Place, AtReceiver(x), NEW f,
         \/ CarriesEnd(kind, f, x, z) /\ Receive(f)
         \/ CarriesError(kind, f, x, z) /\ ReceiveError,
         UNCHANGED <<mtu, kind, sendVars>>
  PROVE  AtReceiver(z)' /\ UNCHANGED <<got, cut>>
<1>1. ~Begun(x) /\ z = [x EXCEPT !.fin = TRUE]
  BY DEF CarriesEnd, CarriesError
<1>2. z.n = x.n /\ z.a = x.a /\ z.b = x.b /\ ~Begun(z)
  BY <1>1 DEF Place, Begun
<1>3. Gathering(x) /\ Knowing(x) /\ ~joiner.open
  BY <1>1 DEF AtReceiver, Gathering
<1>4. UNCHANGED <<kind, sent>>
  BY DEF sendVars
<1>5. /\ UNCHANGED <<callback, got, cut>> /\ ~joiner'.open
      /\ callback = "in" => completed'
  <2>1. CASE CarriesEnd(kind, f, x, z) /\ Receive(f)
    <3> DEFINE j == NewJoiner(f)
    <3>1. j.type = "PAYLOAD" /\ ~j.next /\ j.complete /\ ~f.follow
      BY <2>1 DEF CarriesEnd, NewJoiner
    <3>2. joiner' = NoJoiner /\ Dispatch(j) /\ UNCHANGED <<cut, dead>>
      BY <1>3, <2>1, <3>1 DEF Receive
    <3> HIDE DEF j
    <3> QED BY <3>1, <3>2 DEF Dispatch, NoJoiner
  <2>2. CASE CarriesError(kind, f, x, z) /\ ReceiveError
    BY <1>3, <2>2 DEF ReceiveError, DeleteFragment, NoJoiner
  <2> QED BY <2>1, <2>2
<1>6. Gathering(z)' /\ Within(z)'
  BY <1>2, <1>5 DEF Gathering, Within
<1>7. Knowing(z)'
  <2>1. \A n \in cut' : n \in 1..z.n /\ (n = z.n => Begun(z))
    BY <1>1, <1>2, <1>3, <1>5 DEF Knowing
  <2> QED BY <1>2, <1>3, <1>4, <1>5, <2>1 DEF Knowing
<1> QED BY <1>5, <1>6, <1>7 DEF AtReceiver

\* A fragment is joined to those before it, and the last one has the payload
\* dispatched: all of it, unless some of it was cut, and only to a callback.
LEMMA ReadBytes ==
  ASSUME IInv, JInv, NEW x \in Place, NEW z \in Place, AtReceiver(x),
         NEW f \in Frame, x.n \in 1..Len(sent), CarriesBytes(kind, sent[x.n], f, x, z),
         Receive(f), UNCHANGED <<mtu, kind, sendVars>>
  PROVE  /\ AtReceiver(z)' /\ UNCHANGED cut
         /\ \/ got' = got
            \/ \E item \in Items :
                 /\ got' = Append(got, item) /\ item.of = x.n
                 /\ EndOf(sent[x.n], item) /\ (x.n \notin cut => AllOf(sent[x.n], item))
                 /\ got # <<>> => got[Len(got)].of = x.n - 1
                 /\ kind # "answer" => Len(got) = x.n - 1 /\ cut = {}
<1> DEFINE p == sent[x.n]
<1>1. Gathering(x) /\ Knowing(x) /\ Within(x)
  BY DEF AtReceiver
<1>2. PICK a \in x.a..p.m, b \in x.b..p.d :
        /\ f.meta = Bytes(x.a, a) /\ f.data = Bytes(x.b, b)
        /\ IF f.follow
             THEN a + b > 0 /\ z = [x EXCEPT !.a = a, !.b = b]
             ELSE /\ a = p.m /\ b = p.d
                  /\ z.n = x.n + 1 /\ z.a = 0 /\ z.b = 0
                  /\ z.fin => f.complete /\ ~Begun(x) /\ kind \notin Requests
  BY DEF CarriesBytes
<1>3. x.a \in Nat /\ x.b \in Nat /\ p.m \in Nat /\ p.d \in Nat /\ x.n \in Nat /\ x.n >= 1 /\ ~x.fin
  BY SizesAre DEF CarriesBytes
<1>4. a \in Nat /\ b \in Nat /\ a <= p.m /\ b <= p.d /\ x.a <= a /\ x.b <= b
  BY <1>3
<1> DEFINE j == Joint(f)
<1>5. /\ j.open = TRUE /\ j.of = x.n /\ j.next
      /\ j.type = IF kind \in Requests /\ x.n = 1 /\ 1 \notin cut THEN "REQUEST" ELSE "PAYLOAD"
      /\ j.inMetadata \/ a = p.m
      /\ \E u \in 0..a, v \in 0..b :
           /\ j.meta = Bytes(u, a) /\ j.data = Bytes(v, b)
           /\ x.n \notin cut => u = 0 /\ v = 0
      /\ ~Begun(x) => j.complete = f.complete
  <2>1. /\ f.next /\ (f.metadata <=> x.a < p.m) /\ f.of = x.n
        /\ f.type = IF kind \in Requests /\ x.n = 1 /\ ~Begun(x) THEN "REQUEST" ELSE "PAYLOAD"
    BY DEF CarriesBytes
  <2> QED BY <1>2, <2>1, Joining
<1>6. /\ f.follow => joiner' = j /\ UNCHANGED <<callback, got, completed>>
      /\ ~f.follow => joiner' = NoJoiner /\ Dispatch(j)
      /\ UNCHANGED <<cut, dead>> /\ UNCHANGED <<kind, sent>>
  BY DEF Receive, Joint, sendVars
<1> HIDE DEF j, p
<1>7. CASE f.follow
  <2>1. z.n = x.n /\ z.a = a /\ z.b = b /\ z.fin = x.fin /\ Begun(z)
    BY <1>2, <1>7 DEF Place, Begun
  <2>2. Gathering(z)'
    BY <1>5, <1>6, <1>7, <2>1 DEF Gathering, p
  <2>3. Within(z)'
    BY <1>4, <1>6, <2>1 DEF Within, p
  <2>4. Knowing(z)'
    <3>1. \A n \in cut' : n \in 1..z.n /\ (n = z.n => Begun(z))
      BY <1>1, <1>6, <2>1 DEF Knowing
    <3> QED BY <1>1, <1>6, <1>7, <2>1, <3>1 DEF Knowing
  <2> QED BY <1>6, <1>7, <2>2, <2>3, <2>4 DEF AtReceiver
<1>8. CASE ~f.follow
  <2>1. z.n = x.n + 1 /\ ~Begun(z) /\ a = p.m /\ b = p.d
    BY <1>2, <1>8 DEF Begun
  <2>2. joiner' = NoJoiner /\ ~joiner'.open /\ Dispatch(j) /\ cut' = cut /\ kind' = kind /\ sent' = sent
    BY <1>6, <1>8 DEF NoJoiner
  <2>3. Gathering(z)' /\ Within(z)'
    BY <2>1, <2>2 DEF Gathering, Within
  <2>4. \A n \in cut : n \in 1..z.n /\ n # z.n
    <3>1. \A n \in cut : n \in 1..x.n
      BY <1>1 DEF Knowing
    <3> QED BY <1>3, <2>1, <3>1
  <2> DEFINE i == Item(j)
  <2>5. i \in Items /\ i.of = x.n /\ EndOf(p, i) /\ (x.n \notin cut => AllOf(p, i))
    <3>1. PICK u \in 0..p.m, v \in 0..p.d :
            /\ j.meta = Bytes(u, p.m) /\ j.data = Bytes(v, p.d)
            /\ x.n \notin cut => u = 0 /\ v = 0
      BY <1>5, <2>1
    <3>2. i.of = x.n /\ i.meta = Bytes(u, p.m) /\ i.data = Bytes(v, p.d) /\ i = [of |-> j.of, meta |-> j.meta, data |-> j.data]
      BY <1>5, <3>1 DEF Item
    <3>3. Bytes(u, p.m) \in Seq(Nat) /\ Bytes(v, p.d) \in Seq(Nat)
      <4>1. u \in Nat /\ u <= p.m /\ v \in Nat /\ v <= p.d
        BY <1>3
      <4> QED BY <1>3, <4>1, BytesAre
    <3>4. i \in Items
      BY <1>3, <1>5, <3>1, <3>2, <3>3 DEF Items
    <3> HIDE DEF i
    <3> QED BY <3>1, <3>2, <3>4 DEF EndOf, AllOf
  <2> HIDE DEF i
  <2>6. got \in Seq(Items) /\ Len(got) \in Nat
    BY DEF JInv
  <2>7. CASE j.type = "REQUEST"
    <3>1. kind \in Requests /\ x.n = 1 /\ 1 \notin cut
      BY <1>5, <2>7
    <3>2. callback = "none" /\ got = <<>> /\ Len(got) = 0
      BY <1>1, <3>1 DEF Knowing
    <3>3. cut = {}
      <4>1. \A n \in cut : n = 1
        BY <1>1, <3>1 DEF Knowing
      <4> QED BY <3>1, <4>1
    <3>4. callback' \in {"in", "gone"} /\ got' = Append(got, i) /\ completed' = completed
      BY <2>2, <2>7 DEF Dispatch, i
    <3>5. Len(got') = 1 /\ got'[1].of = 1 /\ ~z.fin /\ z.n - 1 = 1 /\ z.n = 2
      BY <1>2, <1>8, <2>1, <2>5, <3>1, <3>2, <3>4
    <3>6. kind # "reply" /\ kind # "answer"
      BY <3>1 DEF Requests
    <3>7. Knowing(z)'
      BY <2>2, <3>1, <3>3, <3>4, <3>5, <3>6 DEF Knowing
    <3> QED BY <2>2, <2>3, <2>5, <3>1, <3>2, <3>3, <3>4, <3>7 DEF AtReceiver, p
  <2>8. CASE j.type # "REQUEST"
    <3>1. /\ got' = (IF callback = "in" THEN Append(got, i) ELSE got) /\ callback' = callback
          /\ completed' <=> completed \/ (callback = "in" /\ j.complete)
      BY <1>5, <2>2, <2>8 DEF Dispatch, i
    <3>2. kind \in Requests => (callback = "none" <=> z.n = 1 \/ 1 \in cut)
      <4>1. kind \in Requests /\ x.n = 1 => 1 \in cut
        BY <1>5, <2>8
      <4>2. z.n # 1
        BY <1>3, <2>1
      <4> QED BY <1>1, <4>1, <4>2 DEF Knowing
    <3>3. CASE callback = "in"
      <4>1. /\ got' = Append(got, i) /\ Len(got') = Len(got) + 1 /\ got'[Len(got')] = i
        BY <2>5, <2>6, <3>1, <3>3
      <4>2. /\ got # <<>> => got[Len(got)].of = x.n - 1
            /\ kind # "answer" => Len(got) = x.n - 1 /\ cut = {}
        BY <1>1, <3>3 DEF Knowing
      <4>3. z.n - 1 = x.n /\ (kind # "answer" => Len(got') = z.n - 1)
        BY <1>3, <2>1, <2>6, <4>1, <4>2
      <4>4. z.fin => completed'
        BY <1>2, <1>5, <1>8, <3>1, <3>3
      <4>5. Knowing(z)'
        BY <1>1, <2>2, <2>4, <2>5, <3>1, <3>2, <3>3, <4>1, <4>2, <4>3, <4>4 DEF Knowing
      <4> QED BY <2>2, <2>3, <2>5, <4>1, <4>2, <4>5 DEF AtReceiver, p
    <3>4. CASE callback # "in"
      <4>1. Knowing(z)'
        BY <1>1, <2>2, <2>4, <3>1, <3>2, <3>4 DEF Knowing
      <4> QED BY <2>2, <2>3, <3>1, <3>4, <4>1 DEF AtReceiver
    <3> QED BY <3>3, <3>4
  <2> QED BY <2>7, <2>8
<1> QED BY <1>7, <1>8

LEMMA ReadLine ==
  ASSUME IInv, JInv, Read
  PROVE  JInv' /\ (kind # "answer" /\ cut # {} => UNCHANGED got)
<1>1. PICK f \in {wire[i] : i \in DOMAIN wire} :
        Arrives(f) /\ Handle(f) /\ UNCHANGED <<mtu, kind, sendVars>>
  BY DEF Read
<1>2. wire \in Seq(Fitting(mtu)) /\ wire # <<>> /\ f = Head(wire) /\ wire' = Tail(wire)
  BY <1>1 DEF IInv, Arrives
<1>3. f \in Fitting(mtu)
  BY <1>2
<1>4. /\ UNCHANGED <<mtu, kind, sendVars>>
      /\ UNCHANGED <<mtu, kind, sent, split, idx, cursor1, cursor2, ended, cancel>>
  BY <1>1 DEF sendVars, splitVars
<1>5. PICK x \in Place, y \in Place : AtReceiver(x) /\ AtSender(y) /\ Line(sent, kind, wire, x, y)
  BY DEF JInv
<1>6. PICK z \in Place : Carries(sent, kind, f, x, z) /\ Line(sent, kind, Tail(wire), z, y)
  BY <1>2, <1>5, LineTail
<1>7. AtSender(y)'
  BY <1>4, <1>5 DEF AtSender, Current, Size, FrameHeaderLen
<1>8. OneRequest' /\ FirstIsFirst'
  BY <1>4 DEF JInv, OneRequest, FirstIsFirst
<1>9. SUFFICES /\ AtReceiver(z)' /\ (got \in Seq(Items) /\ Whole /\ InOrder)'
               /\ kind # "answer" /\ cut # {} => UNCHANGED got
  <2>1. Line(sent', kind', wire', z, y)
    BY <1>2, <1>4, <1>6
  <2> QED BY <1>7, <1>8, <1>9, <2>1 DEF JInv
<1>10. ASSUME UNCHANGED got, cut \subseteq cut'
       PROVE  (got \in Seq(Items) /\ Whole /\ InOrder)'
  BY <1>4, <1>10 DEF JInv, Whole, InOrder
<1>11. CASE f \in Marks
  <2>1. f.type \in {"CANCEL", "REQUEST_N", "ERROR"}
    BY <1>11 DEF Marks
  <2>2. CASE CarriesMark(kind, f, x, z)
    <3>1. AtReceiver(z)' /\ UNCHANGED got /\ cut \subseteq cut'
      BY <1>1, <1>4, <1>5, <1>11, <2>2, HandleMark, ReadMark
    <3> QED BY <1>10, <3>1
  <2>3. CASE CarriesError(kind, f, x, z)
    <3>1. ReceiveError
      BY <1>1, <1>11, <2>3, HandleMark DEF CarriesError
    <3>2. AtReceiver(z)' /\ UNCHANGED <<got, cut>>
      BY <1>4, <1>5, <2>3, <3>1, ReadEnd
    <3> QED BY <1>10, <3>2
  <2> QED BY <1>6, <2>1, <2>2, <2>3 DEF Carries, CarriesEnd
<1>12. CASE f \notin Marks
  <2>1. f \in Frame /\ f.type \in {"REQUEST", "PAYLOAD"} /\ Receive(f)
    BY <1>1, <1>3, <1>12, HandleFrame
  <2>2. CASE CarriesEnd(kind, f, x, z)
    <3>1. AtReceiver(z)' /\ UNCHANGED <<got, cut>>
      BY <1>4, <1>5, <2>1, <2>2, ReadEnd
    <3> QED BY <1>10, <3>1
  <2>3. CASE x.n \in 1..Len(sent) /\ CarriesBytes(kind, sent[x.n], f, x, z)
    <3>1. /\ AtReceiver(z)' /\ cut' = cut
          /\ \/ got' = got
             \/ \E item \in Items :
                  /\ got' = Append(got, item) /\ item.of = x.n
                  /\ EndOf(sent[x.n], item) /\ (x.n \notin cut => AllOf(sent[x.n], item))
                  /\ got # <<>> => got[Len(got)].of = x.n - 1
                  /\ kind # "answer" => Len(got) = x.n - 1 /\ cut = {}
      BY <1>4, <1>5, <2>1, <2>3, ReadBytes
    <3>2. CASE got' = got
      BY <1>10, <3>1, <3>2
    <3>3. ASSUME NEW item \in Items, got' = Append(got, item), item.of = x.n,
                 EndOf(sent[x.n], item), x.n \notin cut => AllOf(sent[x.n], item),
                 got # <<>> => got[Len(got)].of = x.n - 1,
                 kind # "answer" => Len(got) = x.n - 1 /\ cut = {}
          PROVE  /\ AtReceiver(z)' /\ (got \in Seq(Items) /\ Whole /\ InOrder)'
                 /\ kind # "answer" /\ cut # {} => UNCHANGED got
      <4>1. got \in Seq(Items) /\ Whole /\ InOrder /\ Len(got) \in Nat /\ x.n \in Nat
        BY DEF JInv, Place
      <4>2. /\ got' \in Seq(Items) /\ Len(got') = Len(got) + 1
            /\ \A i \in 1..Len(got) : got'[i] = got[i]
            /\ got'[Len(got) + 1] = item
        BY <3>3, <4>1
      <4>3. DOMAIN got = 1..Len(got) /\ DOMAIN got' = 1..(Len(got) + 1)
        BY <4>1, <4>2
      <4>4. x.n \in DOMAIN sent
        BY <2>3 DEF IInv, Control
      <4>5. ASSUME NEW i \in DOMAIN got'
            PROVE  LET n == got'[i].of IN
                     /\ n \in DOMAIN sent' /\ EndOf(sent'[n], got'[i])
                     /\ n \notin cut' => AllOf(sent'[n], got'[i])
        <5>1. CASE i \in 1..Len(got)
          BY <1>4, <3>1, <4>1, <4>2, <4>3, <5>1 DEF Whole
        <5>2. CASE i = Len(got) + 1
          BY <1>4, <3>1, <3>3, <4>2, <4>4, <5>2
        <5> QED BY <4>1, <4>3, <4>5, <5>1, <5>2
      <4>6. Whole'
        BY <4>5 DEF Whole
      <4>7. ASSUME NEW i \in DOMAIN got'
            PROVE  /\ i > 1 => got'[i].of = got'[i - 1].of + 1
                   /\ kind' # "answer" => got'[i].of = i
        <5>1. CASE i \in 1..Len(got)
          <6>1. i > 1 => i - 1 \in 1..Len(got)
            BY <4>1, <5>1
          <6> QED BY <1>4, <4>1, <4>2, <4>3, <5>1, <6>1 DEF InOrder
        <5>2. CASE i = Len(got) + 1
          <6>1. i > 1 => i - 1 = Len(got) /\ i - 1 \in 1..Len(got) /\ got # <<>>
            BY <4>1, <5>2
          <6>2. i > 1 => got'[i - 1].of = x.n - 1
            BY <3>3, <4>2, <6>1
          <6> QED BY <1>4, <3>3, <4>1, <4>2, <5>2, <6>2
        <5> QED BY <4>1, <4>3, <4>7, <5>1, <5>2
      <4>8. InOrder'
        BY <4>7 DEF InOrder
      <4> QED BY <3>1, <3>3, <4>2, <4>6, <4>8
    <3> QED BY <3>1, <3>2, <3>3
  <2>4. CarriesEnd(kind, f, x, z) \/ (x.n \in 1..Len(sent) /\ CarriesBytes(kind, sent[x.n], f, x, z))
    BY <1>6, <2>1 DEF Carries, CarriesMark, CarriesError
  <2> QED BY <2>2, <2>3, <2>4
<1> QED BY <1>11, <1>12

\* The callback comes and goes between two frames.
LEMMA CallbackLine ==
  ASSUME IInv, JInv, Register \/ Unregister
  PROVE  JInv'
<1>1. PICK x \in Place, y \in Place : AtReceiver(x) /\ AtSender(y) /\ Line(sent, kind, wire, x, y)
  BY DEF JInv
<1>2. UNCHANGED <<mtu, kind, sent, split, idx, cursor1, cursor2, ended, cancel, wire, got, completed, dead>>
  BY DEF Register, Unregister, sendVars, splitVars
<1>3. AtReceiver(x)'
  <2>1. Gathering(x) /\ Knowing(x) /\ Within(x)
    BY <1>1 DEF AtReceiver
  <2>2. Within(x)'
    BY <1>2, <2>1 DEF Within
  <2>3. CASE Register
    <3>1. kind = "answer" /\ callback = "none" /\ callback' = "in" /\ UNCHANGED <<joiner, cut>>
      BY <2>3 DEF Register
    <3>2. Gathering(x)'
      BY <1>2, <2>1, <3>1 DEF Gathering
    <3>3. Knowing(x)'
      BY <1>2, <2>1, <3>1 DEF Knowing, Requests
    <3> QED BY <2>2, <3>2, <3>3 DEF AtReceiver
  <2>4. CASE Unregister
    <3>1. callback = "in" /\ callback' = "gone" /\ ~joiner'.open
          /\ cut' = cut \cup (IF joiner.open THEN {joiner.of} ELSE {})
      BY <2>4 DEF Unregister, DeleteFragment, NoJoiner
    <3>2. joiner.open => Begun(x) /\ joiner.of = x.n /\ x.n \in 1..Len(sent) /\ x.n # 0
      BY <2>1 DEF Gathering, Within, Place
    <3>3. Begun(x) => x.n \in cut'
      BY <2>1, <3>1, <3>2 DEF Gathering
    <3>4. Gathering(x)'
      BY <3>1, <3>3 DEF Gathering
    <3>5. \A n \in cut' : n \in 1..x.n /\ (n = x.n => Begun(x))
      BY <2>1, <3>1, <3>2 DEF Knowing, Place
    <3>6. kind \in Requests => x.n # 1 /\ 1 \notin cut'
      BY <2>1, <3>1, <3>2 DEF Knowing
    <3>7. cut' # {} => kind \in {"stream", "channel", "answer", "reply"}
      <4>1. kind = "response" => ~joiner.open /\ cut = {}
        <5>1. kind = "response" => Len(sent) <= 1 /\ Len(sent) \in Nat /\ x.n # 1
          BY <2>1, <3>1 DEF JInv, OneRequest, Knowing, Requests, IInv, Control
        <5> QED BY <2>1, <3>2, <5>1 DEF Knowing
      <4>2. kind \in Kinds
        BY DEF IInv, Control
      <4> QED BY <3>1, <4>1, <4>2 DEF Kinds, Requests
    <3>8. Knowing(x)'
      BY <1>2, <2>1, <3>1, <3>5, <3>6, <3>7 DEF Knowing
    <3> QED BY <2>2, <3>4, <3>8 DEF AtReceiver
  <2> QED BY <2>3, <2>4
<1>4. AtSender(y)' /\ OneRequest' /\ FirstIsFirst'
  BY <1>1, <1>2 DEF JInv, AtSender, OneRequest, FirstIsFirst, Current, Size, FrameHeaderLen
<1>5. (got \in Seq(Items) /\ InOrder)'
  BY <1>2 DEF JInv, InOrder
<1>6. Whole'
  <2>1. cut \subseteq cut'
    BY DEF Register, Unregister, DeleteFragment
  <2> QED BY <1>2, <2>1 DEF JInv, Whole
<1> QED BY <1>1, <1>2, <1>3, <1>4, <1>5, <1>6 DEF JInv

LEMMA InitLine == Init => JInv
<1> SUFFICES ASSUME Init PROVE JInv
  OBVIOUS
<1> DEFINE x == [n |-> 1, a |-> 0, b |-> 0, fin |-> FALSE]
<1>1. x \in Place /\ x.n = 1 /\ x.a = 0 /\ x.b = 0 /\ x.fin = FALSE
  BY DEF Place
<1> HIDE DEF x
<1>2. sent = <<>> /\ Len(sent) = 0 /\ wire = <<>> /\ got = <<>> /\ Len(got) = 0 /\ ~split /\ ended = "no"
  BY DEF Init
<1>3. Line(sent, kind, wire, x, x)
  BY <1>1, <1>2, LineNil
<1>4. AtSender(x)
  <2>1. x.n = Len(sent) + 1
    BY <1>1, <1>2
  <2> QED BY <1>1, <1>2, <2>1 DEF AtSender
<1>5. AtReceiver(x)
  <2>1. cut = {} /\ ~joiner.open /\ ~Begun(x)
    BY <1>1 DEF Init, Begun, NoJoiner
  <2>2. callback = "none" <=> kind # "reply"
    BY DEF Init
  <2>3. callback = "in" => kind = "reply"
    BY DEF Init
  <2>4. Knowing(x)
    BY <1>1, <1>2, <2>1, <2>2, <2>3 DEF Knowing, Requests
  <2> QED BY <1>1, <2>1, <2>4 DEF AtReceiver, Gathering, Within
<1>6. OneRequest /\ FirstIsFirst /\ got \in Seq(Items) /\ Whole /\ InOrder
  BY <1>2 DEF OneRequest, FirstIsFirst, Whole, InOrder
<1> QED BY <1>1, <1>3, <1>4, <1>5, <1>6 DEF JInv

LEMMA StepLine ==
  ASSUME IInv, IInv', JInv, [Next]_vars
  PROVE  JInv' /\ (kind # "answer" /\ cut # {} => UNCHANGED got)
<1>1. CASE UNCHANGED vars
  BY <1>1 DEF vars, sendVars, splitVars, recvVars, JInv, OneRequest, FirstIsFirst, Whole, InOrder, AtReceiver,
    AtSender, Gathering, Knowing, Within, Current
<1>2. CASE \E p \in Payload : Send(p)
  <2>1. UNCHANGED got
    BY <1>2 DEF Send, recvVars
  <2> QED BY <1>2, <2>1, SendLine
<1>3. CASE Fragment
  <2>1. UNCHANGED got
    BY <1>3 DEF Fragment, recvVars
  <2> QED BY <1>3, <2>1, FragmentLine
<1>4. CASE Complete \/ Fail
  <2>1. UNCHANGED got
    BY <1>4 DEF Complete, Fail, recvVars
  <2> QED BY <1>4, <2>1, EndLine
<1>5. CASE Cancel \/ Demand
  <2>1. UNCHANGED got
    BY <1>5 DEF Cancel, Demand, recvVars
  <2> QED BY <1>5, <2>1, CancelLine
<1>6. CASE Register \/ Unregister
  <2>1. UNCHANGED got
    BY <1>6 DEF Register, Unregister
  <2> QED BY <1>6, <2>1, CallbackLine
<1>7. CASE Read
  BY <1>7, ReadLine
<1> QED BY <1>1, <1>2, <1>3, <1>4, <1>5, <1>6, <1>7 DEF Next

\* With nothing under way both ends are at the same place.
LEMMA LineJoins == IInv /\ JInv => Joined
<1> SUFFICES ASSUME IInv, JInv PROVE Joined
  OBVIOUS
<1>1. PICK x \in Place, y \in Place : AtReceiver(x) /\ AtSender(y) /\ Line(sent, kind, wire, x, y)
  BY DEF JInv
<1>2. ASSUME Quiet
      PROVE  x = y /\ ~split /\ x.n = Len(sent) + 1 /\ x.n - 1 = Len(sent) /\ ~Begun(x)
  <2>1. wire = <<>> /\ ~split /\ Len(sent) \in Nat
    BY <1>2 DEF Quiet, IInv, Control
  <2>2. x = y
    BY <1>1, <2>1, LineEmpty
  <2> QED BY <1>1, <2>1, <2>2 DEF AtSender, Begun
<1>3. Gathering(x) /\ Knowing(x)
  BY <1>1 DEF AtReceiver
<1>4. NothingLeft
  <2> SUFFICES ASSUME Quiet
               PROVE  /\ ~joiner.open
                      /\ callback = "in" /\ kind # "answer" => Len(got) = Len(sent)
                      /\ callback = "in" /\ got # <<>> => got[Len(got)].of = Len(sent)
                      /\ kind \in Requests /\ callback = "none" /\ sent # <<>> => 1 \in cut
    BY DEF NothingLeft
  <2>1. sent # <<>> => x.n # 1
    <3>1. sent \in Seq(Payload)
      BY DEF IInv, Control
    <3>2. sent # <<>> => Len(sent) # 0
      BY <3>1
    <3> QED BY <1>2, <3>1, <3>2
  <2> QED BY <1>2, <1>3, <2>1 DEF Gathering, Knowing
<1>5. EndSeen
  BY <1>1, <1>2, <1>3 DEF EndSeen, AtSender, Knowing
<1>6. SeldomCut
  BY <1>3 DEF SeldomCut, Knowing
<1> QED BY <1>4, <1>5, <1>6 DEF Joined, JInv

LEMMA Steps ==
  LongEnough /\ IInv /\ JInv /\ [Next]_vars => (IInv /\ JInv)' /\ (kind # "answer" /\ cut # {} => UNCHANGED got)
BY StepFits, StepLine

\* From an mtu of 14 on, whatever the sizes and the number of the payloads, and
\* wherever a CANCEL or a REQUEST_N falls: what doFragment and Joiner put together
\* and dispatch is what was given to the sender, byte for byte and in its order,
\* but for the first bytes of an answer of a channel that was cut; no
\* request-response is cut, nor what answers one or a stream while its requester
\* has its callback; once the
\* wire is empty nothing is left half joined, nothing is missing that was not cut
\* or sent before a channel's requester registered, and the end of the stream was
\* seen but for the cases EndSeen names.
THEOREM PayloadsJoined ==
  ASSUME LongEnough
  PROVE  Spec => []Joined
<1>1. Init => IInv /\ JInv
  BY InitFits, InitLine
<1>2. IInv /\ JInv /\ [Next]_vars => (IInv /\ JInv)'
  BY Steps
<1>3. IInv /\ JInv => Joined
  BY LineJoins
<1> QED BY <1>1, <1>2, <1>3, PTL DEF Spec

\* The rest of a request, or of a channel's stream, that was cut between two of
\* its fragments still arrives, but nothing is dispatched any more.
THEOREM CutStaysLost ==
  ASSUME LongEnough
  PROVE  Spec => CutIsLost
<1>1. Init => IInv /\ JInv
  BY InitFits, InitLine
<1>2. IInv /\ JInv /\ [Next]_vars => (IInv /\ JInv)'
  BY Steps
<1>3. IInv /\ JInv /\ [Next]_vars => [kind # "answer" /\ cut # {} => UNCHANGED got]_vars
  BY Steps
<1> QED BY <1>1, <1>2, <1>3, PTL DEF Spec, CutIsLost
=============================================================================
