------------------------------ MODULE Framing ------------------------------
(***************************************************************************)
(* The binary form of RSocket frames (core/header.go, core/types.go,       *)
(* core/framing, internal/u24): for each type of frame the two encoders,   *)
(* the buffered New...Frame and the writeable WriteTo with its Len, and    *)
(* the accessors a receiver reads it with.                                 *)
(*                                                                         *)
(* Bytes are a sequence of pieces: the contents of a piece, an integer     *)
(* field or a caller's bytes, are one value, and its position and length   *)
(* are numbers.  So the arithmetic of lengths and offsets is the code's,   *)
(* and a slice at a wrong offset yields other pieces than were written.    *)
(***************************************************************************)
EXTENDS Integers, Sequences

-----------------------------------------------------------------------------
(* Bytes. *)

\* len bytes, the contents of which are named by of and n
Text(of, n, len) ==
  IF len = 0 THEN <<>> ELSE <<[of |-> of, n |-> n, off |-> 0, len |-> len]>>

\* an unsigned integer in w bytes
Uint(w, n) == Text("uint", n, w)
Byte(n)    == Uint(1, n % 256)

Piece == [of : STRING, n : Int, off : Nat, len : Nat \ {0}]

total[bs \in Seq(Piece)] == IF bs = <<>> THEN 0 ELSE Head(bs).len + total[Tail(bs)]
Size(bs) == total[bs]

\* the first n bytes, and all but those
take[bs \in Seq(Piece), n \in Nat] ==
  IF n = 0 THEN <<>>
  ELSE IF Head(bs).len <= n THEN <<Head(bs)>> \o take[Tail(bs), n - Head(bs).len]
  ELSE <<[Head(bs) EXCEPT !.len = n]>>
drop[bs \in Seq(Piece), n \in Nat] ==
  IF n = 0 THEN bs
  ELSE IF Head(bs).len <= n THEN drop[Tail(bs), n - Head(bs).len]
  ELSE <<[Head(bs) EXCEPT !.off = @ + n, !.len = @ - n]>> \o Tail(bs)

\* what a read out of place returns, or the panic it ends in
Garbage == Text("garbage", 0, 1)
Garbled == -1

\* Go's bs[from:to] and bs[from:]
Slice(bs, from, to) ==
  IF 0 <= from /\ from <= to /\ to <= Size(bs) THEN take[drop[bs, from], to - from]
  ELSE Garbage
After(bs, from) == Slice(bs, from, Size(bs))

\* the integer in the first w bytes
ReadUint(w, bs) ==
  IF bs # <<>> /\ Head(bs).of = "uint" /\ Head(bs).off = 0 /\ Head(bs).len = w
  THEN Head(bs).n ELSE Garbled

-----------------------------------------------------------------------------
(* Lengths in three bytes (internal/u24/u24.go). *)

MaxUint24 == 16777215

Uint24(n) == Byte(n \div 65536) \o Byte(n \div 256) \o Byte(n)

\* the panic of MustNewUint24, and of the encoders when WriteUint24 fails
TooLong24(n) == n > MaxUint24

ReadUint24ToInt(bs) ==
  LET b(i) == ReadUint(1, Slice(bs, i, i + 1))
  IN  IF Size(bs) < 3 \/ Garbled \in {b(i) : i \in 0..2} THEN Garbled
      ELSE b(0) * 65536 + b(1) * 256 + b(2)

-----------------------------------------------------------------------------
(* Header, types and flags (core/header.go, core/types.go). *)

FrameType == [
  setup |-> 1, lease |-> 2, keepalive |-> 3, response |-> 4, fnf |-> 5,
  stream |-> 6, channel |-> 7, requestN |-> 8, cancel |-> 9, payload |-> 10,
  error |-> 11, metadataPush |-> 12, resume |-> 13, resumeOK |-> 14]

FlagNext     == 32
FlagComplete == 64
FlagFollow   == 128
FlagMetadata == 256
FlagResume   == FlagFollow
FlagLease    == FlagComplete
FlagRespond  == FlagFollow

Check(fg, flag) == (fg \div flag) % 2 = 1
With(fg, flag, on) == IF on /\ ~Check(fg, flag) THEN fg + flag ELSE fg
WithMetadata(fg, metadata) == With(fg, FlagMetadata, metadata # <<>>)

FrameHeaderLen == 6

NewFrameHeader(sid, type, fg) == Uint(4, sid) \o Uint(2, type * 1024 + fg)
WriteFrameHeader(sid, type, fg) == Uint(4, sid) \o Uint(2, type * 1024 + fg)

StreamID(bs)   == ReadUint(4, Slice(bs, 0, 4))
HeaderWord(bs) == ReadUint(2, Slice(bs, 4, 6))
TypeOf(bs)     == (HeaderWord(bs) \div 1024) % 64
FlagOf(bs)     == HeaderWord(bs) % 1024
HasFlag(bs, flag) == Check(FlagOf(bs), flag)

Resumable(kind) ==
  kind \in {"channel", "stream", "response", "fnf", "requestN", "cancel", "error", "payload"}

-----------------------------------------------------------------------------
(* What the encoders share (core/framing/misc.go, frame.go, core/version.go).*)

\* a duration is <<k, us>>, which is k * 2^32 milliseconds and us microseconds:
\* every caller keeps the low 32 bits of the milliseconds, and so no k
ToMilliseconds(d) == d[2] \div 1000
Milliseconds(n)   == <<0, 1000 * n>>

Version(v)      == Uint(2, v[1]) \o Uint(2, v[2])
WriteVersion(v) == Uint(2, v[1]) \o Uint(2, v[2])

\* the buffered constructors' "if len(metadata) > 0" and "if len(data) > 0"
Contents(data, metadata) ==
  (IF metadata = <<>> THEN <<>> ELSE Uint24(Size(metadata)) \o metadata) \o data

WritePayload(data, metadata) ==
  (IF metadata = <<>> THEN <<>> ELSE Uint24(Size(metadata)) \o metadata) \o data

CalcPayloadFrameSize(data, metadata) ==
  FrameHeaderLen + Size(data) + (IF metadata = <<>> THEN 0 ELSE 3 + Size(metadata))

-----------------------------------------------------------------------------
(* What the accessors share (core/framing/buffered.go). *)

Body(bs)    == After(bs, FrameHeaderLen)
BodyLen(bs) == IF Size(bs) > FrameHeaderLen THEN Size(bs) - FrameHeaderLen ELSE 0

\* the metadata's length, -1 for an error, and whether there is metadata
TrySeekMetadataLen(bs, offset) ==
  LET raw == Body(bs)
  IN  CASE offset >= Size(raw)           -> [n |-> -1, ok |-> FALSE]
        [] ~HasFlag(bs, FlagMetadata)    -> [n |-> 0, ok |-> FALSE]
        [] Size(raw) - offset < 3        -> [n |-> -1, ok |-> TRUE]
        [] OTHER -> [n |-> ReadUint24ToInt(After(raw, offset)), ok |-> TRUE]

\* without metadata an accessor returns nil, which is empty here
TrySliceMetadata(bs, offset) ==
  LET m == TrySeekMetadataLen(bs, offset)
  IN  IF ~m.ok \/ m.n < 0 \/ m.n > Size(Body(bs)) - (offset + 3) THEN <<>>
      ELSE Slice(Body(bs), offset + 3, offset + 3 + m.n)

TrySliceData(bs, offset) ==
  LET m == TrySeekMetadataLen(bs, offset)
  IN  CASE ~m.ok /\ offset > Size(Body(bs)) -> <<>>
        [] ~m.ok /\ offset <= Size(Body(bs)) -> After(Body(bs), offset)
        [] m.ok /\ (m.n < 0 \/ m.n > Size(Body(bs)) - (offset + 3)) -> <<>>
        [] OTHER -> After(Body(bs), offset + 3 + m.n)

-----------------------------------------------------------------------------
(* SETUP *)

MinSetupLen == 4 + 2 * 4 + 1 + 1

SetupFlags(f) ==
  WithMetadata(With(With(0, FlagResume, f.token # <<>>), FlagLease, f.lease), f.metadata)

NewSetupFrame(f) ==
  WriteFrameHeader(0, FrameType.setup, SetupFlags(f))
  \o Version(f.version)
  \o Uint(4, ToMilliseconds(f.keepalive)) \o Uint(4, ToMilliseconds(f.lifetime))
  \o (IF f.token = <<>> THEN <<>> ELSE Uint(2, Size(f.token) % 65536) \o f.token)
  \o Byte(Size(f.mimeMetadata)) \o f.mimeMetadata
  \o Byte(Size(f.mimeData)) \o f.mimeData
  \o Contents(f.data, f.metadata)

WriteSetup(f) ==
  NewFrameHeader(0, FrameType.setup, SetupFlags(f))
  \o WriteVersion(f.version)
  \o Uint(4, ToMilliseconds(f.keepalive)) \o Uint(4, ToMilliseconds(f.lifetime))
  \o (IF Check(SetupFlags(f), FlagResume) THEN Uint(2, Size(f.token) % 65536) \o f.token ELSE <<>>)
  \o Byte(Size(f.mimeMetadata)) \o f.mimeMetadata
  \o Byte(Size(f.mimeData)) \o f.mimeData
  \o WritePayload(f.data, f.metadata)

SetupLen(f) ==
  MinSetupLen + CalcPayloadFrameSize(f.data, f.metadata)
  + Size(f.mimeData) + Size(f.mimeMetadata)
  + (IF f.token = <<>> THEN 0 ELSE 2 + Size(f.token))

SetupValid(bs) == Size(bs) >= MinSetupLen

\* fault: the token's own length field is forgotten
SeekMIMENoLength(bs) ==
  IF HasFlag(bs, FlagResume) THEN 12 + ReadUint(2, Slice(Body(bs), 12, 14)) ELSE 12

SeekMIME(bs) ==
  IF HasFlag(bs, FlagResume) THEN 14 + ReadUint(2, Slice(Body(bs), 12, 14)) ELSE 12

\* both mime types
Mime(bs) ==
  LET raw == Body(bs)
      o1  == SeekMIME(bs)
      l1  == ReadUint(1, Slice(raw, o1, o1 + 1))
      o2  == o1 + 1 + l1
      l2  == ReadUint(1, Slice(raw, o2, o2 + 1))
  IN  <<Slice(raw, o1 + 1, o2), Slice(raw, o2 + 1, o2 + 1 + l2)>>

AfterMIME(bs) ==
  LET m == Mime(bs) IN SeekMIME(bs) + 2 + Size(m[1]) + Size(m[2])

\* 14 + tokenLength is a uint16
SetupToken(bs) ==
  IF ~HasFlag(bs, FlagResume) THEN <<>>
  ELSE Slice(Body(bs), 14, (14 + ReadUint(2, Slice(Body(bs), 12, 14))) % 65536)

SetupMetadata(bs) ==
  IF HasFlag(bs, FlagMetadata) THEN TrySliceMetadata(bs, AfterMIME(bs)) ELSE <<>>

SetupData(bs) ==
  IF HasFlag(bs, FlagMetadata) THEN TrySliceData(bs, AfterMIME(bs))
  ELSE After(Body(bs), AfterMIME(bs))

SetupFrame(bs) ==
  LET raw == Body(bs)
      m   == Mime(bs)
  IN  [kind |-> "setup", sid |-> StreamID(bs),
       version      |-> <<ReadUint(2, raw), ReadUint(2, After(raw, 2))>>,
       keepalive    |-> Milliseconds(ReadUint(4, After(raw, 4))),
       lifetime     |-> Milliseconds(ReadUint(4, After(raw, 8))),
       token        |-> SetupToken(bs),
       mimeMetadata |-> m[1],
       mimeData     |-> m[2],
       metadata     |-> SetupMetadata(bs),
       data         |-> SetupData(bs),
       lease        |-> HasFlag(bs, FlagLease)]

-----------------------------------------------------------------------------
(* RESUME and RESUME_OK *)

MinResumeLen == 4 + 2 + 8 + 8

TooLongToken(f) == Size(f.token) > 65535

\* panics on a token without a length, which WriteTo truncates
NewResumeFrame(f) ==
  IF TooLongToken(f) THEN Garbage
  ELSE WriteFrameHeader(0, FrameType.resume, 0)
       \o Version(f.version)
       \o Uint(2, Size(f.token)) \o f.token
       \o Uint(8, f.last) \o Uint(8, f.first)

WriteResume(f) ==
  NewFrameHeader(0, FrameType.resume, 0)
  \o Version(f.version)
  \o Uint(2, Size(f.token) % 65536) \o f.token
  \o Uint(8, f.last) \o Uint(8, f.first)

ResumeLen(f) == FrameHeaderLen + MinResumeLen + Size(f.token)

ResumeValid(bs) == BodyLen(bs) >= MinResumeLen

\* 6 + tokenLen is a uint16, as a bound of the slice and as an offset
ResumeFrame(bs) ==
  LET raw == Body(bs)
      end == (6 + ReadUint(2, Slice(raw, 4, 6))) % 65536
  IN  [kind |-> "resume", sid |-> StreamID(bs),
       version |-> <<ReadUint(2, raw), ReadUint(2, After(raw, 2))>>,
       token   |-> Slice(raw, 6, end),
       last    |-> ReadUint(8, After(raw, end)),
       first   |-> ReadUint(8, After(raw, (end + 8) % 65536))]

NewResumeOKFrame(f) == WriteFrameHeader(0, FrameType.resumeOK, 0) \o Uint(8, f.position)
WriteResumeOK(f)    == NewFrameHeader(0, FrameType.resumeOK, 0) \o Uint(8, f.position)
ResumeOKLen(f)      == FrameHeaderLen + 8
ResumeOKValid(bs)   == BodyLen(bs) = 8
ResumeOKFrame(bs)   ==
  [kind |-> "resumeOK", sid |-> StreamID(bs), position |-> ReadUint(8, Body(bs))]

-----------------------------------------------------------------------------
(* REQUEST_CHANNEL and REQUEST_STREAM: an initial request n, then a payload. *)

NewRequestChannelFrame(f) ==
  WriteFrameHeader(f.sid, FrameType.channel, WithMetadata(f.flags, f.metadata))
  \o Uint(4, f.n) \o Contents(f.data, f.metadata)

WriteRequestChannel(f) ==
  NewFrameHeader(f.sid, FrameType.channel, WithMetadata(f.flags, f.metadata))
  \o Uint(4, f.n) \o WritePayload(f.data, f.metadata)

RequestChannelLen(f) == CalcPayloadFrameSize(f.data, f.metadata) + 4

RequestChannelValid(bs) ==
  BodyLen(bs) >= 4 /\ (HasFlag(bs, FlagMetadata) => BodyLen(bs) >= 4 + 3)

RequestChannelFrame(bs) ==
  [kind |-> "channel", sid |-> StreamID(bs), flags |-> FlagOf(bs), n |-> ReadUint(4, Body(bs)),
   metadata |-> TrySliceMetadata(bs, 4), data |-> TrySliceData(bs, 4)]

NewRequestStreamFrame(f) ==
  WriteFrameHeader(f.sid, FrameType.stream, WithMetadata(f.flags, f.metadata))
  \o Uint(4, f.n) \o Contents(f.data, f.metadata)

WriteRequestStream(f) ==
  NewFrameHeader(f.sid, FrameType.stream, WithMetadata(f.flags, f.metadata))
  \o Uint(4, f.n) \o WritePayload(f.data, f.metadata)

RequestStreamLen(f) == 4 + CalcPayloadFrameSize(f.data, f.metadata)

RequestStreamValid(bs) ==
  BodyLen(bs) >= 4 /\ (HasFlag(bs, FlagMetadata) => BodyLen(bs) >= 4 + 3)

RequestStreamFrame(bs) ==
  [kind |-> "stream", sid |-> StreamID(bs), flags |-> FlagOf(bs), n |-> ReadUint(4, Body(bs)),
   metadata |-> TrySliceMetadata(bs, 4), data |-> TrySliceData(bs, 4)]

-----------------------------------------------------------------------------
(* REQUEST_RESPONSE, REQUEST_FNF and PAYLOAD: a payload. *)

NewRequestResponseFrame(f) ==
  WriteFrameHeader(f.sid, FrameType.response, WithMetadata(f.flags, f.metadata))
  \o Contents(f.data, f.metadata)

WriteRequestResponse(f) ==
  NewFrameHeader(f.sid, FrameType.response, WithMetadata(f.flags, f.metadata))
  \o WritePayload(f.data, f.metadata)

RequestResponseLen(f) == CalcPayloadFrameSize(f.data, f.metadata)

RequestResponseValid(bs) == HasFlag(bs, FlagMetadata) => BodyLen(bs) >= 3

RequestResponseFrame(bs) ==
  [kind |-> "response", sid |-> StreamID(bs), flags |-> FlagOf(bs),
   metadata |-> TrySliceMetadata(bs, 0), data |-> TrySliceData(bs, 0)]

NewFireAndForgetFrame(f) ==
  WriteFrameHeader(f.sid, FrameType.fnf, WithMetadata(f.flags, f.metadata))
  \o Contents(f.data, f.metadata)

WriteFireAndForget(f) ==
  NewFrameHeader(f.sid, FrameType.fnf, WithMetadata(f.flags, f.metadata))
  \o WritePayload(f.data, f.metadata)

FireAndForgetLen(f) == CalcPayloadFrameSize(f.data, f.metadata)

FireAndForgetValid(bs) == HasFlag(bs, FlagMetadata) => BodyLen(bs) >= 3

FireAndForgetFrame(bs) ==
  [kind |-> "fnf", sid |-> StreamID(bs), flags |-> FlagOf(bs),
   metadata |-> TrySliceMetadata(bs, 0), data |-> TrySliceData(bs, 0)]

NewPayloadFrame(f) ==
  WriteFrameHeader(f.sid, FrameType.payload, WithMetadata(f.flags, f.metadata))
  \o Contents(f.data, f.metadata)

\* the frame comes from a pool: its header and its contents are reset
WriteablePayload(f) ==
  NewFrameHeader(f.sid, FrameType.payload, WithMetadata(f.flags, f.metadata))
  \o WritePayload(f.data, f.metadata)

PayloadLen(f) == CalcPayloadFrameSize(f.data, f.metadata)

PayloadValid(bs) == HasFlag(bs, FlagMetadata) => BodyLen(bs) >= 3

PayloadFrame(bs) ==
  [kind |-> "payload", sid |-> StreamID(bs), flags |-> FlagOf(bs),
   metadata |-> TrySliceMetadata(bs, 0), data |-> TrySliceData(bs, 0)]

-----------------------------------------------------------------------------
(* REQUEST_N, CANCEL and ERROR *)

NewRequestNFrame(f) == WriteFrameHeader(f.sid, FrameType.requestN, f.flags) \o Uint(4, f.n)
WriteRequestN(f)    == NewFrameHeader(f.sid, FrameType.requestN, f.flags) \o Uint(4, f.n)
RequestNLen(f)      == FrameHeaderLen + 4
RequestNValid(bs)   == BodyLen(bs) = 4
RequestNFrame(bs)   ==
  [kind |-> "requestN", sid |-> StreamID(bs), flags |-> FlagOf(bs), n |-> ReadUint(4, Body(bs))]

NewCancelFrame(f) == WriteFrameHeader(f.sid, FrameType.cancel, 0)
WriteCancel(f)    == NewFrameHeader(f.sid, FrameType.cancel, 0)
CancelLen(f)      == FrameHeaderLen
CancelValid(bs)   == BodyLen(bs) = 0
CancelFrame(bs)   == [kind |-> "cancel", sid |-> StreamID(bs)]

NewErrorFrame(f) == WriteFrameHeader(f.sid, FrameType.error, 0) \o Uint(4, f.code) \o f.data
WriteError(f)    == NewFrameHeader(f.sid, FrameType.error, 0) \o Uint(4, f.code) \o f.data
ErrorLen(f)      == FrameHeaderLen + 4 + Size(f.data)
ErrorValid(bs)   == BodyLen(bs) >= 4
ErrorFrame(bs)   ==
  [kind |-> "error", sid |-> StreamID(bs), code |-> ReadUint(4, Body(bs)),
   data |-> After(Body(bs), 4)]

-----------------------------------------------------------------------------
(* LEASE, KEEPALIVE and METADATA_PUSH, on stream 0; their contents have no   *)
(* length of their own.                                                      *)

LeaseFlags(f) == WithMetadata(0, f.metadata)

NewLeaseFrame(f) ==
  WriteFrameHeader(0, FrameType.lease, LeaseFlags(f))
  \o Uint(4, ToMilliseconds(f.ttl)) \o Uint(4, f.n) \o f.metadata

WriteLease(f) ==
  NewFrameHeader(0, FrameType.lease, LeaseFlags(f))
  \o Uint(4, ToMilliseconds(f.ttl)) \o Uint(4, f.n)
  \o (IF Check(LeaseFlags(f), FlagMetadata) THEN f.metadata ELSE <<>>)

LeaseLen(f) ==
  FrameHeaderLen + 8 + (IF Check(LeaseFlags(f), FlagMetadata) THEN Size(f.metadata) ELSE 0)

LeaseValid(bs) == BodyLen(bs) >= 8

LeaseFrame(bs) ==
  [kind |-> "lease", sid |-> StreamID(bs), ttl |-> Milliseconds(ReadUint(4, Body(bs))),
   n |-> ReadUint(4, After(Body(bs), 4)),
   metadata |-> IF HasFlag(bs, FlagMetadata) THEN After(Body(bs), 8) ELSE <<>>]

NewKeepaliveFrame(f) ==
  WriteFrameHeader(0, FrameType.keepalive, With(0, FlagRespond, f.respond))
  \o Uint(8, f.position) \o f.data

WriteKeepalive(f) ==
  NewFrameHeader(0, FrameType.keepalive, With(0, FlagRespond, f.respond))
  \o Uint(8, f.position) \o f.data

KeepaliveLen(f) == FrameHeaderLen + 8 + Size(f.data)

KeepaliveValid(bs) == BodyLen(bs) >= 8

KeepaliveFrame(bs) ==
  [kind |-> "keepalive", sid |-> StreamID(bs), position |-> ReadUint(8, Body(bs)),
   data |-> After(Body(bs), 8), respond |-> HasFlag(bs, FlagRespond)]

MetadataPushHeader      == NewFrameHeader(0, FrameType.metadataPush, FlagMetadata)
NewMetadataPushFrame(f) == MetadataPushHeader \o f.metadata
WriteMetadataPush(f)    == MetadataPushHeader \o f.metadata
MetadataPushLen(f)      == FrameHeaderLen + Size(f.metadata)
MetadataPushValid(bs)   == TRUE
MetadataPushFrame(bs)   == [kind |-> "metadataPush", sid |-> StreamID(bs), metadata |-> Body(bs)]

-----------------------------------------------------------------------------
(* All frames. *)

\* the buffered constructor of a frame's type
Buffered(f) ==
  CASE f.kind = "setup"        -> NewSetupFrame(f)
    [] f.kind = "resume"       -> NewResumeFrame(f)
    [] f.kind = "resumeOK"     -> NewResumeOKFrame(f)
    [] f.kind = "channel"      -> NewRequestChannelFrame(f)
    [] f.kind = "stream"       -> NewRequestStreamFrame(f)
    [] f.kind = "response"     -> NewRequestResponseFrame(f)
    [] f.kind = "fnf"          -> NewFireAndForgetFrame(f)
    [] f.kind = "payload"      -> NewPayloadFrame(f)
    [] f.kind = "requestN"     -> NewRequestNFrame(f)
    [] f.kind = "cancel"       -> NewCancelFrame(f)
    [] f.kind = "error"        -> NewErrorFrame(f)
    [] f.kind = "lease"        -> NewLeaseFrame(f)
    [] f.kind = "keepalive"    -> NewKeepaliveFrame(f)
    [] f.kind = "metadataPush" -> NewMetadataPushFrame(f)

\* the writeable frame's WriteTo and Len
WriteTo(f) ==
  CASE f.kind = "setup"        -> WriteSetup(f)
    [] f.kind = "resume"       -> WriteResume(f)
    [] f.kind = "resumeOK"     -> WriteResumeOK(f)
    [] f.kind = "channel"      -> WriteRequestChannel(f)
    [] f.kind = "stream"       -> WriteRequestStream(f)
    [] f.kind = "response"     -> WriteRequestResponse(f)
    [] f.kind = "fnf"          -> WriteFireAndForget(f)
    [] f.kind = "payload"      -> WriteablePayload(f)
    [] f.kind = "requestN"     -> WriteRequestN(f)
    [] f.kind = "cancel"       -> WriteCancel(f)
    [] f.kind = "error"        -> WriteError(f)
    [] f.kind = "lease"        -> WriteLease(f)
    [] f.kind = "keepalive"    -> WriteKeepalive(f)
    [] f.kind = "metadataPush" -> WriteMetadataPush(f)

LenOf(f) ==
  CASE f.kind = "setup"        -> SetupLen(f)
    [] f.kind = "resume"       -> ResumeLen(f)
    [] f.kind = "resumeOK"     -> ResumeOKLen(f)
    [] f.kind = "channel"      -> RequestChannelLen(f)
    [] f.kind = "stream"       -> RequestStreamLen(f)
    [] f.kind = "response"     -> RequestResponseLen(f)
    [] f.kind = "fnf"          -> FireAndForgetLen(f)
    [] f.kind = "payload"      -> PayloadLen(f)
    [] f.kind = "requestN"     -> RequestNLen(f)
    [] f.kind = "cancel"       -> CancelLen(f)
    [] f.kind = "error"        -> ErrorLen(f)
    [] f.kind = "lease"        -> LeaseLen(f)
    [] f.kind = "keepalive"    -> KeepaliveLen(f)
    [] f.kind = "metadataPush" -> MetadataPushLen(f)

\* the kind of frame that convert makes of the bytes
Convert(bs) ==
  IF \E k \in DOMAIN FrameType : FrameType[k] = TypeOf(bs)
  THEN CHOOSE k \in DOMAIN FrameType : FrameType[k] = TypeOf(bs)
  ELSE "invalid"

Validate(bs) ==
  CASE Convert(bs) = "setup"        -> SetupValid(bs)
    [] Convert(bs) = "resume"       -> ResumeValid(bs)
    [] Convert(bs) = "resumeOK"     -> ResumeOKValid(bs)
    [] Convert(bs) = "channel"      -> RequestChannelValid(bs)
    [] Convert(bs) = "stream"       -> RequestStreamValid(bs)
    [] Convert(bs) = "response"     -> RequestResponseValid(bs)
    [] Convert(bs) = "fnf"          -> FireAndForgetValid(bs)
    [] Convert(bs) = "payload"      -> PayloadValid(bs)
    [] Convert(bs) = "requestN"     -> RequestNValid(bs)
    [] Convert(bs) = "cancel"       -> CancelValid(bs)
    [] Convert(bs) = "error"        -> ErrorValid(bs)
    [] Convert(bs) = "lease"        -> LeaseValid(bs)
    [] Convert(bs) = "keepalive"    -> KeepaliveValid(bs)
    [] Convert(bs) = "metadataPush" -> MetadataPushValid(bs)

\* what a receiver's accessors return
Decode(bs) ==
  CASE Convert(bs) = "setup"        -> SetupFrame(bs)
    [] Convert(bs) = "resume"       -> ResumeFrame(bs)
    [] Convert(bs) = "resumeOK"     -> ResumeOKFrame(bs)
    [] Convert(bs) = "channel"      -> RequestChannelFrame(bs)
    [] Convert(bs) = "stream"       -> RequestStreamFrame(bs)
    [] Convert(bs) = "response"     -> RequestResponseFrame(bs)
    [] Convert(bs) = "fnf"          -> FireAndForgetFrame(bs)
    [] Convert(bs) = "payload"      -> PayloadFrame(bs)
    [] Convert(bs) = "requestN"     -> RequestNFrame(bs)
    [] Convert(bs) = "cancel"       -> CancelFrame(bs)
    [] Convert(bs) = "error"        -> ErrorFrame(bs)
    [] Convert(bs) = "lease"        -> LeaseFrame(bs)
    [] Convert(bs) = "keepalive"    -> KeepaliveFrame(bs)
    [] Convert(bs) = "metadataPush" -> MetadataPushFrame(bs)
=============================================================================
