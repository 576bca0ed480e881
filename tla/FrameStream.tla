---------------------------- MODULE FrameStream ----------------------------
(***************************************************************************)
(* Frames through a connection (core/transport/tcp_conn.go, decoder.go,    *)
(* websocket_conn.go): the writing side encodes them into a TCP stream,    *)
(* each behind its length, or into websocket messages; the network cuts a  *)
(* stream anywhere; the reading side finds the frames again, checks and    *)
(* counts them.                                                            *)
(*                                                                         *)
(* A stream is the sequence of bytes written and three positions in it:    *)
(* what has been flushed, what has arrived, and what has been scanned.     *)
(***************************************************************************)
EXTENDS Extensions, FiniteSets

CONSTANTS
  Carriers,       \* of {"tcp", "tls", "ws"}
  Frames,         \* frames that may be written first,
  LaterFrames,    \* and after the first one
  MaxFrames,      \* bound: calls of Write
  Cuts,           \* where the network may cut a stream, from the start of a frame
  Composites, Routes, Auths   \* contents some frames have for metadata

VARIABLES
  carrier,
  written,    \* frames that Write wrote, in order,
  refused,    \* and those for which it failed or panicked
  messages,   \* what the websocket carries: bytes, and whether they are binary
  out,        \* what the TCP connection's writer was given
  flushed,    \* of which so many bytes were flushed,
  arrived,    \* have arrived in the scanner's buffer,
  scanned,    \* and have been read as frames; of messages, a number
  eof,        \* the scanner has seen the end of the stream
  got,        \* frames read, which are the bytes they came as
  wcount, rcount,   \* the traffic counters
  writer,     \* "open", "failed", "closed", or "panicked" in Write
  reader,     \* "open", or how Read failed
  link        \* "up" or "broken"

wsVars  == <<messages>>
tcpVars == <<out, flushed, arrived, eof>>
vars == <<carrier, written, refused, wsVars, tcpVars, scanned, got, wcount, rcount,
          writer, reader, link>>

TypeOK ==
  /\ carrier \in Carriers
  /\ \A fs \in {written, refused} : {fs[i] : i \in DOMAIN fs} \subseteq Frames \union LaterFrames
  /\ arrived <= flushed /\ flushed <= Size(out)
  /\ scanned <= IF carrier = "ws" THEN Len(messages) ELSE arrived
  /\ writer \in {"open", "failed", "closed", "panicked"}
  /\ link \in {"up", "broken"}

Init ==
  /\ carrier \in Carriers
  /\ written = <<>> /\ refused = <<>> /\ messages = <<>> /\ out = <<>> /\ got = <<>>
  /\ flushed = 0 /\ arrived = 0 /\ scanned = 0
  /\ wcount = 0 /\ rcount = 0
  /\ eof = FALSE /\ writer = "open" /\ reader = "open" /\ link = "up"

-----------------------------------------------------------------------------
(* Writing. *)

BufSize == 8192

\* fault: the length field counts too
CountedWithPrefix(f) == IF Resumable(f.kind) THEN LenOf(f) + 3 ELSE 0

Counted(f) == IF Resumable(f.kind) THEN LenOf(f) ELSE 0

\* frame.WriteTo panics where its payload's metadata has a length to write
PanicsInWriteTo(f) ==
  /\ f.kind \in {"setup", "channel", "stream", "response", "fnf", "payload"}
  /\ TooLong24(Size(f.metadata))

\* what TCPConn.Write hands to its buffer
Framed == [f \in Frames \union LaterFrames |-> Uint24(LenOf(f)) \o WriteTo(f)]

\* TCPConn.Write counts before it writes.  Its buffer passes on what it has no
\* room for; once that has failed every later write does, until Close
WriteTCP(f) ==
  /\ carrier # "ws" /\ writer \in {"open", "failed"}
  /\ wcount' = wcount + Counted(f)
  /\ \/ /\ writer = "open" /\ ~TooLong24(LenOf(f)) /\ ~PanicsInWriteTo(f)
        /\ written' = Append(written, f)
        /\ out' = out \o Framed[f]
        /\ flushed' \in IF Size(out') - flushed <= BufSize \/ link = "broken" THEN {flushed}
                        ELSE {Size(out') - BufSize, Size(out')}
        /\ UNCHANGED <<refused, writer>>
     \/ /\ refused' = Append(refused, f)
        /\ \/ /\ TooLong24(LenOf(f)) \/ PanicsInWriteTo(f)
              /\ writer' = "panicked"
           \/ /\ link = "broken" /\ ~TooLong24(LenOf(f))
              /\ writer = "failed" \/ Size(out) - flushed + Size(Framed[f]) > BufSize
              /\ writer' = "failed"
        /\ UNCHANGED <<written, out, flushed>>
  /\ UNCHANGED <<carrier, wsVars, arrived, eof, scanned, got, rcount, reader, link>>

\* WebsocketConn.Write counts what it has written
WriteWS(f) ==
  /\ carrier = "ws" /\ writer = "open"
  /\ IF PanicsInWriteTo(f) \/ link = "broken"
     THEN /\ writer' = IF PanicsInWriteTo(f) THEN "panicked" ELSE "closed"
          /\ refused' = Append(refused, f)
          /\ UNCHANGED <<written, messages, wcount>>
     ELSE /\ messages' = Append(messages, [binary |-> TRUE, bytes |-> WriteTo(f)])
          /\ written' = Append(written, f)
          /\ wcount' = wcount + Counted(f)
          /\ UNCHANGED <<refused, writer>>
  /\ UNCHANGED <<carrier, tcpVars, scanned, got, rcount, reader, link>>

Write ==
  /\ Len(written \o refused) < MaxFrames
  /\ \E f \in IF written \o refused = <<>> THEN Frames ELSE LaterFrames : WriteTCP(f) \/ WriteWS(f)

Flush ==
  /\ carrier # "ws" /\ writer = "open"
  /\ flushed < Size(out)
  /\ IF link = "up" THEN flushed' = Size(out) /\ UNCHANGED writer
     ELSE writer' = "failed" /\ UNCHANGED flushed
  /\ UNCHANGED <<carrier, written, refused, wsVars, out, arrived, eof, scanned, got, wcount,
                 rcount,
                 reader, link>>

\* what was not flushed is lost
Close ==
  /\ writer \in {"open", "failed"}
  /\ writer' = "closed"
  /\ UNCHANGED <<carrier, written, refused, wsVars, tcpVars, scanned, got, wcount, rcount,
                 reader, link>>

\* a text message, of a peer that is not this library; at most one
OtherMessage ==
  /\ carrier = "ws" /\ writer = "open"
  /\ \A i \in 1..Len(messages) : messages[i].binary
  /\ messages' = Append(messages, [binary |-> FALSE, bytes |-> Text("text", 0, 4)])
  /\ UNCHANGED <<carrier, written, refused, tcpVars, scanned, got, wcount, rcount, writer,
                 reader, link>>

Break ==
  /\ link = "up"
  /\ link' = "broken"
  /\ UNCHANGED <<carrier, written, refused, wsVars, tcpVars, scanned, got, wcount, rcount,
                 writer, reader>>

-----------------------------------------------------------------------------
(* Reading. *)

LengthFieldSize == 3
MaxBuffSize     == 16 * 1024 * 1024 + LengthFieldSize

\* fault: a frame is a token only with something behind it
DoSplitStrict(data, atEOF) ==
  LET frameSize == ReadUint24ToInt(data) + LengthFieldSize
  IN  CASE atEOF \/ Size(data) < LengthFieldSize -> 0
        [] OTHER -> IF frameSize < Size(data) THEN frameSize ELSE 0

\* doSplit: how far to advance, 0 to wait for more, -1 for an error
DoSplit(data, atEOF) ==
  LET frameSize == ReadUint24ToInt(data) + LengthFieldSize
  IN  CASE atEOF \/ Size(data) < LengthFieldSize -> 0
        [] ~atEOF /\ Size(data) >= LengthFieldSize /\ frameSize < LengthFieldSize + 1 -> -1
        [] ~atEOF /\ Size(data) >= LengthFieldSize /\ frameSize > LengthFieldSize ->
             IF frameSize <= Size(data) THEN frameSize ELSE 0

Buffer == Slice(out, scanned, arrived)

\* positions of the starts of the frames in the stream
Starts == {Size(FlattenSeq([i \in 1..k |-> Framed[written[i]]])) : k \in 0..Len(written)}

\* the scanner reads from the connection when its buffer holds no frame; a
\* read returns some of what was flushed, and over TLS the last of it may come
\* with the end of the stream
Fill ==
  /\ carrier # "ws" /\ reader = "open" /\ ~eof
  /\ DoSplit(Buffer, FALSE) = 0
  /\ Size(Buffer) < MaxBuffSize
  /\ arrived' \in {n \in {s + c : s \in Starts, c \in Cuts} \union {flushed} :
                     arrived < n /\ n <= flushed}
  /\ eof' \in IF carrier = "tls" /\ arrived' = flushed /\ writer = "closed"
              THEN BOOLEAN ELSE {FALSE}
  /\ UNCHANGED <<carrier, written, refused, wsVars, out, flushed, scanned, got, wcount, rcount,
                 writer, reader, link>>

\* framing.FromBytes, the counter, Validate
Received(raw) ==
  IF Size(raw) < FrameHeaderLen \/ Convert(raw) = "invalid"
  THEN reader' = "decode" /\ UNCHANGED <<got, rcount>>
  ELSE /\ rcount' = rcount + (IF Resumable(Convert(raw)) THEN Size(raw) ELSE 0)
       /\ IF Validate(raw)
          THEN got' = Append(got, raw) /\ UNCHANGED reader
          ELSE reader' = "validate" /\ UNCHANGED got

\* LengthBasedFrameDecoder.Read with a frame in the buffer, and TCPConn.Read
ReadTCP ==
  /\ carrier # "ws" /\ reader = "open"
  /\ \E buf \in {Buffer} : \E advance \in {DoSplit(buf, eof)} :
       /\ advance # 0
       /\ IF advance < 0 THEN reader' = "length" /\ UNCHANGED <<scanned, got, rcount>>
          ELSE scanned' = scanned + advance /\ Received(Slice(buf, LengthFieldSize, advance))
  /\ UNCHANGED <<carrier, written, refused, wsVars, tcpVars, wcount, writer, link>>

\* non-binary messages are skipped
ReadWS ==
  /\ carrier = "ws" /\ reader = "open"
  /\ scanned < Len(messages)
  /\ scanned' = scanned + 1
  /\ IF messages[scanned + 1].binary THEN Received(messages[scanned + 1].bytes)
     ELSE UNCHANGED <<got, rcount, reader>>
  /\ UNCHANGED <<carrier, written, refused, wsVars, tcpVars, wcount, writer, link>>

\* the end of the stream, in which what is left of the buffer is dropped
ReadEnd ==
  /\ reader = "open"
  /\ \/ eof
     \/ /\ carrier # "ws" /\ DoSplit(Buffer, FALSE) = 0
        /\ writer \in {"closed", "panicked"} /\ arrived = flushed
     \/ carrier = "ws" /\ writer # "open" /\ scanned = Len(messages)
  /\ reader' = "eof"
  /\ UNCHANGED <<carrier, written, refused, wsVars, tcpVars, scanned, got, wcount, rcount,
                 writer, link>>

\* a broken connection
ReadFails ==
  /\ reader = "open" /\ link = "broken" /\ ~eof
  /\ carrier # "ws" => DoSplit(Buffer, FALSE) = 0
  /\ reader' = "error"
  /\ UNCHANGED <<carrier, written, refused, wsVars, tcpVars, scanned, got, wcount, rcount,
                 writer, link>>

Next ==
  \/ Write \/ Flush \/ Close \/ OtherMessage \/ Break
  \/ Fill \/ ReadTCP \/ ReadWS \/ ReadEnd \/ ReadFails

Spec == Init /\ [][Next]_vars

-----------------------------------------------------------------------------
(* Properties. *)

\* a frame as its receiver should read it: durations in milliseconds, the
\* metadata flag set where there is metadata
Seen(f) ==
  CASE f.kind = "setup" ->
         [f EXCEPT !.keepalive[2] = 1000 * (@ \div 1000), !.lifetime[2] = 1000 * (@ \div 1000)]
    [] f.kind = "lease" -> [f EXCEPT !.ttl[2] = 1000 * (@ \div 1000)]
    [] f.kind \in {"channel", "stream", "response", "fnf", "payload"} ->
         [f EXCEPT !.flags = WithMetadata(@, f.metadata)]
    [] OTHER -> f

\* the longest token and mime types that survive: the accessors add 14 to the
\* token's sixteen-bit length, for the end of a SETUP's token and for the last
\* field of a RESUME; a mime type's length is a byte; and the durations that
\* survive, of less than 2^32 milliseconds
WithinLimits(f) ==
  /\ f.kind \in {"setup", "resume"} => Size(f.token) + 14 < 65536
  /\ f.kind = "setup" => /\ Size(f.mimeMetadata) < 256 /\ Size(f.mimeData) < 256
                         /\ f.keepalive[1] = 0 /\ f.lifetime[1] = 0
  /\ f.kind = "lease" => f.ttl[1] = 0

EncodersAgree ==
  \A f \in ToSet(written \o refused) :
    /\ WriteTo(f) = Buffered(f) <=> ~(f.kind = "resume" /\ TooLongToken(f))
    /\ Size(WriteTo(f)) = LenOf(f)

\* Frames are read as they were written, in order and none invented, however
\* the network cuts the stream: every field that a WriteTo encodes is what the
\* accessor returns, exactly for the frames within the limits; both encoders
\* of a type write the same bytes, as many as Len says, but for a RESUME whose
\* token has no length, where only one panics; the stream never makes
\* Read fail; and a reader that has met the end of an unbroken TCP stream has
\* read every frame that was flushed.  (Over TLS the end may come together
\* with the last frames, and doSplit then drops them.)
FieldsRead ==
  /\ TypeOK
  /\ reader \in {"open", "eof", "error"}
  /\ Len(got) <= Len(written)
  /\ \A i \in 1..Len(got) : (Decode(got[i]) = Seen(written[i])) <=> WithinLimits(written[i])
  /\ EncodersAgree
  /\ reader = "eof" /\ carrier = "tcp" /\ link = "up" =>
       ~\E s \in Starts : scanned < s /\ s <= flushed

\* bytes of the resumable frames among fs, as the wire carries them
ResumableBytes(fs) ==
  FoldLeft(LAMBDA n, f : n + (IF Resumable(f.kind) THEN Size(WriteTo(f)) ELSE 0), 0, fs)

\* The positions that RESUME and KEEPALIVE exchange: the reader's counter is
\* at the end of the last frame it has read, however the stream was cut, and
\* although it adds up the lengths of buffers where the writer adds up what Len
\* predicts.  The writer's counter is at the end of the last frame it has
\* written, except that over TCP it counts first: every frame whose write then
\* fails or panics stays counted, and is counted again when it is sent again.
CountersAgree ==
  /\ rcount = ResumableBytes(SubSeq(written, 1, Len(got)))
  /\ wcount = ResumableBytes(IF carrier = "ws" THEN written ELSE written \o refused)

\* Metadata that an extension encoded is what its reader finds in the frame
\* received, with three exceptions: the encoders refuse a name or a tag that
\* is too long, a well-known authentication without a payload is one byte,
\* which ParseAuthentication takes for invalid, and so does it a type
\* without a name; a custom MIME type without a name reads as a well-known one.
MetadataRead ==
  \A i \in 1..Len(got) : Convert(got[i]) = "payload" =>
    \A m \in {Decode(got[i]).metadata} :
      /\ \A c \in Composites : m # <<>> /\ m = Build(c) =>
           (Scanned(m) = c <=> \A j \in 1..Len(c) : c[j].mime # <<>>)
      /\ \A r \in Routes : m = EncodeRouting(r) => ParseRoutingTags(m) = r
      /\ \A a \in Auths : m = AuthBytes(a) =>
           (ParseAuthentication(m) = a
              <=> IF WellKnownAuth(a.type) THEN a.payload # <<>> ELSE a.type # <<>>)

\* What was encoded is what is read: FieldsRead, MetadataRead.
Faithful == FieldsRead /\ MetadataRead

\* The decoder waits, for a chunk or for the end, only when no whole frame has
\* arrived: neither for a byte more than the frame has nor for the next one.
NoFrameWaiting ==
  carrier # "ws" /\ DoSplit(Buffer, FALSE) = 0 => ~\E s \in Starts : scanned < s /\ s <= arrived
=============================================================================
