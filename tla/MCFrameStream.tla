--------------------------- MODULE MCFrameStream ---------------------------
(* FrameStream for TLC: of every type of frame, those whose parts are       *)
(* absent, short, and at the limits of their length fields.                 *)
EXTENDS FrameStream

Nothing == <<>>
D(len)  == Text("data", 0, len)
M(len)  == Text("metadata", 0, len)
Largest == MaxUint24 - FrameHeaderLen

Setup(token, m1, m2, metadata, data, lease) ==
  [kind |-> "setup", sid |-> 0, version |-> <<1, 0>>, keepalive |-> <<0, 20001>>,
   lifetime |-> <<0, 90000>>, token |-> Text("token", 0, token),
   mimeMetadata |-> Text("mime1", 0, m1),
   mimeData |-> Text("mime2", 0, m2), metadata |-> metadata, data |-> data, lease |-> lease]

SetupFrames ==
  {Setup(0, 24, 16, Nothing, Nothing, FALSE), Setup(5, 24, 16, M(7), D(3), TRUE),
   Setup(65521, 255, 255, Nothing, D(3), FALSE), Setup(65522, 24, 16, M(7), Nothing, FALSE),
   Setup(0, 256, 16, Nothing, Nothing, FALSE), Setup(1, 0, 0, M(1), Nothing, TRUE),
   [Setup(0, 24, 16, Nothing, D(3), FALSE) EXCEPT !.keepalive = <<1, 0>>],
   [Setup(0, 24, 16, Nothing, D(3), FALSE) EXCEPT !.lifetime = <<1, 20000>>]}

ResumeFrames ==
  {[kind |-> "resume", sid |-> 0, version |-> <<1, 0>>, token |-> Text("token", 0, n),
    last |-> 300, first |-> 7] : n \in {0, 65521, 65522, 65530, 65536}}
  \union {[kind |-> "resumeOK", sid |-> 0, position |-> 300]}

Payloads == {<<Nothing, Nothing>>, <<Nothing, D(5)>>, <<M(4), Nothing>>, <<M(4), D(300)>>}

PayloadFrames ==
  {[kind |-> k, sid |-> 3, flags |-> fg, metadata |-> p[1], data |-> p[2]] :
     k \in {"response", "fnf", "payload"}, fg \in {0, FlagNext + FlagComplete}, p \in Payloads}

RequestFrames ==
  {[kind |-> k, sid |-> 3, flags |-> FlagFollow, n |-> 256, metadata |-> p[1], data |-> p[2]] :
     k \in {"channel", "stream"}, p \in Payloads}

OtherFrames ==
  {[kind |-> "requestN", sid |-> 1, flags |-> 0, n |-> 2147483647], [kind |-> "cancel", sid |-> 5],
   [kind |-> "error", sid |-> 5, code |-> 513, data |-> D(9)],
   [kind |-> "lease", sid |-> 0, ttl |-> <<0, 5500>>, n |-> 10, metadata |-> Nothing],
   [kind |-> "lease", sid |-> 0, ttl |-> <<0, 5000>>, n |-> 10, metadata |-> M(4)],
   [kind |-> "lease", sid |-> 0, ttl |-> <<3, 5000>>, n |-> 10, metadata |-> M(4)],
   [kind |-> "keepalive", sid |-> 0, position |-> 300, data |-> D(2), respond |-> TRUE],
   [kind |-> "keepalive", sid |-> 0, position |-> 0, data |-> Nothing, respond |-> FALSE],
   [kind |-> "metadataPush", sid |-> 0, metadata |-> M(70000)]}

\* the longest frame, one byte more, and metadata that has no length
HugeFrames ==
  {[kind |-> "payload", sid |-> 3, flags |-> FlagNext, metadata |-> Nothing, data |-> D(n)] :
     n \in {Largest, Largest + 1}}
  \union {[kind |-> "fnf", sid |-> 3, flags |-> 0, metadata |-> M(MaxUint24 + 1), data |-> Nothing]}

Name(len) == Text("custom", len, len)
Tag(len)  == Text("tag", len, len)
MCComposites ==
  {<<[mime |-> MimeTypes[126], metadata |-> M(6)], [mime |-> Name(127), metadata |-> Nothing]>>,
   <<[mime |-> Name(1), metadata |-> M(257)], [mime |-> MimeTypes[0], metadata |-> M(1)]>>,
   <<[mime |-> <<>>, metadata |-> M(2)]>>, <<[mime |-> Name(128), metadata |-> M(2)]>>}
MCRoutes == {<<Tag(5)>>, <<Tag(255), Nothing, Tag(1)>>, <<Tag(256)>>}
MCAuths  ==
  {[type |-> t, payload |-> p] :
     t \in {Simple, Bearer, Text("custom", 3, 3), Text("custom", 127, 127), <<>>},
     p \in {Nothing, Text("secret", 0, 9)}}

ExtensionFrames ==
  {[kind |-> "payload", sid |-> 1, flags |-> FlagNext, metadata |-> m, data |-> D(1)] :
     m \in {Build(c) : c \in {c \in MCComposites : Buildable(c)}}
           \union {EncodeRouting(r) : r \in {r \in MCRoutes : Routable(r)}}
           \union {AuthBytes(a) : a \in MCAuths}}

MCFrames ==
  SetupFrames \union ResumeFrames \union PayloadFrames \union RequestFrames
  \union OtherFrames \union HugeFrames \union ExtensionFrames

MCLater ==
  {[kind |-> "cancel", sid |-> 5],
   [kind |-> "payload", sid |-> 3, flags |-> FlagNext, metadata |-> M(2), data |-> D(9000)]}
=============================================================================
