----------------------------- MODULE Extensions -----------------------------
(***************************************************************************)
(* The encodings that the extensions define for a frame's metadata         *)
(* (src/extension): composite metadata, routing tags and authentication,   *)
(* each with its reader.  Bytes are those of module Framing.               *)
(***************************************************************************)
EXTENDS Framing, SequencesExt

-----------------------------------------------------------------------------
(* MIME types (extension/mime.go). *)

\* ids of the well-known types, and the name of each: names are distinct
MIME      == (0..40) \union (122..127)
MimeTypes == [id \in MIME |-> Text("mime", id, 1)]

\* "" for an id without a name
MimeString(id) == IF id \in MIME THEN MimeTypes[id] ELSE <<>>

NotWellKnown == -1
ParseMIME(name) ==
  IF \E id \in MIME : MimeTypes[id] = name
  THEN CHOOSE id \in MIME : MimeTypes[id] = name ELSE NotWellKnown

-----------------------------------------------------------------------------
(* Composite metadata (extension/composite_metadata.go): a sequence of       *)
(* entries [mime, metadata], the mime type of each a name.                   *)

\* Build fails for a name of more than 127 bytes
Buildable(entries) ==
  \A i \in 1..Len(entries) :
    ParseMIME(entries[i].mime) # NotWellKnown \/ Size(entries[i].mime) <= 127

\* Push, then the name in Build: an id, or a length less one and the name
MimeHeader(name) ==
  IF ParseMIME(name) # NotWellKnown THEN Byte(128 + ParseMIME(name))
  ELSE Byte(Size(name) - 1) \o name

Build(entries) ==
  FoldLeft(LAMBDA bs, e : bs \o MimeHeader(e.mime) \o Uint24(Size(e.metadata)) \o e.metadata,
           <<>>, entries)

DecodeCompositeMetadataOnce(raw) ==
  LET m    == ReadUint(1, raw)
      size == IF m >= 128 THEN 1 ELSE 1 + m + 1
      end  == size + 3 + ReadUint24ToInt(Slice(raw, size, size + 3))
  IN  [length   |-> end,
       mime     |-> IF m >= 128 THEN MimeString(m % 128) ELSE Slice(raw, 1, size),
       metadata |-> Slice(raw, size + 3, end)]

\* what a caller collects: for s.Scan() { s.Metadata() }
Scanned(raw) ==
  LET from[o \in Nat] ==
        IF o >= Size(raw) THEN <<>>
        ELSE LET d == DecodeCompositeMetadataOnce(After(raw, o))
             IN  <<[mime |-> d.mime, metadata |-> d.metadata]>> \o from[o + d.length]
  IN  from[0]

-----------------------------------------------------------------------------
(* Routing tags (extension/routing.go). *)

\* EncodeRouting fails for a tag of more than 255 bytes
Routable(tags) == \A i \in 1..Len(tags) : Size(tags[i]) <= 255

EncodeRouting(tags) == FoldLeft(LAMBDA bs, t : bs \o Byte(Size(t)) \o t, <<>>, tags)

ParseRoutingTags(bs) ==
  LET from[o \in Nat] ==
        IF o >= Size(bs) THEN <<>>
        ELSE LET end == o + 1 + ReadUint(1, After(bs, o))
             IN  <<Slice(bs, o + 1, end)>> \o from[end]
  IN  from[0]

-----------------------------------------------------------------------------
(* Authentication (extension/authentication.go): a type, which is a name,    *)
(* and a payload.                                                            *)

Simple == Text("simple", 0, 6)
Bearer == Text("bearer", 1, 6)
AuthTypes == <<Simple, Bearer>>

WellKnownAuth(type) == \E i \in DOMAIN AuthTypes : AuthTypes[i] = type
AuthId(type)        == (CHOOSE i \in DOMAIN AuthTypes : AuthTypes[i] = type) - 1
AuthName(id)        == IF id \in {0, 1} THEN AuthTypes[id + 1] ELSE Text("unknown", 0, 7)

AuthBytes(a) ==
  (IF WellKnownAuth(a.type) THEN Byte(128 + AuthId(a.type)) ELSE Byte(Size(a.type)) \o a.type)
  \o a.payload

\* errInvalidAuthBytes
InvalidAuth == [type |-> Garbage, payload |-> Garbage]

ParseAuthentication(raw) ==
  LET first == ReadUint(1, raw)
      n     == first % 128
  IN  CASE Size(raw) < 2 -> InvalidAuth
        [] Size(raw) >= 2 /\ first >= 128 -> [type |-> AuthName(n), payload |-> After(raw, 1)]
        [] Size(raw) >= 2 /\ first < 128 /\ (n = 0 \/ Size(raw) - 1 < n) -> InvalidAuth
        [] OTHER -> [type |-> Slice(raw, 1, 1 + n), payload |-> After(raw, n + 1)]
=============================================================================
