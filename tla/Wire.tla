------------------------------- MODULE Wire -------------------------------
(***************************************************************************)
(* The wire format (record/Types-inl.h, Extensions-inl.h, ech).  A byte is *)
(* a number below ByteBase, so that lengths of one, two and three bytes    *)
(* overflow within a small instance; names, keys and other contents are    *)
(* short strings of bytes.  A format is the sequence of the fields that    *)
(* the code writes, or reads, one after the other; a value is the tuple of *)
(* what the fields hold.  None stands for an exception.                    *)
(***************************************************************************)
EXTENDS TokenCipher, SequencesExt

CONSTANTS
  ByteBase,          \* stands for 256
  MaxHandshakeSize   \* kMaxHandshakeSize

VARIABLE wi

U(n) == [k |-> "u", n |-> n]                      \* a number or an enum of n bytes
Raw(n) == [k |-> "raw", n |-> n]                  \* n bytes
Buf(n) == [k |-> "buf", n |-> n]                  \* bytes after their length
Vec(n, of) == [k |-> "vec", n |-> n, of |-> of]   \* elements after their length
Const(v) == [k |-> "const", n |-> 1, v |-> v]     \* a tag
Rest == [k |-> "rest", n |-> 0]                   \* all that is left
Trailing(n, of) == [k |-> "trailing", n |-> n, of |-> of]   \* may be missing at the end
BufIf(n) == [k |-> "bufif", n |-> n]              \* written unless absent
UIf(n, at) == [k |-> "uif", n |-> n, at |-> at]   \* written unless another one is absent

-----------------------------------------------------------------------------
(* Elements of vectors: how each is written, read and measured.            *)
BasicSizers ==
  [Extension |-> <<U(2), Buf(2)>>,
   CertificateEntry |-> <<Buf(3), Vec(2, "Extension")>>]

BasicWriters ==
  [Extension |-> <<U(2), Buf(2)>>,
   CertificateEntry |-> <<Buf(3), Vec(2, "Extension")>>]

BasicReaders ==
  [Extension |-> <<U(2), Buf(2)>>,
   CertificateEntry |-> <<Buf(3), Vec(2, "Extension")>>]

Element(read, write, size) == [read |-> read, write |-> write, size |-> size]

ElementCodecs ==
  [KeyShareEntry |-> Element(<<U(2), Buf(2)>>, <<U(2), Buf(2)>>, <<U(2), Buf(2)>>),
   PskIdentity |-> Element(<<Buf(2), U(4)>>, <<Buf(2), U(4)>>, <<Buf(2), U(4)>>),
   PskBinder |-> Element(<<Buf(1)>>, <<Buf(1)>>, <<Buf(1)>>),
   ProtocolName |-> Element(<<Buf(1)>>, <<Buf(1)>>, <<Buf(1)>>),
   ServerName |-> Element(<<U(1), Buf(2)>>, <<U(1), Buf(2)>>, <<U(1), Buf(2)>>),
   DistinguishedName |-> Element(<<Buf(2)>>, <<Buf(2)>>, <<Buf(2)>>)]

EchWriters ==
  [ECHConfig |-> <<U(2), Buf(2)>>, HpkeSymmetricCipherSuite |-> <<U(2), U(2)>>,
   HpkeKeyConfig |-> <<U(1), U(2), Buf(2), Vec(2, "HpkeSymmetricCipherSuite")>>]

EchSizers ==
  [ECHConfig |-> <<U(2), Buf(2)>>, HpkeSymmetricCipherSuite |-> <<U(2), U(2)>>,
   HpkeKeyConfig |-> <<U(1), U(2), Buf(2), Vec(2, "HpkeSymmetricCipherSuite")>>]

EchReaders ==
  [ECHConfig |-> <<U(2), Buf(2)>>, HpkeSymmetricCipherSuite |-> <<U(2), U(2)>>,
   HpkeKeyConfig |-> <<U(1), U(2), Buf(2), Vec(2, "HpkeSymmetricCipherSuite")>>]

Scalars == [u8 |-> <<U(1)>>, u16 |-> <<U(2)>>]

Writers == Scalars @@ BasicWriters @@ EchWriters
             @@ [e \in DOMAIN ElementCodecs |-> ElementCodecs[e].write]
Readers == Scalars @@ BasicReaders @@ EchReaders
             @@ [e \in DOMAIN ElementCodecs |-> ElementCodecs[e].read]
Sizers == Scalars @@ BasicSizers @@ EchSizers
            @@ [e \in DOMAIN ElementCodecs |-> ElementCodecs[e].size]

-----------------------------------------------------------------------------
(* Messages.                                                               *)
FirstMessageWriters ==
  [ServerHello |-> <<U(2), Raw(1), BufIf(1), U(2), UIf(1, 3), Vec(2, "Extension")>>,
   HelloRetryRequest |-> <<U(2), Const(ByteBase - 1), Buf(1), U(2), U(1), Vec(2, "Extension")>>,
   EndOfEarlyData |-> <<>>,
   EncryptedExtensions |-> <<Vec(2, "Extension")>>,
   CertificateRequest |-> <<Buf(1), Vec(2, "Extension")>>,
   CertificateMsg |-> <<Buf(1), Vec(3, "CertificateEntry")>>,
   CompressedCertificate |-> <<U(2), U(3), Buf(3)>>]

SecondMessageWriters ==
  [CertificateVerify |-> <<U(2), Buf(2)>>,
   Alert |-> <<U(1), U(1)>>,
   ClientHello |-> <<U(2), Raw(1), Buf(1), Vec(2, "u16"), Vec(1, "u8"), Vec(2, "Extension")>>,
   Finished |-> <<Rest>>,
   NewSessionTicket |-> <<U(4), U(4), BufIf(1), Buf(2), Vec(2, "Extension")>>,
   HkdfLabel |-> <<U(2), Buf(1), Buf(1)>>,
   KeyUpdate |-> <<U(1)>>,
   MessageHash |-> <<Rest>>]

MessageReaders ==
  [ClientHello |-> <<U(2), Raw(1), Buf(1), Vec(2, "u16"), Vec(1, "u8"), Trailing(2, "Extension")>>,
   ServerHello |-> <<U(2), Raw(1), Buf(1), U(2), U(1), Vec(2, "Extension")>>,
   EndOfEarlyData |-> <<>>,
   EncryptedExtensions |-> <<Vec(2, "Extension")>>,
   CertificateRequest |-> <<Buf(1), Vec(2, "Extension")>>,
   CertificateMsg |-> <<Buf(1), Vec(3, "CertificateEntry")>>,
   CompressedCertificate |-> <<U(2), U(3), Buf(3)>>,
   CertificateVerify |-> <<U(2), Buf(2)>>,
   NewSessionTicket |-> <<U(4), U(4), Buf(1), Buf(2), Vec(2, "Extension")>>,
   Alert |-> <<U(1), U(1)>>,
   Finished |-> <<Rest>>,
   KeyUpdate |-> <<U(1)>>]

EchMessageWriters ==
  [ECHConfigContentDraft |-> EchWriters.HpkeKeyConfig \o <<U(1), Buf(1), Vec(2, "Extension")>>,
   ECHConfigMsg |-> <<U(2), Buf(2)>>,
   ECHConfigList |-> <<Vec(2, "ECHConfig")>>]

EchMessageReaders ==
  [ECHConfigContentDraft |-> EchReaders.HpkeKeyConfig \o <<U(1), Buf(1), Vec(2, "Extension")>>,
   ECHConfigMsg |-> <<U(2), Buf(2)>>,
   ECHConfigList |-> <<Vec(2, "ECHConfig")>>]

-----------------------------------------------------------------------------
(* Extensions.                                                             *)
FirstExtensionWriters ==
  [SignatureAlgorithms |-> <<Vec(2, "u16")>>,
   SupportedGroups |-> <<Vec(2, "u16")>>,
   ClientKeyShare |-> <<Vec(2, "KeyShareEntry")>>,
   ServerKeyShare |-> <<U(2), Buf(2)>>,
   HelloRetryRequestKeyShare |-> <<U(2)>>,
   ClientPresharedKey |-> <<Vec(2, "PskIdentity"), Vec(2, "PskBinder")>>,
   ServerPresharedKey |-> <<U(2)>>,
   ClientEarlyData |-> <<>>,
   ServerEarlyData |-> <<>>,
   TicketEarlyData |-> <<U(4)>>]

SecondExtensionWriters ==
  [Cookie |-> <<Buf(2)>>,
   SupportedVersions |-> <<Vec(1, "u16")>>,
   ServerSupportedVersions |-> <<U(2)>>,
   PskKeyExchangeModes |-> <<Vec(1, "u8")>>,
   ProtocolNameList |-> <<Vec(2, "ProtocolName")>>,
   ServerNameList |-> <<Vec(2, "ServerName")>>,
   CertificateAuthorities |-> <<Vec(2, "DistinguishedName")>>,
   CertificateCompressionAlgorithms |-> <<Vec(1, "u16")>>,
   EchOuterExtensions |-> <<Vec(1, "u16")>>]

ExtensionReaders ==
  [SignatureAlgorithms |-> <<Vec(2, "u16")>>,
   SupportedGroups |-> <<Vec(2, "u16")>>,
   ClientKeyShare |-> <<Vec(2, "KeyShareEntry")>>,
   ServerKeyShare |-> <<U(2), Buf(2)>>,
   HelloRetryRequestKeyShare |-> <<U(2)>>,
   ClientPresharedKey |-> <<Vec(2, "PskIdentity"), Vec(2, "PskBinder")>>,
   ServerPresharedKey |-> <<U(2)>>,
   ClientEarlyData |-> <<>>,
   ServerEarlyData |-> <<>>,
   TicketEarlyData |-> <<U(4)>>,
   Cookie |-> <<Buf(2)>>,
   SupportedVersions |-> <<Vec(1, "u16")>>,
   ServerSupportedVersions |-> <<U(2)>>,
   PskKeyExchangeModes |-> <<Vec(1, "u8")>>,
   ProtocolNameList |-> <<Vec(2, "ProtocolName")>>,
   ServerNameList |-> <<Vec(2, "ServerName")>>,
   CertificateAuthorities |-> <<Vec(2, "DistinguishedName")>>,
   CertificateCompressionAlgorithms |-> <<Vec(1, "u16")>>]

EchExtensionWriters ==
  [OuterECHClientHello |-> <<Const(0), U(2), U(2), U(1), Buf(2), Buf(2)>>,
   ECHEncryptedExtensions |-> <<Vec(2, "ECHConfig")>>,
   InnerECHClientHello |-> <<Const(1)>>,
   OuterExtensions |-> <<Vec(1, "u16")>>,
   ECHHelloRetryRequest |-> <<Raw(2)>>]

EchExtensionReaders ==
  [OuterECHClientHello |-> <<Const(0), U(2), U(2), U(1), Buf(2), Buf(2)>>,
   ECHEncryptedExtensions |-> <<Vec(2, "ECHConfig")>>,
   InnerECHClientHello |-> <<Const(1)>>,
   OuterExtensions |-> <<Vec(1, "u16")>>,
   ECHHelloRetryRequest |-> <<Raw(2)>>]

MessageWriters == FirstMessageWriters @@ SecondMessageWriters @@ EchMessageWriters
ExtensionWriters == FirstExtensionWriters @@ SecondExtensionWriters @@ EchExtensionWriters
TopWriters == MessageWriters @@ ExtensionWriters
TopReaders == MessageReaders @@ EchMessageReaders @@ ExtensionReaders @@ EchExtensionReaders

-----------------------------------------------------------------------------
(* Writing.                                                                *)
WriteBE(n, x) == [i \in 1 .. n |-> (x \div ByteBase^(n - i)) % ByteBase]

(* A length that does not fit is an exception (to<N>, checkWithin24bits).  *)
WriteLength(n, len) == IF len < ByteBase^n THEN WriteBE(n, len) ELSE None

Cat(parts) ==
  IF \E i \in DOMAIN parts : parts[i] = None THEN None ELSE FlattenSeq(parts)

WriteBuf(n, buf) ==
  IF buf = None THEN WriteLength(n, 0) ELSE Cat(<<WriteLength(n, Len(buf)), buf>>)

RECURSIVE SizeOfField(_, _)
SizeOf(fields, v) == FoldSeq(LAMBDA i, n : n + SizeOfField(fields[i], v[i]), 0,
                             [i \in 1 .. Len(fields) |-> i])
SizeOfField(f, v) ==
  CASE f.k = "u" -> f.n
    [] f.k = "buf" -> f.n + Len(v)
    [] f.k = "vec" -> f.n + FoldSeq(LAMBDA e, n : n + SizeOf(Sizers[f.of], e), 0, v)

RECURSIVE WriteField(_, _, _)
WriteFields(fields, v) == Cat([i \in 1 .. Len(fields) |-> WriteField(fields[i], v[i], v)])

(* The length is the sum of the sizes, computed before anything is written.*)
WriteVector(f, v) ==
  Cat(<<WriteLength(f.n, FoldSeq(LAMBDA e, n : n + SizeOf(Sizers[f.of], e), 0, v))>>
        \o [i \in 1 .. Len(v) |-> WriteFields(Writers[f.of], v[i])])

WriteField(f, v, all) ==
  CASE f.k \in {"u", "const"} -> WriteBE(f.n, v)
    [] f.k \in {"raw", "rest"} -> v
    [] f.k = "buf" -> WriteBuf(f.n, v)
    [] f.k = "vec" -> WriteVector(f, v)
    [] f.k = "bufif" -> IF v = None THEN <<>> ELSE WriteBuf(f.n, v)
    [] f.k = "uif" -> IF all[f.at] = None THEN <<>> ELSE WriteBE(f.n, v)

-----------------------------------------------------------------------------
(* Reading: [v, rest] of what is left, or None.                            *)
ReadBE(bytes) == FoldLeft(LAMBDA x, b : ByteBase * x + b, 0, bytes)

Took(v, bytes, n) == [v |-> v, rest |-> SubSeq(bytes, n + 1, Len(bytes))]

ReadU(n, bytes) ==
  IF Len(bytes) < n THEN None ELSE Took(ReadBE(SubSeq(bytes, 1, n)), bytes, n)

ReadRaw(n, bytes) ==
  IF Len(bytes) < n THEN None ELSE Took(SubSeq(bytes, 1, n), bytes, n)

ReadBuf(len) == IF len = None THEN None ELSE ReadRaw(len.v, len.rest)

RECURSIVE ReadFields(_, _, _)

(* Elements are read until the length is used up, and must end there.      *)
RECURSIVE ReadElements(_, _, _, _)
ReadElements(of, got, len, total) ==
  CASE got = None -> None
    [] got # None /\ total - Len(got.rest) = len -> got
    [] got # None /\ total - Len(got.rest) > len -> None
    [] OTHER ->
         ReadElements(of,
           LET e == ReadFields(Readers[of], <<>>, got.rest)
           IN IF e = None THEN None ELSE [v |-> Append(got.v, e.v), rest |-> e.rest],
           len, total)

ReadVector(of, len) ==
  IF len = None THEN None
  ELSE IF Len(len.rest) < len.v THEN None
  ELSE ReadElements(of, [v |-> <<>>, rest |-> len.rest], len.v, Len(len.rest))

ReadField(f, bytes) ==
  CASE f.k = "u" -> ReadU(f.n, bytes)
    [] f.k = "raw" -> ReadRaw(f.n, bytes)
    [] f.k = "rest" -> ReadRaw(Len(bytes), bytes)
    [] f.k = "const" -> IF ReadU(1, bytes) # None /\ bytes[1] = f.v THEN ReadU(1, bytes) ELSE None
    [] f.k = "buf" -> ReadBuf(ReadU(f.n, bytes))
    [] f.k = "vec" -> ReadVector(f.of, ReadU(f.n, bytes))
    [] f.k = "trailing" -> IF bytes = <<>> THEN Took(<<>>, bytes, 0)
                           ELSE ReadVector(f.of, ReadU(f.n, bytes))

ReadFields(fields, v, bytes) ==
  IF Len(v) = Len(fields) THEN [v |-> v, rest |-> bytes]
  ELSE LET got == ReadField(fields[Len(v) + 1], bytes)
       IN IF got = None THEN None ELSE ReadFields(fields, Append(v, got.v), got.rest)

(* Mutant: what is left over is ignored.                                   *)
EntireMutant(got) == IF got = None THEN None ELSE got.v

(* decode of a whole buffer: nothing may be left over.                     *)
Entire(got) == IF got = None THEN None ELSE IF got.rest # <<>> THEN None ELSE got.v

DecodeWire(kind, bytes) == Entire(ReadFields(TopReaders[kind], <<>>, bytes))

-----------------------------------------------------------------------------
(* Handshake messages in their frame.                                      *)
HandshakeTypes ==
  [ClientHello |-> 1, ServerHello |-> 2, HelloRetryRequest |-> 2, NewSessionTicket |-> 4,
   EndOfEarlyData |-> 5, EncryptedExtensions |-> 8, CertificateMsg |-> 11,
   CertificateRequest |-> 13, CertificateVerify |-> 15, Finished |-> 20, KeyUpdate |-> 24,
   CompressedCertificate |-> 25, MessageHash |-> 254]

EncodeHandshake(kind, v) ==
  LET body == WriteFields(MessageWriters[kind], v)
  IN IF body = None THEN None
     ELSE Cat(<<<<HandshakeTypes[kind]>>, WriteLength(3, Len(body)), body>>)

Parsed(kind, v, left) == [kind |-> kind, v |-> v, left |-> left]

(* A ServerHello with the random of a retry is one.                        *)
ParseServerHello(v, left) ==
  IF v = None THEN None
  ELSE IF v[2] = <<ByteBase - 1>>
  THEN Parsed("HelloRetryRequest", [v EXCEPT ![2] = ByteBase - 1], left)
  ELSE Parsed("ServerHello", v, left)

KindOf(type) == CHOOSE k \in DOMAIN MessageReaders \cap DOMAIN HandshakeTypes : HandshakeTypes[k] = type

Parse(type, body, left) ==
  CASE type \notin {HandshakeTypes[k] : k \in DOMAIN MessageReaders \cap DOMAIN HandshakeTypes} -> None
    [] type = 2 -> ParseServerHello(DecodeWire("ServerHello", body), left)
    [] OTHER -> LET v == DecodeWire(KindOf(type), body)
                IN IF v = None THEN None ELSE Parsed(KindOf(type), v, left)

(* "more" when the message is not complete.                                *)
DecodeHandshakeMessage(bytes) ==
  IF Len(bytes) < 4 THEN Parsed("more", <<>>, bytes)
  ELSE LET len == ReadBE(SubSeq(bytes, 2, 4))
       IN IF len > MaxHandshakeSize THEN None
          ELSE IF Len(bytes) < 4 + len THEN Parsed("more", <<>>, bytes)
          ELSE Parse(bytes[1], SubSeq(bytes, 5, 4 + len), SubSeq(bytes, 5 + len, Len(bytes)))

(* The first extension of the type that is asked for.                      *)
FindExtension(extensions, type) ==
  IF \E i \in DOMAIN extensions : extensions[i][1] = type
  THEN extensions[SelectInSeq(extensions, LAMBDA e : e[1] = type)] ELSE None

GetExtension(kind, extensions, type) ==
  IF FindExtension(extensions, type) = None THEN None
  ELSE DecodeWire(kind, FindExtension(extensions, type)[2])

(* What the binders take, at the end of a hello whose last extension is    *)
(* the one of type psk.                                                    *)
GetBinderLength(extensions, psk) ==
  LET binders == LET skipped == ReadBuf(ReadU(2, Last(extensions)[2]))
                 IN IF skipped = None THEN None ELSE ReadU(2, skipped.rest)
  IN IF extensions = <<>> THEN None
     ELSE IF Last(extensions)[1] # psk \/ binders = None THEN None
     ELSE IF Len(binders.rest) # binders.v THEN None ELSE 2 + binders.v

-----------------------------------------------------------------------------
(* A value of every kind is written, damaged on the way or not, and read.  *)
RECURSIVE Low(_)
RECURSIVE High(_)
Low(f) == CASE f.k \in {"u", "uif"} -> 0
            [] f.k = "const" -> f.v
            [] f.k = "raw" -> [i \in 1 .. f.n |-> 0]
            [] f.k \in {"buf", "bufif", "rest", "vec"} -> <<>>
High(f) == CASE f.k \in {"u", "uif"} -> ByteBase^f.n - 1
             [] f.k = "const" -> f.v
             [] f.k = "raw" -> [i \in 1 .. f.n |-> i]
             [] f.k = "rest" -> <<1, 0>>
             [] f.k \in {"buf", "bufif"} -> [i \in 1 .. ByteBase + f.n - 2 |-> 1]
             [] f.k = "vec" ->
                  LET fields == Writers[f.of]
                  IN <<[i \in 1 .. Len(fields) |-> Low(fields[i])],
                       [i \in 1 .. Len(fields) |-> High(fields[i])]>>

Alternatives(f) ==
  CASE f.k = "raw" -> {Low(f), High(f), [i \in 1 .. f.n |-> ByteBase - 1]}
    [] f.k \in {"buf", "bufif"} ->
         {Low(f), High(f), [i \in 1 .. ByteBase^f.n - 1 |-> 0], [i \in 1 .. ByteBase^f.n |-> 0]}
    [] f.k = "vec" ->
         {Low(f), High(f), SubSeq(High(f), 2, 2), [i \in 1 .. ByteBase^f.n |-> High(f)[1]]}
    [] OTHER -> {Low(f), High(f)}

ValuesOf(fields) ==
  {[i \in 1 .. Len(fields) |-> High(fields[i])]} \cup
  UNION {{[[i \in 1 .. Len(fields) |-> Low(fields[i])] EXCEPT ![j] = a] :
            a \in Alternatives(fields[j])} : j \in 1 .. Len(fields)}

EncodeWire(kind, v) ==
  IF kind \in DOMAIN HandshakeTypes THEN EncodeHandshake(kind, v)
                                    ELSE WriteFields(TopWriters[kind], v)

(* An extension is looked up behind another one.                           *)
ReadWire(kind, bytes) ==
  IF kind \in DOMAIN HandshakeTypes THEN DecodeHandshakeMessage(bytes)
  ELSE LET v == IF kind \in DOMAIN ExtensionWriters
                THEN GetExtension(kind, <<<<1, <<0>>>>, <<2, bytes>>>>, 2)
                ELSE DecodeWire(kind, bytes)
       IN IF v = None THEN None ELSE Parsed(kind, v, <<>>)

WireInit ==
  \E kind \in DOMAIN TopWriters : \E v \in ValuesOf(TopWriters[kind]) :
    wi = [kind |-> kind, value |-> v, bytes |-> EncodeWire(kind, v),
          phase |-> "sent", got |-> None]

Damages(bytes) ==
  {[bytes EXCEPT ![i] = (@ + 1) % ByteBase] : i \in DOMAIN bytes}
    \cup {SubSeq(bytes, 1, n) : n \in 0 .. Len(bytes) - 1}
    \cup {Append(bytes, 0)}

WireDamage ==
  /\ wi.phase = "sent" /\ wi.bytes # None
  /\ \E d \in Damages(wi.bytes) : wi' = [wi EXCEPT !.bytes = d, !.phase = "damaged"]

WireRead ==
  /\ wi.phase \in {"sent", "damaged"} /\ wi.bytes # None
  /\ wi.kind \in DOMAIN TopReaders \cup {"HelloRetryRequest"}
  /\ wi' = [wi EXCEPT !.got = ReadWire(wi.kind, wi.bytes),
                      !.phase = IF @ = "sent" THEN "read" ELSE "damaged and read"]

WireNext == WireDamage \/ WireRead

(* What can be written is read back as it was, and as nothing else; a      *)
(* retry is told from a ServerHello by its random.  Of what was damaged,   *)
(* whatever still is accepted writes back to the very bytes that were      *)
(* read, so that nothing in a message escapes its reader (a hello without  *)
(* extensions is the exception the code makes); a cut handshake message is *)
(* waited for or refused, and never read as a shorter one.  The binders of *)
(* a hello are exactly the bytes that follow its identities                *)
(* (encode, decode, getSize, readVector, getBinderLength).                 *)
WireRoundTrip == wi # None =>
  /\ wi.phase = "read" =>
       wi.got = IF wi.kind = "ServerHello" /\ wi.value[2] = <<ByteBase - 1>>
                THEN Parsed("HelloRetryRequest", [wi.value EXCEPT ![2] = ByteBase - 1], <<>>)
                ELSE Parsed(wi.kind, wi.value, <<>>)
  /\ wi.phase = "damaged and read" /\ wi.got # None =>
       \/ wi.got.kind = "more" /\ wi.got.left = wi.bytes
       \/ wi.got.kind = "ClientHello" /\ wi.got.v[6] = <<>>
       \/ EncodeWire(wi.got.kind, wi.got.v) \o wi.got.left = wi.bytes
  /\ (wi.kind = "ClientPresharedKey" /\ wi.phase = "sent" /\ wi.bytes # None) =>
       /\ SubSeq(wi.bytes, 1, Len(wi.bytes) - GetBinderLength(<<<<1, <<>>>>, <<2, wi.bytes>>>>, 2))
            = WriteFields(<<Vec(2, "PskIdentity")>>, <<wi.value[1]>>)
       /\ GetBinderLength(<<<<2, wi.bytes>>, <<1, <<>>>>>>, 2) = None
=============================================================================
