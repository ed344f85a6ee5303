-------------------------- MODULE Handshake_proofs --------------------------
(***************************************************************************)
(* A client that completes the handshake agrees with its server: proof of  *)
(* Agreement, for every configuration and every number of requests.        *)
(*                                                                         *)
(* The two machines never look at each other: what they agree on, they     *)
(* agree on because of the messages between them.  So the invariant says,  *)
(* of each message that is in flight, what its sender is committed to.     *)
(* What matters are the two Finished messages: the server's holds its      *)
(* transcript up to there, which its application keys come from, and the   *)
(* client's holds the whole handshake.  A side takes a Finished only if    *)
(* its own transcript is the one inside, and what each side has negotiated *)
(* is what its transcript shows (Outcome): equal transcripts, equal        *)
(* outcomes.                                                               *)
(*                                                                         *)
(* A step of a machine is summarised once (ServerStep, ClientStep); that   *)
(* the connection keeps the invariant follows from the summary alone.      *)
(***************************************************************************)
EXTENDS Handshake, Messages_proofs

-----------------------------------------------------------------------------
(* What is in flight.                                                      *)

(* The messages in a sequence of bytes, a message cut in two included.     *)
Carried(bytes) ==
  {bytes[k] : k \in DOMAIN bytes}
    \cup {bytes[k].of : k \in {j \in DOMAIN bytes : bytes[j].type = "Front"}}

(* The messages in a stream of records.                                    *)
CarriedBy(records) == UNION {Carried(records[i].body) : i \in DOMAIN records}

(* The messages that a machine may still read.                             *)
InFlight(layer, in) == Carried(layer.unparsed) \cup CarriedBy(in)

(* No record is empty but a CCS.                                           *)
SoundRecords(records) ==
  /\ IsSeq(records)
  /\ \A i \in DOMAIN records :
       IsSeq(records[i].body) /\ (records[i].outer # "ccs" => records[i].body # <<>>)

(* What a machine reads from: its read layer and the records to come.      *)
Stream(layer, in) ==
  IsLayer(layer) /\ IsSeq(layer.unparsed) /\ SoundRecords(in)

-----------------------------------------------------------------------------
(* What is carried by two sequences of bytes, and by a part of one.        *)

LEMMA IndexOfConcat ==
  ASSUME NEW a, NEW b, IsSeq(a), IsSeq(b), NEW i \in DOMAIN (a \o b)
  PROVE  \/ \E j \in DOMAIN a : (a \o b)[i] = a[j]
         \/ \E j \in DOMAIN b : (a \o b)[i] = b[j]
<1>1. /\ DOMAIN a = 1 .. Len(a) /\ Len(a) \in Nat
      /\ DOMAIN b = 1 .. Len(b) /\ Len(b) \in Nat
      /\ DOMAIN (a \o b) = 1 .. Len(a) + Len(b)
      /\ \A j \in 1 .. Len(a) : (a \o b)[j] = a[j]
      /\ \A j \in 1 .. Len(b) : (a \o b)[Len(a) + j] = b[j]
  BY ConcatSeq, IsSeqDomain
<1>2. CASE i \in 1 .. Len(a)
  BY <1>1, <1>2
<1>3. CASE i \notin 1 .. Len(a)
  <2>1. i - Len(a) \in 1 .. Len(b) /\ i = Len(a) + (i - Len(a))
    BY <1>1, <1>3
  <2> QED
    BY <1>1, <2>1
<1> QED
  BY <1>2, <1>3

(* A message is carried by bytes if it is one of them, or the first part   *)
(* of it is.                                                               *)
LEMMA CarriedElement ==
  ASSUME NEW b, NEW m
  PROVE  m \in Carried(b) <=>
           \E k \in DOMAIN b : m = b[k] \/ (b[k].type = "Front" /\ m = b[k].of)
BY DEF Carried

LEMMA CarriedWithin ==
  ASSUME NEW a, NEW b, NEW c,
         \A i \in DOMAIN c : \/ \E j \in DOMAIN a : c[i] = a[j]
                             \/ \E j \in DOMAIN b : c[i] = b[j]
  PROVE  Carried(c) \subseteq Carried(a) \cup Carried(b)
BY CarriedElement

LEMMA CarriedConcat ==
  ASSUME NEW a, NEW b, IsSeq(a), IsSeq(b)
  PROVE  IsSeq(a \o b) /\ Carried(a \o b) \subseteq Carried(a) \cup Carried(b)
<1>1. IsSeq(a \o b)
  BY ConcatSeq
<1> DEFINE c == a \o b
<1>2. \A i \in DOMAIN c : \/ \E j \in DOMAIN a : c[i] = a[j]
                          \/ \E j \in DOMAIN b : c[i] = b[j]
  BY IndexOfConcat
<1> HIDE DEF c
<1>3. Carried(c) \subseteq Carried(a) \cup Carried(b)
  BY <1>2, CarriedWithin
<1> QED
  BY <1>1, <1>3 DEF c

LEMMA RestElements ==
  ASSUME NEW b, IsSeq(b), NEW i \in 1 .. Len(b) + 1
  PROVE  LET c == SubSeq(b, i, Len(b))
         IN IsSeq(c) /\ \A k \in DOMAIN c : \E j \in DOMAIN b : c[k] = b[j]
<1> DEFINE Els == {b[k] : k \in DOMAIN b}
           c == SubSeq(b, i, Len(b))
<1>1. b \in Seq(Els) /\ \A x \in Els : \E j \in DOMAIN b : x = b[j]
  BY DEF IsSeq
<1> HIDE DEF Els
<1>2. c \in Seq(Els)
  BY <1>1
<1> HIDE DEF c
<1>3. IsSeq(c) /\ \A k \in DOMAIN c : c[k] \in Els
  BY <1>2, SeqIsSeq
<1> QED
  BY <1>1, <1>3 DEF c

LEMMA TailElements ==
  ASSUME NEW s, IsSeq(s), s # <<>>
  PROVE  /\ IsSeq(Tail(s)) /\ \A i \in DOMAIN Tail(s) : \E j \in DOMAIN s : Tail(s)[i] = s[j]
         /\ 1 \in DOMAIN s /\ Head(s) = s[1]
<1> DEFINE Els == {s[i] : i \in DOMAIN s}
           u == Tail(s)
<1>1. s \in Seq(Els) /\ \A x \in Els : \E j \in DOMAIN s : x = s[j]
  BY DEF IsSeq
<1> HIDE DEF Els
<1>2. u \in Seq(Els) /\ 1 \in DOMAIN s /\ Head(s) = s[1]
  BY <1>1
<1> HIDE DEF u
<1>3. IsSeq(u) /\ \A i \in DOMAIN u : u[i] \in Els
  BY <1>2, SeqIsSeq
<1> QED
  BY <1>1, <1>2, <1>3 DEF u

LEMMA BytesInFlight ==
  ASSUME NEW l, NEW s, IsLayer(l), IsSeq(l.unparsed), Decodable(l.unparsed)
  PROVE  LET got == FromBytes(l, s)
         IN /\ got.in = s /\ IsLayer(got.layer) /\ IsSeq(got.layer.unparsed)
            /\ Carried(got.layer.unparsed) \subseteq Carried(l.unparsed)
            /\ got.kind = "event" => got.msg \in Carried(l.unparsed)
<1> DEFINE b == l.unparsed
<1>1. /\ Len(b) \in Nat /\ DOMAIN b = 1 .. Len(b)
      /\ Len(b) >= 1 /\ (b[1].type = "Front" => Len(b) >= 2)
  BY IsSeqDomain DEF Decodable
<1>2. Decoded(b) \in Carried(b)
  <2>1. 1 \in DOMAIN b
    BY <1>1
  <2> QED
    BY <2>1, CarriedElement DEF Decoded
<1>3. IsSeq(Undecoded(b)) /\ Carried(Undecoded(b)) \subseteq Carried(b)
  <2>1. (IF b[1].type = "Front" THEN 3 ELSE 2) \in 1 .. Len(b) + 1
    BY <1>1
  <2>2. /\ IsSeq(Undecoded(b))
        /\ \A k \in DOMAIN Undecoded(b) : \E j \in DOMAIN b : Undecoded(b)[k] = b[j]
    BY <2>1, RestElements DEF Undecoded
  <2> QED
    BY <2>2, CarriedWithin
<1>4. LET k == [l EXCEPT !.unparsed = Undecoded(b)]
      IN IsLayer(k) /\ k.unparsed = Undecoded(b)
  BY DEF IsLayer
<1> QED
  BY <1>2, <1>3, <1>4 DEF FromBytes

(***************************************************************************)
(* What a machine reads was in flight, and so is what is left.             *)
(***************************************************************************)
LEMMA EventInFlight ==
  ASSUME NEW l, NEW in, Stream(l, in), CanRead(l, in)
  PROVE  LET got == ReadEvent(l, in)
         IN /\ Stream(got.layer, got.in)
            /\ InFlight(got.layer, got.in) \subseteq InFlight(l, in)
            /\ CarriedBy(got.in) \subseteq InFlight(l, in) /\ SoundRecords(got.in)
            /\ got.kind = "event" => got.msg \in InFlight(l, in)
<1>1. CASE Decodable(l.unparsed)
  <2>1. ReadEvent(l, in) = FromBytes(l, in)
    BY <1>1 DEF ReadEvent
  <2> QED
    BY <1>1, <2>1, BytesInFlight DEF Stream, InFlight
<1>2. CASE ~Decodable(l.unparsed)
  <2>1. in # <<>> /\ IsSeq(in) /\ IsLayer(l) /\ IsSeq(l.unparsed)
    BY <1>2 DEF CanRead, Stream, SoundRecords
  <2> DEFINE r == Head(in)
             got == Read(l, r)
             bytes == [got.layer EXCEPT !.unparsed = @ \o r.body]
             rest == Tail(in)
  <2>2. /\ SoundRecords(rest) /\ CarriedBy(rest) \subseteq CarriedBy(in)
        /\ IsSeq(r.body) /\ (r.outer # "ccs" => r.body # <<>>)
        /\ Carried(r.body) \subseteq CarriedBy(in)
    <3>1. /\ IsSeq(rest) /\ \A i \in DOMAIN rest : \E j \in DOMAIN in : rest[i] = in[j]
          /\ 1 \in DOMAIN in /\ r = in[1]
      BY <2>1, TailElements
    <3> HIDE DEF rest, r
    <3>2. SoundRecords(rest) /\ IsSeq(r.body) /\ (r.outer # "ccs" => r.body # <<>>)
      BY <3>1 DEF Stream, SoundRecords
    <3>3. CarriedBy(rest) \subseteq CarriedBy(in) /\ Carried(r.body) \subseteq CarriedBy(in)
      BY <3>1 DEF CarriedBy
    <3> QED
      BY <3>2, <3>3
  <2>3. IsLayer(got.layer) /\ got.layer.unparsed = l.unparsed
    <3>1. IsLayer(got.layer)
      BY <2>1, ReadKeepsKey
    <3>2. \/ got.layer = l
          \/ got.layer = [l EXCEPT !.seq = @ + 1, !.skip = FALSE]
          \/ got.layer = [l EXCEPT !.skip = FALSE]
      BY DEF Read, ReadEncrypted, ReadPlaintext
    <3> HIDE DEF got
    <3> QED
      BY <2>1, <3>1, <3>2 DEF IsLayer
  <2>4. got.kind = "ok" => r.outer # "ccs"
    BY DEF Read, ReadEncrypted, ReadPlaintext
  <2> HIDE DEF got
  <2>5. IsLayer(bytes) /\ bytes.unparsed = l.unparsed \o r.body
    <3>1. \A k, u : IsLayer(k) => LET m == [k EXCEPT !.unparsed = u]
                                 IN IsLayer(m) /\ m.unparsed = u
      BY DEF IsLayer
    <3> DEFINE k == got.layer
               u == k.unparsed \o r.body
    <3>2. IsLayer(k) /\ u = l.unparsed \o r.body /\ bytes = [k EXCEPT !.unparsed = u]
      BY <2>3
    <3> HIDE DEF k, u, r, bytes
    <3> QED
      BY <3>1, <3>2
  <2>6. ReadEvent(l, in) =
          LET Result(kind, msg) == [kind |-> kind, msg |-> msg,
                                    layer |-> got.layer, in |-> rest]
          IN CASE got.kind # "ok" -> Result(got.kind, NoMessage)
               [] got.kind = "ok" /\ ContentType(r.body) # "handshake" ->
                    IF HasUnparsed(l) THEN Result("bad", NoMessage)
                    ELSE [Result("event", r.body[1]) EXCEPT
                            !.in = IF r.body[1].type = "CloseNotify" THEN <<>> ELSE @]
               [] OTHER ->
                    IF Decodable(bytes.unparsed) THEN FromBytes(bytes, rest)
                    ELSE [kind |-> "skip", msg |-> NoMessage, layer |-> bytes, in |-> rest]
    BY <1>2 DEF ReadEvent, got
  <2> HIDE DEF bytes, rest, r
  <2>7. IsSeq(bytes.unparsed) /\ Carried(bytes.unparsed) \subseteq InFlight(l, in)
    BY <2>1, <2>2, <2>5, CarriedConcat DEF InFlight
  <2>8. CASE got.kind # "ok"
    <3>1. LET e == ReadEvent(l, in)
          IN e.in = rest /\ e.layer = got.layer /\ e.kind = got.kind
      BY <2>6, <2>8
    <3>2. got.kind # "event"
      BY DEF got, Read, ReadEncrypted, ReadPlaintext
    <3> QED
      BY <2>1, <2>2, <2>3, <3>1, <3>2 DEF Stream, InFlight
  <2>9. CASE got.kind = "ok" /\ ContentType(r.body) # "handshake"
    <3>1. LET e == ReadEvent(l, in)
          IN /\ e.in = rest \/ e.in = <<>>
             /\ e.layer = got.layer /\ (e.kind = "event" => e.msg = r.body[1])
      BY <2>6, <2>9
    <3>2. r.body[1] \in Carried(r.body)
      <4>1. 1 \in DOMAIN r.body
        BY <2>2, <2>4, <2>9, TailElements
      <4> QED
        BY <4>1, CarriedElement
    <3>3. SoundRecords(<<>>) /\ CarriedBy(<<>>) = {}
      BY TupleIsSeq DEF SoundRecords, CarriedBy
    <3> QED
      BY <2>1, <2>2, <2>3, <3>1, <3>2, <3>3 DEF Stream, InFlight
  <2>10. CASE got.kind = "ok" /\ ContentType(r.body) = "handshake"
    <3>1. CASE Decodable(bytes.unparsed)
      <4>1. ReadEvent(l, in) = FromBytes(bytes, rest)
        BY <2>6, <2>10, <3>1
      <4> DEFINE e == FromBytes(bytes, rest)
      <4>2. /\ e.in = rest /\ IsLayer(e.layer) /\ IsSeq(e.layer.unparsed)
            /\ Carried(e.layer.unparsed) \subseteq Carried(bytes.unparsed)
            /\ e.kind = "event" => e.msg \in Carried(bytes.unparsed)
        BY <2>5, <2>7, <3>1, BytesInFlight
      <4> HIDE DEF e
      <4> QED
        BY <2>2, <2>7, <4>1, <4>2 DEF Stream, InFlight, e
    <3>2. CASE ~Decodable(bytes.unparsed)
      <4>1. LET e == ReadEvent(l, in)
            IN e.in = rest /\ e.layer = bytes /\ e.kind = "skip"
        BY <2>6, <2>10, <3>2
      <4> QED
        BY <2>2, <2>5, <2>7, <4>1 DEF Stream, InFlight
    <3> QED
      BY <3>1, <3>2
  <2> QED
    BY <2>8, <2>9, <2>10
<1> QED
  BY <1>1, <1>2

-----------------------------------------------------------------------------
(* What is sent.                                                           *)

LEMMA SentIs ==
  ASSUME NEW a, NEW b, IsSeq(a), IsSeq(b)
  PROVE  Sent(a, a \o b) = b
<1> DEFINE Els == {a[i] : i \in DOMAIN a} \cup {b[i] : i \in DOMAIN b}
           c == Sent(a, a \o b)
<1>1. a \in Seq(Els) /\ b \in Seq(Els)
  BY DEF IsSeq
<1> HIDE DEF Els
<1>2. /\ c \in Seq(Els) /\ Len(c) = Len(b)
      /\ \A i \in 1 .. Len(b) : c[i] = b[i]
  BY <1>1 DEF Sent
<1> QED
  BY <1>1, <1>2, SeqEqual

LEMMA StreamGrows ==
  ASSUME NEW l, NEW a, NEW b, Stream(l, a), SoundRecords(b)
  PROVE  /\ Stream(l, a \o b)
         /\ InFlight(l, a \o b) \subseteq InFlight(l, a) \cup CarriedBy(b)
<1>1. IsSeq(a) /\ IsSeq(b)
  BY DEF Stream, SoundRecords
<1>2. IsSeq(a \o b) /\ \A i \in DOMAIN (a \o b) : \/ \E j \in DOMAIN a : (a \o b)[i] = a[j]
                                                 \/ \E j \in DOMAIN b : (a \o b)[i] = b[j]
  BY <1>1, ConcatSeq, IndexOfConcat
<1> DEFINE c == a \o b
<1> HIDE DEF c
<1>3. SoundRecords(c)
  BY <1>2 DEF Stream, SoundRecords, c
<1>4. CarriedBy(c) \subseteq CarriedBy(a) \cup CarriedBy(b)
  BY <1>2 DEF CarriedBy, c
<1> QED
  BY <1>3, <1>4 DEF Stream, InFlight, c

-----------------------------------------------------------------------------
(* Records, and what they carry.                                           *)

LEMMA NoRecords ==
  SoundRecords(<<>>) /\ CarriedBy(<<>>) = {} /\ Carried(<<>>) = {}
BY TupleIsSeq DEF SoundRecords, CarriedBy, Carried

LEMMA CCSRecord ==
  SoundRecords(<<CCS>>) /\ CarriedBy(<<CCS>>) = {}
<1>1. CCS.outer = "ccs" /\ CCS.body = <<>>
  BY DEF CCS
<1>2. IsSeq(<<CCS>>) /\ DOMAIN <<CCS>> = {1} /\ <<CCS>>[1] = CCS
  BY TupleIsSeq
<1> QED
  BY <1>1, <1>2, TupleIsSeq, NoRecords DEF SoundRecords, CarriedBy

LEMMA OneRecord ==
  ASSUME NEW l, NEW body, IsSeq(body), body # <<>>
  PROVE  /\ SoundRecords(<<Seal(l, body)>>)
         /\ CarriedBy(<<Seal(l, body)>>) = Carried(body)
<1> DEFINE r == Seal(l, body)
<1>1. r.body = body
  BY DEF Seal
<1> HIDE DEF r
<1>2. IsSeq(<<r>>) /\ DOMAIN <<r>> = {1} /\ <<r>>[1] = r
  BY TupleIsSeq
<1>3. SoundRecords(<<r>>)
  BY <1>1, <1>2 DEF SoundRecords
<1>4. CarriedBy(<<r>>) = Carried(body)
  BY <1>1, <1>2 DEF CarriedBy
<1> QED
  BY <1>3, <1>4 DEF r

LEMMA OneMessage ==
  ASSUME NEW l, NEW m, m.type # "Front"
  PROVE  SoundRecords(<<Seal(l, <<m>>)>>) /\ CarriedBy(<<Seal(l, <<m>>)>>) = {m}
<1>1. IsSeq(<<m>>) /\ <<m>> # <<>>
  BY TupleIsSeq
<1>2. DOMAIN <<m>> = {1} /\ <<m>>[1] = m
  OBVIOUS
<1>3. Carried(<<m>>) = {m}
  BY <1>2 DEF Carried
<1> QED
  BY <1>1, <1>3, OneRecord

LEMMA SoundConcat ==
  ASSUME NEW a, NEW b, SoundRecords(a), SoundRecords(b)
  PROVE  /\ SoundRecords(a \o b)
         /\ CarriedBy(a \o b) \subseteq CarriedBy(a) \cup CarriedBy(b)
<1>1. IsSeq(a) /\ IsSeq(b)
  BY DEF SoundRecords
<1> DEFINE c == a \o b
<1>2. IsSeq(c) /\ \A i \in DOMAIN c : \/ \E j \in DOMAIN a : c[i] = a[j]
                                      \/ \E j \in DOMAIN b : c[i] = b[j]
  BY <1>1, ConcatSeq, IndexOfConcat
<1> HIDE DEF c
<1>3. SoundRecords(c)
  BY <1>2 DEF SoundRecords
<1>4. CarriedBy(c) \subseteq CarriedBy(a) \cup CarriedBy(b)
  BY <1>2 DEF CarriedBy
<1> QED
  BY <1>3, <1>4 DEF c

(* A new layer has nothing left to decode.                                 *)
LEMMA FreshLayer ==
  ASSUME NEW l, NEW in, IsLayer(l), l.unparsed = <<>>, SoundRecords(in)
  PROVE  Stream(l, in) /\ InFlight(l, in) = CarriedBy(in)
BY NoRecords, TupleIsSeq DEF Stream, InFlight

LEMMA EmptyLayers ==
  /\ IsLayer(NoLayer) /\ NoLayer.unparsed = <<>>
  /\ \A skip : IsLayer(PlainLayer(skip)) /\ PlainLayer(skip).unparsed = <<>>
BY DEF IsLayer, NoLayer, PlainLayer, Layer
-----------------------------------------------------------------------------
(* The two machines are instances: their copies of the operators of        *)
(* Messages and RecordLayer are those operators.                           *)
LEMMA ServerWords ==
  /\ S!None = None
  /\ S!NoPsk = NoPsk
  /\ S!NoCookie = NoCookie
  /\ \A level, side, gen, ctx :
       S!Key(level, side, gen, ctx) =
         Key(level, side, gen, ctx)
  /\ S!PlainKey = PlainKey
  /\ \A key, skip : S!Layer(key, skip) = Layer(key, skip)
  /\ S!NoLayer = NoLayer
  /\ \A skip : S!PlainLayer(skip) = PlainLayer(skip)
  /\ \A layer : S!HasLayer(layer) = HasLayer(layer)
  /\ \A layer, body : S!Seal(layer, body) = Seal(layer, body)
  /\ \A layer : S!Sealed(layer) = Sealed(layer)
  /\ S!CCS = CCS
  /\ \A m : S!Front(m) = Front(m)
  /\ S!Back = Back
  /\ \A layer : S!HasUnparsed(layer) = HasUnparsed(layer)
  /\ \A layer, in : S!CanRead(layer, in) = CanRead(layer, in)
  /\ \A layer, in : S!ReadEvent(layer, in) = ReadEvent(layer, in)
  /\ \A m : S!Digest(m) = Digest(m)
  /\ \A t, m : S!AppendToTranscript(t, m) = AppendToTranscript(t, m)
  /\ \A t, ms : S!Digests(t, ms) = Digests(t, ms)
  /\ \A t : S!MessageHash(t) = MessageHash(t)
  /\ \A version, cipher, group, session, cookie :
       S!HelloRetryRequest(version, cipher, group, session, cookie) =
         HelloRetryRequest(version, cipher, group, session, cookie)
  /\ \A version, cipher, group, psk, session :
       S!ServerHello(version, cipher, group, psk, session) =
         ServerHello(version, cipher, group, psk, session)
  /\ \A alpn, early :
       S!EncryptedExtensions(alpn, early) =
         EncryptedExtensions(alpn, early)
  /\ S!CertificateRequest = CertificateRequest
  /\ \A kind : S!Certificate(kind) = Certificate(kind)
  /\ \A kind : S!CompressedCertificate(kind) = CompressedCertificate(kind)
  /\ \A over, scheme :
       S!CertificateVerify(over, scheme) =
         CertificateVerify(over, scheme)
  /\ \A verify : S!Finished(verify) = Finished(verify)
  /\ \A early : S!NewSessionTicket(early) = NewSessionTicket(early)
  /\ \A requested : S!KeyUpdate(requested) = KeyUpdate(requested)
  /\ \A d : S!AppData(d) = AppData(d)
  /\ \A description : S!Alert(description) = Alert(description)
  /\ S!CloseNotify = CloseNotify
  /\ \A checks : S!FirstHit(checks) = FirstHit(checks)
  /\ \A prefs, offered : S!Prefer(prefs, offered) = Prefer(prefs, offered)
  /\ \A what, data : S!Call(what, data) = Call(what, data)
  /\ \A calls, what : S!Told(calls, what) = Told(calls, what)
<1>1. S!None = None
  BY DEF S!None, None
<1>2. S!NoPsk = NoPsk
  BY DEF S!NoPsk, NoPsk, S!None, None
<1>3. S!NoCookie = NoCookie
  BY DEF S!NoCookie, NoCookie, S!None, None
<1>4. \A level, side, gen, ctx :
        S!Key(level, side, gen, ctx) =
          Key(level, side, gen, ctx)
  BY DEF S!Key, Key
<1>5. S!PlainKey = PlainKey
  BY DEF S!PlainKey, PlainKey, S!Key, Key
<1>6. \A key, skip : S!Layer(key, skip) = Layer(key, skip)
  BY DEF S!Layer, Layer
<1>7. S!NoLayer = NoLayer
  BY DEF S!NoLayer, NoLayer, S!Layer, Layer, S!Key, Key, S!None, None
<1>8. \A skip : S!PlainLayer(skip) = PlainLayer(skip)
  BY DEF S!PlainLayer, PlainLayer, S!Layer, Layer, S!PlainKey, PlainKey, S!Key, Key
<1>9. \A layer : S!HasLayer(layer) = HasLayer(layer)
  BY DEF S!HasLayer, HasLayer, S!None, None
<1>10. \A layer, body : S!Seal(layer, body) = Seal(layer, body)
  BY DEF S!Seal, Seal, S!Encrypts, Encrypts, S!ContentType, ContentType,
         S!AlertTypes, AlertTypes, S!Alert, Alert, S!CloseNotify, CloseNotify,
         S!AppData, AppData
<1>11. \A layer : S!Sealed(layer) = Sealed(layer)
  BY DEF S!Sealed, Sealed, S!Encrypts, Encrypts
<1>12. S!CCS = CCS
  BY DEF S!CCS, CCS, S!PlainKey, PlainKey, S!Key, Key
<1>13. \A m : S!Front(m) = Front(m)
  BY DEF S!Front, Front
<1>14. S!Back = Back
  BY DEF S!Back, Back
<1>15. \A layer : S!HasUnparsed(layer) = HasUnparsed(layer)
  BY DEF S!HasUnparsed, HasUnparsed
<1>16. \A layer, in : S!CanRead(layer, in) = CanRead(layer, in)
  BY DEF S!CanRead, CanRead, S!HasLayer, HasLayer, S!None, None, S!Decodable,
         Decodable, S!Front, Front
<1>17. \A layer, in : S!ReadEvent(layer, in) = ReadEvent(layer, in)
  BY DEF S!ReadEvent, ReadEvent, S!Decodable, Decodable, S!Front, Front,
         S!FromBytes, FromBytes, S!Malformed, Malformed, S!Back, Back, S!NoMessage,
         NoMessage, S!Decoded, Decoded, S!Undecoded, Undecoded, S!Read, Read,
         S!Encrypts, Encrypts, S!ReadEncrypted, ReadEncrypted, S!Opens, Opens,
         S!ReadPlaintext, ReadPlaintext, S!ContentType, ContentType, S!AlertTypes,
         AlertTypes, S!Alert, Alert, S!CloseNotify, CloseNotify, S!AppData,
         AppData, S!HasUnparsed, HasUnparsed
<1>18. \A m : S!Digest(m) = Digest(m)
  BY DEF S!Digest, Digest, S!Finished, Finished, S!CertificateVerify,
         CertificateVerify
<1>19. \A t, m : S!AppendToTranscript(t, m) = AppendToTranscript(t, m)
  BY DEF S!AppendToTranscript, AppendToTranscript, S!Digest, Digest, S!Finished,
         Finished, S!CertificateVerify, CertificateVerify
<1>20. \A t, ms : S!Digests(t, ms) = Digests(t, ms)
  BY DEF S!Digests, Digests, S!Digest, Digest, S!Finished, Finished,
         S!CertificateVerify, CertificateVerify
<1>21. \A t : S!MessageHash(t) = MessageHash(t)
  BY DEF S!MessageHash, MessageHash
<1>22. \A version, cipher, group, session, cookie :
        S!HelloRetryRequest(version, cipher, group, session, cookie) =
          HelloRetryRequest(version, cipher, group, session, cookie)
  BY DEF S!HelloRetryRequest, HelloRetryRequest, S!None, None
<1>23. \A version, cipher, group, psk, session :
        S!ServerHello(version, cipher, group, psk, session) =
          ServerHello(version, cipher, group, psk, session)
  BY DEF S!ServerHello, ServerHello, S!None, None
<1>24. \A alpn, early :
        S!EncryptedExtensions(alpn, early) =
          EncryptedExtensions(alpn, early)
  BY DEF S!EncryptedExtensions, EncryptedExtensions, S!None, None
<1>25. S!CertificateRequest = CertificateRequest
  BY DEF S!CertificateRequest, CertificateRequest, S!None, None
<1>26. \A kind : S!Certificate(kind) = Certificate(kind)
  BY DEF S!Certificate, Certificate
<1>27. \A kind : S!CompressedCertificate(kind) = CompressedCertificate(kind)
  BY DEF S!CompressedCertificate, CompressedCertificate
<1>28. \A over, scheme :
        S!CertificateVerify(over, scheme) =
          CertificateVerify(over, scheme)
  BY DEF S!CertificateVerify, CertificateVerify
<1>29. \A verify : S!Finished(verify) = Finished(verify)
  BY DEF S!Finished, Finished
<1>30. \A early : S!NewSessionTicket(early) = NewSessionTicket(early)
  BY DEF S!NewSessionTicket, NewSessionTicket
<1>31. \A requested : S!KeyUpdate(requested) = KeyUpdate(requested)
  BY DEF S!KeyUpdate, KeyUpdate
<1>32. \A d : S!AppData(d) = AppData(d)
  BY DEF S!AppData, AppData
<1>33. \A description : S!Alert(description) = Alert(description)
  BY DEF S!Alert, Alert
<1>34. S!CloseNotify = CloseNotify
  BY DEF S!CloseNotify, CloseNotify
<1>35. \A checks : S!FirstHit(checks) = FirstHit(checks)
  BY DEF S!FirstHit, FirstHit
<1>36. \A prefs, offered : S!Prefer(prefs, offered) = Prefer(prefs, offered)
  BY DEF S!Prefer, Prefer, S!None, None
<1>37. \A what, data : S!Call(what, data) = Call(what, data)
  BY DEF S!Call, Call
<1>38. \A calls, what : S!Told(calls, what) = Told(calls, what)
  BY DEF S!Told, Told
<1> QED
  BY <1>1, <1>2, <1>3, <1>4, <1>5, <1>6, <1>7, <1>8, <1>9, <1>10, <1>11,
     <1>12, <1>13, <1>14, <1>15, <1>16, <1>17, <1>18, <1>19, <1>20, <1>21,
     <1>22, <1>23, <1>24, <1>25, <1>26, <1>27, <1>28, <1>29, <1>30, <1>31,
     <1>32, <1>33, <1>34, <1>35, <1>36, <1>37, <1>38

LEMMA ClientWords ==
  /\ C!None = None
  /\ C!NoPsk = NoPsk
  /\ C!NoCookie = NoCookie
  /\ \A level, side, gen, ctx :
       C!Key(level, side, gen, ctx) =
         Key(level, side, gen, ctx)
  /\ C!PlainKey = PlainKey
  /\ \A key, skip : C!Layer(key, skip) = Layer(key, skip)
  /\ C!NoLayer = NoLayer
  /\ \A skip : C!PlainLayer(skip) = PlainLayer(skip)
  /\ \A layer : C!HasLayer(layer) = HasLayer(layer)
  /\ \A layer, body : C!Seal(layer, body) = Seal(layer, body)
  /\ \A layer : C!Sealed(layer) = Sealed(layer)
  /\ C!CCS = CCS
  /\ \A layer : C!HasUnparsed(layer) = HasUnparsed(layer)
  /\ \A layer, in : C!CanRead(layer, in) = CanRead(layer, in)
  /\ \A layer, in : C!ReadEvent(layer, in) = ReadEvent(layer, in)
  /\ \A m : C!Digest(m) = Digest(m)
  /\ \A t, m : C!AppendToTranscript(t, m) = AppendToTranscript(t, m)
  /\ \A t, ms : C!Digests(t, ms) = Digests(t, ms)
  /\ \A t : C!MessageHash(t) = MessageHash(t)
  /\ \A kind : C!Certificate(kind) = Certificate(kind)
  /\ \A over, scheme :
       C!CertificateVerify(over, scheme) =
         CertificateVerify(over, scheme)
  /\ \A verify : C!Finished(verify) = Finished(verify)
  /\ \A requested : C!KeyUpdate(requested) = KeyUpdate(requested)
  /\ \A d : C!AppData(d) = AppData(d)
  /\ \A description : C!Alert(description) = Alert(description)
  /\ C!CloseNotify = CloseNotify
  /\ \A checks : C!FirstHit(checks) = FirstHit(checks)
  /\ \A what, data : C!Call(what, data) = Call(what, data)
  /\ \A calls, what : C!Told(calls, what) = Told(calls, what)
  /\ C!EndOfEarlyData = EndOfEarlyData
<1>1. C!None = None
  BY DEF C!None, None
<1>2. C!NoPsk = NoPsk
  BY DEF C!NoPsk, NoPsk, C!None, None
<1>3. C!NoCookie = NoCookie
  BY DEF C!NoCookie, NoCookie, C!None, None
<1>4. \A level, side, gen, ctx :
        C!Key(level, side, gen, ctx) =
          Key(level, side, gen, ctx)
  BY DEF C!Key, Key
<1>5. C!PlainKey = PlainKey
  BY DEF C!PlainKey, PlainKey, C!Key, Key
<1>6. \A key, skip : C!Layer(key, skip) = Layer(key, skip)
  BY DEF C!Layer, Layer
<1>7. C!NoLayer = NoLayer
  BY DEF C!NoLayer, NoLayer, C!Layer, Layer, C!Key, Key, C!None, None
<1>8. \A skip : C!PlainLayer(skip) = PlainLayer(skip)
  BY DEF C!PlainLayer, PlainLayer, C!Layer, Layer, C!PlainKey, PlainKey, C!Key, Key
<1>9. \A layer : C!HasLayer(layer) = HasLayer(layer)
  BY DEF C!HasLayer, HasLayer, C!None, None
<1>10. \A layer, body : C!Seal(layer, body) = Seal(layer, body)
  BY DEF C!Seal, Seal, C!Encrypts, Encrypts, C!ContentType, ContentType,
         C!AlertTypes, AlertTypes, C!Alert, Alert, C!CloseNotify, CloseNotify,
         C!AppData, AppData
<1>11. \A layer : C!Sealed(layer) = Sealed(layer)
  BY DEF C!Sealed, Sealed, C!Encrypts, Encrypts
<1>12. C!CCS = CCS
  BY DEF C!CCS, CCS, C!PlainKey, PlainKey, C!Key, Key
<1>13. \A layer : C!HasUnparsed(layer) = HasUnparsed(layer)
  BY DEF C!HasUnparsed, HasUnparsed
<1>14. \A layer, in : C!CanRead(layer, in) = CanRead(layer, in)
  BY DEF C!CanRead, CanRead, C!HasLayer, HasLayer, C!None, None, C!Decodable,
         Decodable, C!Front, Front
<1>15. \A layer, in : C!ReadEvent(layer, in) = ReadEvent(layer, in)
  BY DEF C!ReadEvent, ReadEvent, C!Decodable, Decodable, C!Front, Front,
         C!FromBytes, FromBytes, C!Malformed, Malformed, C!Back, Back, C!NoMessage,
         NoMessage, C!Decoded, Decoded, C!Undecoded, Undecoded, C!Read, Read,
         C!Encrypts, Encrypts, C!ReadEncrypted, ReadEncrypted, C!Opens, Opens,
         C!ReadPlaintext, ReadPlaintext, C!ContentType, ContentType, C!AlertTypes,
         AlertTypes, C!Alert, Alert, C!CloseNotify, CloseNotify, C!AppData,
         AppData, C!HasUnparsed, HasUnparsed
<1>16. \A m : C!Digest(m) = Digest(m)
  BY DEF C!Digest, Digest, C!Finished, Finished, C!CertificateVerify,
         CertificateVerify
<1>17. \A t, m : C!AppendToTranscript(t, m) = AppendToTranscript(t, m)
  BY DEF C!AppendToTranscript, AppendToTranscript, C!Digest, Digest, C!Finished,
         Finished, C!CertificateVerify, CertificateVerify
<1>18. \A t, ms : C!Digests(t, ms) = Digests(t, ms)
  BY DEF C!Digests, Digests, C!Digest, Digest, C!Finished, Finished,
         C!CertificateVerify, CertificateVerify
<1>19. \A t : C!MessageHash(t) = MessageHash(t)
  BY DEF C!MessageHash, MessageHash
<1>20. \A kind : C!Certificate(kind) = Certificate(kind)
  BY DEF C!Certificate, Certificate
<1>21. \A over, scheme :
        C!CertificateVerify(over, scheme) =
          CertificateVerify(over, scheme)
  BY DEF C!CertificateVerify, CertificateVerify
<1>22. \A verify : C!Finished(verify) = Finished(verify)
  BY DEF C!Finished, Finished
<1>23. \A requested : C!KeyUpdate(requested) = KeyUpdate(requested)
  BY DEF C!KeyUpdate, KeyUpdate
<1>24. \A d : C!AppData(d) = AppData(d)
  BY DEF C!AppData, AppData
<1>25. \A description : C!Alert(description) = Alert(description)
  BY DEF C!Alert, Alert
<1>26. C!CloseNotify = CloseNotify
  BY DEF C!CloseNotify, CloseNotify
<1>27. \A checks : C!FirstHit(checks) = FirstHit(checks)
  BY DEF C!FirstHit, FirstHit
<1>28. \A what, data : C!Call(what, data) = Call(what, data)
  BY DEF C!Call, Call
<1>29. \A calls, what : C!Told(calls, what) = Told(calls, what)
  BY DEF C!Told, Told
<1>30. C!EndOfEarlyData = EndOfEarlyData
  BY DEF C!EndOfEarlyData, EndOfEarlyData
<1> QED
  BY <1>1, <1>2, <1>3, <1>4, <1>5, <1>6, <1>7, <1>8, <1>9, <1>10, <1>11,
     <1>12, <1>13, <1>14, <1>15, <1>16, <1>17, <1>18, <1>19, <1>20, <1>21,
     <1>22, <1>23, <1>24, <1>25, <1>26, <1>27, <1>28, <1>29, <1>30

-----------------------------------------------------------------------------
(* What a transcript shows.                                                *)

(* The place of the ServerHello: after one ClientHello, or after the hash  *)
(* of the first one, the HelloRetryRequest and the second ClientHello.     *)
HelloAt(t) == IF t[1].type = "MessageHash" THEN 4 ELSE 2

(* What is negotiated is what the ServerHello says.                        *)
HelloOutcome(t, n) ==
  LET sh == t[HelloAt(t)]
  IN /\ Len(t) >= HelloAt(t)
     /\ n.version = sh.version /\ n.cipher = sh.cipher /\ n.group = sh.group
     /\ n.kex = IF sh.group = None THEN "None"
                ELSE IF t[1].type = "MessageHash" THEN "HelloRetryRequest" ELSE "OneRtt"
     /\ n.pskType = "Resumption" <=> sh.psk
     /\ n.pskMode = IF ~sh.psk THEN None
                    ELSE IF sh.group = None THEN "psk_ke" ELSE "psk_dhe_ke"

(* And what the EncryptedExtensions after it say.                          *)
ExtensionsOutcome(t, n) ==
  /\ Len(t) > HelloAt(t)
  /\ n.alpn = t[HelloAt(t) + 1].alpn
  /\ n.early = "Accepted" <=> t[HelloAt(t) + 1].early

Outcome(t, n) == HelloOutcome(t, n) /\ ExtensionsOutcome(t, n)

(* The client is authenticated by the ticket that was taken, or by a       *)
(* signature after the server's Finished, where the transcript app ends.   *)
StoredAuth(t) == t[HelloAt(t)].psk /\ t[HelloAt(t) - 1].psk.clientCert
SignedAfter(t, n) == \E k \in DOMAIN t : k > n /\ t[k].type = "CertificateVerify"
Authenticated(t, app) == StoredAuth(app) \/ SignedAfter(t, Len(app))

(* What a transcript keeps of a Finished.                                  *)
FinishedDigest == [type |-> "Finished"]

-----------------------------------------------------------------------------
(* The inductive invariant.                                                *)

ServerTypes ==
  /\ IsSeq(sout) /\ IsSeq(scalls) /\ IsSeq(strans) /\ IsSeq(ssched.appCtx)
  /\ IsLayer(shs) /\ shs.unparsed = <<>>
  /\ Stream(sread, sin)
  /\ DOMAIN sneg = DOMAIN S!NothingNegotiated
  /\ DOMAIN ssched = DOMAIN S!NoSecrets
  /\ sctx.pskModes \in Seq({"psk_ke", "psk_dhe_ke"})

(***************************************************************************)
(* The server: before its flight it has no application secret, and after   *)
(* a HelloRetryRequest its transcript is the hash and that message; from   *)
(* its flight on, what it negotiated is what the transcript of the secret  *)
(* shows, and it has a certificate of the client exactly if the transcript *)
(* authenticates one.                                                      *)
(***************************************************************************)
ServerInv ==
  /\ sstate \in {"Uninitialized", "ExpectingClientHello"} =>
       /\ ssched.appCtx = <<>> /\ sneg.early # "Accepted"
       /\ \/ strans = <<>> /\ sneg.kex = None /\ sneg.early = None
          \/ /\ Len(strans) = 2 /\ strans[1].type = "MessageHash"
             /\ sneg.kex = "HelloRetryRequest"
  /\ sstate \in {"AcceptingEarlyData", "ExpectingCertificate",
                 "ExpectingCertificateVerify", "ExpectingFinished", "AcceptingData"} =>
       ssched.appCtx # <<>>
  /\ ssched.appCtx # <<>> =>
       /\ Outcome(ssched.appCtx, sneg)
       /\ Len(strans) >= Len(ssched.appCtx)
       /\ scert <=> Authenticated(strans, ssched.appCtx)
  /\ ServerDone => sstate \in {"AcceptingData", "ExpectingCloseNotify", "Closed", "Error"}

ClientTypes ==
  /\ IsSeq(cout) /\ IsSeq(ccalls) /\ IsSeq(ctrans)
  /\ Stream(cread, cin)
  /\ DOMAIN cneg = DOMAIN C!NothingNegotiated
  /\ DOMAIN csched = DOMAIN C!NoSecrets
  /\ DOMAIN coffer = DOMAIN C!NothingOffered

(***************************************************************************)
(* The client: while it waits for a ServerHello the hello it would hash is *)
(* the one with the ticket it has offered; once it has hashed the          *)
(* ServerHello and the EncryptedExtensions, what it negotiated is what     *)
(* they say; a client that is done kept that in its application secret.    *)
(***************************************************************************)
ClientInv ==
  /\ cstate = "Uninitialized" =>
       ctrans = <<>> /\ cneg.kex = None
  /\ cstate = "ExpectingServerHello" =>
       /\ cneg.early # "Accepted"
       /\ \/ /\ ctrans = <<>> /\ cneg.kex = None
             /\ IsSeq(coffer.hello) /\ Len(coffer.hello) = 1
             /\ coffer.hello[1].type = "ClientHello" /\ coffer.hello[1].psk = coffer.psk
          \/ /\ Len(ctrans) = 3 /\ ctrans[1].type = "MessageHash"
             /\ ctrans[3].psk = coffer.psk /\ cneg.kex = "HelloRetryRequest"
  /\ cstate = "ExpectingEncryptedExtensions" =>
       cneg.early # "Accepted" /\ Len(ctrans) = HelloAt(ctrans)
  /\ cstate \in {"ExpectingEncryptedExtensions", "ExpectingCertificate",
                 "ExpectingCertificateVerify", "ExpectingFinished"} =>
       HelloOutcome(ctrans, cneg) /\ (cauth = "Stored" <=> StoredAuth(ctrans))
  /\ cstate \in {"ExpectingCertificate", "ExpectingCertificateVerify", "ExpectingFinished"} =>
       ExtensionsOutcome(ctrans, cneg)
  /\ ClientDone =>
       /\ cstate \in {"Established", "ExpectingCloseNotify", "Closed", "Error"}
       /\ Outcome(csched.appCtx, cneg)
       /\ cauth \in {"Sent", "Stored"} <=> Authenticated(ctrans, csched.appCtx)

(* What the server is committed to by a message it has sent.               *)
FromServer(m) ==
  /\ m.type = "HelloRetryRequest" => m.cookie = NoCookie
  /\ m.type = "Finished" =>
       ssched.appCtx # <<>> /\ ssched.appCtx = Append(m.verify, FinishedDigest)

(* What the client is committed to by a message it has sent.               *)
FromClient(m) ==
  /\ m.type = "ClientHello" => m.cookie = NoCookie
  /\ m.type = "Finished" => ClientDone /\ ctrans = Append(m.verify, FinishedDigest)

(* The two together.                                                       *)
JointInv ==
  /\ \A m \in InFlight(cread, cin) : FromServer(m)
  /\ \A m \in InFlight(sread, sin) : FromClient(m)
  /\ ClientDone => csched.appCtx = ssched.appCtx /\ ssched.appCtx # <<>>
  /\ ServerDone => ClientDone /\ strans = ctrans

IInv == ServerTypes /\ ServerInv /\ ClientTypes /\ ClientInv /\ JointInv

-----------------------------------------------------------------------------
(***************************************************************************)
(* What a step of the server amounts to for the connection.                *)
(***************************************************************************)
ServerStep ==
  /\ ServerTypes' /\ ServerInv'
  /\ InFlight(sread', sin') \subseteq InFlight(sread, sin)
  /\ \E x : /\ sout' = sout \o x /\ SoundRecords(x)
            /\ \A m \in CarriedBy(x) : FromServer(m)'
  /\ ssched.appCtx # <<>> => ssched'.appCtx = ssched.appCtx
  /\ ServerDone' =>
       \/ ServerDone /\ strans' = strans
       \/ \E m \in InFlight(sread, sin) :
            m.type = "Finished" /\ strans' = Append(m.verify, FinishedDigest)

(* Messages that commit their sender to nothing.                           *)
NeutralTypes == {"Alert", "AppData", "NewSessionTicket", "KeyUpdate", "CloseNotify"}

(* A step that neither negotiates nor hashes anything.                     *)
ServerQuiet ==
  /\ UNCHANGED <<sctx, shs, sneg, strans, scert>>
  /\ DOMAIN ssched' = DOMAIN ssched /\ ssched'.appCtx = ssched.appCtx
  /\ Stream(sread', sin') /\ InFlight(sread', sin') \subseteq InFlight(sread, sin)
  /\ \/ sout' = sout
     \/ \E l, m : m.type \in NeutralTypes /\ sout' = Append(sout, Seal(l, <<m>>))
  /\ \/ scalls' = scalls
     \/ \E w, d : w # "HandshakeSuccess" /\ scalls' = Append(scalls, Call(w, d))
  /\ \/ sstate' = sstate
     \/ sstate' \in {"ExpectingCloseNotify", "Closed", "Error"}
     \/ sstate = "Uninitialized" /\ sstate' = "ExpectingClientHello"

(* A stream that at most one neutral message is added to.                  *)
LEMMA NeutralRecord ==
  ASSUME NEW s, NEW u, IsSeq(s),
         u = s \/ \E l, m : m.type \in NeutralTypes /\ u = Append(s, Seal(l, <<m>>))
  PROVE  /\ IsSeq(u)
         /\ \E x : /\ u = s \o x /\ SoundRecords(x)
                   /\ \A m \in CarriedBy(x) : m.type \in NeutralTypes
<1>1. CASE u = s
  <2>1. s \o <<>> = s
    <3>1. s \in Seq({s[i] : i \in DOMAIN s})
      BY DEF IsSeq
    <3> QED
      BY <3>1
  <2> QED
    BY <1>1, <2>1, NoRecords
<1>2. CASE \E l, m : m.type \in NeutralTypes /\ u = Append(s, Seal(l, <<m>>))
  <2>1. PICK l, m : m.type \in NeutralTypes /\ u = Append(s, Seal(l, <<m>>))
    BY <1>2
  <2>2. u = s \o <<Seal(l, <<m>>)>> /\ IsSeq(u)
    BY <2>1, AppendAsConcat, AppendSeq
  <2>3. m.type # "Front"
    BY <2>1 DEF NeutralTypes
  <2> DEFINE x == <<Seal(l, <<m>>)>>
  <2>4. SoundRecords(x) /\ CarriedBy(x) = {m}
    BY <2>3, OneMessage
  <2> HIDE DEF x
  <2>5. \A k \in CarriedBy(x) : k.type \in NeutralTypes
    BY <2>1, <2>4
  <2> QED
    BY <2>2, <2>4, <2>5 DEF x
<1> QED
  BY <1>1, <1>2

(* A list of calls that at most one call is added to, and not this one.    *)
LEMMA ToldOther ==
  ASSUME NEW c, NEW u, NEW what, IsSeq(c),
         u = c \/ \E w, d : w # what /\ u = Append(c, Call(w, d))
  PROVE  IsSeq(u) /\ (Told(u, what) <=> Told(c, what))
<1>1. CASE u = c
  BY <1>1
<1>2. CASE \E w, d : w # what /\ u = Append(c, Call(w, d))
  <2>1. PICK w, d : w # what /\ u = Append(c, Call(w, d))
    BY <1>2
  <2> QED
    BY <2>1, ToldAppend, AppendSeq
<1> QED
  BY <1>1, <1>2

LEMMA ServerQuietStep ==
  ASSUME ServerTypes, ServerInv, ServerQuiet
  PROVE  ServerStep
<1>1. IsSeq(sout) /\ IsSeq(scalls)
  BY DEF ServerTypes
<1>2. /\ IsSeq(sout')
      /\ \E x : /\ sout' = sout \o x /\ SoundRecords(x)
                /\ \A m \in CarriedBy(x) : m.type \in NeutralTypes
  BY <1>1, NeutralRecord DEF ServerQuiet
<1>3. \E x : /\ sout' = sout \o x /\ SoundRecords(x)
             /\ \A m \in CarriedBy(x) : FromServer(m)'
  BY <1>2 DEF NeutralTypes, FromServer
<1>4. IsSeq(scalls') /\ (ServerDone' <=> ServerDone)
  BY <1>1, ToldOther DEF ServerQuiet, ServerDone
<1>5. ServerTypes'
  BY <1>2, <1>4 DEF ServerTypes, ServerQuiet
<1>6. ServerInv'
  BY <1>4 DEF ServerInv, ServerQuiet
<1> QED
  BY <1>3, <1>4, <1>5, <1>6 DEF ServerStep, ServerQuiet

(* The event of a machine comes out of what is in flight to it.            *)
LEMMA ServerEvent ==
  ASSUME ServerTypes, CanRead(sread, sin)
  PROVE  /\ Stream(S!ev.layer, S!ev.in) /\ SoundRecords(S!ev.in)
         /\ InFlight(S!ev.layer, S!ev.in) \subseteq InFlight(sread, sin)
         /\ CarriedBy(S!ev.in) \subseteq InFlight(sread, sin)
         /\ S!ev.kind = "event" => S!ev.msg \in InFlight(sread, sin)
<1>1. S!ev = ReadEvent(sread, sin)
  BY ServerWords DEF S!ev
<1>2. Stream(sread, sin)
  BY DEF ServerTypes
<1> QED
  BY <1>1, <1>2, EventInFlight

(* What the server does when it reads at all.                              *)
ServerConsumes ==
  SoundRecords(sin') /\ CarriedBy(sin') \subseteq InFlight(sread, sin)

LEMMA ServerErrorStep ==
  ASSUME ServerTypes, ServerInv, NEW d, S!HandleError(d), ServerConsumes
  PROVE  ServerStep
<1>1. /\ sstate' = "Error" /\ sread' = NoLayer
      /\ sout' = sout \/ sout' = Append(sout, Seal(swrite, <<Alert(d)>>))
      /\ scalls' = Append(scalls, Call("Error", 0))
      /\ UNCHANGED <<sctx, shs, sneg, strans, ssched, scert>>
  BY ServerWords DEF S!HandleError, S!Tell, S!hsVars
<1>2. Alert(d).type \in NeutralTypes
  BY DEF Alert, NeutralTypes
<1>3. Stream(sread', sin') /\ InFlight(sread', sin') \subseteq InFlight(sread, sin)
  BY <1>1, EmptyLayers, FreshLayer DEF ServerConsumes
<1>4. "Error" # "HandshakeSuccess"
  OBVIOUS
<1>5. ServerQuiet
  BY <1>1, <1>2, <1>3, <1>4 DEF ServerQuiet
<1> QED
  BY <1>5, ServerQuietStep

(* A step that leaves the negotiation alone and reads on, by its parts.    *)
LEMMA ServerKeepsSecrets ==
  ASSUME ServerTypes,
         \/ ssched' = ssched
         \/ \E g : ssched' = [ssched EXCEPT !.clientGen = g]
         \/ \E g : ssched' = [ssched EXCEPT !.serverGen = g]
         \/ \E g, h : ssched' = [ssched EXCEPT !.clientGen = g, !.serverGen = h]
  PROVE  DOMAIN ssched' = DOMAIN ssched /\ ssched'.appCtx = ssched.appCtx
<1>1. "appCtx" \in DOMAIN ssched
  BY DEF ServerTypes, S!NoSecrets
<1> QED
  BY <1>1

LEMMA ServerReadsNothing ==
  ASSUME ServerTypes
  PROVE  SoundRecords(sin) /\ CarriedBy(sin) \subseteq InFlight(sread, sin)
BY DEF ServerTypes, Stream, InFlight

LEMMA ServerQuietReads ==
  ASSUME ServerTypes, ServerInv,
         \/ S!UnexpectedEvent \/ S!BadRecord \/ S!NoRecordLayer
         \/ S!RecordWithoutEvent \/ S!HandleAppData \/ S!HandleKeyUpdate
         \/ S!HandleCloseNotify
  PROVE  ServerStep
<1>1. CASE S!UnexpectedEvent \/ S!BadRecord
  <2>1. CanRead(sread, sin) /\ sin' = S!ev.in /\ \E d : S!HandleError(d)
    BY <1>1, ServerWords DEF S!UnexpectedEvent, S!BadRecord, S!HandleInvalidEvent
  <2> QED
    BY <2>1, ServerEvent, ServerErrorStep DEF ServerConsumes
<1>2. CASE S!NoRecordLayer
  <2>1. sin' = sin /\ \E d : S!HandleError(d)
    BY <1>2 DEF S!NoRecordLayer
  <2> QED
    BY <2>1, ServerReadsNothing, ServerErrorStep DEF ServerConsumes
<1>3. CASE S!RecordWithoutEvent
  <2>1. /\ CanRead(sread, sin) /\ sin' = S!ev.in /\ sread' = S!ev.layer
        /\ UNCHANGED <<sctx, sstate, shs, sneg, strans, ssched, scert, sout, scalls>>
    BY <1>3, ServerWords DEF S!RecordWithoutEvent, S!hsVars
  <2> QED
    BY <2>1, ServerEvent, ServerQuietStep DEF ServerQuiet
<1>4. CASE S!HandleAppData
  <2>1. /\ CanRead(sread, sin) /\ sin' = S!ev.in /\ sread' = S!ev.layer
        /\ scalls' = Append(scalls, Call("Deliver", S!ev.msg.data))
        /\ UNCHANGED <<sctx, sstate, shs, sneg, strans, ssched, scert, sout>>
    BY <1>4, ServerWords DEF S!HandleAppData, S!Event, S!hsVars
  <2>2. "Deliver" # "HandshakeSuccess"
    OBVIOUS
  <2> QED
    BY <2>1, <2>2, ServerEvent, ServerQuietStep DEF ServerQuiet
<1>5. CASE S!HandleKeyUpdate
  <2>1. CanRead(sread, sin) /\ sin' = S!ev.in
    BY <1>5, ServerWords DEF S!HandleKeyUpdate, S!Event
  <2>2. ServerConsumes
    BY <2>1, ServerEvent DEF ServerConsumes
  <2>3. CASE \E d : S!HandleError(d)
    BY <2>2, <2>3, ServerErrorStep
  <2>4. CASE ~\E d : S!HandleError(d)
    <3>1. /\ sread' = Layer(Key("App", "client", ssched.clientGen + 1, ssched.appCtx), FALSE)
          /\ \/ sout' = sout
             \/ sout' = Append(sout, Seal(swrite, <<KeyUpdate(FALSE)>>))
          /\ \/ \E g : ssched' = [ssched EXCEPT !.clientGen = g]
             \/ \E g, h : ssched' = [ssched EXCEPT !.clientGen = g, !.serverGen = h]
          /\ UNCHANGED <<sctx, sstate, shs, sneg, strans, scert, scalls>>
      <4>1. CASE S!ev.msg.requested
        BY <1>5, <2>4, <4>1, ServerWords
           DEF S!HandleKeyUpdate, S!RekeyWrite, S!AppReadLayer
      <4>2. CASE ~S!ev.msg.requested
        BY <1>5, <2>4, <4>2, ServerWords DEF S!HandleKeyUpdate, S!AppReadLayer
      <4> QED
        BY <4>1, <4>2
    <3>2. Stream(sread', sin') /\ InFlight(sread', sin') \subseteq InFlight(sread, sin)
      <4> DEFINE l == Layer(Key("App", "client", ssched.clientGen + 1, ssched.appCtx), FALSE)
      <4>1. IsLayer(l) /\ l.unparsed = <<>>
        BY NewLayer, ZenonT(60)
      <4>2. sread' = l
        BY <3>1
      <4> HIDE DEF l
      <4> QED
        BY <2>2, <4>1, <4>2, FreshLayer DEF ServerConsumes
    <3>3. KeyUpdate(FALSE).type \in NeutralTypes
      BY DEF KeyUpdate, NeutralTypes
    <3>4. DOMAIN ssched' = DOMAIN ssched /\ ssched'.appCtx = ssched.appCtx
      BY <3>1, ServerKeepsSecrets
    <3>5. ServerQuiet
      BY <3>1, <3>2, <3>3, <3>4 DEF ServerQuiet
    <3> QED
      BY <3>5, ServerQuietStep
  <2> QED
    BY <2>3, <2>4
<1>6. CASE S!HandleCloseNotify
  <2>1. /\ CanRead(sread, sin) /\ sin' = S!ev.in /\ sread' = NoLayer
        /\ sout' = sout \/ sout' = Append(sout, Seal(swrite, <<CloseNotify>>))
        /\ scalls' = Append(scalls, Call("EndOfData", 0)) /\ sstate' = "Closed"
        /\ UNCHANGED <<sctx, shs, sneg, strans, ssched, scert>>
    BY <1>6, ServerWords DEF S!HandleCloseNotify, S!Event, S!Tell, S!hsVars
  <2>2. "EndOfData" # "HandshakeSuccess" /\ CloseNotify.type \in NeutralTypes
    BY DEF CloseNotify, NeutralTypes
  <2>3. Stream(sread', sin') /\ InFlight(sread', sin') \subseteq InFlight(sread, sin)
    BY <2>1, ServerEvent, EmptyLayers, FreshLayer
  <2>4. ServerQuiet
    BY <2>1, <2>2, <2>3 DEF ServerQuiet
  <2> QED
    BY <2>4, ServerQuietStep
<1> QED
  BY <1>1, <1>2, <1>3, <1>4, <1>5, <1>6

LEMMA ServerAsked ==
  ASSUME ServerTypes, ServerInv, sin' = sin,
         \/ S!Accept \/ S!AppWrite \/ S!AppClose \/ S!AppCloseImmediate
         \/ \E result \in TicketResults : S!WriteNewSessionTicket(result)
         \/ \E requested \in BOOLEAN : S!InitiateKeyUpdate(requested)
  PROVE  ServerStep
<1>0. ServerConsumes
  BY ServerReadsNothing DEF ServerConsumes
<1>1. CASE \E d : S!HandleError(d)
  BY <1>0, <1>1, ServerErrorStep
<1>2. CASE S!Accept
  <2>1. /\ sstate = "Uninitialized" /\ sstate' = "ExpectingClientHello"
        /\ sread' = PlainLayer(FALSE)
        /\ UNCHANGED <<sctx, shs, sneg, strans, ssched, scert, sout, scalls>>
    BY <1>2, ServerWords DEF S!Accept, S!hsVars
  <2>2. Stream(sread', sin') /\ InFlight(sread', sin') \subseteq InFlight(sread, sin)
    BY <1>0, <2>1, EmptyLayers, FreshLayer DEF ServerConsumes
  <2> QED
    BY <2>1, <2>2, ServerQuietStep DEF ServerQuiet
<1>3. Stream(sread, sin)
  BY DEF ServerTypes
<1>4. CASE S!AppWrite /\ ~\E d : S!HandleError(d)
  <2>1. /\ sout' = Append(sout, Seal(swrite, <<AppData(swritten + 1)>>))
        /\ UNCHANGED <<sctx, sstate, sread, shs, sneg, strans, ssched, scert, scalls>>
    BY <1>4, ServerWords DEF S!AppWrite, S!HandleInvalidEvent, S!hsVars
  <2>2. AppData(swritten + 1).type \in NeutralTypes
    BY DEF AppData, NeutralTypes
  <2> QED
    BY <1>3, <2>1, <2>2, ServerQuietStep DEF ServerQuiet
<1>5. CASE /\ \E result \in TicketResults : S!WriteNewSessionTicket(result)
           /\ ~\E d : S!HandleError(d)
  <2>1. /\ \/ sout' = sout
           \/ sout' = Append(sout, Seal(swrite, <<NewSessionTicket(sctx.acceptEarly)>>))
        /\ UNCHANGED <<sctx, sstate, sread, shs, sneg, strans, ssched, scert, scalls>>
    BY <1>5, ServerWords
       DEF S!WriteNewSessionTicket, S!HandleInvalidEvent, S!WriteTicket, S!hsVars
  <2>2. NewSessionTicket(sctx.acceptEarly).type \in NeutralTypes
    BY DEF NewSessionTicket, NeutralTypes
  <2> QED
    BY <1>3, <2>1, <2>2, ServerQuietStep DEF ServerQuiet
<1>6. CASE /\ \E requested \in BOOLEAN : S!InitiateKeyUpdate(requested)
           /\ ~\E d : S!HandleError(d)
  <2>1. PICK requested \in BOOLEAN : S!InitiateKeyUpdate(requested)
    BY <1>6
  <2>2. /\ sout' = Append(sout, Seal(swrite, <<KeyUpdate(requested)>>))
        /\ \E g : ssched' = [ssched EXCEPT !.serverGen = g]
        /\ UNCHANGED <<sctx, sstate, sread, shs, sneg, strans, scert, scalls>>
    BY <1>6, <2>1, ServerWords DEF S!InitiateKeyUpdate, S!HandleInvalidEvent, S!RekeyWrite
  <2>3. KeyUpdate(requested).type \in NeutralTypes
    BY DEF KeyUpdate, NeutralTypes
  <2>4. DOMAIN ssched' = DOMAIN ssched /\ ssched'.appCtx = ssched.appCtx
    BY <2>2, ServerKeepsSecrets
  <2> QED
    BY <1>3, <2>2, <2>3, <2>4, ServerQuietStep DEF ServerQuiet
<1>7. CASE S!AppClose \/ S!AppCloseImmediate
  <2>1. /\ sout' = sout \/ sout' = Append(sout, Seal(swrite, <<CloseNotify>>))
        /\ sread' = sread \/ sread' = NoLayer
        /\ sstate' \in {"ExpectingCloseNotify", "Closed"}
        /\ UNCHANGED <<sctx, shs, sneg, strans, ssched, scert, scalls>>
    BY <1>7, ServerWords DEF S!AppClose, S!AppCloseImmediate, S!hsVars
  <2>2. CloseNotify.type \in NeutralTypes
    BY DEF CloseNotify, NeutralTypes
  <2>3. Stream(sread', sin') /\ InFlight(sread', sin') \subseteq InFlight(sread, sin)
    BY <1>0, <1>3, <2>1, EmptyLayers, FreshLayer DEF ServerConsumes
  <2>4. ServerQuiet
    BY <2>1, <2>2, <2>3 DEF ServerQuiet
  <2> QED
    BY <2>4, ServerQuietStep
<1> QED
  BY <1>1, <1>2, <1>4, <1>5, <1>6, <1>7

-----------------------------------------------------------------------------
(* The server hashes a message of the client's second flight.              *)

LEMMA SignedAppend ==
  ASSUME NEW t, NEW x, NEW n \in Nat, IsSeq(t), n <= Len(t)
  PROVE  SignedAfter(Append(t, x), n) <=>
           SignedAfter(t, n) \/ x.type = "CertificateVerify"
<1>1. /\ DOMAIN t = 1 .. Len(t) /\ Len(t) \in Nat
      /\ DOMAIN Append(t, x) = 1 .. Len(t) + 1
      /\ \A i \in 1 .. Len(t) : Append(t, x)[i] = t[i]
      /\ Append(t, x)[Len(t) + 1] = x
  BY AppendSeq, IsSeqDomain
<1> DEFINE u == Append(t, x)
<1> HIDE DEF u
<1>2. ASSUME SignedAfter(u, n) PROVE SignedAfter(t, n) \/ x.type = "CertificateVerify"
  <2>1. PICK k \in DOMAIN u : k > n /\ u[k].type = "CertificateVerify"
    BY <1>2 DEF SignedAfter
  <2>2. CASE k \in 1 .. Len(t)
    BY <1>1, <2>1, <2>2 DEF SignedAfter, u
  <2>3. CASE k = Len(t) + 1
    BY <1>1, <2>1, <2>3 DEF u
  <2> QED
    BY <1>1, <2>1, <2>2, <2>3 DEF u
<1>3. ASSUME SignedAfter(t, n) PROVE SignedAfter(u, n)
  <2>1. PICK k \in 1 .. Len(t) : k > n /\ t[k].type = "CertificateVerify"
    BY <1>1, <1>3 DEF SignedAfter
  <2>2. k \in DOMAIN u /\ u[k] = t[k]
    BY <1>1 DEF u
  <2> QED
    BY <2>1, <2>2 DEF SignedAfter
<1>4. ASSUME x.type = "CertificateVerify" PROVE SignedAfter(u, n)
  <2>1. Len(t) + 1 \in DOMAIN u /\ Len(t) + 1 > n /\ u[Len(t) + 1] = x
    BY <1>1 DEF u
  <2> QED
    BY <1>4, <2>1 DEF SignedAfter
<1> QED
  BY <1>2, <1>3, <1>4 DEF u

LEMMA DigestType ==
  ASSUME NEW m
  PROVE  /\ Digest(m).type = m.type
         /\ m.type = "Finished" => Digest(m) = FinishedDigest
BY DEF Digest, FinishedDigest

LEMMA ServerHashes ==
  ASSUME ServerTypes, ServerInv, ssched.appCtx # <<>>, NEW m,
         strans' = AppendToTranscript(strans, m), ssched' = ssched, sneg' = sneg,
         scert' <=> scert \/ m.type = "CertificateVerify"
  PROVE  /\ IsSeq(strans') /\ Len(strans') >= Len(ssched.appCtx)
         /\ Outcome(ssched'.appCtx, sneg')
         /\ scert' <=> Authenticated(strans', ssched'.appCtx)
<1>1. /\ Outcome(ssched.appCtx, sneg) /\ Len(strans) >= Len(ssched.appCtx)
      /\ scert <=> Authenticated(strans, ssched.appCtx)
  BY DEF ServerInv
<1>2. /\ IsSeq(strans) /\ Len(strans) \in Nat /\ Len(ssched.appCtx) \in Nat
  BY IsSeqDomain DEF ServerTypes
<1>3. strans' = Append(strans, Digest(m))
  BY DEF AppendToTranscript
<1>4. IsSeq(strans') /\ Len(strans') = Len(strans) + 1
  BY <1>2, <1>3, AppendSeq
<1>5. SignedAfter(strans', Len(ssched.appCtx)) <=>
        SignedAfter(strans, Len(ssched.appCtx)) \/ m.type = "CertificateVerify"
  BY <1>1, <1>2, <1>3, SignedAppend, DigestType
<1>6. Len(strans') >= Len(ssched.appCtx)
  BY <1>1, <1>2, <1>4
<1> QED
  BY <1>1, <1>4, <1>5, <1>6 DEF Authenticated

(* The states in which the server reads the client's second flight.        *)
ServerWaits == {"AcceptingEarlyData", "ExpectingCertificate",
                "ExpectingCertificateVerify", "ExpectingFinished"}

LEMMA ServerHashStep ==
  ASSUME ServerTypes, ServerInv, NEW m, sstate \in ServerWaits, sstate' \in ServerWaits,
         strans' = AppendToTranscript(strans, m),
         UNCHANGED <<sctx, ssched, sneg, sout, scalls>>,
         scert' <=> scert \/ m.type = "CertificateVerify",
         shs' = shs \/ shs' = NoLayer,
         Stream(sread', sin'), InFlight(sread', sin') \subseteq InFlight(sread, sin)
  PROVE  ServerStep
<1>1. ssched.appCtx # <<>>
  BY DEF ServerInv, ServerWaits
<1>2. /\ IsSeq(strans') /\ Len(strans') >= Len(ssched.appCtx)
      /\ Outcome(ssched'.appCtx, sneg')
      /\ scert' <=> Authenticated(strans', ssched'.appCtx)
  BY <1>1, ServerHashes
<1>3. ~ServerDone /\ ~ServerDone'
  BY DEF ServerInv, ServerDone, ServerWaits
<1>4. ServerTypes'
  BY <1>2, EmptyLayers DEF ServerTypes
<1>5. ServerInv'
  BY <1>1, <1>2, <1>3 DEF ServerInv, ServerWaits
<1>6. \E x : /\ sout' = sout \o x /\ SoundRecords(x)
             /\ \A k \in CarriedBy(x) : FromServer(k)'
  <2>1. IsSeq(sout) /\ sout' = sout
    BY DEF ServerTypes
  <2>2. PICK x : /\ sout' = sout \o x /\ SoundRecords(x)
                 /\ \A k \in CarriedBy(x) : k.type \in NeutralTypes
    BY <2>1, NeutralRecord
  <2>3. \A k \in CarriedBy(x) : FromServer(k)'
    BY <2>2 DEF NeutralTypes, FromServer
  <2> QED
    BY <2>2, <2>3
<1> QED
  BY <1>3, <1>4, <1>5, <1>6 DEF ServerStep

LEMMA ServerAuthReads ==
  ASSUME ServerTypes, ServerInv,
         \/ S!HandleEndOfEarlyData \/ S!HandleCertificate
         \/ \E trusted \in Verdicts : S!HandleCertificateVerify(trusted)
  PROVE  ServerStep
<1>1. /\ CanRead(sread, sin) /\ sin' = S!ev.in /\ S!ev.kind = "event"
      /\ S!HandleEndOfEarlyData => S!ev.msg.type = "EndOfEarlyData"
      /\ S!HandleCertificate => S!ev.msg.type = "Certificate"
      /\ (\E trusted \in Verdicts : S!HandleCertificateVerify(trusted)) =>
           S!ev.msg.type = "CertificateVerify"
      /\ sstate \in ServerWaits
  BY ServerWords DEF S!HandleEndOfEarlyData, S!HandleCertificate,
       S!HandleCertificateVerify, S!Event, ServerWaits
<1>2. /\ Stream(S!ev.layer, sin') /\ ServerConsumes
      /\ InFlight(S!ev.layer, sin') \subseteq InFlight(sread, sin)
  BY <1>1, ServerEvent DEF ServerConsumes
<1>3. CASE \E d : S!HandleError(d)
  BY <1>2, <1>3, ServerErrorStep
<1>4. CASE S!HandleEndOfEarlyData /\ ~\E d : S!HandleError(d)
  <2>1. /\ strans' = AppendToTranscript(strans, S!ev.msg) /\ sread' = shs
        /\ shs' = NoLayer /\ sstate' = "ExpectingFinished"
        /\ UNCHANGED <<sctx, sneg, ssched, scert, sout, scalls>>
    BY <1>4, ServerWords DEF S!HandleEndOfEarlyData
  <2>2. Stream(sread', sin') /\ InFlight(sread', sin') \subseteq InFlight(sread, sin)
    BY <1>2, <2>1, FreshLayer DEF ServerTypes, ServerConsumes
  <2>3. sstate' \in ServerWaits /\ S!ev.msg.type # "CertificateVerify"
    BY <1>1, <1>4, <2>1 DEF ServerWaits
  <2> QED
    BY <1>1, <2>1, <2>2, <2>3, ServerHashStep
<1>5. CASE S!HandleCertificate /\ ~\E d : S!HandleError(d)
  <2>1. /\ strans' = AppendToTranscript(strans, S!ev.msg) /\ sread' = S!ev.layer
        /\ sstate' \in {"ExpectingFinished", "ExpectingCertificateVerify"}
        /\ UNCHANGED <<sctx, shs, sneg, ssched, scert, sout, scalls>>
    BY <1>5, ServerWords DEF S!HandleCertificate
  <2>2. sstate' \in ServerWaits /\ S!ev.msg.type # "CertificateVerify"
    BY <1>1, <1>5, <2>1 DEF ServerWaits
  <2> QED
    BY <1>1, <1>2, <2>1, <2>2, ServerHashStep
<1>6. CASE /\ \E trusted \in Verdicts : S!HandleCertificateVerify(trusted)
           /\ ~\E d : S!HandleError(d)
  <2>1. /\ strans' = AppendToTranscript(strans, S!ev.msg) /\ sread' = S!ev.layer
        /\ sstate' = "ExpectingFinished" /\ scert' = TRUE
        /\ UNCHANGED <<sctx, shs, sneg, ssched, sout, scalls>>
    BY <1>6, ServerWords DEF S!HandleCertificateVerify
  <2>2. sstate' \in ServerWaits /\ S!ev.msg.type = "CertificateVerify"
    BY <1>1, <1>6, <2>1 DEF ServerWaits
  <2> QED
    BY <1>1, <1>2, <2>1, <2>2, ServerHashStep
<1> QED
  BY <1>3, <1>4, <1>5, <1>6

LEMMA ServerFinishedStep ==
  ASSUME ServerTypes, ServerInv, NEW result, S!HandleFinished(result)
  PROVE  ServerStep
<1> DEFINE m == S!ev.msg
<1>1. /\ CanRead(sread, sin) /\ sin' = S!ev.in /\ S!ev.kind = "event"
      /\ m.type = "Finished" /\ sstate = "ExpectingFinished"
  BY ServerWords DEF S!HandleFinished, S!Event
<1>2. m \in InFlight(sread, sin) /\ ServerConsumes
  BY <1>1, ServerEvent DEF ServerConsumes
<1>3. CASE \E d : S!HandleError(d)
  BY <1>2, <1>3, ServerErrorStep
<1>4. CASE ~\E d : S!HandleError(d)
  <2> DEFINE checks == S!FinishedChecks(m, result)
             l == Layer(Key("App", "client", ssched.clientGen, ssched.appCtx), FALSE)
  <2>1. /\ strans' = AppendToTranscript(strans, m) /\ sread' = l
        /\ sstate' = "AcceptingData"
        /\ \/ sout' = sout
           \/ sout' = Append(sout, Seal(swrite, <<NewSessionTicket(sctx.acceptEarly)>>))
        /\ scalls' = Append(scalls, Call("HandshakeSuccess", 0))
        /\ UNCHANGED <<sctx, shs, sneg, ssched, scert>>
    BY <1>4, ServerWords
       DEF S!HandleFinished, S!WriteTicket, S!Tell, S!AppReadLayer
  <2>2. FirstHit(checks) = "ok"
    BY <1>4, ServerWords DEF S!HandleFinished
  <2>3. m.verify = strans
    <3>1. \A a, b, c : <<a, b, c>> \in Seq({a, b, c})
      OBVIOUS
    <3>2. IsSeq(checks)
      BY <3>1, SeqIsSeq DEF S!FinishedChecks
    <3>3. /\ DOMAIN checks = 1 .. 3
          /\ checks[1][1] = (m.verify # strans) /\ checks[1][2] # "ok"
          /\ checks[2][2] # "ok" /\ checks[3][2] # "ok"
      BY DEF S!FinishedChecks, S!None
    <3> HIDE DEF checks
    <3>4. Silent(checks)
      BY <2>2, <3>2, <3>3, FirstHitCases
    <3>5. ~checks[1][1]
      BY <3>3, <3>4 DEF Silent
    <3> QED
      BY <3>3, <3>5
  <2> HIDE DEF checks, m
  <2>4. strans' = Append(m.verify, FinishedDigest)
    BY <1>1, <2>1, <2>3, DigestType DEF AppendToTranscript
  <2>5. IsLayer(l) /\ l.unparsed = <<>>
    BY NewLayer, ZenonT(60)
  <2> HIDE DEF l
  <2>6. Stream(sread', sin') /\ InFlight(sread', sin') \subseteq InFlight(sread, sin)
    BY <1>2, <2>1, <2>5, FreshLayer DEF ServerConsumes
  <2>7. ssched.appCtx # <<>>
    BY <1>1 DEF ServerInv
  <2>8. /\ IsSeq(strans') /\ Len(strans') >= Len(ssched.appCtx)
        /\ Outcome(ssched'.appCtx, sneg')
        /\ scert' <=> Authenticated(strans', ssched'.appCtx)
    BY <1>1, <2>1, <2>7, ServerHashes
  <2>9. NewSessionTicket(sctx.acceptEarly).type \in NeutralTypes
    BY DEF NewSessionTicket, NeutralTypes
  <2>10. IsSeq(sout) /\ IsSeq(scalls)
    BY DEF ServerTypes
  <2>11. /\ IsSeq(sout')
         /\ \E x : /\ sout' = sout \o x /\ SoundRecords(x)
                   /\ \A k \in CarriedBy(x) : k.type \in NeutralTypes
    BY <2>1, <2>9, <2>10, NeutralRecord
  <2>12. \E x : /\ sout' = sout \o x /\ SoundRecords(x)
                /\ \A k \in CarriedBy(x) : FromServer(k)'
    BY <2>11 DEF NeutralTypes, FromServer
  <2>13. IsSeq(scalls')
    BY <2>1, <2>10, AppendSeq
  <2>14. ServerTypes'
    BY <2>1, <2>6, <2>8, <2>11, <2>13 DEF ServerTypes
  <2>15. ServerInv'
    BY <2>1, <2>7, <2>8 DEF ServerInv
  <2> QED
    BY <1>1, <1>2, <2>1, <2>4, <2>6, <2>12, <2>14, <2>15 DEF ServerStep
<1> QED
  BY <1>3, <1>4

-----------------------------------------------------------------------------
(* The server answers a ClientHello.                                       *)

LEMMA ConcatAgain ==
  ASSUME NEW a, NEW b, NEW c, IsSeq(a), IsSeq(b), IsSeq(c)
  PROVE  (a \o b) \o c = a \o (b \o c)
<1> DEFINE Els == {a[i] : i \in DOMAIN a} \cup {b[i] : i \in DOMAIN b}
                  \cup {c[i] : i \in DOMAIN c}
<1>1. a \in Seq(Els) /\ b \in Seq(Els) /\ c \in Seq(Els)
  BY DEF IsSeq
<1> HIDE DEF Els
<1> QED
  BY <1>1, ConcatAssociative

(* The records of a hello and the CCS that may follow it.                  *)
LEMMA HelloRecords ==
  ASSUME NEW s, NEW l, NEW m, NEW b, IsSeq(s), m.type # "Front", b \in {<<CCS>>, <<>>}
  PROVE  LET x == <<Seal(l, <<m>>)>> \o b
         IN /\ s \o <<Seal(l, <<m>>)>> \o b = s \o x
            /\ SoundRecords(x) /\ CarriedBy(x) \subseteq {m}
<1> DEFINE a == <<Seal(l, <<m>>)>>
<1>1. SoundRecords(a) /\ CarriedBy(a) = {m}
  BY OneMessage
<1>2. SoundRecords(b) /\ CarriedBy(b) = {}
  BY CCSRecord, NoRecords
<1> HIDE DEF a
<1>3. IsSeq(a) /\ IsSeq(b)
  BY <1>1, <1>2 DEF SoundRecords
<1>4. s \o a \o b = s \o (a \o b)
  BY <1>3, ConcatAgain
<1>5. SoundRecords(a \o b) /\ CarriedBy(a \o b) \subseteq {m}
  BY <1>1, <1>2, SoundConcat
<1> QED
  BY <1>4, <1>5 DEF a

LEMMA ServerRetryStep ==
  ASSUME ServerTypes, ServerInv, ServerConsumes, sstate = "ExpectingClientHello",
         NEW ch, NEW n, S!Retry(ch, n)
  PROVE  ServerStep
<1> DEFINE hrr == HelloRetryRequest(n.version, n.cipher, n.group, ch.session, NoCookie)
           early == IF n.early = "Accepted" THEN "Rejected" ELSE n.early
           before == MessageHash(Append(S!HelloContext(ch), ch))
           b == IF ch.session THEN <<CCS>> ELSE <<>>
           x == <<Seal(swrite, <<hrr>>)>> \o b
<1>1. /\ strans' = <<before, hrr>>
      /\ sneg' = [sneg EXCEPT !.version = n.version, !.cipher = n.cipher,
                              !.group = n.group, !.kex = "HelloRetryRequest",
                              !.early = early, !.replay = n.replay]
      /\ sread' = PlainLayer(early = "Rejected")
      /\ sout' = sout \o <<Seal(swrite, <<hrr>>)>> \o b
      /\ UNCHANGED <<sctx, sstate, shs, ssched, scert, scalls>>
  BY ServerWords DEF S!Retry
<1>2. /\ hrr.type = "HelloRetryRequest" /\ hrr.cookie = NoCookie
      /\ before.type = "MessageHash"
  BY DEF HelloRetryRequest, MessageHash
<1>3. early # "Accepted"
  OBVIOUS
<1>4. IsSeq(sout)
  BY DEF ServerTypes
<1> HIDE DEF hrr, early, before
<1>5. sout' = sout \o x /\ SoundRecords(x) /\ CarriedBy(x) \subseteq {hrr}
  <2>1. hrr.type # "Front"
    BY <1>2
  <2>2. b \in {<<CCS>>, <<>>}
    OBVIOUS
  <2> HIDE DEF b
  <2>3. /\ sout \o <<Seal(swrite, <<hrr>>)>> \o b = sout \o x
        /\ SoundRecords(x) /\ CarriedBy(x) \subseteq {hrr}
    BY <1>4, <2>1, <2>2, HelloRecords
  <2> QED
    BY <1>1, <2>3
<1> HIDE DEF x
<1>6. /\ IsSeq(strans') /\ Len(strans') = 2 /\ strans'[1].type = "MessageHash"
  BY <1>1, <1>2, TupleIsSeq
<1>7. /\ DOMAIN sneg' = DOMAIN sneg /\ sneg'.kex = "HelloRetryRequest"
      /\ sneg'.early # "Accepted"
  <2>1. {"version", "cipher", "group", "kex", "early", "replay"} \subseteq DOMAIN sneg
    BY DEF ServerTypes, S!NothingNegotiated
  <2> QED
    BY <1>1, <1>3, <2>1
<1>8. Stream(sread', sin') /\ InFlight(sread', sin') \subseteq InFlight(sread, sin)
  BY <1>1, EmptyLayers, FreshLayer DEF ServerConsumes
<1>9. \A m \in CarriedBy(x) : FromServer(m)'
  BY <1>2, <1>5 DEF FromServer
<1>10. IsSeq(sout')
  BY <1>4, <1>5, ConcatSeq DEF SoundRecords
<1>11. ssched.appCtx = <<>> /\ ~ServerDone /\ ~ServerDone'
  BY <1>1 DEF ServerInv, ServerDone
<1>12. ServerTypes'
  BY <1>1, <1>6, <1>7, <1>8, <1>10 DEF ServerTypes
<1>13. ServerInv'
  BY <1>1, <1>6, <1>7, <1>11 DEF ServerInv
<1> QED
  BY <1>5, <1>8, <1>9, <1>11, <1>12, <1>13 DEF ServerStep

(* The messages hashed by Digests.                                         *)
LEMMA DigestsAt ==
  ASSUME NEW t, NEW ms, IsSeq(t), IsSeq(ms)
  PROVE  /\ IsSeq(Digests(t, ms)) /\ Len(Digests(t, ms)) = Len(t) + Len(ms)
         /\ \A i \in 1 .. Len(t) : Digests(t, ms)[i] = t[i]
         /\ \A i \in 1 .. Len(ms) : Digests(t, ms)[Len(t) + i] = Digest(ms[i])
<1> DEFINE d == [i \in DOMAIN ms |-> Digest(ms[i])]
           R == {Digest(ms[i]) : i \in DOMAIN ms}
<1>1. DOMAIN ms = 1 .. Len(ms) /\ Len(ms) \in Nat
  BY IsSeqDomain
<1>2. d \in [1 .. Len(ms) -> R] /\ \A i \in 1 .. Len(ms) : d[i] = Digest(ms[i])
  BY <1>1
<1>3. Digests(t, ms) = t \o d
  BY DEF Digests
<1> HIDE DEF d, R
<1>4. d \in Seq(R) /\ Len(d) = Len(ms)
  BY <1>1, <1>2
<1>5. IsSeq(d)
  BY <1>4, SeqIsSeq
<1> DEFINE u == t \o d
<1>6. /\ IsSeq(u) /\ Len(u) = Len(t) + Len(d)
      /\ \A i \in 1 .. Len(t) : u[i] = t[i]
      /\ \A i \in 1 .. Len(d) : u[Len(t) + i] = d[i]
  BY <1>5, ConcatSeq
<1> HIDE DEF u
<1> QED
  BY <1>2, <1>3, <1>4, <1>6 DEF u

(* A transcript that a ClientHello and a ServerHello are added to.         *)
LEMMA TwoHellos ==
  ASSUME NEW c, NEW ch, NEW sh, IsSeq(c)
  PROVE  LET t == c \o <<ch, sh>>
         IN /\ IsSeq(t) /\ Len(t) = Len(c) + 2
            /\ \A i \in 1 .. Len(c) : t[i] = c[i]
            /\ t[Len(c) + 1] = ch /\ t[Len(c) + 2] = sh
<1> DEFINE two == <<ch, sh>>
<1>1. IsSeq(two) /\ Len(two) = 2 /\ two[1] = ch /\ two[2] = sh
  BY TupleIsSeq
<1> HIDE DEF two
<1> DEFINE t == c \o two
<1>2. /\ IsSeq(t) /\ Len(t) = Len(c) + Len(two)
      /\ \A i \in 1 .. Len(c) : t[i] = c[i]
      /\ \A i \in 1 .. Len(two) : t[Len(c) + i] = two[i]
  <2>1. IsSeq(two)
    BY <1>1
  <2> QED
    BY <2>1, ConcatSeq
<1> HIDE DEF t
<1>3. t[Len(c) + 1] = ch /\ t[Len(c) + 2] = sh
  <2>1. 1 \in 1 .. Len(two) /\ 2 \in 1 .. Len(two)
    BY <1>1
  <2> QED
    BY <1>1, <1>2, <2>1
<1>4. Len(t) = Len(c) + 2
  BY <1>1, <1>2
<1> QED
  BY <1>2, <1>3, <1>4 DEF t, two

(* What a transcript shows: the two hellos, and the message after them.    *)
ShowsHellos(app, c, ch, sh, ee) ==
  /\ IsSeq(app) /\ Len(app) > HelloAt(app) /\ Len(app) > 2
  /\ app[1].type = "MessageHash" <=> Len(c) # 0
  /\ app[HelloAt(app) - 1] = ch /\ app[HelloAt(app)] = sh
  /\ app[HelloAt(app) + 1] = ee

LEMMA TranscriptOfFlight ==
  ASSUME NEW c, NEW ch, NEW sh, NEW t, NEW auth, IsSeq(c), IsSeq(t), IsSeq(auth),
         Len(t) = Len(c) + 2, \A i \in 1 .. Len(c) : t[i] = c[i],
         t[Len(c) + 1] = ch, t[Len(c) + 2] = sh,
         Len(auth) >= 1, auth[1].type = "EncryptedExtensions",
         \/ Len(c) = 0 /\ ch.type = "ClientHello"
         \/ Len(c) = 2 /\ c[1].type = "MessageHash"
  PROVE  ShowsHellos(Append(Digests(t, auth), FinishedDigest), c, ch, sh, auth[1])
<1>1. Len(c) \in Nat /\ Len(auth) \in Nat
  BY IsSeqDomain
<1> DEFINE u == Digests(t, auth)
<1>2. /\ IsSeq(u) /\ Len(u) = Len(t) + Len(auth)
      /\ \A i \in 1 .. Len(t) : u[i] = t[i]
      /\ \A i \in 1 .. Len(auth) : u[Len(t) + i] = Digest(auth[i])
  BY DigestsAt
<1> HIDE DEF u
<1> DEFINE app == Append(u, FinishedDigest)
<1>3. /\ IsSeq(app) /\ Len(app) = Len(u) + 1
      /\ \A i \in 1 .. Len(u) : app[i] = u[i]
  <2>1. IsSeq(u)
    BY <1>2
  <2> QED
    BY <2>1, AppendSeq
<1> HIDE DEF app
<1>4. Digest(auth[1]) = auth[1]
  BY DEF Digest
<1>5. \A i \in 1 .. Len(t) : app[i] = t[i]
  <2>1. \A i \in 1 .. Len(t) : i \in 1 .. Len(u)
    BY <1>1, <1>2
  <2> QED
    BY <1>2, <1>3, <2>1
<1>6. app[Len(c) + 3] = auth[1]
  <2>1. 1 \in 1 .. Len(auth) /\ Len(c) + 3 \in 1 .. Len(u) /\ Len(t) + 1 = Len(c) + 3
    BY <1>1, <1>2
  <2> QED
    BY <1>2, <1>3, <1>4, <2>1
<1>7. app[Len(c) + 1] = ch /\ app[Len(c) + 2] = sh
  <2>1. Len(c) + 1 \in 1 .. Len(t) /\ Len(c) + 2 \in 1 .. Len(t)
    BY <1>1
  <2> QED
    BY <1>5, <2>1
<1>8. Len(app) = Len(c) + Len(auth) + 3
  BY <1>1, <1>2, <1>3
<1>9. CASE Len(c) = 0 /\ ch.type = "ClientHello"
  <2>1. app[1] = ch /\ app[2] = sh /\ app[3] = auth[1] /\ Len(app) > 2
    BY <1>1, <1>6, <1>7, <1>8, <1>9
  <2>2. app[1].type # "MessageHash"
    BY <1>9, <2>1
  <2>3. HelloAt(app) = 2 /\ HelloAt(app) - 1 = 1 /\ HelloAt(app) + 1 = 3
    BY <2>2 DEF HelloAt
  <2> QED
    BY <1>3, <1>9, <2>1, <2>2, <2>3 DEF app, u, ShowsHellos
<1>10. CASE Len(c) = 2 /\ c[1].type = "MessageHash"
  <2>1. app[1].type = "MessageHash"
    <3>1. 1 \in 1 .. Len(c) /\ 1 \in 1 .. Len(t)
      BY <1>10
    <3> QED
      BY <1>5, <1>10, <3>1
  <2>2. app[3] = ch /\ app[4] = sh /\ app[5] = auth[1] /\ Len(app) > 4
    BY <1>1, <1>6, <1>7, <1>8, <1>10
  <2>3. HelloAt(app) = 4 /\ HelloAt(app) - 1 = 3 /\ HelloAt(app) + 1 = 5
    BY <2>1 DEF HelloAt
  <2>4. Len(app) > 2 /\ Len(c) # 0
    BY <1>1, <1>8, <1>10
  <2> QED
    BY <1>3, <2>1, <2>2, <2>3, <2>4 DEF app, u, ShowsHellos
<1> QED
  BY <1>9, <1>10 DEF app, u

(***************************************************************************)
(* The flight is put in records of its messages, or in two of them with a  *)
(* message cut in two.                                                     *)
(***************************************************************************)
LEMMA BodyCarries ==
  ASSUME NEW M, \A p \in M : p.type # "Front", NEW N, NEW b \in Seq(N), b # <<>>,
         \A q \in N : q \in M \/ q = Back \/ \E p \in M : q = Front(p),
         NEW l
  PROVE  /\ SoundRecords(<<Seal(l, b)>>)
         /\ \A m \in CarriedBy(<<Seal(l, b)>>) :
              m \in M \/ m.type \in {"Front", "Back"}
<1>1. IsSeq(b) /\ \A k \in DOMAIN b : b[k] \in N
  BY SeqIsSeq
<1>2. SoundRecords(<<Seal(l, b)>>) /\ CarriedBy(<<Seal(l, b)>>) = Carried(b)
  BY <1>1, OneRecord
<1>3. /\ Back.type = "Back"
      /\ \A p : Front(p).type = "Front" /\ Front(p).of = p
  BY DEF Back, Front
<1>4. ASSUME NEW m \in Carried(b) PROVE m \in M \/ m.type \in {"Front", "Back"}
  <2>1. PICK k \in DOMAIN b : m = b[k] \/ (b[k].type = "Front" /\ m = b[k].of)
    BY <1>4, CarriedElement
  <2>2. b[k] \in M \/ b[k] = Back \/ \E p \in M : b[k] = Front(p)
    BY <1>1
  <2> QED
    BY <1>3, <2>1, <2>2
<1> QED
  BY <1>2, <1>4

LEMMA FlightCarries ==
  ASSUME NEW l, NEW ms, NEW large, IsSeq(ms), ms # <<>>,
         \A k \in DOMAIN ms : ms[k].type # "Front"
  PROVE  LET x == S!FlightRecords(l, ms, large)
         IN /\ SoundRecords(x)
            /\ \A m \in CarriedBy(x) :
                 (\E k \in DOMAIN ms : m = ms[k]) \/ m.type \in {"Front", "Back"}
<1> DEFINE M == {ms[k] : k \in DOMAIN ms}
           N == M \cup {Back} \cup {Front(p) : p \in M}
           chains == {i \in DOMAIN ms :
                        ms[i].type \in {"Certificate", "CompressedCertificate"}}
           cut == CHOOSE i \in chains : TRUE
           first == Append(SubSeq(ms, 1, cut - 1), Front(ms[cut]))
           second == <<Back>> \o SubSeq(ms, cut + 1, Len(ms))
<1>1. S!FlightRecords(l, ms, large) =
        IF large /\ chains # {} THEN <<Seal(l, first), Seal(Sealed(l), second)>>
        ELSE <<Seal(l, ms)>>
  BY ServerWords DEF S!FlightRecords
<1>2. ms \in Seq(M) /\ Len(ms) \in Nat /\ DOMAIN ms = 1 .. Len(ms)
  BY IsSeqDomain DEF IsSeq
<1>3. /\ \A p \in M : p.type # "Front" /\ \E k \in DOMAIN ms : p = ms[k]
      /\ \A k \in DOMAIN ms : ms[k] \in M /\ Front(ms[k]) \in N
      /\ \A q \in N : q \in M \/ q = Back \/ \E p \in M : q = Front(p)
      /\ M \subseteq N /\ Back \in N
  OBVIOUS
<1> HIDE DEF M, N
<1>4. ms \in Seq(N)
  BY <1>2, <1>3
<1>5. CASE ~(large /\ chains # {})
  <2>1. /\ SoundRecords(<<Seal(l, ms)>>)
        /\ \A m \in CarriedBy(<<Seal(l, ms)>>) : m \in M \/ m.type \in {"Front", "Back"}
    BY <1>3, <1>4, BodyCarries
  <2> QED
    BY <1>1, <1>3, <1>5, <2>1
<1>6. CASE large /\ chains # {}
  <2>1. cut \in 1 .. Len(ms)
    <3>1. cut \in chains
      BY <1>6
    <3> QED
      BY <1>2, <3>1
  <2> DEFINE x == S!FlightRecords(l, ms, large)
  <2>2. x = <<Seal(l, first), Seal(Sealed(l), second)>>
    BY <1>1, <1>6
  <2> HIDE DEF cut, x
  <2>3. first \in Seq(N) /\ first # <<>>
    <3>1. SubSeq(ms, 1, cut - 1) \in Seq(N) /\ Front(ms[cut]) \in N
      BY <1>2, <1>3, <1>4, <2>1
    <3> DEFINE a == SubSeq(ms, 1, cut - 1)
               f == Front(ms[cut])
    <3> HIDE DEF a, f
    <3>2. Append(a, f) \in Seq(N) /\ Len(Append(a, f)) > 0
      BY <3>1 DEF a, f
    <3> QED
      BY <3>2 DEF a, f
  <2>4. second \in Seq(N) /\ second # <<>>
    <3>1. SubSeq(ms, cut + 1, Len(ms)) \in Seq(N)
      BY <1>2, <1>4, <2>1
    <3> DEFINE a == SubSeq(ms, cut + 1, Len(ms))
    <3> HIDE DEF a
    <3>2. <<Back>> \in Seq(N) /\ Len(<<Back>>) = 1
      BY <1>3
    <3>3. <<Back>> \o a \in Seq(N) /\ Len(<<Back>> \o a) > 0
      BY <3>1, <3>2 DEF a
    <3> QED
      BY <3>3 DEF a
  <2> HIDE DEF first, second
  <2> DEFINE p == <<Seal(l, first)>>
             q == <<Seal(Sealed(l), second)>>
  <2>5. /\ SoundRecords(p)
        /\ \A m \in CarriedBy(p) : m \in M \/ m.type \in {"Front", "Back"}
    BY <1>3, <2>3, BodyCarries
  <2>6. /\ SoundRecords(q)
        /\ \A m \in CarriedBy(q) : m \in M \/ m.type \in {"Front", "Back"}
    BY <1>3, <2>4, BodyCarries
  <2>7. p \o q = <<Seal(l, first), Seal(Sealed(l), second)>>
    <3>1. ASSUME NEW a, NEW b PROVE Append(<<a>>, b) = <<a, b>>
      <4> DEFINE R == {a, b}
                 u == Append(<<a>>, b)
                 w == <<a, b>>
      <4>1. /\ u \in Seq(R) /\ w \in Seq(R) /\ Len(u) = 2 /\ Len(w) = 2
            /\ u[1] = w[1] /\ u[2] = w[2]
        OBVIOUS
      <4> HIDE DEF R, u, w
      <4>2. \A i \in 1 .. Len(u) : u[i] = w[i]
        BY <4>1
      <4>3. u = w
        BY <4>1, <4>2, SeqEqual
      <4> QED
        BY <4>3 DEF u, w
    <3>2. \A a, b : Append(<<a>>, b) = <<a>> \o <<b>>
      BY AppendAsConcat, TupleIsSeq
    <3> QED
      BY <3>1, <3>2
  <2>8. x = p \o q
    BY <2>2, <2>7
  <2> HIDE DEF p, q
  <2>9. SoundRecords(x) /\ CarriedBy(x) \subseteq CarriedBy(p) \cup CarriedBy(q)
    BY <2>5, <2>6, <2>8, SoundConcat
  <2>10. \A m \in CarriedBy(x) : m \in M \/ m.type \in {"Front", "Back"}
    BY <2>5, <2>6, <2>9
  <2> QED
    BY <1>3, <2>9, <2>10 DEF x
<1> QED
  BY <1>5, <1>6

(* The messages before the Finished: EncryptedExtensions first, and no     *)
(* other message that the rest of the handshake is decided by.             *)
AuthTypes == {"EncryptedExtensions", "CertificateRequest", "Certificate",
              "CompressedCertificate", "CertificateVerify"}

LEMMA ServerAuthenticates ==
  ASSUME NEW t, NEW ch, NEW n
  PROVE  LET auth == S!ServerAuthentication(t, ch, n)
         IN /\ AllTypes(auth, AuthTypes) /\ Len(auth) >= 1
            /\ auth[1] = EncryptedExtensions(n.alpn, n.early = "Accepted")
<1> DEFINE ee == EncryptedExtensions(n.alpn, n.early = "Accepted")
           request == IF S!RequestsClientAuth(n) THEN <<CertificateRequest>> ELSE <<>>
           certificate == IF sctx.compress /\ ch.compress
                          THEN CompressedCertificate("chain") ELSE Certificate("chain")
           a == <<ee>> \o request
           b == a \o <<certificate>>
           verify == CertificateVerify(t \o b, "supported")
           auth == S!ServerAuthentication(t, ch, n)
<1>1. /\ ee.type \in AuthTypes /\ certificate.type \in AuthTypes
      /\ verify.type \in AuthTypes /\ CertificateRequest.type \in AuthTypes
  BY DEF AuthTypes, EncryptedExtensions, CertificateRequest, CompressedCertificate,
         Certificate, CertificateVerify
<1>2. auth = IF n.resumed THEN <<ee>> ELSE Append(b, verify)
  BY ServerWords DEF S!ServerAuthentication
<1>3. AllTypes(request, AuthTypes)
  BY <1>1, AllTypesTuple
<1> HIDE DEF ee, request, certificate, verify, AuthTypes, auth
<1>4. AllTypes(<<ee>>, AuthTypes) /\ AllTypes(<<certificate>>, AuthTypes)
  BY <1>1, AllTypesTuple
<1>5. AllTypes(a, AuthTypes)
  BY <1>3, <1>4, AllTypesConcat
<1>6. IsSeq(<<ee>>) /\ Len(<<ee>>) = 1 /\ <<ee>>[1] = ee
  BY TupleIsSeq
<1>7. Len(a) >= 1 /\ a[1] = ee
  <2>1. IsSeq(request) /\ Len(request) \in Nat
    BY <1>3, IsSeqDomain DEF AllTypes
  <2>2. /\ Len(<<ee>> \o request) = Len(<<ee>>) + Len(request)
        /\ \A i \in 1 .. Len(<<ee>>) : (<<ee>> \o request)[i] = <<ee>>[i]
    BY <1>6, <2>1, ConcatSeq
  <2> QED
    BY <1>6, <2>1, <2>2
<1> HIDE DEF a
<1>8. AllTypes(b, AuthTypes)
  BY <1>4, <1>5, AllTypesConcat
<1>9. Len(b) >= 1 /\ b[1] = ee
  <2>1. IsSeq(<<certificate>>) /\ Len(<<certificate>>) = 1
    BY TupleIsSeq
  <2>2. IsSeq(a) /\ Len(a) \in Nat
    BY <1>5, IsSeqDomain DEF AllTypes
  <2> DEFINE d == <<certificate>>
  <2> HIDE DEF d
  <2>3. /\ Len(a \o d) = Len(a) + Len(d)
        /\ \A i \in 1 .. Len(a) : (a \o d)[i] = a[i]
    BY <2>1, <2>2, ConcatSeq DEF d
  <2>4. 1 \in 1 .. Len(a)
    BY <1>7, <2>2
  <2> QED
    BY <1>7, <2>1, <2>2, <2>3, <2>4 DEF d
<1> HIDE DEF b
<1>10. AllTypes(Append(b, verify), AuthTypes)
  BY <1>1, <1>8, AllTypesAppend
<1>11. Len(Append(b, verify)) >= 1 /\ Append(b, verify)[1] = ee
  <2>1. IsSeq(b) /\ Len(b) \in Nat
    BY <1>8, IsSeqDomain DEF AllTypes
  <2>2. /\ Len(Append(b, verify)) = Len(b) + 1
        /\ \A i \in 1 .. Len(b) : Append(b, verify)[i] = b[i]
    BY <2>1, AppendSeq
  <2>3. 1 \in 1 .. Len(b)
    BY <1>9, <2>1
  <2> QED
    BY <1>9, <2>1, <2>2, <2>3
<1>12. AllTypes(auth, AuthTypes) /\ Len(auth) >= 1 /\ auth[1] = ee
  BY <1>2, <1>4, <1>6, <1>10, <1>11
<1> QED
  BY <1>12 DEF ee, auth

(* The first of the server's modes that the client offers is one of them.  *)
LEMMA PreferIs ==
  ASSUME NEW T, NEW prefs \in Seq(T), NEW offered
  PROVE  Prefer(prefs, offered) = None \/ Prefer(prefs, offered) \in T
<1> DEFINE hits == {i \in DOMAIN prefs : prefs[i] \in offered}
<1>1. Prefer(prefs, offered) =
        IF hits = {} THEN None ELSE prefs[CHOOSE i \in hits : \A j \in hits : i <= j]
  BY DEF Prefer
<1>2. hits \subseteq DOMAIN prefs /\ hits \subseteq Nat /\ \A i \in DOMAIN prefs : prefs[i] \in T
  OBVIOUS
<1> HIDE DEF hits
<1>3. CASE hits # {}
  <2> DEFINE i == CHOOSE i \in hits : \A j \in hits : i <= j
  <2>1. i \in hits
    BY <1>2, <1>3, LeastOf
  <2> HIDE DEF i
  <2> QED
    BY <1>1, <1>2, <1>3, <2>1 DEF i
<1> QED
  BY <1>1, <1>3

(* What a ClientHello settles.                                             *)
LEMMA ServerNegotiates ==
  ASSUME ServerTypes, sneg.kex # "None", NEW ch, NEW svc, NEW n, n = S!Negotiate(ch, svc)
  PROVE  /\ n.resumed \in BOOLEAN /\ (n.pskType = "Resumption" <=> n.resumed)
         /\ ~n.resumed => n.pskMode = None
         /\ n.kex = "None" => n.group = None /\ n.resumed /\ n.pskMode = "psk_ke"
         /\ n.kex # "None" => /\ n.kex = IF sneg.kex # None THEN sneg.kex ELSE "OneRtt"
                              /\ n.resumed => n.pskMode = "psk_dhe_ke"
         /\ n.early = "Accepted" => sneg.kex # "HelloRetryRequest"
<1> DEFINE version == S!Prefer(sctx.versions, ch.versions)
           cipher == S!PreferTiered(sctx.ciphers, ch.ciphers)
           mode == Prefer(sctx.pskModes, ch.modes)
           offered == ch.psk # NoPsk
           decrypts == offered /\ sctx.ticketCipher /\ mode # None
           resumed == /\ decrypts /\ svc.ticketOk
                      /\ cipher # None
                      /\ ch.psk.version = version
                      /\ HashOf[ch.psk.cipher] = HashOf[cipher]
           checked == sctx.acceptEarly /\ sctx.replayCache /\ ch.early
           replay == IF checked THEN svc.replay ELSE "NotChecked"
           alpn == S!Prefer(sctx.alpns, ch.alpns)
           dhe == ~(resumed /\ mode = "psk_ke")
<1>1. /\ n.resumed = resumed
      /\ n.pskType = CASE resumed -> "Resumption"
                       [] offered /\ ~resumed -> "Rejected"
                       [] ~offered /\ mode # None -> "NotAttempted"
                       [] ~offered /\ mode = None -> "NotSupported"
      /\ n.pskMode = IF resumed THEN mode ELSE None
      /\ n.group = IF dhe THEN S!Prefer(sctx.groups, ch.groups) ELSE None
      /\ n.kex = CASE ~dhe -> "None"
                   [] dhe /\ sneg.kex # None -> sneg.kex
                   [] OTHER -> "OneRtt"
      /\ n.early = S!EarlyDataType(ch, resumed, cipher, alpn, replay, svc.fresh)
  <2>1. S!None = None /\ S!NoPsk = NoPsk /\ S!Prefer(sctx.pskModes, ch.modes) = mode
    BY ServerWords
  <2> QED
    BY <2>1 DEF S!Negotiate
<1>2. resumed \in BOOLEAN /\ (resumed => offered /\ mode # None)
  OBVIOUS
<1>3. mode = None \/ mode \in {"psk_ke", "psk_dhe_ke"}
  BY PreferIs DEF ServerTypes
<1>4. offered \in BOOLEAN /\ None = "none"
  BY DEF None
<1> HIDE DEF version, cipher, mode, offered, resumed, checked, replay, alpn
<1>5. n.early = "Accepted" => sneg.kex # "HelloRetryRequest"
  BY <1>1, <1>2 DEF S!EarlyDataType
<1> HIDE DEF None
<1>6. n.pskType = "Resumption" <=> resumed
  BY <1>1, <1>2, <1>4
<1>7. CASE dhe
  BY <1>1, <1>2, <1>3, <1>4, <1>5, <1>6, <1>7
<1>8. CASE ~dhe
  BY <1>1, <1>2, <1>3, <1>4, <1>5, <1>6, <1>8
<1> QED
  BY <1>7, <1>8

(* A ClientHello that passes every check has a group to exchange keys in.  *)
LEMMA HelloHasGroup ==
  ASSUME NEW ch, NEW svc, NEW n, FirstHit(S!HelloChecks(ch, svc, n)) = "ok"
  PROVE  n.kex # "None" => n.group # None
<1> DEFINE v == << <<strans # <<>> /\ S!HasCookie(ch), "illegal_parameter">>,
                   <<S!HasUnparsed(S!ev.layer), "unexpected_message">>,
                   <<S!Differs(sneg.version, n.version), "illegal_parameter">>,
                   <<n.version = S!None /\ ch.early, "protocol_version">>,
                   <<n.version = S!None,
                     IF sctx.fallback THEN "fallback" ELSE "protocol_version">>,
                   <<ch.fault = "extensions", "illegal_parameter">>,
                   <<n.cipher = S!None, "handshake_failure">>,
                   <<S!Differs(sneg.cipher, n.cipher), "illegal_parameter">> >>
           k == << <<ch.psk # S!NoPsk /\ ch.modes = {}, "missing_extension">>,
                   <<svc.fails = "ticket" /\ n.awaited, "unexpected_message">> >>
           x == << <<n.kex # "None" /\ svc.fails = "kex", "unexpected_message">> >>
           y == << <<~n.resumed /\ ch.fault = "schemes", "handshake_failure">>,
                   <<~n.resumed /\ svc.fails = "sign", "unexpected_message">> >>
           g == S!GroupChecks(ch, n)
           ok == {"ok"}
           c2 == S!CookieChecks(ch) \o v
           c3 == c2 \o S!CookieStateChecks(ch, n)
           c4 == c3 \o k
           c5 == c4 \o S!BinderChecks(ch, n)
           c6 == c5 \o S!AlpnChecks(ch, n)
           c7 == c6 \o g
           c8 == c7 \o x
           c9 == c8 \o S!SameGroupChecks(ch, n)
           c10 == c9 \o y
<1>1. FirstHit(c10) = "ok"
  BY DEF S!HelloChecks
<1>2. /\ Avoids(S!CookieChecks(ch), ok) /\ Avoids(S!CookieStateChecks(ch, n), ok)
      /\ Avoids(k, ok) /\ Avoids(S!BinderChecks(ch, n), ok)
  BY TupleIsSeq DEF S!CookieChecks, S!CookieStateChecks, S!BinderChecks, Avoids
<1>3. /\ Avoids(S!AlpnChecks(ch, n), ok) /\ Avoids(x, ok)
      /\ Avoids(S!SameGroupChecks(ch, n), ok) /\ Avoids(y, ok)
  BY TupleIsSeq DEF S!AlpnChecks, S!SameGroupChecks, Avoids
<1>4. Avoids(v, ok)
  <2>1. \A a, b, c, d, e, f, h, i :
          <<a, b, c, d, e, f, h, i>> \in Seq({a, b, c, d, e, f, h, i})
    OBVIOUS
  <2>2. \A a, b, c, d, e, f, h, i : IsSeq(<<a, b, c, d, e, f, h, i>>)
    BY <2>1, SeqIsSeq
  <2> QED
    BY <2>2 DEF Avoids
<1>5. /\ Avoids(g, ok) /\ DOMAIN g = 1 .. 5
      /\ g[2][1] = (n.kex # "None" /\ n.group = None)
  <2>1. \A a, b, c, d, e : <<a, b, c, d, e>> \in Seq({a, b, c, d, e})
    OBVIOUS
  <2>2. \A a, b, c, d, e : IsSeq(<<a, b, c, d, e>>)
    BY <2>1, SeqIsSeq
  <2> QED
    BY <2>2 DEF S!GroupChecks, Avoids, S!None, None
<1>6. "ok" \in ok
  OBVIOUS
<1> HIDE DEF v, k, x, y, g, ok
<1>7. Avoids(c2, ok)
  BY <1>2, <1>4, AvoidsConcat
<1> HIDE DEF c2
<1>8. Avoids(c3, ok)
  BY <1>2, <1>7, AvoidsConcat
<1> HIDE DEF c3
<1>9. Avoids(c4, ok)
  BY <1>2, <1>8, AvoidsConcat
<1> HIDE DEF c4
<1>10. Avoids(c5, ok)
  BY <1>2, <1>9, AvoidsConcat
<1> HIDE DEF c5
<1>11. Avoids(c6, ok)
  BY <1>3, <1>10, AvoidsConcat
<1> HIDE DEF c6
<1>12. Avoids(c7, ok)
  BY <1>5, <1>11, AvoidsConcat
<1> HIDE DEF c7
<1>13. Avoids(c8, ok)
  BY <1>3, <1>12, AvoidsConcat
<1> HIDE DEF c8
<1>14. Avoids(c9, ok)
  BY <1>3, <1>13, AvoidsConcat
<1> HIDE DEF c9
<1>15. Avoids(c10, ok)
  BY <1>3, <1>14, AvoidsConcat
<1> HIDE DEF c10
<1>16. /\ IsSeq(c6) /\ IsSeq(c7) /\ IsSeq(c8) /\ IsSeq(c9) /\ IsSeq(g) /\ IsSeq(x)
       /\ IsSeq(y) /\ IsSeq(S!SameGroupChecks(ch, n))
  BY <1>3, <1>5, <1>11, <1>12, <1>13, <1>14 DEF Avoids
<1>17. Silent(c10)
  BY <1>1, <1>6, <1>15, FirstHitAvoids
<1>18. Silent(c9)
  BY <1>16, <1>17, FirstHitConcat DEF c10
<1>19. Silent(c8)
  BY <1>16, <1>18, FirstHitConcat DEF c9
<1>20. Silent(c7)
  BY <1>16, <1>19, FirstHitConcat DEF c8
<1>21. Silent(g)
  BY <1>16, <1>20, FirstHitConcat DEF c7
<1>22. ~g[2][1]
  BY <1>5, <1>21 DEF Silent
<1> QED
  BY <1>5, <1>22

LEMMA ServerFlightStep ==
  ASSUME ServerTypes, ServerInv, ServerConsumes, sstate = "ExpectingClientHello",
         NEW ch, NEW svc, NEW n, NEW large, ch.type = "ClientHello", ch.cookie = NoCookie,
         n = S!Negotiate(ch, svc), n.kex # "None" => n.group # None,
         S!SendFlight(ch, n, large)
  PROVE  ServerStep
<1> DEFINE sh == ServerHello(n.version, n.cipher, n.group, n.resumed, ch.session)
           t == strans \o <<ch, sh>>
           auth == S!ServerAuthentication(t, ch, n)
           u == Digests(t, auth)
           fin == Finished(u)
           app == Append(u, FinishedDigest)
           b == IF ch.session THEN <<CCS>> ELSE <<>>
           hello == <<Seal(swrite, <<sh>>)>> \o b
           hsWrite == Layer(Key("Hs", "server", 0, t), FALSE)
           flight == S!FlightRecords(hsWrite, Append(auth, fin), large)
           x == hello \o flight
           early == Layer(Key("Early", "client", 0, Append(strans, ch)), FALSE)
           hs == Layer(Key("Hs", "client", 0, t), n.early = "Rejected")
<1>1. /\ ssched.appCtx = <<>> /\ sneg.early # "Accepted" /\ ~ServerDone
      /\ \/ strans = <<>> /\ sneg.kex = None /\ sneg.early = None
         \/ /\ Len(strans) = 2 /\ strans[1].type = "MessageHash"
            /\ sneg.kex = "HelloRetryRequest"
  BY DEF ServerInv
<1>2. /\ IsSeq(strans) /\ IsSeq(sout) /\ IsSeq(scalls)
      /\ DOMAIN sneg = DOMAIN S!NothingNegotiated
  BY DEF ServerTypes
<1>3. /\ sh.type = "ServerHello" /\ sh.version = n.version /\ sh.cipher = n.cipher
      /\ sh.group = n.group /\ sh.psk = n.resumed
      /\ fin.type = "Finished" /\ fin.verify = u /\ Digest(fin) = FinishedDigest
  BY DEF ServerHello, Finished, Digest, FinishedDigest
<1>4. /\ IsSeq(t) /\ Len(t) = Len(strans) + 2
      /\ \A i \in 1 .. Len(strans) : t[i] = strans[i]
      /\ t[Len(strans) + 1] = ch /\ t[Len(strans) + 2] = sh
  BY <1>2, TwoHellos
<1>5. /\ AllTypes(auth, AuthTypes) /\ Len(auth) >= 1
      /\ auth[1] = EncryptedExtensions(n.alpn, n.early = "Accepted")
  BY ServerAuthenticates
<1>6. /\ strans' = app
      /\ ssched' = [S!NoSecrets EXCEPT !.appCtx = app]
      /\ sneg' = [f \in DOMAIN sneg |->
                    IF f = "early" /\ sneg.early # None THEN sneg.early ELSE n[f]]
      /\ scert' = (n.resumed /\ ch.psk.clientCert)
      /\ sread' \in {early, hs} /\ shs' \in {shs, hs}
      /\ sout' = sout \o <<Seal(swrite, <<sh>>)>> \o b \o flight
      /\ sstate' = S!AfterFlight(n)
      /\ scalls' = scalls \/ scalls' = Append(scalls, Call("EarlyHandshakeSuccess", 0))
      /\ sctx' = sctx
  <2>1. S!HelloContext(ch) = strans
    <3>1. ch.cookie.kind # "good"
      BY DEF NoCookie, None
    <3> QED
      BY <3>1 DEF S!HelloContext
  <2>2. S!UpToServerHello(ch, n) = t
    BY <2>1, ServerWords DEF S!UpToServerHello
  <2>3. t[Len(t)] = sh
    BY <1>4
  <2>4. /\ S!Digests(t, auth) = u /\ S!Finished(u) = fin /\ S!Digest(fin) = FinishedDigest
        /\ S!None = None /\ S!CCS = CCS /\ S!Seal(swrite, <<sh>>) = Seal(swrite, <<sh>>)
        /\ S!Layer(S!Key("Hs", "server", 0, t), FALSE) = hsWrite
        /\ S!Layer(S!Key("Early", "client", 0, Append(strans, ch)), FALSE) = early
        /\ S!Call("EarlyHandshakeSuccess", 0) = Call("EarlyHandshakeSuccess", 0)
    BY <1>3, ServerWords
  <2>5. S!HandshakeReadLayer(n, t) = hs
    BY ServerWords DEF S!HandshakeReadLayer
  <2> HIDE DEF sh, t, auth, u, fin, hsWrite, early, hs, FinishedDigest
  <2>6. S!SendFlight(ch, n, large) =
          (/\ strans' = Append(S!Digests(t, auth), S!Digest(S!Finished(S!Digests(t, auth))))
           /\ ssched' = [S!NoSecrets EXCEPT !.appCtx =
                Append(S!Digests(t, auth), S!Digest(S!Finished(S!Digests(t, auth))))]
           /\ sneg' = [f \in DOMAIN sneg |->
                         IF f = "early" /\ sneg.early # S!None THEN sneg.early ELSE n[f]]
           /\ scert' = (n.resumed /\ ch.psk.clientCert)
           /\ swrite' = S!Layer(S!Key("App", "server", 0,
                Append(S!Digests(t, auth), S!Digest(S!Finished(S!Digests(t, auth))))), FALSE)
           /\ IF n.early = "Accepted" /\ ~sctx.omitEarly
              THEN /\ sread' = S!Layer(S!Key("Early", "client", 0, Append(strans, ch)), FALSE)
                   /\ shs' = S!HandshakeReadLayer(n, t)
              ELSE sread' = S!HandshakeReadLayer(n, t) /\ UNCHANGED shs
           /\ sout' = sout \o <<S!Seal(swrite, <<t[Len(t)]>>)>>
                           \o (IF ch.session THEN <<S!CCS>> ELSE <<>>)
                           \o S!FlightRecords(S!Layer(S!Key("Hs", "server", 0, t), FALSE),
                                 Append(auth, S!Finished(S!Digests(t, auth))), large)
           /\ sstate' = S!AfterFlight(n)
           /\ IF n.early = "Accepted" THEN S!Tell("EarlyHandshakeSuccess")
              ELSE UNCHANGED scalls
           /\ UNCHANGED <<sctx, schain, swritten>>)
    BY <2>1, <2>2 DEF S!SendFlight, auth
  <2>7. /\ strans' = app
        /\ ssched' = [S!NoSecrets EXCEPT !.appCtx = app]
        /\ sneg' = [f \in DOMAIN sneg |->
                      IF f = "early" /\ sneg.early # None THEN sneg.early ELSE n[f]]
    BY <2>4, <2>6
  <2>8. sout' = sout \o <<Seal(swrite, <<sh>>)>> \o b \o flight
    BY <2>3, <2>4, <2>6
  <2>9. sread' \in {early, hs} /\ shs' \in {shs, hs}
    BY <2>4, <2>5, <2>6
  <2>10. scalls' = scalls \/ scalls' = Append(scalls, Call("EarlyHandshakeSuccess", 0))
    BY <2>4, <2>6 DEF S!Tell
  <2>11. /\ scert' = (n.resumed /\ ch.psk.clientCert) /\ sstate' = S!AfterFlight(n)
         /\ sctx' = sctx
    BY <2>6
  <2> QED
    BY <2>7, <2>8, <2>9, <2>10, <2>11
<1> HIDE DEF sh, t, hsWrite
<1>7. IsSeq(auth) /\ auth[1].type = "EncryptedExtensions"
      /\ auth[1].alpn = n.alpn /\ auth[1].early = (n.early = "Accepted")
  BY <1>5 DEF AllTypes, EncryptedExtensions
<1>8. /\ IsSeq(app) /\ Len(app) > HelloAt(app) /\ Len(app) > 2
      /\ app[1].type = "MessageHash" <=> Len(strans) # 0
      /\ app[HelloAt(app) - 1] = ch /\ app[HelloAt(app)] = sh
      /\ app[HelloAt(app) + 1] = auth[1]
  <2>1. \/ Len(strans) = 0 /\ ch.type = "ClientHello"
        \/ Len(strans) = 2 /\ strans[1].type = "MessageHash"
    BY <1>1
  <2>2. IsSeq(strans) /\ Len(auth) >= 1 /\ IsSeq(auth) /\ auth[1].type = "EncryptedExtensions"
    BY <1>2, <1>5, <1>7
  <2> HIDE DEF auth
  <2>3. ShowsHellos(Append(Digests(t, auth), FinishedDigest), strans, ch, sh, auth[1])
    BY <1>4, <2>1, <2>2, TranscriptOfFlight
  <2> QED
    BY <2>3 DEF ShowsHellos
<1> HIDE DEF app
<1>9. /\ n.resumed \in BOOLEAN /\ (n.pskType = "Resumption" <=> n.resumed)
      /\ ~n.resumed => n.pskMode = None
      /\ n.kex = "None" => n.group = None /\ n.resumed /\ n.pskMode = "psk_ke"
      /\ n.kex # "None" => /\ n.kex = IF sneg.kex # None THEN sneg.kex ELSE "OneRtt"
                           /\ n.resumed => n.pskMode = "psk_dhe_ke"
      /\ n.early = "Accepted" => sneg.kex # "HelloRetryRequest"
  <2>1. sneg.kex # "None"
    BY <1>1 DEF None
  <2> QED
    BY <2>1, ServerNegotiates
<1>10. /\ DOMAIN sneg' = DOMAIN sneg
       /\ sneg'.version = n.version /\ sneg'.cipher = n.cipher /\ sneg'.group = n.group
       /\ sneg'.kex = n.kex /\ sneg'.pskType = n.pskType /\ sneg'.pskMode = n.pskMode
       /\ sneg'.alpn = n.alpn
       /\ sneg'.early = IF sneg.early # None THEN sneg.early ELSE n.early
  <2>1. DOMAIN sneg = {"version", "cipher", "group", "kex", "early", "replay",
                       "pskType", "pskMode", "alpn"}
    BY <1>2 DEF S!NothingNegotiated
  <2> QED
    BY <1>6, <2>1
<1>11. ssched'.appCtx = app /\ DOMAIN ssched' = DOMAIN S!NoSecrets
  BY <1>6 DEF S!NoSecrets
<1>12. app[1].type = "MessageHash" <=> sneg.kex = "HelloRetryRequest"
  BY <1>1, <1>8 DEF None
<1>13. Outcome(app, sneg')
  <2>1. HelloOutcome(app, sneg')
    <3>1. Len(app) >= HelloAt(app)
      BY <1>8, IsSeqDomain DEF HelloAt
    <3>2. sneg'.pskType = "Resumption" <=> sh.psk
      BY <1>3, <1>9, <1>10
    <3>3. /\ sneg'.kex = IF sh.group = None THEN "None"
                         ELSE IF app[1].type = "MessageHash" THEN "HelloRetryRequest"
                         ELSE "OneRtt"
          /\ sneg'.pskMode = IF ~sh.psk THEN None
                             ELSE IF sh.group = None THEN "psk_ke" ELSE "psk_dhe_ke"
      <4>1. CASE n.kex = "None"
        BY <1>3, <1>9, <1>10, <4>1
      <4>2. CASE n.kex # "None"
        <5>1. n.group # None
          BY <4>2
        <5>2. /\ sneg.kex = None \/ sneg.kex = "HelloRetryRequest"
              /\ None # "HelloRetryRequest"
          BY <1>1 DEF None
        <5> QED
          BY <1>3, <1>9, <1>10, <1>12, <4>2, <5>1, <5>2
      <4> QED
        BY <4>1, <4>2
    <3> QED
      BY <1>3, <1>8, <1>10, <3>1, <3>2, <3>3 DEF HelloOutcome
  <2>2. sneg'.early = "Accepted" <=> n.early = "Accepted"
    BY <1>1, <1>9, <1>10
  <2> QED
    BY <1>7, <1>8, <1>10, <2>1, <2>2 DEF Outcome, ExtensionsOutcome
<1>14. scert' <=> Authenticated(app, app)
  <2>1. StoredAuth(app) <=> n.resumed /\ ch.psk.clientCert
    BY <1>3, <1>8 DEF StoredAuth
  <2>2. ~SignedAfter(app, Len(app))
    BY <1>8, IsSeqDomain DEF SignedAfter
  <2> QED
    BY <1>6, <2>1, <2>2 DEF Authenticated
<1>15. SoundRecords(flight) /\ \A m \in CarriedBy(flight) :
                                 m = fin \/ m.type \in AuthTypes \cup {"Front", "Back"}
  <2> DEFINE ms == Append(auth, fin)
  <2>1. /\ IsSeq(ms) /\ DOMAIN ms = 1 .. Len(auth) + 1 /\ Len(ms) = Len(auth) + 1
        /\ \A i \in 1 .. Len(auth) : ms[i] = auth[i]
        /\ ms[Len(auth) + 1] = fin
    BY <1>7, AppendSeq
  <2>2. Len(auth) \in Nat /\ DOMAIN auth = 1 .. Len(auth)
    BY <1>7, IsSeqDomain
  <2> HIDE DEF auth, fin, ms
  <2>3. \A k \in DOMAIN ms : ms[k] = fin \/ ms[k].type \in AuthTypes
    <3>1. \A k \in 1 .. Len(auth) : ms[k].type \in AuthTypes
      BY <1>5, <2>1, <2>2 DEF AllTypes
    <3>2. \A k \in 1 .. Len(auth) + 1 : k \in 1 .. Len(auth) \/ k = Len(auth) + 1
      BY <2>2
    <3> QED
      BY <2>1, <3>1, <3>2
  <2>4. \A k \in DOMAIN ms : ms[k].type # "Front"
    BY <1>3, <2>3 DEF AuthTypes
  <2>5. ms # <<>>
    <3>1. Len(ms) # 0
      BY <2>1, <2>2
    <3> QED
      BY <3>1
  <2>6. /\ SoundRecords(S!FlightRecords(hsWrite, ms, large))
        /\ \A m \in CarriedBy(S!FlightRecords(hsWrite, ms, large)) :
             (\E k \in DOMAIN ms : m = ms[k]) \/ m.type \in {"Front", "Back"}
    BY <2>1, <2>4, <2>5, FlightCarries
  <2> QED
    BY <2>3, <2>6 DEF ms
<1> HIDE DEF auth, fin, u, flight
<1>16. SoundRecords(hello) /\ CarriedBy(hello) \subseteq {sh}
       /\ sout \o <<Seal(swrite, <<sh>>)>> \o b = sout \o hello
  <2>1. b \in {<<CCS>>, <<>>} /\ sh.type # "Front"
    BY <1>3
  <2> HIDE DEF b
  <2> QED
    BY <1>2, <2>1, HelloRecords
<1> HIDE DEF b, hello
<1>17. sout' = sout \o x /\ SoundRecords(x) /\ IsSeq(sout')
       /\ CarriedBy(x) \subseteq CarriedBy(hello) \cup CarriedBy(flight)
  <2>1. IsSeq(hello) /\ IsSeq(flight)
    BY <1>15, <1>16 DEF SoundRecords
  <2>2. sout' = (sout \o hello) \o flight
    BY <1>6, <1>16
  <2>3. (sout \o hello) \o flight = sout \o x
    BY <1>2, <2>1, ConcatAgain
  <2>4. SoundRecords(x) /\ CarriedBy(x) \subseteq CarriedBy(hello) \cup CarriedBy(flight)
    BY <1>15, <1>16, SoundConcat
  <2> HIDE DEF x
  <2>5. IsSeq(x)
    BY <2>4 DEF SoundRecords
  <2>6. IsSeq(sout \o x)
    BY <1>2, <2>5, ConcatSeq
  <2> QED
    BY <2>2, <2>3, <2>4, <2>6
<1> HIDE DEF x
<1>18. \A m \in CarriedBy(x) : FromServer(m)'
  <2>1. ASSUME NEW m, m = sh PROVE FromServer(m)'
    BY <1>3, <2>1 DEF FromServer
  <2>2. ASSUME NEW m, m = fin PROVE FromServer(m)'
    <3>1. ssched'.appCtx = Append(m.verify, FinishedDigest) /\ m.type = "Finished"
      BY <1>3, <1>11, <2>2 DEF app
    <3>2. ssched'.appCtx # <<>>
      BY <1>8, <1>11
    <3> QED
      BY <3>1, <3>2 DEF FromServer
  <2>3. ASSUME NEW m, m.type \in AuthTypes \cup {"Front", "Back"} PROVE FromServer(m)'
    BY <2>3 DEF FromServer, AuthTypes
  <2>4. ASSUME NEW m \in CarriedBy(x)
        PROVE  m = sh \/ m = fin \/ m.type \in AuthTypes \cup {"Front", "Back"}
    BY <1>15, <1>16, <1>17
  <2> QED
    BY <2>1, <2>2, <2>3, <2>4
<1>19. /\ Stream(sread', sin') /\ InFlight(sread', sin') \subseteq InFlight(sread, sin)
       /\ IsLayer(shs') /\ shs'.unparsed = <<>>
  <2>1. IsLayer(early) /\ early.unparsed = <<>> /\ IsLayer(hs) /\ hs.unparsed = <<>>
    <3>1. \A key, skip : IsLayer(Layer(key, skip)) /\ Layer(key, skip).unparsed = <<>>
      BY NewLayer
    <3> QED
      BY <3>1
  <2> HIDE DEF early, hs
  <2>2. IsLayer(shs) /\ shs.unparsed = <<>>
    BY DEF ServerTypes
  <2> QED
    BY <1>6, <2>1, <2>2, FreshLayer DEF ServerConsumes
<1>20. IsSeq(scalls') /\ ~ServerDone'
  <2>1. "EarlyHandshakeSuccess" # "HandshakeSuccess"
    OBVIOUS
  <2>2. IsSeq(scalls') /\ (Told(scalls', "HandshakeSuccess") <=> Told(scalls, "HandshakeSuccess"))
    BY <1>2, <1>6, <2>1, ToldOther
  <2> QED
    BY <1>1, <2>2 DEF ServerDone
<1>21. sstate' \in ServerWaits
  BY <1>6 DEF S!AfterFlight, ServerWaits
<1>22. ServerTypes'
  BY <1>2, <1>6, <1>8, <1>10, <1>11, <1>17, <1>19, <1>20 DEF ServerTypes
<1>23. app # <<>>
  BY <1>8
<1>24. Len(app) >= Len(app)
  BY <1>8, IsSeqDomain
<1>25. ServerInv'
  BY <1>6, <1>11, <1>13, <1>14, <1>20, <1>21, <1>23, <1>24 DEF ServerInv, ServerWaits
<1> QED
  BY <1>1, <1>17, <1>18, <1>19, <1>20, <1>22, <1>25 DEF ServerStep

LEMMA ServerHelloStep ==
  ASSUME ServerTypes, ServerInv, \A m \in InFlight(sread, sin) : FromClient(m),
         NEW svc, S!HandleClientHello(svc)
  PROVE  ServerStep
<1> DEFINE ch == S!ev.msg
           n == S!Negotiate(ch, svc)
           hit == FirstHit(S!HelloChecks(ch, svc, n))
<1>1. /\ CanRead(sread, sin) /\ sin' = S!ev.in /\ S!ev.kind = "event"
      /\ ch.type = "ClientHello" /\ sstate = "ExpectingClientHello"
  BY ServerWords DEF S!HandleClientHello, S!Event
<1>2. /\ ch \in InFlight(sread, sin) /\ ServerConsumes
      /\ Stream(S!ev.layer, sin') /\ InFlight(S!ev.layer, sin') \subseteq InFlight(sread, sin)
  BY <1>1, ServerEvent DEF ServerConsumes
<1>3. ch.cookie = NoCookie
  BY <1>1, <1>2 DEF FromClient
<1>4. /\ hit = "ok" => S!SendFlight(ch, n, svc.large)
      /\ hit = "retry" => S!Retry(ch, n)
      /\ hit = "fallback" => S!VersionFallback
      /\ hit \notin {"ok", "retry", "fallback"} => S!HandleError(hit)
  <2>1. S!FirstHit(S!HelloChecks(ch, svc, n)) = hit
    BY ServerWords
  <2> HIDE DEF n, hit
  <2> QED
    BY <2>1 DEF S!HandleClientHello, n
<1>5. CASE hit = "ok"
  <2>1. n.kex # "None" => n.group # None
    BY <1>5, HelloHasGroup
  <2> QED
    BY <1>1, <1>2, <1>3, <1>4, <1>5, <2>1, ServerFlightStep
<1>6. CASE hit = "retry"
  BY <1>1, <1>2, <1>4, <1>6, ServerRetryStep
<1>7. CASE hit = "fallback"
  <2>1. /\ sstate' = "Error" /\ scalls' = Append(scalls, Call("AttemptVersionFallback", 0))
        /\ sread' = S!ev.layer
        /\ UNCHANGED <<sctx, shs, sneg, strans, ssched, scert, sout>>
    BY <1>4, <1>7, ServerWords DEF S!VersionFallback, S!Tell, S!hsVars
  <2>2. "AttemptVersionFallback" # "HandshakeSuccess"
    OBVIOUS
  <2> QED
    BY <1>2, <2>1, <2>2, ServerQuietStep DEF ServerQuiet
<1>8. CASE hit \notin {"ok", "retry", "fallback"}
  BY <1>2, <1>4, <1>8, ServerErrorStep
<1> QED
  BY <1>5, <1>6, <1>7, <1>8

LEMMA ServerMoves ==
  ASSUME ServerTypes, ServerInv, \A m \in InFlight(sread, sin) : FromClient(m),
         ServerAccepts \/ ServerReads \/ ServerAsks
  PROVE  ServerStep /\ ServerSends
<1>1. ServerSends
  BY DEF ServerAccepts, ServerReads, ServerAsks
<1>2. CASE ServerAccepts
  <2>1. S!Accept /\ sin' = sin
    BY <1>2 DEF ServerAccepts, S!Accept
  <2> QED
    BY <1>1, <2>1, ServerAsked
<1>3. CASE ServerAsks
  <2>1. /\ sin' = sin
        /\ \/ S!AppWrite \/ S!AppClose \/ S!AppCloseImmediate
           \/ \E result \in TicketResults : S!WriteNewSessionTicket(result)
           \/ \E requested \in BOOLEAN : S!InitiateKeyUpdate(requested)
    BY <1>3 DEF ServerAsks, ServerCloses
  <2> QED
    BY <1>1, <2>1, ServerAsked
<1>4. CASE ServerReads
  <2>1. \/ S!UnexpectedEvent \/ S!BadRecord \/ S!NoRecordLayer \/ S!RecordWithoutEvent
        \/ S!HandleAppData \/ S!HandleKeyUpdate \/ S!HandleCloseNotify
        \/ \E svc \in Services : S!HandleClientHello(svc)
        \/ S!HandleEndOfEarlyData \/ S!HandleCertificate
        \/ \E trusted \in Verdicts : S!HandleCertificateVerify(trusted)
        \/ \E result \in TicketResults : S!HandleFinished(result)
    BY <1>4 DEF ServerReads, S!PeerEvent
  <2>2. CASE \/ S!UnexpectedEvent \/ S!BadRecord \/ S!NoRecordLayer
             \/ S!RecordWithoutEvent \/ S!HandleAppData \/ S!HandleKeyUpdate
             \/ S!HandleCloseNotify
    BY <1>1, <2>2, ServerQuietReads
  <2>3. CASE \E svc \in Services : S!HandleClientHello(svc)
    BY <1>1, <2>3, ServerHelloStep
  <2>4. CASE \/ S!HandleEndOfEarlyData \/ S!HandleCertificate
             \/ \E trusted \in Verdicts : S!HandleCertificateVerify(trusted)
    BY <1>1, <2>4, ServerAuthReads
  <2>5. CASE \E result \in TicketResults : S!HandleFinished(result)
    BY <1>1, <2>5, ServerFinishedStep
  <2> QED
    BY <2>1, <2>2, <2>3, <2>4, <2>5
<1> QED
  BY <1>2, <1>3, <1>4

(* A step of the server, seen from the connection.                         *)
LEMMA ServerKeepsInv ==
  ASSUME IInv, ServerStep, ServerSends
  PROVE  IInv'
<1>1. PICK x : /\ sout' = sout \o x /\ SoundRecords(x)
               /\ \A m \in CarriedBy(x) : FromServer(m)'
  BY DEF ServerStep
<1>2. cin' = cin \o x
  <2>1. IsSeq(sout) /\ IsSeq(x)
    BY <1>1 DEF IInv, ServerTypes, SoundRecords
  <2>2. Sent(sout, sout') = x
    BY <1>1, <2>1, SentIs
  <2> QED
    BY <2>2 DEF ServerSends
<1>3. /\ Stream(cread, cin')
      /\ InFlight(cread, cin') \subseteq InFlight(cread, cin) \cup CarriedBy(x)
  BY <1>1, <1>2, StreamGrows DEF IInv, ClientTypes
<1>4. UNCHANGED <<cstate, cread, coffer, cneg, ctrans, csched, cauth, cout, ccalls>>
      /\ (ClientDone' <=> ClientDone)
  BY DEF ServerSends, ClientDone
<1>5. ClientTypes'
  BY <1>3, <1>4 DEF IInv, ClientTypes
<1>6. ClientInv'
  BY <1>4 DEF IInv, ClientInv
<1>7. ASSUME NEW m \in InFlight(cread', cin') PROVE FromServer(m)'
  <2>1. CASE m \in CarriedBy(x)
    BY <1>1, <2>1
  <2>2. CASE m \in InFlight(cread, cin)
    <3>1. FromServer(m)
      BY <2>2 DEF IInv, JointInv
    <3>2. ssched.appCtx # <<>> => ssched'.appCtx = ssched.appCtx
      BY DEF ServerStep
    <3> QED
      BY <3>1, <3>2 DEF FromServer
  <2> QED
    BY <1>3, <1>4, <1>7, <2>1, <2>2
<1>8. ASSUME NEW m \in InFlight(sread', sin') PROVE FromClient(m)'
  <2>1. FromClient(m)
    BY <1>8 DEF ServerStep, IInv, JointInv
  <2> QED
    BY <1>4, <2>1 DEF FromClient
<1>9. ClientDone' => csched'.appCtx = ssched'.appCtx /\ ssched'.appCtx # <<>>
  BY <1>4 DEF ServerStep, IInv, JointInv
<1>10. ServerDone' => ClientDone' /\ strans' = ctrans'
  <2>1. CASE ServerDone /\ strans' = strans
    BY <1>4, <2>1 DEF IInv, JointInv
  <2>2. CASE \E m \in InFlight(sread, sin) :
               m.type = "Finished" /\ strans' = Append(m.verify, FinishedDigest)
    BY <1>4, <2>2 DEF IInv, JointInv, FromClient
  <2> QED
    BY <2>1, <2>2 DEF ServerStep
<1> QED
  BY <1>5, <1>6, <1>7, <1>8, <1>9, <1>10 DEF ServerStep, IInv, JointInv

-----------------------------------------------------------------------------
(***************************************************************************)
(* What a step of the client amounts to for the connection.                *)
(***************************************************************************)
ClientStep ==
  /\ ClientTypes' /\ ClientInv'
  /\ InFlight(cread', cin') \subseteq InFlight(cread, cin)
  /\ \E x : /\ cout' = cout \o x /\ SoundRecords(x)
            /\ \A m \in CarriedBy(x) : FromClient(m)'
  /\ ClientDone => ClientDone' /\ ctrans' = ctrans /\ csched'.appCtx = csched.appCtx
  /\ ClientDone' =>
       \/ ClientDone
       \/ \E m \in InFlight(cread, cin) :
            m.type = "Finished" /\ csched'.appCtx = Append(m.verify, FinishedDigest)

(* A step that neither negotiates nor hashes anything.                     *)
ClientQuiet ==
  /\ UNCHANGED <<coffer, cneg, ctrans, cauth>>
  /\ DOMAIN csched' = DOMAIN csched /\ csched'.appCtx = csched.appCtx
  /\ Stream(cread', cin') /\ InFlight(cread', cin') \subseteq InFlight(cread, cin)
  /\ \E x : /\ cout' = cout \o x /\ SoundRecords(x)
            /\ \A m \in CarriedBy(x) : m.type \in NeutralTypes
  /\ \/ ccalls' = ccalls
     \/ \E w, d : w # "HandshakeSuccess" /\ ccalls' = Append(ccalls, Call(w, d))
  /\ \/ cstate' = cstate
     \/ cstate' \in {"ExpectingCloseNotify", "Closed", "Error"}

LEMMA ClientQuietStep ==
  ASSUME ClientTypes, ClientInv, ClientQuiet
  PROVE  ClientStep
<1>1. IsSeq(cout) /\ IsSeq(ccalls)
  BY DEF ClientTypes
<1>2. PICK x : /\ cout' = cout \o x /\ SoundRecords(x)
               /\ \A m \in CarriedBy(x) : m.type \in NeutralTypes
  BY DEF ClientQuiet
<1>3. IsSeq(cout')
  <2>1. IsSeq(x)
    BY <1>2 DEF SoundRecords
  <2>2. IsSeq(cout \o x)
    BY <1>1, <2>1, ConcatSeq
  <2> QED
    BY <1>2, <2>2
<1>4. \A m \in CarriedBy(x) : FromClient(m)'
  BY <1>2 DEF NeutralTypes, FromClient
<1>5. IsSeq(ccalls') /\ (ClientDone' <=> ClientDone)
  BY <1>1, ToldOther DEF ClientQuiet, ClientDone
<1>6. ClientTypes'
  BY <1>3, <1>5 DEF ClientTypes, ClientQuiet
<1>7. ClientInv'
  BY <1>5 DEF ClientInv, ClientQuiet
<1> QED
  BY <1>2, <1>4, <1>5, <1>6, <1>7 DEF ClientStep, ClientQuiet

LEMMA ClientEvent ==
  ASSUME ClientTypes, CanRead(cread, cin)
  PROVE  /\ Stream(C!ev.layer, C!ev.in) /\ SoundRecords(C!ev.in)
         /\ InFlight(C!ev.layer, C!ev.in) \subseteq InFlight(cread, cin)
         /\ CarriedBy(C!ev.in) \subseteq InFlight(cread, cin)
         /\ C!ev.kind = "event" => C!ev.msg \in InFlight(cread, cin)
<1>1. C!ev = ReadEvent(cread, cin)
  BY ClientWords DEF C!ev
<1>2. Stream(cread, cin)
  BY DEF ClientTypes
<1> QED
  BY <1>1, <1>2, EventInFlight

(* What the client does when it reads at all.                              *)
ClientConsumes ==
  SoundRecords(cin') /\ CarriedBy(cin') \subseteq InFlight(cread, cin)

LEMMA ClientReadsNothing ==
  ASSUME ClientTypes
  PROVE  SoundRecords(cin) /\ CarriedBy(cin) \subseteq InFlight(cread, cin)
BY DEF ClientTypes, Stream, InFlight

LEMMA ClientErrorStep ==
  ASSUME ClientTypes, ClientInv, NEW d, C!HandleError(d), ClientConsumes
  PROVE  ClientStep
<1>1. /\ cstate' = "Error" /\ cread' = NoLayer
      /\ cout' = cout \/ cout' = Append(cout, Seal(cwrite, <<Alert(d)>>))
      /\ ccalls' = Append(ccalls, Call("Error", 0))
      /\ UNCHANGED <<coffer, cneg, ctrans, csched, cauth>>
  BY ClientWords DEF C!HandleError, C!Tell, C!hsVars
<1>2. Alert(d).type \in NeutralTypes
  BY DEF Alert, NeutralTypes
<1>3. Stream(cread', cin') /\ InFlight(cread', cin') \subseteq InFlight(cread, cin)
  BY <1>1, EmptyLayers, FreshLayer DEF ClientConsumes
<1>4. "Error" # "HandshakeSuccess"
  OBVIOUS
<1>5. \E x : /\ cout' = cout \o x /\ SoundRecords(x)
             /\ \A m \in CarriedBy(x) : m.type \in NeutralTypes
  BY <1>1, <1>2, NeutralRecord DEF ClientTypes
<1>6. ClientQuiet
  BY <1>1, <1>3, <1>4, <1>5 DEF ClientQuiet
<1> QED
  BY <1>6, ClientQuietStep

LEMMA ClientKeepsSecrets ==
  ASSUME ClientTypes,
         \/ csched' = csched
         \/ \E g : csched' = [csched EXCEPT !.clientGen = g]
         \/ \E g : csched' = [csched EXCEPT !.serverGen = g]
         \/ \E g, h : csched' = [csched EXCEPT !.clientGen = g, !.serverGen = h]
  PROVE  DOMAIN csched' = DOMAIN csched /\ csched'.appCtx = csched.appCtx
<1>1. "appCtx" \in DOMAIN csched
  BY DEF ClientTypes, C!NoSecrets
<1> QED
  BY <1>1

LEMMA ClientQuietReads ==
  ASSUME ClientTypes, ClientInv,
         \/ C!UnexpectedEvent \/ C!BadRecord \/ C!NoRecordLayer
         \/ C!RecordWithoutEvent \/ C!HandleNewSessionTicket \/ C!HandleAppData
         \/ C!HandleKeyUpdate \/ C!HandleCloseNotify
  PROVE  ClientStep
<1>0. IsSeq(cout)
  BY DEF ClientTypes
<1>1. CASE C!UnexpectedEvent \/ C!BadRecord
  <2>1. CanRead(cread, cin) /\ cin' = C!ev.in /\ \E d : C!HandleError(d)
    BY <1>1, ClientWords DEF C!UnexpectedEvent, C!BadRecord, C!HandleInvalidEvent
  <2> QED
    BY <2>1, ClientEvent, ClientErrorStep DEF ClientConsumes
<1>2. CASE C!NoRecordLayer
  <2>1. cin' = cin /\ \E d : C!HandleError(d)
    BY <1>2 DEF C!NoRecordLayer
  <2> QED
    BY <2>1, ClientReadsNothing, ClientErrorStep DEF ClientConsumes
<1>3. CASE C!RecordWithoutEvent \/ C!HandleNewSessionTicket \/ C!HandleAppData
  <2>1. /\ CanRead(cread, cin) /\ cin' = C!ev.in /\ cread' = C!ev.layer
        /\ \/ ccalls' = ccalls \/ ccalls' = Append(ccalls, Call("NewCachedPsk", 0))
           \/ ccalls' = Append(ccalls, Call("Deliver", C!ev.msg.data))
        /\ UNCHANGED <<cstate, coffer, cneg, ctrans, csched, cauth, cout>>
    BY <1>3, ClientWords DEF C!RecordWithoutEvent, C!HandleNewSessionTicket,
         C!HandleAppData, C!Event, C!Tell, C!hsVars
  <2>2. "Deliver" # "HandshakeSuccess" /\ "NewCachedPsk" # "HandshakeSuccess"
    OBVIOUS
  <2>3. \E x : /\ cout' = cout \o x /\ SoundRecords(x)
               /\ \A m \in CarriedBy(x) : m.type \in NeutralTypes
    BY <1>0, <2>1, NeutralRecord
  <2> QED
    BY <2>1, <2>2, <2>3, ClientEvent, ClientQuietStep DEF ClientQuiet
<1>4. CASE C!HandleKeyUpdate
  <2>1. CanRead(cread, cin) /\ cin' = C!ev.in
    BY <1>4, ClientWords DEF C!HandleKeyUpdate, C!Event
  <2>2. ClientConsumes
    BY <2>1, ClientEvent DEF ClientConsumes
  <2>3. CASE \E d : C!HandleError(d)
    BY <2>2, <2>3, ClientErrorStep
  <2>4. CASE ~\E d : C!HandleError(d)
    <3>1. /\ cread' = Layer(Key("App", "server", csched.serverGen + 1, csched.appCtx), FALSE)
          /\ \/ cout' = cout
             \/ cout' = Append(cout, Seal(cwrite, <<KeyUpdate(FALSE)>>))
          /\ \/ \E g : csched' = [csched EXCEPT !.serverGen = g]
             \/ \E g, h : csched' = [csched EXCEPT !.clientGen = g, !.serverGen = h]
          /\ UNCHANGED <<cstate, coffer, cneg, ctrans, cauth, ccalls>>
      <4>1. CASE C!ev.msg.requested
        BY <1>4, <2>4, <4>1, ClientWords
           DEF C!HandleKeyUpdate, C!AnswerKeyUpdate, C!RekeyWrite, C!AppReadLayer
      <4>2. CASE ~C!ev.msg.requested
        BY <1>4, <2>4, <4>2, ClientWords DEF C!HandleKeyUpdate, C!AppReadLayer
      <4> QED
        BY <4>1, <4>2
    <3>2. Stream(cread', cin') /\ InFlight(cread', cin') \subseteq InFlight(cread, cin)
      <4> DEFINE l == Layer(Key("App", "server", csched.serverGen + 1, csched.appCtx), FALSE)
      <4>1. IsLayer(l) /\ l.unparsed = <<>>
        BY NewLayer, ZenonT(60)
      <4>2. cread' = l
        BY <3>1
      <4> HIDE DEF l
      <4> QED
        BY <2>2, <4>1, <4>2, FreshLayer DEF ClientConsumes
    <3>3. KeyUpdate(FALSE).type \in NeutralTypes
      BY DEF KeyUpdate, NeutralTypes
    <3>4. DOMAIN csched' = DOMAIN csched /\ csched'.appCtx = csched.appCtx
      BY <3>1, ClientKeepsSecrets
    <3>5. \E x : /\ cout' = cout \o x /\ SoundRecords(x)
                 /\ \A m \in CarriedBy(x) : m.type \in NeutralTypes
      BY <1>0, <3>1, <3>3, NeutralRecord
    <3>6. ClientQuiet
      BY <3>1, <3>2, <3>4, <3>5 DEF ClientQuiet
    <3> QED
      BY <3>6, ClientQuietStep
  <2> QED
    BY <2>3, <2>4
<1>5. CASE C!HandleCloseNotify
  <2>1. /\ CanRead(cread, cin) /\ cin' = C!ev.in /\ cread' = NoLayer
        /\ cout' = cout \/ cout' = Append(cout, Seal(cwrite, <<CloseNotify>>))
        /\ ccalls' = Append(ccalls, Call("EndOfData", 0)) /\ cstate' = "Closed"
        /\ UNCHANGED <<coffer, cneg, ctrans, csched, cauth>>
    BY <1>5, ClientWords DEF C!HandleCloseNotify, C!Event, C!Tell, C!hsVars
  <2>2. "EndOfData" # "HandshakeSuccess" /\ CloseNotify.type \in NeutralTypes
    BY DEF CloseNotify, NeutralTypes
  <2>3. Stream(cread', cin') /\ InFlight(cread', cin') \subseteq InFlight(cread, cin)
    BY <2>1, ClientEvent, EmptyLayers, FreshLayer
  <2>4. \E x : /\ cout' = cout \o x /\ SoundRecords(x)
               /\ \A m \in CarriedBy(x) : m.type \in NeutralTypes
    BY <1>0, <2>1, <2>2, NeutralRecord
  <2>5. ClientQuiet
    BY <2>1, <2>2, <2>3, <2>4 DEF ClientQuiet
  <2> QED
    BY <2>5, ClientQuietStep
<1> QED
  BY <1>1, <1>2, <1>3, <1>4, <1>5

(* A record that the CCS the client sends once may precede.                *)
LEMMA AfterCCS ==
  ASSUME NEW s, NEW b, NEW x, IsSeq(s), b \in {<<CCS>>, <<>>}, SoundRecords(x)
  PROVE  /\ s \o b \o x = s \o (b \o x) /\ SoundRecords(b \o x)
         /\ CarriedBy(b \o x) \subseteq CarriedBy(x)
<1>1. SoundRecords(b) /\ CarriedBy(b) = {}
  BY CCSRecord, NoRecords
<1>2. IsSeq(b) /\ IsSeq(x)
  BY <1>1 DEF SoundRecords
<1>3. s \o b \o x = s \o (b \o x)
  BY <1>2, ConcatAgain
<1>4. SoundRecords(b \o x) /\ CarriedBy(b \o x) \subseteq CarriedBy(b) \cup CarriedBy(x)
  BY <1>1, SoundConcat
<1> QED
  BY <1>1, <1>3, <1>4

LEMMA ClientAsked ==
  ASSUME ClientTypes, ClientInv, cin' = cin,
         \/ C!AppWrite \/ C!EarlyAppWrite \/ C!AppClose \/ C!AppCloseImmediate
         \/ \E requested \in BOOLEAN : C!InitiateKeyUpdate(requested)
  PROVE  ClientStep
<1>0. ClientConsumes /\ Stream(cread, cin) /\ IsSeq(cout)
  BY ClientReadsNothing DEF ClientConsumes, ClientTypes
<1>1. CASE \E d : C!HandleError(d)
  BY <1>0, <1>1, ClientErrorStep
<1>2. CASE C!AppWrite /\ ~\E d : C!HandleError(d)
  <2>1. /\ cout' = Append(cout, Seal(cwrite, <<AppData(cwritten + 1)>>))
        /\ UNCHANGED <<cstate, cread, coffer, cneg, ctrans, csched, cauth, ccalls>>
    BY <1>2, ClientWords DEF C!AppWrite, C!HandleInvalidEvent, C!hsVars
  <2>2. AppData(cwritten + 1).type \in NeutralTypes
    BY DEF AppData, NeutralTypes
  <2>3. \E x : /\ cout' = cout \o x /\ SoundRecords(x)
               /\ \A m \in CarriedBy(x) : m.type \in NeutralTypes
    BY <1>0, <2>1, <2>2, NeutralRecord
  <2> QED
    BY <1>0, <2>1, <2>3, ClientQuietStep DEF ClientQuiet
<1>3. CASE C!WriteEarly
  <2> DEFINE b == C!CCSOnce
             m == AppData(cwritten + 1)
             x == <<Seal(cearly, <<m>>)>>
  <2>1. /\ cout' = cout \o b \o x
        /\ UNCHANGED <<cstate, cread, coffer, cneg, ctrans, csched, cauth, ccalls>>
    BY <1>3, ClientWords DEF C!WriteEarly
  <2>2. b \in {<<CCS>>, <<>>}
    BY ClientWords DEF C!CCSOnce
  <2>3. m.type \in NeutralTypes /\ m.type # "Front"
    BY DEF AppData, NeutralTypes
  <2>4. SoundRecords(x) /\ CarriedBy(x) = {m}
    BY <2>3, OneMessage
  <2> HIDE DEF b, x, m
  <2>5. /\ cout \o b \o x = cout \o (b \o x) /\ SoundRecords(b \o x)
        /\ CarriedBy(b \o x) \subseteq CarriedBy(x)
    BY <1>0, <2>2, <2>4, AfterCCS
  <2> DEFINE z == b \o x
  <2>6. cout' = cout \o z /\ SoundRecords(z) /\ \A k \in CarriedBy(z) : k.type \in NeutralTypes
    BY <2>1, <2>3, <2>4, <2>5
  <2> HIDE DEF z
  <2>7. ClientQuiet
    BY <1>0, <2>1, <2>6 DEF ClientQuiet
  <2> QED
    BY <2>7, ClientQuietStep
<1>4. CASE C!IgnoreEarlyAppWrite /\ ~\E d : C!HandleError(d)
  <2>1. /\ ccalls' = Append(ccalls, Call("ReportEarlyWriteFailed", 0))
        /\ UNCHANGED <<cstate, cread, coffer, cneg, ctrans, csched, cauth, cout>>
    BY <1>4, ClientWords DEF C!IgnoreEarlyAppWrite, C!Tell, C!hsVars
  <2>2. "ReportEarlyWriteFailed" # "HandshakeSuccess"
    OBVIOUS
  <2>3. \E x : /\ cout' = cout \o x /\ SoundRecords(x)
               /\ \A m \in CarriedBy(x) : m.type \in NeutralTypes
    BY <1>0, <2>1, NeutralRecord
  <2> QED
    BY <1>0, <2>1, <2>2, <2>3, ClientQuietStep DEF ClientQuiet
<1>5. CASE C!EarlyAppWrite
  <2>1. (\E d : C!HandleError(d)) \/ C!WriteEarly \/ C!IgnoreEarlyAppWrite \/ C!AppWrite
    BY <1>5 DEF C!EarlyAppWrite, C!HandleEarlyAppWrite, C!HandleInvalidEvent
  <2> QED
    BY <1>1, <1>2, <1>3, <1>4, <2>1
<1>6. CASE /\ \E requested \in BOOLEAN : C!InitiateKeyUpdate(requested)
           /\ ~\E d : C!HandleError(d)
  <2>1. PICK requested \in BOOLEAN : C!InitiateKeyUpdate(requested)
    BY <1>6
  <2>2. /\ cout' = Append(cout, Seal(cwrite, <<KeyUpdate(requested)>>))
        /\ \E g : csched' = [csched EXCEPT !.clientGen = g]
        /\ UNCHANGED <<cstate, cread, coffer, cneg, ctrans, cauth, ccalls>>
    BY <1>6, <2>1, ClientWords DEF C!InitiateKeyUpdate, C!HandleInvalidEvent, C!RekeyWrite
  <2>3. KeyUpdate(requested).type \in NeutralTypes
    BY DEF KeyUpdate, NeutralTypes
  <2>4. DOMAIN csched' = DOMAIN csched /\ csched'.appCtx = csched.appCtx
    BY <2>2, ClientKeepsSecrets
  <2>5. \E x : /\ cout' = cout \o x /\ SoundRecords(x)
               /\ \A m \in CarriedBy(x) : m.type \in NeutralTypes
    BY <1>0, <2>2, <2>3, NeutralRecord
  <2> QED
    BY <1>0, <2>2, <2>4, <2>5, ClientQuietStep DEF ClientQuiet
<1>7. CASE C!AppClose \/ C!AppCloseImmediate
  <2>1. /\ cout' = cout \/ cout' = Append(cout, Seal(cwrite, <<CloseNotify>>))
        /\ cread' = cread \/ cread' = NoLayer
        /\ cstate' \in {"ExpectingCloseNotify", "Closed"}
        /\ UNCHANGED <<coffer, cneg, ctrans, csched, cauth, ccalls>>
    BY <1>7, ClientWords DEF C!AppClose, C!AppCloseImmediate, C!hsVars
  <2>2. CloseNotify.type \in NeutralTypes
    BY DEF CloseNotify, NeutralTypes
  <2>3. Stream(cread', cin') /\ InFlight(cread', cin') \subseteq InFlight(cread, cin)
    BY <1>0, <2>1, EmptyLayers, FreshLayer DEF ClientConsumes
  <2>4. \E x : /\ cout' = cout \o x /\ SoundRecords(x)
               /\ \A m \in CarriedBy(x) : m.type \in NeutralTypes
    BY <1>0, <2>1, <2>2, NeutralRecord
  <2>5. ClientQuiet
    BY <2>1, <2>3, <2>4 DEF ClientQuiet
  <2> QED
    BY <2>5, ClientQuietStep
<1> QED
  BY <1>1, <1>2, <1>5, <1>6, <1>7

-----------------------------------------------------------------------------
(* The client's hellos.                                                    *)

(* A longer transcript shows what a shorter one does.                      *)
LEMMA AppendKeeps ==
  ASSUME NEW t, NEW x, NEW n, IsSeq(t), HelloOutcome(t, n)
  PROVE  LET u == Append(t, x)
         IN /\ IsSeq(u) /\ Len(u) = Len(t) + 1 /\ HelloAt(u) = HelloAt(t)
            /\ u[Len(t) + 1] = x
            /\ HelloOutcome(u, n) /\ (StoredAuth(u) <=> StoredAuth(t))
            /\ ExtensionsOutcome(t, n) => ExtensionsOutcome(u, n)
<1> DEFINE u == Append(t, x)
<1>1. /\ IsSeq(u) /\ Len(u) = Len(t) + 1 /\ \A i \in 1 .. Len(t) : u[i] = t[i]
      /\ u[Len(t) + 1] = x
  BY AppendSeq
<1> HIDE DEF u
<1>2. Len(t) \in Nat /\ HelloAt(t) \in {2, 4} /\ Len(t) >= HelloAt(t)
  BY IsSeqDomain DEF HelloOutcome, HelloAt
<1>3. u[1] = t[1]
  BY <1>1, <1>2
<1>4. HelloAt(u) = HelloAt(t)
  BY <1>3 DEF HelloAt
<1>5. u[HelloAt(t)] = t[HelloAt(t)] /\ u[HelloAt(t) - 1] = t[HelloAt(t) - 1]
  BY <1>1, <1>2
<1>6. HelloOutcome(u, n)
  <2>1. Len(u) >= HelloAt(u)
    BY <1>1, <1>2, <1>4
  <2> QED
    BY <1>3, <1>4, <1>5, <2>1 DEF HelloOutcome
<1>7. StoredAuth(u) <=> StoredAuth(t)
  BY <1>4, <1>5 DEF StoredAuth
<1>8. ASSUME ExtensionsOutcome(t, n) PROVE ExtensionsOutcome(u, n)
  <2>1. Len(t) > HelloAt(t)
    BY <1>8 DEF ExtensionsOutcome
  <2>2. u[HelloAt(t) + 1] = t[HelloAt(t) + 1] /\ Len(u) > HelloAt(u)
    BY <1>1, <1>2, <1>4, <2>1
  <2> QED
    BY <1>4, <1>8, <2>2 DEF ExtensionsOutcome
<1> QED
  BY <1>1, <1>4, <1>6, <1>7, <1>8 DEF u

LEMMA ClientConnectStep ==
  ASSUME ClientTypes, ClientInv, C!Connect
  PROVE  ClientStep
<1> DEFINE attempted == C!EarlyDataParams # C!NoPsk
           chlo == C!ClientHello(C!InitialShares, C!ValidPsk, attempted, C!NoCookie, <<>>)
           x == <<Seal(PlainLayer(FALSE), <<chlo>>)>>
<1>1. /\ cstate = "Uninitialized" /\ cstate' = "ExpectingServerHello"
      /\ coffer' = [psk |-> C!ValidPsk, params |-> C!EarlyDataParams,
                    shares |-> C!InitialShares, hello |-> <<chlo>>]
      /\ cneg' = [cneg EXCEPT !.early = IF attempted THEN "Attempted"
                                                     ELSE "NotAttempted"]
      /\ cout' = Append(cout, Seal(PlainLayer(FALSE), <<chlo>>))
      /\ \/ ccalls' = ccalls
         \/ ccalls' = Append(ccalls, Call("EarlyHandshakeSuccess", 0))
      /\ cread' = PlainLayer(FALSE)
      /\ UNCHANGED <<ctrans, csched, cauth, cin>>
  BY ClientWords DEF C!Connect, C!Tell
<1>2. chlo.type = "ClientHello" /\ chlo.psk = C!ValidPsk /\ chlo.cookie = NoCookie
  BY ClientWords DEF C!ClientHello
<1>3. DOMAIN coffer' = DOMAIN C!NothingOffered /\ coffer'.psk = C!ValidPsk
      /\ coffer'.hello = <<chlo>>
  BY <1>1 DEF C!NothingOffered
<1> HIDE DEF chlo
<1>4. IsSeq(coffer'.hello) /\ Len(coffer'.hello) = 1 /\ coffer'.hello[1] = chlo
  BY <1>3, TupleIsSeq
<1>5. /\ DOMAIN cneg' = DOMAIN cneg /\ cneg'.kex = cneg.kex
      /\ cneg'.early # "Accepted"
  <2>1. "early" \in DOMAIN cneg
    BY DEF ClientTypes, C!NothingNegotiated
  <2> QED
    BY <1>1, <2>1
<1>6. IsSeq(cout) /\ IsSeq(ccalls)
  BY DEF ClientTypes
<1>7. cout' = cout \o x /\ IsSeq(cout') /\ SoundRecords(x) /\ CarriedBy(x) = {chlo}
  <2>1. chlo.type # "Front"
    BY <1>2
  <2>2. SoundRecords(x) /\ CarriedBy(x) = {chlo}
    BY <2>1, OneMessage
  <2> QED
    BY <1>1, <1>6, <2>2, AppendAsConcat, AppendSeq
<1> HIDE DEF x
<1>8. ASSUME NEW m \in CarriedBy(x) PROVE FromClient(m)'
  <2>1. m.type = "ClientHello" /\ m.cookie = NoCookie
    BY <1>2, <1>7
  <2> QED
    BY <2>1 DEF FromClient
<1>9. IsSeq(ccalls') /\ ~ClientDone /\ ~ClientDone'
  <2>1. ~ClientDone
    BY <1>1 DEF ClientInv
  <2>2. "EarlyHandshakeSuccess" # "HandshakeSuccess"
    OBVIOUS
  <2> QED
    BY <1>1, <1>6, <2>1, <2>2, ToldOther DEF ClientDone
<1>10. Stream(cread', cin') /\ InFlight(cread', cin') \subseteq InFlight(cread, cin)
  BY <1>1, EmptyLayers, FreshLayer, ClientReadsNothing
<1>11. ClientTypes'
  BY <1>1, <1>3, <1>5, <1>7, <1>9, <1>10 DEF ClientTypes
<1>12. ClientInv'
  BY <1>1, <1>2, <1>3, <1>4, <1>5, <1>9 DEF ClientInv
<1> QED
  BY <1>7, <1>8, <1>9, <1>10, <1>11, <1>12 DEF ClientStep

LEMMA ClientRetryStep ==
  ASSUME ClientTypes, ClientInv, C!HandleHelloRetryRequest,
         \A m \in InFlight(cread, cin) : FromServer(m)
  PROVE  ClientStep
<1> DEFINE m == C!ev.msg
<1>1. /\ CanRead(cread, cin) /\ cin' = C!ev.in /\ C!ev.kind = "event"
      /\ m.type = "HelloRetryRequest" /\ cstate = "ExpectingServerHello"
  BY ClientWords DEF C!HandleHelloRetryRequest, C!Event
<1>2. /\ Stream(C!ev.layer, cin') /\ ClientConsumes /\ m \in InFlight(cread, cin)
      /\ InFlight(C!ev.layer, cin') \subseteq InFlight(cread, cin)
  BY <1>1, ClientEvent DEF ClientConsumes
<1>3. CASE \E d : C!HandleError(d)
  BY <1>2, <1>3, ClientErrorStep
<1>4. CASE ~\E d : C!HandleError(d)
  <2> DEFINE psk == IF coffer.psk # NoPsk /\ HashOf[coffer.psk.cipher] # HashOf[m.cipher]
                    THEN NoPsk ELSE coffer.psk
             shares == IF m.group # None THEN {m.group} ELSE coffer.shares
             context == <<MessageHash(coffer.hello), m>>
             chlo == C!ClientHello(shares, psk, FALSE, m.cookie, context)
             b == C!CCSOnce
             x == <<Seal(cwrite, <<chlo>>)>>
             z == b \o x
  <2>1. /\ coffer' = [coffer EXCEPT !.psk = psk, !.shares = shares, !.hello = <<chlo>>]
        /\ cneg' = [cneg EXCEPT
                      !.version = m.version, !.cipher = m.cipher,
                      !.kex = "HelloRetryRequest",
                      !.early = IF @ = "Attempted" THEN "Rejected" ELSE @]
        /\ ctrans' = Append(context, chlo)
        /\ cout' = cout \o b \o x
        /\ cread' = C!ev.layer
        /\ UNCHANGED <<cstate, csched, cauth, ccalls>>
    BY <1>4, ClientWords DEF C!HandleHelloRetryRequest
  <2>2. m.cookie = NoCookie
    BY <1>1, <1>2 DEF FromServer
  <2>3. chlo.type = "ClientHello" /\ chlo.psk = psk /\ chlo.cookie = NoCookie
    BY <2>2, ClientWords DEF C!ClientHello
  <2>4. b \in {<<CCS>>, <<>>}
    BY ClientWords DEF C!CCSOnce
  <2> HIDE DEF chlo, b, psk, shares
  <2>5. DOMAIN coffer' = DOMAIN coffer /\ coffer'.psk = psk
    <3>1. {"psk", "shares", "hello"} \subseteq DOMAIN coffer
      BY DEF ClientTypes, C!NothingOffered
    <3> QED
      BY <2>1, <3>1
  <2>6. /\ DOMAIN cneg' = DOMAIN cneg /\ cneg'.kex = "HelloRetryRequest"
        /\ cneg'.early # "Accepted"
    <3>1. {"version", "cipher", "kex", "early"} \subseteq DOMAIN cneg
      BY DEF ClientTypes, C!NothingNegotiated
    <3>2. cneg.early # "Accepted"
      BY <1>1 DEF ClientInv
    <3> QED
      BY <2>1, <3>1, <3>2
  <2>7. /\ IsSeq(ctrans') /\ Len(ctrans') = 3 /\ ctrans'[1].type = "MessageHash"
        /\ ctrans'[3] = chlo
    <3>1. MessageHash(coffer.hello).type = "MessageHash"
      BY DEF MessageHash
    <3>2. IsSeq(context) /\ Len(context) = 2 /\ context[1].type = "MessageHash"
      BY <3>1, TupleIsSeq
    <3> HIDE DEF context
    <3>3. IsSeq(context)
      BY <3>2
    <3> DEFINE u == Append(context, chlo)
    <3>4. /\ IsSeq(u) /\ Len(u) = Len(context) + 1 /\ u[Len(context) + 1] = chlo
          /\ \A i \in 1 .. Len(context) : u[i] = context[i]
      BY <3>3, AppendSeq
    <3>5. ctrans' = u
      BY <2>1
    <3> HIDE DEF u
    <3>6. Len(u) = 3 /\ u[3] = chlo /\ u[1] = context[1]
      BY <3>2, <3>4
    <3> QED
      BY <3>2, <3>4, <3>5, <3>6
  <2>8. SoundRecords(x) /\ CarriedBy(x) = {chlo}
    <3>1. chlo.type # "Front"
      BY <2>3
    <3> QED
      BY <3>1, OneMessage
  <2>9. IsSeq(cout)
    BY DEF ClientTypes
  <2> HIDE DEF x
  <2>10. /\ cout \o b \o x = cout \o z /\ SoundRecords(z)
         /\ CarriedBy(z) \subseteq CarriedBy(x)
    BY <2>4, <2>8, <2>9, AfterCCS
  <2> HIDE DEF z
  <2>11. cout' = cout \o z /\ IsSeq(cout')
    <3>1. IsSeq(z)
      BY <2>10 DEF SoundRecords
    <3>2. IsSeq(cout \o z)
      BY <2>9, <3>1, ConcatSeq
    <3> QED
      BY <2>1, <2>10, <3>2
  <2>12. ASSUME NEW k \in CarriedBy(z) PROVE FromClient(k)'
    <3>1. k.type = "ClientHello" /\ k.cookie = NoCookie
      BY <2>3, <2>8, <2>10
    <3> QED
      BY <3>1 DEF FromClient
  <2>13. ~ClientDone /\ ~ClientDone'
    BY <1>1, <2>1 DEF ClientInv, ClientDone
  <2> HIDE DEF m
  <2>14. ClientTypes'
    BY <1>2, <2>1, <2>5, <2>6, <2>7, <2>11 DEF ClientTypes
  <2>15. ClientInv'
    BY <1>1, <2>1, <2>3, <2>5, <2>6, <2>7, <2>13 DEF ClientInv
  <2> QED
    BY <1>2, <2>1, <2>10, <2>11, <2>12, <2>13, <2>14, <2>15 DEF ClientStep
<1> QED
  BY <1>3, <1>4

(* A step that sends nothing.                                              *)
LEMMA ClientSendsNothing ==
  ASSUME ClientTypes, cout' = cout
  PROVE  \E x : /\ cout' = cout \o x /\ SoundRecords(x)
                /\ \A k \in CarriedBy(x) : FromClient(k)'
<1>1. IsSeq(cout)
  BY DEF ClientTypes
<1>2. PICK x : /\ cout' = cout \o x /\ SoundRecords(x)
               /\ \A k \in CarriedBy(x) : k.type \in NeutralTypes
  BY <1>1, NeutralRecord
<1>3. \A k \in CarriedBy(x) : FromClient(k)'
  BY <1>2 DEF NeutralTypes, FromClient
<1> QED
  BY <1>2, <1>3

LEMMA ClientHelloStep ==
  ASSUME ClientTypes, ClientInv, C!HandleServerHello
  PROVE  ClientStep
<1> DEFINE m == C!ev.msg
<1>1. /\ CanRead(cread, cin) /\ cin' = C!ev.in /\ C!ev.kind = "event"
      /\ m.type = "ServerHello" /\ cstate = "ExpectingServerHello"
  BY ClientWords DEF C!HandleServerHello, C!Event
<1>2. ClientConsumes
  BY <1>1, ClientEvent DEF ClientConsumes
<1>3. CASE \E d : C!HandleError(d)
  BY <1>2, <1>3, ClientErrorStep
<1>4. CASE ~\E d : C!HandleError(d)
  <2> DEFINE base == IF ctrans # <<>> THEN ctrans ELSE coffer.hello
             t == Append(base, m)
             l == Layer(Key("Hs", "server", 0, t), FALSE)
             kex == CASE m.group = None -> "None"
                      [] m.group # None /\ cneg.kex # None -> cneg.kex
                      [] OTHER -> "OneRtt"
             type == CASE m.psk -> "Resumption"
                       [] ~m.psk /\ coffer.psk # NoPsk -> "Rejected"
                       [] OTHER -> IF cctx.pskModes # {} THEN "NotAttempted"
                                                         ELSE "NotSupported"
             mode == CASE ~m.psk -> None
                       [] m.psk /\ m.group # None -> "psk_dhe_ke"
                       [] OTHER -> "psk_ke"
  <2>1. /\ ctrans' = t /\ cread' = l
        /\ cneg' = [cneg EXCEPT !.version = m.version, !.cipher = m.cipher,
                                !.group = m.group, !.kex = kex,
                                !.pskType = type, !.pskMode = mode]
        /\ cauth' = CASE ~m.psk -> None
                      [] m.psk /\ coffer.psk.clientCert -> "Stored"
                      [] OTHER -> "NotRequested"
        /\ coffer' = [C!NothingOffered EXCEPT !.params = coffer.params]
        /\ cstate' = "ExpectingEncryptedExtensions"
        /\ UNCHANGED <<csched, cout, ccalls>>
    BY <1>4, ClientWords DEF C!HandleServerHello
  <2>2. /\ IsSeq(base) /\ Len(base) \in {1, 3}
        /\ Len(base) = 1 => base[1].type # "MessageHash" /\ cneg.kex = None
        /\ Len(base) = 3 =>
             base[1].type = "MessageHash" /\ cneg.kex = "HelloRetryRequest"
        /\ base[Len(base)].psk = coffer.psk /\ cneg.early # "Accepted"
    <3>1. CASE ctrans = <<>>
      <4>1. /\ IsSeq(coffer.hello) /\ Len(coffer.hello) = 1 /\ cneg.kex = None
            /\ coffer.hello[1].type = "ClientHello" /\ coffer.hello[1].psk = coffer.psk
            /\ cneg.early # "Accepted"
        BY <1>1, <3>1 DEF ClientInv
      <4> QED
        BY <3>1, <4>1
    <3>2. CASE ctrans # <<>>
      <4>1. /\ IsSeq(ctrans) /\ Len(ctrans) = 3 /\ ctrans[1].type = "MessageHash"
            /\ ctrans[3].psk = coffer.psk /\ cneg.kex = "HelloRetryRequest"
            /\ cneg.early # "Accepted"
        BY <1>1, <3>2 DEF ClientInv, ClientTypes
      <4>2. base = ctrans
        BY <3>2
      <4> HIDE DEF base
      <4>3. Len(base) = 3 /\ base[Len(base)] = ctrans[3]
        BY <4>1, <4>2
      <4> QED
        BY <4>1, <4>2, <4>3
    <3> QED
      BY <3>1, <3>2
  <2>3. IsLayer(l) /\ l.unparsed = <<>>
    <3> HIDE DEF t
    <3> QED
      BY NewLayer, ZenonT(60)
  <2>4. /\ kex = IF m.group = None THEN "None"
                 ELSE IF Len(base) = 3 THEN "HelloRetryRequest" ELSE "OneRtt"
        /\ type = "Resumption" <=> m.psk
        /\ mode = IF ~m.psk THEN None
                  ELSE IF m.group = None THEN "psk_ke" ELSE "psk_dhe_ke"
    <3>1. None # "HelloRetryRequest"
      BY DEF None
    <3>2. kex = IF m.group = None THEN "None"
                ELSE IF Len(base) = 3 THEN "HelloRetryRequest" ELSE "OneRtt"
      BY <2>2, <3>1
    <3>3. type = "Resumption" <=> m.psk
      OBVIOUS
    <3> QED
      BY <3>2, <3>3
  <2> HIDE DEF base, l, kex, type, mode, m
  <2>5. /\ IsSeq(t) /\ Len(t) = Len(base) + 1 /\ t[Len(base) + 1] = m
        /\ \A i \in 1 .. Len(base) : t[i] = base[i]
    <3>1. IsSeq(base)
      BY <2>2
    <3> QED
      BY <3>1, AppendSeq
  <2> HIDE DEF t
  <2>6. /\ t[1].type = "MessageHash" <=> Len(base) = 3
        /\ HelloAt(t) = Len(base) + 1 /\ t[HelloAt(t)] = m
        /\ Len(t) = HelloAt(t) /\ t[HelloAt(t) - 1] = base[Len(base)]
    <3>1. t[1] = base[1] /\ t[Len(base)] = base[Len(base)]
      BY <2>2, <2>5
    <3>2. t[1].type = "MessageHash" <=> Len(base) = 3
      BY <2>2, <3>1
    <3>3. HelloAt(t) = Len(base) + 1
      BY <2>2, <3>2, SMTT(60) DEF HelloAt
    <3> QED
      BY <2>2, <2>5, <3>1, <3>2, <3>3
  <2>7. /\ DOMAIN cneg' = DOMAIN cneg /\ cneg'.version = m.version
        /\ cneg'.cipher = m.cipher /\ cneg'.group = m.group /\ cneg'.kex = kex
        /\ cneg'.pskType = type /\ cneg'.pskMode = mode /\ cneg'.early = cneg.early
    <3>1. {"version", "cipher", "group", "kex", "pskType", "pskMode", "early"}
            \subseteq DOMAIN cneg
      BY DEF ClientTypes, C!NothingNegotiated
    <3> QED
      BY <2>1, <3>1
  <2>8. HelloOutcome(ctrans', cneg')
    <3>1. Len(t) >= HelloAt(t)
      BY <2>2, <2>6
    <3> DEFINE sh == t[HelloAt(t)]
    <3>2. /\ cneg'.version = sh.version /\ cneg'.cipher = sh.cipher
          /\ cneg'.group = sh.group
      BY <2>6, <2>7
    <3>3. cneg'.kex = IF sh.group = None THEN "None"
                      ELSE IF t[1].type = "MessageHash" THEN "HelloRetryRequest"
                      ELSE "OneRtt"
      BY <2>4, <2>6, <2>7
    <3>4. /\ cneg'.pskType = "Resumption" <=> sh.psk
          /\ cneg'.pskMode = IF ~sh.psk THEN None
                             ELSE IF sh.group = None THEN "psk_ke" ELSE "psk_dhe_ke"
      BY <2>4, <2>6, <2>7
    <3> HIDE DEF sh
    <3>5. HelloOutcome(t, cneg')
      BY <3>1, <3>2, <3>3, <3>4 DEF HelloOutcome, sh
    <3> QED
      BY <2>1, <3>5
  <2>9. cauth' = "Stored" <=> StoredAuth(ctrans')
    <3>1. t[HelloAt(t)].psk = m.psk /\ t[HelloAt(t) - 1].psk = coffer.psk
      BY <2>2, <2>6
    <3>2. None # "Stored"
      BY DEF None
    <3> QED
      BY <2>1, <3>1, <3>2 DEF StoredAuth
  <2>10. DOMAIN coffer' = DOMAIN C!NothingOffered
    BY <2>1 DEF C!NothingOffered
  <2>11. Stream(cread', cin') /\ InFlight(cread', cin') \subseteq InFlight(cread, cin)
    BY <1>2, <2>1, <2>3, FreshLayer DEF ClientConsumes
  <2>12. ~ClientDone /\ ~ClientDone'
    BY <1>1, <2>1 DEF ClientInv, ClientDone
  <2>13. ClientTypes'
    BY <2>1, <2>5, <2>7, <2>10, <2>11 DEF ClientTypes
  <2>14. ClientInv'
    <3>1. cneg'.early # "Accepted" /\ Len(ctrans') = HelloAt(ctrans')
      BY <2>1, <2>2, <2>6, <2>7
    <3> QED
      BY <2>1, <2>8, <2>9, <2>12, <3>1 DEF ClientInv
  <2>15. \E x : /\ cout' = cout \o x /\ SoundRecords(x)
                /\ \A k \in CarriedBy(x) : FromClient(k)'
    BY <2>1, ClientSendsNothing
  <2> QED
    BY <2>11, <2>12, <2>13, <2>14, <2>15 DEF ClientStep
<1> QED
  BY <1>3, <1>4

(* The client hashes a message of the server's flight.                     *)
LEMMA ClientHashStep ==
  ASSUME ClientTypes, ClientInv, NEW m,
         cstate \in {"ExpectingEncryptedExtensions", "ExpectingCertificate",
                     "ExpectingCertificateVerify"},
         cstate' \in {"ExpectingCertificate", "ExpectingCertificateVerify",
                      "ExpectingFinished"},
         ctrans' = AppendToTranscript(ctrans, m),
         DOMAIN cneg' = DOMAIN cneg, HelloOutcome(ctrans, cneg'),
         \/ ExtensionsOutcome(ctrans, cneg')
         \/ ExtensionsOutcome(Append(ctrans, Digest(m)), cneg'),
         cauth' = "Stored" <=> cauth = "Stored",
         UNCHANGED <<coffer, csched, cout, ccalls>>,
         Stream(cread', cin'), InFlight(cread', cin') \subseteq InFlight(cread, cin)
  PROVE  ClientStep
<1>1. IsSeq(ctrans) /\ ctrans' = Append(ctrans, Digest(m))
  BY DEF AppendToTranscript, ClientTypes
<1>2. /\ IsSeq(ctrans') /\ HelloOutcome(ctrans', cneg')
      /\ StoredAuth(ctrans') <=> StoredAuth(ctrans)
      /\ ExtensionsOutcome(ctrans, cneg') => ExtensionsOutcome(ctrans', cneg')
  BY <1>1, AppendKeeps
<1>3. ExtensionsOutcome(ctrans', cneg')
  BY <1>1, <1>2
<1>4. cauth = "Stored" <=> StoredAuth(ctrans)
  BY DEF ClientInv
<1>5. ~ClientDone /\ ~ClientDone'
  BY DEF ClientInv, ClientDone
<1>6. ClientTypes'
  BY <1>2 DEF ClientTypes
<1>7. ClientInv'
  BY <1>2, <1>3, <1>4, <1>5 DEF ClientInv
<1>8. \E x : /\ cout' = cout \o x /\ SoundRecords(x)
             /\ \A k \in CarriedBy(x) : FromClient(k)'
  BY ClientSendsNothing
<1> QED
  BY <1>5, <1>6, <1>7, <1>8 DEF ClientStep

LEMMA ClientFlightReads ==
  ASSUME ClientTypes, ClientInv,
         \/ C!HandleEncryptedExtensions \/ C!HandleCertificateRequest
         \/ C!HandleCertificate
         \/ \E trusted \in Verdicts : C!HandleCertificateVerify(trusted)
  PROVE  ClientStep
<1> DEFINE m == C!ev.msg
<1>1. /\ CanRead(cread, cin) /\ cin' = C!ev.in /\ C!ev.kind = "event"
      /\ cstate \in {"ExpectingEncryptedExtensions", "ExpectingCertificate",
                     "ExpectingCertificateVerify"}
      /\ C!HandleEncryptedExtensions =>
           cstate = "ExpectingEncryptedExtensions" /\ m.type = "EncryptedExtensions"
      /\ ~C!HandleEncryptedExtensions => cstate # "ExpectingEncryptedExtensions"
      /\ C!HandleCertificateRequest => cstate = "ExpectingCertificate"
  BY ClientWords DEF C!HandleEncryptedExtensions, C!HandleCertificateRequest,
       C!HandleCertificate, C!HandleCertificateVerify, C!Event
<1>2. /\ Stream(C!ev.layer, cin') /\ ClientConsumes
      /\ InFlight(C!ev.layer, cin') \subseteq InFlight(cread, cin)
  BY <1>1, ClientEvent DEF ClientConsumes
<1>3. CASE \E d : C!HandleError(d)
  BY <1>2, <1>3, ClientErrorStep
<1>4. HelloOutcome(ctrans, cneg)
  BY <1>1 DEF ClientInv
<1>5. CASE C!HandleEncryptedExtensions /\ ~\E d : C!HandleError(d)
  <2> DEFINE early == CASE m.early -> "Accepted"
                        [] ~m.early /\ cneg.early = "Attempted" -> "Rejected"
                        [] OTHER -> cneg.early
  <2>1. /\ ctrans' = AppendToTranscript(ctrans, m) /\ cread' = C!ev.layer
        /\ cneg' = [cneg EXCEPT !.alpn = m.alpn, !.early = early]
        /\ cstate' \in {"ExpectingFinished", "ExpectingCertificate"}
        /\ UNCHANGED <<coffer, csched, cauth, cout, ccalls>>
    BY <1>5, ClientWords DEF C!HandleEncryptedExtensions
  <2>2. cneg.early # "Accepted" /\ Len(ctrans) = HelloAt(ctrans)
    BY <1>1, <1>5 DEF ClientInv
  <2>3. early = "Accepted" <=> m.early
    BY <2>2
  <2> HIDE DEF early
  <2>4. /\ DOMAIN cneg' = DOMAIN cneg /\ cneg'.alpn = m.alpn /\ cneg'.early = early
        /\ \A f \in {"version", "cipher", "group", "kex", "pskType", "pskMode"} :
             cneg'[f] = cneg[f]
    <3>1. {"version", "cipher", "group", "kex", "pskType", "pskMode", "early", "alpn"}
            \subseteq DOMAIN cneg
      BY DEF ClientTypes, C!NothingNegotiated
    <3> QED
      BY <2>1, <3>1
  <2>5. /\ cneg'.version = cneg.version /\ cneg'.cipher = cneg.cipher
        /\ cneg'.group = cneg.group /\ cneg'.kex = cneg.kex
        /\ cneg'.pskType = cneg.pskType /\ cneg'.pskMode = cneg.pskMode
    BY <2>4
  <2>6. HelloOutcome(ctrans, cneg')
    BY <1>4, <2>5 DEF HelloOutcome
  <2>7. Digest(m) = m
    BY <1>1, <1>5 DEF Digest
  <2>8. ExtensionsOutcome(Append(ctrans, Digest(m)), cneg')
    <3> DEFINE u == Append(ctrans, m)
    <3>1. IsSeq(ctrans)
      BY DEF ClientTypes
    <3>2. Len(u) = Len(ctrans) + 1 /\ HelloAt(u) = HelloAt(ctrans) /\ u[Len(ctrans) + 1] = m
      BY <1>4, <3>1, AppendKeeps
    <3>3. Len(ctrans) \in Nat
      BY <3>1, IsSeqDomain
    <3> HIDE DEF u
    <3>4. Len(u) > HelloAt(u) /\ u[HelloAt(u) + 1] = m
      BY <2>2, <3>2, <3>3
    <3>5. ExtensionsOutcome(u, cneg')
      BY <2>3, <2>4, <3>4 DEF ExtensionsOutcome
    <3> QED
      BY <2>7, <3>5 DEF u
  <2> HIDE DEF m
  <2> QED
    BY <1>1, <1>2, <2>1, <2>4, <2>6, <2>8, ClientHashStep
<1>6. CASE /\ \/ C!HandleCertificateRequest \/ C!HandleCertificate
              \/ \E trusted \in Verdicts : C!HandleCertificateVerify(trusted)
           /\ ~\E d : C!HandleError(d)
  <2>1. /\ ctrans' = AppendToTranscript(ctrans, m) /\ cread' = C!ev.layer
        /\ cstate' \in {"ExpectingCertificate", "ExpectingCertificateVerify",
                        "ExpectingFinished"}
        /\ UNCHANGED <<coffer, cneg, csched, cout, ccalls>>
    BY <1>1, <1>6, ClientWords DEF C!HandleCertificateRequest, C!HandleCertificate,
         C!HandleCertificateVerify, C!Event
  <2>2. cstate \in {"ExpectingCertificate", "ExpectingCertificateVerify"}
    BY <1>6 DEF C!HandleCertificateRequest, C!HandleCertificate,
         C!HandleCertificateVerify, C!Event
  <2>3. ExtensionsOutcome(ctrans, cneg)
    BY <2>2 DEF ClientInv
  <2>4. cauth' = "Stored" <=> cauth = "Stored"
    <3>1. None # "Stored"
      BY DEF None
    <3>2. CASE C!HandleCertificateRequest
      <4> DEFINE checks == << <<cauth # None, "unexpected_message">>,
                              <<C!ev.msg.fault # None, "illegal_parameter">> >>
      <4>1. FirstHit(checks) = "ok" /\ cauth' \in {"Sent", "RequestedNoMatch"}
        BY <1>6, <3>2, ClientWords DEF C!HandleCertificateRequest
      <4>2. /\ IsSeq(checks) /\ DOMAIN checks = 1 .. 2
            /\ checks[1][1] = (cauth # None) /\ checks[1][2] # "ok"
            /\ checks[2][2] # "ok"
        BY TupleIsSeq
      <4> HIDE DEF checks
      <4>3. Silent(checks)
        BY <4>1, <4>2, FirstHitCases
      <4>4. ~checks[1][1]
        BY <4>2, <4>3 DEF Silent
      <4> QED
        BY <3>1, <4>1, <4>2, <4>4
    <3>3. CASE C!HandleCertificate
      BY <1>6, <3>1, <3>3, ClientWords DEF C!HandleCertificate
    <3>4. CASE \E trusted \in Verdicts : C!HandleCertificateVerify(trusted)
      BY <1>6, <3>4, ClientWords DEF C!HandleCertificateVerify
    <3> QED
      BY <1>6, <3>2, <3>3, <3>4
  <2> HIDE DEF m
  <2> QED
    BY <1>1, <1>2, <1>4, <2>1, <2>2, <2>3, <2>4, ClientHashStep
<1> QED
  BY <1>3, <1>5, <1>6

-----------------------------------------------------------------------------
(* The client's second flight.                                             *)

(* The digests of one message more.                                        *)
LEMMA DigestsAppend ==
  ASSUME NEW t, NEW ms, NEW m, IsSeq(t), IsSeq(ms)
  PROVE  Digests(t, Append(ms, m)) = Append(Digests(t, ms), Digest(m))
<1> DEFINE more == Append(ms, m)
           u == Digests(t, more)
           d == Digests(t, ms)
           w == Append(d, Digest(m))
<1>1. /\ IsSeq(more) /\ Len(more) = Len(ms) + 1 /\ more[Len(ms) + 1] = m
      /\ \A i \in 1 .. Len(ms) : more[i] = ms[i]
  BY AppendSeq
<1>2. Len(t) \in Nat /\ Len(ms) \in Nat
  BY IsSeqDomain
<1> HIDE DEF more
<1>3. /\ IsSeq(d) /\ Len(d) = Len(t) + Len(ms) /\ \A i \in 1 .. Len(t) : d[i] = t[i]
      /\ \A i \in 1 .. Len(ms) : d[Len(t) + i] = Digest(ms[i])
  BY DigestsAt
<1>4. /\ IsSeq(u) /\ Len(u) = Len(t) + Len(more) /\ \A i \in 1 .. Len(t) : u[i] = t[i]
      /\ \A i \in 1 .. Len(more) : u[Len(t) + i] = Digest(more[i])
  <2>1. IsSeq(more)
    BY <1>1
  <2> QED
    BY <2>1, DigestsAt
<1> HIDE DEF d, u
<1>5. /\ IsSeq(w) /\ Len(w) = Len(d) + 1 /\ w[Len(d) + 1] = Digest(m)
      /\ \A i \in 1 .. Len(d) : w[i] = d[i]
  <2>1. IsSeq(d)
    BY <1>3
  <2> QED
    BY <2>1, AppendSeq
<1> HIDE DEF w
<1>6. Len(u) = Len(t) + Len(ms) + 1 /\ Len(w) = Len(t) + Len(ms) + 1
  BY <1>1, <1>2, <1>3, <1>4, <1>5
<1>7. ASSUME NEW i \in 1 .. Len(u) PROVE u[i] = w[i]
  <2>1. CASE i \in 1 .. Len(t)
    BY <1>2, <1>3, <1>4, <1>5, <2>1
  <2>2. CASE i = Len(t) + Len(ms) + 1
    <3>1. Len(ms) + 1 \in 1 .. Len(more) /\ i = Len(t) + (Len(ms) + 1) /\ i = Len(d) + 1
      BY <1>1, <1>2, <1>3, <2>2
    <3> QED
      BY <1>1, <1>4, <1>5, <3>1
  <2>3. CASE i \notin 1 .. Len(t) /\ i # Len(t) + Len(ms) + 1
    <3> DEFINE j == i - Len(t)
    <3>1. /\ j \in 1 .. Len(ms) /\ i = Len(t) + j /\ i \in 1 .. Len(d)
          /\ j \in 1 .. Len(more)
      BY <1>1, <1>2, <1>3, <1>6, <2>3
    <3> HIDE DEF j
    <3>2. u[i] = Digest(ms[j])
      BY <1>1, <1>4, <3>1
    <3>3. w[i] = Digest(ms[j])
      BY <1>3, <1>5, <3>1
    <3> QED
      BY <3>2, <3>3
  <2> QED
    BY <2>1, <2>2, <2>3
<1>8. u \in Seq({u[i] : i \in DOMAIN u}) /\ w \in Seq({w[i] : i \in DOMAIN w})
  BY <1>4, <1>5 DEF IsSeq
<1>9. u = w
  BY <1>6, <1>7, <1>8, SeqEqual
<1> QED
  BY <1>9 DEF u, w, d, more

LEMMA DigestsNone ==
  ASSUME NEW t, IsSeq(t)
  PROVE  Digests(t, <<>>) = t
<1> DEFINE u == Digests(t, <<>>)
<1>1. IsSeq(u) /\ Len(u) = Len(t) + 0 /\ \A i \in 1 .. Len(t) : u[i] = t[i]
  BY DigestsAt, TupleIsSeq
<1> HIDE DEF u
<1>2. Len(t) \in Nat
  BY IsSeqDomain
<1>3. u \in Seq({u[i] : i \in DOMAIN u}) /\ t \in Seq({t[i] : i \in DOMAIN t})
  BY <1>1 DEF IsSeq
<1> QED
  BY <1>1, <1>2, <1>3, SeqEqual DEF u

LEMMA TuplesAppend ==
  /\ \A a : <<a>> = Append(<<>>, a)
  /\ \A a, b : <<a, b>> = Append(<<a>>, b)
<1>1. ASSUME NEW a PROVE <<a>> = Append(<<>>, a)
  <2> DEFINE R == {a}
             u == Append(<<>>, a)
             w == <<a>>
  <2>1. /\ u \in Seq(R) /\ w \in Seq(R) /\ Len(u) = 1 /\ Len(w) = 1 /\ u[1] = w[1]
    OBVIOUS
  <2> HIDE DEF R, u, w
  <2>2. \A i \in 1 .. Len(u) : u[i] = w[i]
    BY <2>1
  <2>3. u = w
    BY <2>1, <2>2, SeqEqual
  <2> QED
    BY <2>3 DEF u, w
<1>2. ASSUME NEW a, NEW b PROVE <<a, b>> = Append(<<a>>, b)
  <2> DEFINE R == {a, b}
             u == Append(<<a>>, b)
             w == <<a, b>>
  <2>1. /\ u \in Seq(R) /\ w \in Seq(R) /\ Len(u) = 2 /\ Len(w) = 2
        /\ u[1] = w[1] /\ u[2] = w[2]
    OBVIOUS
  <2> HIDE DEF R, u, w
  <2>2. \A i \in 1 .. Len(u) : u[i] = w[i]
    BY <2>1
  <2>3. u = w
    BY <2>1, <2>2, SeqEqual
  <2> QED
    BY <2>3 DEF u, w
<1> QED
  BY <1>1, <1>2

LEMMA DigestsOfOne ==
  ASSUME NEW t, IsSeq(t), NEW a
  PROVE  Digests(t, <<a>>) = Append(t, Digest(a))
<1> DEFINE no == <<>>
<1>1. IsSeq(no)
  BY TupleIsSeq
<1>2. Digests(t, no) = t
  BY DigestsNone
<1>3. Append(no, a) = <<a>>
  BY TuplesAppend
<1> HIDE DEF no
<1>4. Digests(t, Append(no, a)) = Append(Digests(t, no), Digest(a))
  BY <1>1, DigestsAppend
<1> QED
  BY <1>2, <1>3, <1>4

LEMMA DigestsOfTwo ==
  ASSUME NEW t, IsSeq(t), NEW a, NEW b
  PROVE  Digests(t, <<a, b>>) = Append(Append(t, Digest(a)), Digest(b))
<1> DEFINE one == <<a>>
<1>1. Digests(t, one) = Append(t, Digest(a))
  BY DigestsOfOne
<1>2. IsSeq(one) /\ Append(one, b) = <<a, b>>
  BY TupleIsSeq, TuplesAppend
<1> HIDE DEF one
<1>3. IsSeq(one)
  BY <1>2
<1>4. Digests(t, Append(one, b)) = Append(Digests(t, one), Digest(b))
  BY <1>3, DigestsAppend
<1> QED
  BY <1>1, <1>2, <1>4

(* Nothing follows the end of a transcript.                                *)
LEMMA SignedAtEnd ==
  ASSUME NEW t, IsSeq(t)
  PROVE  ~SignedAfter(t, Len(t))
<1>1. DOMAIN t = 1 .. Len(t) /\ Len(t) \in Nat
  BY IsSeqDomain
<1> QED
  BY <1>1 DEF SignedAfter

(***************************************************************************)
(* What the client authenticates itself with: its messages are hashed in   *)
(* order, and one of them is a signature exactly if it sends its chain.    *)
(***************************************************************************)
LEMMA ClientAuthenticates ==
  ASSUME NEW t, NEW n \in Nat, IsSeq(t), n <= Len(t), ~SignedAfter(t, n)
  PROVE  LET a == C!ClientAuthentication(t)
             d == Digests(t, a)
         IN /\ IsSeq(a)
            /\ \A k \in DOMAIN a : a[k].type \in {"Certificate", "CertificateVerify"}
            /\ IsSeq(d) /\ n <= Len(d)
            /\ SignedAfter(d, n) <=> cauth = "Sent"
<1> DEFINE a == C!ClientAuthentication(t)
           d == Digests(t, a)
           chain == Certificate("chain")
           empty == Certificate("empty")
           signed == CertificateVerify(Append(t, chain), "supported")
<1>1. a = CASE cauth = "RequestedNoMatch" -> <<empty>>
            [] cauth = "Sent" -> <<chain, signed>>
            [] OTHER -> <<>>
  BY ClientWords DEF C!ClientAuthentication
<1>2. /\ chain.type = "Certificate" /\ empty.type = "Certificate"
      /\ signed.type = "CertificateVerify"
  BY DEF Certificate, CertificateVerify
<1> HIDE DEF a, chain, empty, signed
<1>3. Len(t) \in Nat
  BY IsSeqDomain
<1>4. CASE cauth = "RequestedNoMatch"
  <2>1. a = <<empty>>
    BY <1>1, <1>4
  <2>2. d = Append(t, Digest(empty))
    BY <2>1, DigestsOfOne
  <2>3. IsSeq(d) /\ Len(d) = Len(t) + 1
    BY <2>2, AppendSeq
  <2>4. ~SignedAfter(d, n)
    BY <1>2, <2>2, SignedAppend, DigestType
  <2>5. IsSeq(a) /\ \A k \in DOMAIN a : a[k].type = "Certificate"
    BY <1>2, <2>1, TupleIsSeq
  <2>6. n <= Len(d)
    BY <1>3, <2>3
  <2> QED
    BY <1>4, <2>3, <2>4, <2>5, <2>6 DEF a
<1>5. CASE cauth = "Sent"
  <2>1. a = <<chain, signed>>
    BY <1>1, <1>5
  <2> DEFINE u == Append(t, Digest(chain))
  <2>3. IsSeq(u) /\ Len(u) = Len(t) + 1
    BY AppendSeq
  <2>2. Digests(t, <<chain, signed>>) = Append(u, Digest(signed))
    BY DigestsOfTwo
  <2> HIDE DEF u
  <2>4. d = Append(u, Digest(signed))
    BY <2>1, <2>2
  <2>5. IsSeq(u) /\ n <= Len(u)
    BY <1>3, <2>3
  <2>6. IsSeq(d) /\ Len(d) = Len(u) + 1
    BY <2>4, <2>5, AppendSeq
  <2>7. SignedAfter(d, n)
    BY <1>2, <2>4, <2>5, SignedAppend, DigestType
  <2>8. IsSeq(a) /\ \A k \in DOMAIN a : a[k].type \in {"Certificate", "CertificateVerify"}
    <3>1. IsSeq(a) /\ DOMAIN a = {1, 2} /\ a[1] = chain /\ a[2] = signed
      BY <2>1, TupleIsSeq
    <3> QED
      BY <1>2, <3>1
  <2>9. n <= Len(d)
    BY <1>3, <2>3, <2>6
  <2> QED
    BY <1>5, <2>6, <2>7, <2>8, <2>9 DEF a
<1>6. CASE cauth \notin {"RequestedNoMatch", "Sent"}
  <2>1. a = <<>>
    BY <1>1, <1>6
  <2>2. d = t
    BY <2>1, DigestsNone
  <2>3. IsSeq(a) /\ DOMAIN a = {}
    BY <2>1, TupleIsSeq
  <2> QED
    BY <1>6, <2>2, <2>3 DEF a
<1> QED
  BY <1>4, <1>5, <1>6

(* The record of the client's Finished, and the messages before it.        *)
LEMMA LastRecord ==
  ASSUME NEW l, NEW a, NEW fin, IsSeq(a), fin.type = "Finished",
         \A k \in DOMAIN a : a[k].type \in {"Certificate", "CertificateVerify"}
  PROVE  LET x == <<Seal(l, Append(a, fin))>>
         IN /\ SoundRecords(x)
            /\ \A m \in CarriedBy(x) :
                 m = fin \/ m.type \in {"Certificate", "CertificateVerify"}
<1> DEFINE b == Append(a, fin)
<1>1. /\ IsSeq(b) /\ DOMAIN b = 1 .. Len(a) + 1 /\ Len(b) = Len(a) + 1
      /\ \A i \in 1 .. Len(a) : b[i] = a[i]
      /\ b[Len(a) + 1] = fin
  BY AppendSeq
<1>2. Len(a) \in Nat /\ DOMAIN a = 1 .. Len(a)
  BY IsSeqDomain
<1> HIDE DEF b
<1>3. b # <<>>
  BY <1>1, <1>2
<1>4. \A k \in DOMAIN b :
        b[k] = fin \/ b[k].type \in {"Certificate", "CertificateVerify"}
  <2> SUFFICES ASSUME NEW k \in DOMAIN b
               PROVE  b[k] = fin \/ b[k].type \in {"Certificate", "CertificateVerify"}
    OBVIOUS
  <2>1. k \in DOMAIN a \/ k = Len(a) + 1
    BY <1>1, <1>2
  <2> QED
    BY <1>1, <1>2, <2>1
<1>5. SoundRecords(<<Seal(l, b)>>) /\ CarriedBy(<<Seal(l, b)>>) = Carried(b)
  <2>1. IsSeq(b)
    BY <1>1
  <2> QED
    BY <1>3, <2>1, OneRecord
<1>6. ASSUME NEW m \in Carried(b)
      PROVE  m = fin \/ m.type \in {"Certificate", "CertificateVerify"}
  <2>1. PICK k \in DOMAIN b : m = b[k] \/ (b[k].type = "Front" /\ m = b[k].of)
    BY <1>6, CarriedElement
  <2>2. b[k].type # "Front"
    BY <1>4
  <2> QED
    BY <1>4, <2>1, <2>2
<1> QED
  BY <1>5, <1>6 DEF b

(* A stream that records of these messages are added to.                   *)
SendsOnly(s, u, M) ==
  \E x : u = s \o x /\ SoundRecords(x) /\ \A m \in CarriedBy(x) : m \in M

(* The records of the client's second flight.                              *)
LEMMA LastRecords ==
  ASSUME NEW s, NEW b, NEW e, NEW f, NEW l, IsSeq(s), b \in {<<CCS>>, <<>>},
         e \in {<<>>, <<Seal(l, <<EndOfEarlyData>>)>>}, SoundRecords(f)
  PROVE  SendsOnly(s, s \o b \o e \o f, CarriedBy(f) \cup {EndOfEarlyData})
<1>1. SoundRecords(e) /\ CarriedBy(e) \subseteq {EndOfEarlyData}
  <2>1. EndOfEarlyData.type # "Front"
    BY DEF EndOfEarlyData
  <2>2. /\ SoundRecords(<<Seal(l, <<EndOfEarlyData>>)>>)
        /\ CarriedBy(<<Seal(l, <<EndOfEarlyData>>)>>) = {EndOfEarlyData}
    BY <2>1, OneMessage
  <2> QED
    BY <2>2, NoRecords
<1> DEFINE g == e \o f
           x == b \o g
<1>2. SoundRecords(g) /\ CarriedBy(g) \subseteq CarriedBy(e) \cup CarriedBy(f)
  BY <1>1, SoundConcat
<1>3. (s \o b) \o e \o f = (s \o b) \o g
  <2>1. IsSeq(e) /\ IsSeq(f) /\ IsSeq(b)
    BY <1>1, TupleIsSeq DEF SoundRecords
  <2>2. IsSeq(b)
    BY <2>1
  <2> DEFINE h == s \o b
  <2>3. IsSeq(h)
    BY <2>2, ConcatSeq
  <2> HIDE DEF h
  <2>4. h \o e \o f = h \o (e \o f)
    BY <2>1, <2>3, ConcatAgain, SMTT(60)
  <2> QED
    BY <2>4 DEF h
<1> HIDE DEF g
<1>4. s \o b \o g = s \o x /\ SoundRecords(x) /\ CarriedBy(x) \subseteq CarriedBy(g)
  BY <1>2, AfterCCS
<1> HIDE DEF x
<1>5. \A m \in CarriedBy(x) : m \in CarriedBy(f) \cup {EndOfEarlyData}
  BY <1>1, <1>2, <1>4
<1> QED
  BY <1>3, <1>4, <1>5 DEF SendsOnly

LEMMA ClientFinishedStep ==
  ASSUME ClientTypes, ClientInv, C!HandleFinished
  PROVE  ClientStep
<1> DEFINE m == C!ev.msg
<1>1. /\ CanRead(cread, cin) /\ cin' = C!ev.in /\ C!ev.kind = "event"
      /\ m.type = "Finished" /\ cstate = "ExpectingFinished"
  BY ClientWords DEF C!HandleFinished, C!Event
<1>2. ClientConsumes /\ m \in InFlight(cread, cin)
  BY <1>1, ClientEvent DEF ClientConsumes
<1>3. CASE \E d : C!HandleError(d)
  BY <1>2, <1>3, ClientErrorStep
<1>4. CASE ~\E d : C!HandleError(d)
  <2> DEFINE checks == C!FinishedChecks(m)
             t == AppendToTranscript(ctrans, m)
             ended == IF C!EndsEarlyData THEN Append(t, EndOfEarlyData) ELSE t
             a == C!ClientAuthentication(ended)
             d == Digests(ended, a)
             fin == Finished(d)
             l == Layer(Key("App", "server", 0, t), FALSE)
             b == C!CCSOnce
             e == IF C!EndsEarlyData THEN <<Seal(cearly, <<EndOfEarlyData>>)>>
                                     ELSE <<>>
             f == <<Seal(cwrite, Append(a, fin))>>
  <2>1. /\ ctrans' = Digests(ended, Append(a, fin))
        /\ csched' = [C!NoSecrets EXCEPT !.appCtx = t]
        /\ cread' = l /\ cstate' = "Established"
        /\ cout' = cout \o b \o e \o f
        /\ ccalls' = Append(ccalls, Call("HandshakeSuccess", 0))
        /\ UNCHANGED <<coffer, cneg, cauth>>
    BY <1>4, ClientWords DEF C!HandleFinished, C!AppContext, C!Tell, C!AppReadLayer
  <2>2. FirstHit(checks) = "ok"
    BY <1>4, ClientWords DEF C!HandleFinished
  <2>3. m.verify = ctrans
    <3>1. /\ IsSeq(checks) /\ DOMAIN checks = 1 .. 2
          /\ checks[2][1] = (m.verify # ctrans) /\ checks[1][2] # "ok"
          /\ checks[2][2] # "ok"
      BY TupleIsSeq DEF C!FinishedChecks
    <3> HIDE DEF checks
    <3>2. Silent(checks)
      BY <2>2, <3>1, FirstHitCases
    <3>3. ~checks[2][1]
      BY <3>1, <3>2 DEF Silent
    <3> QED
      BY <3>1, <3>3
  <2> HIDE DEF checks
  <2>4. t = Append(ctrans, FinishedDigest)
    BY <1>1, DigestType DEF AppendToTranscript
  <2>5. IsLayer(l) /\ l.unparsed = <<>>
    <3> HIDE DEF t
    <3> QED
      BY NewLayer
  <2>6. b \in {<<CCS>>, <<>>}
    BY ClientWords DEF C!CCSOnce
  <2> HIDE DEF l, b, m, t
  <2>7. Stream(cread', cin') /\ InFlight(cread', cin') \subseteq InFlight(cread, cin)
    BY <1>2, <2>1, <2>5, FreshLayer DEF ClientConsumes
  <2>8. /\ HelloOutcome(ctrans, cneg) /\ ExtensionsOutcome(ctrans, cneg)
        /\ cauth = "Stored" <=> StoredAuth(ctrans)
    BY <1>1 DEF ClientInv
  <2>9. IsSeq(ctrans) /\ IsSeq(cout) /\ IsSeq(ccalls)
    BY DEF ClientTypes
  <2>10. /\ IsSeq(t) /\ Len(t) \in Nat /\ HelloOutcome(t, cneg)
         /\ ExtensionsOutcome(t, cneg) /\ (StoredAuth(t) <=> StoredAuth(ctrans))
    BY <2>4, <2>8, <2>9, AppendKeeps, IsSeqDomain
  <2>11. IsSeq(ended) /\ Len(t) <= Len(ended) /\ ~SignedAfter(ended, Len(t))
    <3>1. ~SignedAfter(t, Len(t))
      BY <2>10, SignedAtEnd
    <3>2. CASE C!EndsEarlyData
      <4>1. ended = Append(t, EndOfEarlyData)
        BY <3>2
      <4>2. EndOfEarlyData.type # "CertificateVerify"
        BY DEF EndOfEarlyData
      <4>3. ~SignedAfter(ended, Len(t))
        BY <2>10, <3>1, <4>1, <4>2, SignedAppend
      <4>4. IsSeq(ended) /\ Len(ended) = Len(t) + 1
        BY <2>10, <4>1, AppendSeq
      <4> QED
        BY <2>10, <4>3, <4>4
    <3>3. CASE ~C!EndsEarlyData
      BY <2>10, <3>1, <3>3
    <3> QED
      BY <3>2, <3>3
  <2>12. e \in {<<>>, <<Seal(cearly, <<EndOfEarlyData>>)>>}
    OBVIOUS
  <2> HIDE DEF ended, e
  <2>13. /\ IsSeq(a) /\ IsSeq(d) /\ Len(t) <= Len(d)
         /\ \A k \in DOMAIN a : a[k].type \in {"Certificate", "CertificateVerify"}
         /\ SignedAfter(d, Len(t)) <=> cauth = "Sent"
    BY <2>10, <2>11, ClientAuthenticates
  <2>14. fin.type = "Finished" /\ fin.verify = d
    BY DEF Finished
  <2> HIDE DEF a, d
  <2>15. ctrans' = Append(d, FinishedDigest)
    <3>1. IsSeq(a) /\ IsSeq(ended)
      BY <2>11, <2>13
    <3>2. Digests(ended, Append(a, fin)) = Append(d, Digest(fin))
      BY <3>1, DigestsAppend DEF d
    <3> QED
      BY <2>1, <2>14, <3>2, DigestType
  <2> HIDE DEF fin
  <2>16. IsSeq(ctrans') /\ (SignedAfter(ctrans', Len(t)) <=> cauth = "Sent")
    <3>1. IsSeq(d) /\ Len(t) \in Nat /\ Len(t) <= Len(d)
      BY <2>10, <2>13
    <3>2. FinishedDigest.type # "CertificateVerify"
      BY DEF FinishedDigest
    <3> QED
      BY <2>13, <2>15, <3>1, <3>2, SignedAppend, AppendSeq
  <2>17. DOMAIN csched' = DOMAIN C!NoSecrets /\ csched'.appCtx = t
    BY <2>1 DEF C!NoSecrets
  <2>18. IsSeq(ccalls') /\ ClientDone' /\ ~ClientDone
    <3>1. "HandshakeSuccess" = "HandshakeSuccess"
      OBVIOUS
    <3>2. Told(ccalls', "HandshakeSuccess") /\ IsSeq(ccalls')
      BY <2>1, <2>9, ToldAppend, AppendSeq
    <3>3. ~ClientDone
      BY <1>1 DEF ClientInv
    <3> QED
      BY <3>2, <3>3 DEF ClientDone
  <2>19. /\ SoundRecords(f)
         /\ \A k \in CarriedBy(f) :
              k = fin \/ k.type \in {"Certificate", "CertificateVerify"}
    BY <2>13, <2>14, LastRecord
  <2> HIDE DEF f
  <2>20. PICK x : /\ cout \o b \o e \o f = cout \o x /\ SoundRecords(x)
                  /\ \A k \in CarriedBy(x) : k \in CarriedBy(f) \/ k = EndOfEarlyData
    <3>1. SendsOnly(cout, cout \o b \o e \o f, CarriedBy(f) \cup {EndOfEarlyData})
      BY <2>6, <2>9, <2>12, <2>19, LastRecords
    <3> QED
      BY <3>1 DEF SendsOnly
  <2>21. cout' = cout \o x /\ IsSeq(cout')
    <3>1. IsSeq(x)
      BY <2>20 DEF SoundRecords
    <3>2. IsSeq(cout \o x)
      BY <2>9, <3>1, ConcatSeq
    <3> QED
      BY <2>1, <2>20, <3>2
  <2>22. ASSUME NEW k \in CarriedBy(x) PROVE FromClient(k)'
    <3>1. CASE k = EndOfEarlyData
      BY <3>1 DEF EndOfEarlyData, FromClient
    <3>2. CASE k.type \in {"Certificate", "CertificateVerify"}
      BY <3>2 DEF FromClient
    <3>3. CASE k.type = "Finished" /\ k.verify = d
      <4>1. ClientDone' /\ ctrans' = Append(k.verify, FinishedDigest)
        BY <2>15, <2>18, <3>3
      <4> QED
        BY <3>3, <4>1 DEF FromClient
    <3> QED
      BY <2>14, <2>19, <2>20, <3>1, <3>2, <3>3
  <2>23. ClientTypes'
    BY <2>1, <2>7, <2>16, <2>17, <2>18, <2>21 DEF ClientTypes
  <2>24. ClientInv'
    <3>1. Outcome(csched'.appCtx, cneg')
      BY <2>1, <2>10, <2>17 DEF Outcome
    <3>2. cauth' \in {"Sent", "Stored"} <=> Authenticated(ctrans', csched'.appCtx)
      BY <2>1, <2>8, <2>10, <2>16, <2>17 DEF Authenticated
    <3> QED
      BY <2>1, <3>1, <3>2 DEF ClientInv
  <2>25. csched'.appCtx = Append(m.verify, FinishedDigest)
    BY <2>3, <2>4, <2>17
  <2>26. \E y : /\ cout' = cout \o y /\ SoundRecords(y)
                /\ \A k \in CarriedBy(y) : FromClient(k)'
    BY <2>20, <2>21, <2>22
  <2> QED
    BY <1>1, <1>2, <2>7, <2>18, <2>23, <2>24, <2>25, <2>26 DEF ClientStep
<1> QED
  BY <1>3, <1>4

LEMMA ClientMoves ==
  ASSUME ClientTypes, ClientInv, \A m \in InFlight(cread, cin) : FromServer(m),
         ClientConnects \/ ClientReads \/ ClientAsks
  PROVE  ClientStep /\ ClientSends
<1>1. ClientSends
  BY DEF ClientConnects, ClientReads, ClientAsks
<1>2. CASE ClientConnects
  <2>1. C!Connect
    BY <1>2 DEF ClientConnects
  <2> QED
    BY <1>1, <2>1, ClientConnectStep
<1>3. CASE ClientAsks
  <2>1. /\ cin' = cin
        /\ \/ C!AppWrite \/ C!EarlyAppWrite \/ C!AppClose \/ C!AppCloseImmediate
           \/ \E requested \in BOOLEAN : C!InitiateKeyUpdate(requested)
    BY <1>3 DEF ClientAsks, ClientCloses
  <2> QED
    BY <1>1, <2>1, ClientAsked
<1>4. CASE ClientReads
  <2>1. \/ C!UnexpectedEvent \/ C!BadRecord \/ C!NoRecordLayer \/ C!RecordWithoutEvent
        \/ C!HandleHelloRetryRequest \/ C!HandleServerHello
        \/ C!HandleEncryptedExtensions \/ C!HandleCertificateRequest
        \/ C!HandleCertificate
        \/ \E trusted \in Verdicts : C!HandleCertificateVerify(trusted)
        \/ C!HandleFinished \/ C!HandleNewSessionTicket \/ C!HandleAppData
        \/ C!HandleKeyUpdate \/ C!HandleCloseNotify
    BY <1>4 DEF ClientReads, C!PeerEvent
  <2>2. CASE \/ C!UnexpectedEvent \/ C!BadRecord \/ C!NoRecordLayer
             \/ C!RecordWithoutEvent \/ C!HandleNewSessionTicket \/ C!HandleAppData
             \/ C!HandleKeyUpdate \/ C!HandleCloseNotify
    BY <1>1, <2>2, ClientQuietReads
  <2>3. CASE C!HandleHelloRetryRequest
    BY <1>1, <2>3, ClientRetryStep
  <2>4. CASE C!HandleServerHello
    BY <1>1, <2>4, ClientHelloStep
  <2>5. CASE \/ C!HandleEncryptedExtensions \/ C!HandleCertificateRequest
             \/ C!HandleCertificate
             \/ \E trusted \in Verdicts : C!HandleCertificateVerify(trusted)
    BY <1>1, <2>5, ClientFlightReads
  <2>6. CASE C!HandleFinished
    BY <1>1, <2>6, ClientFinishedStep
  <2> QED
    BY <2>1, <2>2, <2>3, <2>4, <2>5, <2>6
<1> QED
  BY <1>2, <1>3, <1>4

(* A step of the client, seen from the connection.                         *)
LEMMA ClientKeepsInv ==
  ASSUME IInv, ClientStep, ClientSends
  PROVE  IInv'
<1>1. PICK x : /\ cout' = cout \o x /\ SoundRecords(x)
               /\ \A m \in CarriedBy(x) : FromClient(m)'
  BY DEF ClientStep
<1>2. sin' = sin \o x
  <2>1. IsSeq(cout) /\ IsSeq(x)
    BY <1>1 DEF IInv, ClientTypes, SoundRecords
  <2>2. Sent(cout, cout') = x
    BY <1>1, <2>1, SentIs
  <2> QED
    BY <2>2 DEF ClientSends
<1>3. /\ Stream(sread, sin')
      /\ InFlight(sread, sin') \subseteq InFlight(sread, sin) \cup CarriedBy(x)
  BY <1>1, <1>2, StreamGrows DEF IInv, ServerTypes
<1>4. /\ UNCHANGED <<sctx, sstate, sread, shs, sneg, strans, ssched, scert, sout, scalls>>
      /\ ServerDone' <=> ServerDone
  BY DEF ClientSends, ServerDone
<1>5. ServerTypes'
  BY <1>3, <1>4 DEF IInv, ServerTypes
<1>6. ServerInv'
  BY <1>4 DEF IInv, ServerInv
<1>7. ASSUME NEW m \in InFlight(cread', cin') PROVE FromServer(m)'
  <2>1. FromServer(m)
    BY <1>7 DEF ClientStep, IInv, JointInv
  <2> QED
    BY <1>4, <2>1 DEF FromServer
<1>8. ASSUME NEW m \in InFlight(sread', sin') PROVE FromClient(m)'
  <2>1. CASE m \in CarriedBy(x)
    BY <1>1, <2>1
  <2>2. CASE m \in InFlight(sread, sin)
    <3>1. FromClient(m)
      BY <2>2 DEF IInv, JointInv
    <3>2. ClientDone => ClientDone' /\ ctrans' = ctrans
      BY DEF ClientStep
    <3> QED
      BY <3>1, <3>2 DEF FromClient
  <2> QED
    BY <1>3, <1>4, <1>8, <2>1, <2>2
<1>9. ClientDone' => csched'.appCtx = ssched'.appCtx /\ ssched'.appCtx # <<>>
  <2>1. CASE ClientDone
    BY <1>4, <2>1 DEF ClientStep, IInv, JointInv
  <2>2. CASE \E m \in InFlight(cread, cin) :
               m.type = "Finished" /\ csched'.appCtx = Append(m.verify, FinishedDigest)
    BY <1>4, <2>2 DEF IInv, JointInv, FromServer
  <2> QED
    BY <2>1, <2>2 DEF ClientStep
<1>10. ServerDone' => ClientDone' /\ strans' = ctrans'
  BY <1>4 DEF ClientStep, IInv, JointInv
<1> QED
  BY <1>5, <1>6, <1>7, <1>8, <1>9, <1>10 DEF ClientStep, IInv, JointInv

-----------------------------------------------------------------------------
(* The invariant is inductive and implies the agreement.                   *)

LEMMA InitEstablishes ==
  ASSUME Init
  PROVE  IInv
<1>1. /\ cstate = "Uninitialized" /\ cread = NoLayer /\ cin = <<>> /\ cout = <<>>
      /\ coffer = C!NothingOffered /\ cneg = C!NothingNegotiated /\ ctrans = <<>>
      /\ csched = C!NoSecrets /\ ccalls = <<>>
  BY ClientWords DEF Init, C!InitClient
<1>2. /\ sstate = "Uninitialized" /\ sread = NoLayer /\ sin = <<>> /\ sout = <<>>
      /\ shs = NoLayer /\ sneg = S!NothingNegotiated /\ strans = <<>>
      /\ ssched = S!NoSecrets /\ scalls = <<>>
  BY ServerWords DEF Init, S!InitServer
<1>3. sctx.pskModes \in Seq({"psk_ke", "psk_dhe_ke"})
  BY ConfigurationsAssumption DEF Init
<1>4. ~ClientDone /\ ~ServerDone
  BY <1>1, <1>2 DEF ClientDone, ServerDone, Told
<1>5. /\ Stream(NoLayer, <<>>) /\ InFlight(NoLayer, <<>>) = {}
      /\ IsLayer(NoLayer) /\ NoLayer.unparsed = <<>>
  BY EmptyLayers, FreshLayer, NoRecords
<1>6. cneg.kex = None
  BY <1>1, ClientWords DEF C!NothingNegotiated
<1>7. sneg.kex = None /\ sneg.early = None /\ ssched.appCtx = <<>>
  BY <1>2, ServerWords DEF S!NothingNegotiated, S!NoSecrets
<1>8. ServerTypes
  BY <1>2, <1>3, <1>5, <1>7, TupleIsSeq DEF ServerTypes
<1>9. ServerInv
  <2>1. None # "Accepted"
    BY DEF None
  <2> QED
    BY <1>2, <1>4, <1>7, <2>1 DEF ServerInv
<1>10. ClientTypes
  BY <1>1, <1>5, TupleIsSeq DEF ClientTypes
<1>11. ClientInv
  BY <1>1, <1>4, <1>6 DEF ClientInv
<1>12. JointInv
  BY <1>1, <1>2, <1>4, <1>5 DEF JointInv
<1> QED
  BY <1>8, <1>9, <1>10, <1>11, <1>12 DEF IInv

LEMMA NextPreserves ==
  ASSUME IInv, [Next]_vars
  PROVE  IInv'
<1>1. CASE ClientConnects \/ ClientReads \/ ClientAsks
  <2>1. ClientStep /\ ClientSends
    BY <1>1, ClientMoves DEF IInv, JointInv
  <2> QED
    BY <2>1, ClientKeepsInv
<1>2. CASE ServerAccepts \/ ServerReads \/ ServerAsks
  <2>1. ServerStep /\ ServerSends
    BY <1>2, ServerMoves DEF IInv, JointInv
  <2> QED
    BY <2>1, ServerKeepsInv
<1>3. CASE UNCHANGED vars
  <2>1. /\ UNCHANGED <<cread, cin, cout, cstate, coffer, cneg, ctrans, csched, cauth,
                       ccalls>>
        /\ UNCHANGED <<sctx, sread, sin, sout, sstate, shs, sneg, strans, ssched, scert,
                       scalls>>
    BY <1>3 DEF vars, C!vars, S!vars
  <2>2. (ClientDone' <=> ClientDone) /\ (ServerDone' <=> ServerDone)
    BY <2>1 DEF ClientDone, ServerDone
  <2>3. ServerTypes' /\ ClientTypes'
    BY <2>1 DEF IInv, ServerTypes, ClientTypes
  <2>4. ServerInv'
    BY <2>1, <2>2 DEF IInv, ServerInv
  <2>5. ClientInv'
    BY <2>1, <2>2 DEF IInv, ClientInv
  <2>6. \A m : (FromServer(m) => FromServer(m)') /\ (FromClient(m) => FromClient(m)')
    BY <2>1, <2>2 DEF FromServer, FromClient
  <2>7. JointInv'
    BY <2>1, <2>2, <2>6 DEF IInv, JointInv
  <2> QED
    BY <2>3, <2>4, <2>5, <2>7 DEF IInv
<1> QED
  BY <1>1, <1>2, <1>3 DEF Next

LEMMA InvariantAgrees ==
  ASSUME IInv
  PROVE  Agreement
<1>1. ASSUME ClientDone
      PROVE  /\ \A f \in {"version", "cipher", "group", "kex", "pskMode", "alpn"} :
                  cneg[f] = sneg[f]
             /\ csched.appCtx = ssched.appCtx
             /\ cneg.pskType = "Resumption" <=> sneg.pskType = "Resumption"
             /\ cneg.early = "Accepted" <=> sneg.early = "Accepted"
  <2> DEFINE app == ssched.appCtx
  <2>1. csched.appCtx = app /\ app # <<>>
    BY <1>1 DEF IInv, JointInv
  <2>2. Outcome(app, cneg) /\ Outcome(app, sneg)
    BY <1>1, <2>1 DEF IInv, ClientInv, ServerInv
  <2> HIDE DEF app
  <2>3. /\ cneg.version = sneg.version /\ cneg.cipher = sneg.cipher
        /\ cneg.group = sneg.group /\ cneg.kex = sneg.kex
        /\ cneg.pskMode = sneg.pskMode /\ cneg.alpn = sneg.alpn
        /\ cneg.pskType = "Resumption" <=> sneg.pskType = "Resumption"
        /\ cneg.early = "Accepted" <=> sneg.early = "Accepted"
    BY <2>2 DEF Outcome, HelloOutcome, ExtensionsOutcome
  <2> QED
    BY <2>1, <2>3 DEF app
<1>2. ASSUME ServerDone
      PROVE  ClientDone /\ (scert <=> cauth \in {"Sent", "Stored"})
  <2>1. ClientDone /\ strans = ctrans
    BY <1>2 DEF IInv, JointInv
  <2>2. csched.appCtx = ssched.appCtx /\ ssched.appCtx # <<>>
    BY <2>1 DEF IInv, JointInv
  <2>3. scert <=> Authenticated(strans, ssched.appCtx)
    BY <2>2 DEF IInv, ServerInv
  <2>4. cauth \in {"Sent", "Stored"} <=> Authenticated(ctrans, csched.appCtx)
    BY <2>1 DEF IInv, ClientInv
  <2> QED
    BY <2>1, <2>2, <2>3, <2>4
<1> QED
  BY <1>1, <1>2 DEF Agreement

(***************************************************************************)
(* In every reachable state, a client that was told of success has         *)
(* negotiated what its server has, with the same application secret; a     *)
(* server that was told of success has a client that was, and knows its    *)
(* certificate exactly if the client authenticated itself: the handlers of *)
(* ClientProtocol.cpp and ServerProtocol.cpp over a reliable stream, with  *)
(* retries, tickets, early data, client certificates, errors and closes.   *)
(***************************************************************************)
THEOREM HandshakeAgreement == Spec => []Agreement
<1>1. Init => IInv
  BY InitEstablishes
<1>2. IInv /\ [Next]_vars => IInv'
  BY NextPreserves
<1>3. IInv => Agreement
  BY InvariantAgrees
<1> QED
  BY <1>1, <1>2, <1>3, PTL DEF Spec
=============================================================================
