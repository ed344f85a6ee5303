--------------------------- MODULE Crypto_proofs ---------------------------
(***************************************************************************)
(* Proofs about the key derivations: the contexts of hybrid public key     *)
(* encryption, for every limit of the sequence number; exported            *)
(* authenticators, for every set of connections, certificates and          *)
(* requests; the key schedule, for every set of setups; and certificates   *)
(* and delegated credentials, for every set of chains, names and peers.    *)
(* Each part is the behaviours of the module Subsystems in which that part *)
(* moves.                                                                  *)
(***************************************************************************)
EXTENDS Hpke, ExportedAuth, Credentials, WellFoundedInduction, FiniteSetTheorems, TLAPS

HpkeSpec == HpkeInit /\ [][HpkeNext]_hp

-----------------------------------------------------------------------------
(* Hybrid public key encryption.  What the two contexts derive from the    *)
(* inputs of their ends.                                                   *)
SenderOf(s) == SetupWithEncap(s.mode, "e", s.pkS, s.pkR, s.info, s.psk, s.suite, 0)
ReceiverOf(r) == SetupWithDecap(r.mode, "e", r.pkS, r.pkR, r.info, r.psk, r.suite, 0)

(* The inputs that the model draws from are records of six fields, and the *)
(* PSK that reaches the key schedule is one of two fields.                 *)
LEMMA InputFields ==
  ASSUME NEW i \in Inputs
  PROVE  /\ i = [mode |-> i.mode, pkS |-> i.pkS, pkR |-> "r1", info |-> i.info,
                 psk |-> i.psk, suite |-> i.suite]
         /\ PskOf(i.psk) = [key |-> PskOf(i.psk).key, id |-> PskOf(i.psk).id]
         /\ i.pkR = "r1"
<1>1. /\ i \in [mode : Modes, pkS : {"s1", "s2"}, pkR : {"r1"}, info : {"a", "b"},
                psk : Psks, suite : Suites]
      /\ i.psk \in Psks
  BY DEF Inputs
<1>2. PskOf(i.psk) = [key |-> PskOf(i.psk).key, id |-> PskOf(i.psk).id]
  BY <1>1 DEF PskOf, Psks, DefaultPsk
<1>. QED  BY <1>1, <1>2

(* Two ends bind the same inputs exactly when each input that reaches the  *)
(* key is the same.                                                        *)
LEMMA BoundAlike ==
  ASSUME NEW s \in Inputs, NEW r \in Inputs
  PROVE  Bound(s) = Bound(r) <=>
           /\ s.mode = r.mode /\ s.info = r.info /\ s.suite = r.suite
           /\ PskOf(s.psk).key = PskOf(r.psk).key
           /\ PskOf(s.psk).id = PskOf(r.psk).id
           /\ s.mode \in {"Auth", "AuthPsk"} => s.pkS = r.pkS
<1>. DEFINE sender(i) == IF i.mode \in {"Auth", "AuthPsk"} THEN i.pkS ELSE "any"
            Records(i) == [mode : {i.mode}, pkS : {sender(i)}, pkR : {"r1"},
                           info : {i.info}, psk : {PskOf(i.psk)}, suite : {i.suite}]
<1>1. ASSUME NEW i \in Inputs
      PROVE  Bound(i) \in Records(i)
  <2>1. i \in [mode : {i.mode}, pkS : {i.pkS}, pkR : {"r1"}, info : {i.info},
               psk : {i.psk}, suite : {i.suite}]
    BY DEF Inputs
  <2>2. ASSUME NEW p, NEW k
        PROVE  [i EXCEPT !.pkS = p, !.psk = k] \in
                 [mode : {i.mode}, pkS : {p}, pkR : {"r1"}, info : {i.info}, psk : {k}, suite : {i.suite}]
    BY <2>1
  <2>3. Bound(i) = [i EXCEPT !.pkS = sender(i), !.psk = PskOf(i.psk)]
    BY <2>1 DEF Bound
  <2>. HIDE DEF sender
  <2>4. [i EXCEPT !.pkS = sender(i), !.psk = PskOf(i.psk)] \in Records(i)
    BY <2>2
  <2>. QED  BY <2>3, <2>4
<1>2. PskOf(s.psk) = PskOf(r.psk) <=>
        PskOf(s.psk).key = PskOf(r.psk).key /\ PskOf(s.psk).id = PskOf(r.psk).id
  BY InputFields
<1>3. Bound(s) \in Records(s) /\ Bound(r) \in Records(r)
  BY <1>1
<1>. QED  BY <1>2, <1>3

(* The shared secrets of the two ends agree when they are of one mode,     *)
(* suite and, where it is authenticated, sender.                           *)
SharedOf(s) ==
  IF s.mode \in {"Auth", "AuthPsk"} THEN AuthEncap("e", s.pkS, "r1", s.suite)
                                    ELSE Encap("e", "r1", s.suite)
SharedBy(r) ==
  IF r.mode \in {"Auth", "AuthPsk"} THEN AuthDecap("e", "r1", r.pkS, r.suite)
                                    ELSE Decap("e", "r1", r.suite)

LEMMA SharedAlike ==
  ASSUME NEW s, NEW r, s.mode = r.mode, s.suite = r.suite
  PROVE  SharedOf(s) = SharedBy(r) <=> (s.mode \in {"Auth", "AuthPsk"} => s.pkS = r.pkS)
<1>1. \A a, b : DH(a, b) = DH(b, a)
  BY DEF DH
<1>2. CASE s.mode \in {"Auth", "AuthPsk"}
  <2>1. s.pkS = r.pkS => SharedOf(s) = SharedBy(r)
    BY <1>1, <1>2 DEF SharedOf, SharedBy, AuthEncap, AuthDecap
  <2>2. SharedOf(s).info = <<"e", "r1", s.pkS>> /\ SharedBy(r).info = <<"e", "r1", r.pkS>>
    BY <1>2 DEF SharedOf, SharedBy, AuthEncap, AuthDecap, ExtractAndExpand, LabeledExpand
  <2>. QED  BY <1>2, <2>1, <2>2
<1>3. CASE s.mode \notin {"Auth", "AuthPsk"}
  BY <1>1, <1>3 DEF SharedOf, SharedBy, Encap, Decap
<1>. QED  BY <1>2, <1>3

(* The secret of the key schedule and what it is expanded with.            *)
SecretOf(shared, i) == LabeledExtract(i.suite[2], shared, "secret", PskOf(i.psk).key, i.suite)
ContextOf(i) == KeyScheduleContext(i.mode, PskOf(i.psk).id, i.info, i.suite)
Keys(shared, i) == Secrets(SecretOf(shared, i), ContextOf(i), i.suite)

LEMMA KeysAlike ==
  ASSUME NEW s \in Inputs, NEW r \in Inputs
  PROVE  /\ Keys(SharedOf(s), s).key = Keys(SharedBy(r), r).key => Bound(s) = Bound(r)
         /\ Keys(SharedOf(s), s).exporter = Keys(SharedBy(r), r).exporter => Bound(s) = Bound(r)
         /\ Bound(s) = Bound(r) => Keys(SharedOf(s), s) = Keys(SharedBy(r), r)
<1>1. ASSUME s.suite = r.suite, ContextOf(s) = ContextOf(r),
             SecretOf(SharedOf(s), s) = SecretOf(SharedBy(r), r)
      PROVE  Bound(s) = Bound(r)
  <2>1. s.mode = r.mode /\ PskOf(s.psk).id = PskOf(r.psk).id /\ s.info = r.info
    BY <1>1 DEF ContextOf, KeyScheduleContext, LabeledExtract
  <2>2. SharedOf(s) = SharedBy(r) /\ PskOf(s.psk).key = PskOf(r.psk).key
    BY <1>1 DEF SecretOf, LabeledExtract
  <2>. QED  BY <1>1, <2>1, <2>2, SharedAlike, BoundAlike
<1>2. ASSUME Bound(s) = Bound(r)
      PROVE  Keys(SharedOf(s), s) = Keys(SharedBy(r), r)
  <2>1. SharedOf(s) = SharedBy(r)
    BY <1>2, SharedAlike, BoundAlike
  <2>. QED  BY <1>2, <2>1, BoundAlike DEF Keys, SecretOf, ContextOf
<1>3. ASSUME NEW x, NEW y, NEW c, NEW d, NEW u, NEW v, NEW label,
             LabeledExpand(u[2], x, label, c, u) = LabeledExpand(v[2], y, label, d, v)
      PROVE  x = y /\ c = d /\ u = v
  BY <1>3 DEF LabeledExpand
<1>4. Keys(SharedOf(s), s).key = Keys(SharedBy(r), r).key =>
        /\ s.suite = r.suite /\ ContextOf(s) = ContextOf(r)
        /\ SecretOf(SharedOf(s), s) = SecretOf(SharedBy(r), r)
  BY <1>3 DEF Keys, Secrets
<1>5. Keys(SharedOf(s), s).exporter = Keys(SharedBy(r), r).exporter =>
        /\ s.suite = r.suite /\ ContextOf(s) = ContextOf(r)
        /\ SecretOf(SharedOf(s), s) = SecretOf(SharedBy(r), r)
  BY <1>3 DEF Keys, Secrets
<1>. QED  BY <1>1, <1>2, <1>4, <1>5

(* The two contexts hold the same key, and the same exporter secret, if    *)
(* and only if the ends bound the same inputs.                             *)
LEMMA ContextsAlike ==
  ASSUME NEW s \in Inputs, NEW r \in Inputs
  PROVE  /\ SenderOf(s) = [key |-> SenderOf(s).key, exporter |-> SenderOf(s).exporter,
                           seq |-> 0, role |-> "Sender"]
         /\ ReceiverOf(r) = [key |-> ReceiverOf(r).key, exporter |-> ReceiverOf(r).exporter,
                             seq |-> 0, role |-> "Receiver"]
         /\ SenderOf(s).key = ReceiverOf(r).key <=> Bound(s) = Bound(r)
         /\ SenderOf(s).exporter = ReceiverOf(r).exporter <=> Bound(s) = Bound(r)
<1>1. /\ SenderOf(s) = HpkeContext(Keys(SharedOf(s), s), 0, "Sender")
      /\ ReceiverOf(r) = HpkeContext(Keys(SharedBy(r), r), 0, "Receiver")
  BY InputFields
  DEF SenderOf, ReceiverOf, SetupWithEncap, SetupWithDecap, KeySchedule, Keys,
      SecretOf, ContextOf, SharedOf, SharedBy
<1>. QED  BY <1>1, KeysAlike DEF HpkeContext
(* What holds of the traffic: the sealed messages are numbered from zero   *)
(* under the sender's key, the opened ones are a prefix of them, and       *)
(* neither number has passed its limit.                                    *)
Sealed(key) == [key : {key}, seq : Nat, aad : {"aad"}, pt : Nat]
Numbered(key, sealed) ==
  /\ sealed \in Seq(Sealed(key))
  /\ \A i \in DOMAIN sealed : sealed[i].seq = i - 1 /\ sealed[i].pt = i
TrafficInv ==
  /\ hp = [ins |-> hp.ins, inr |-> hp.inr, sealed |-> hp.sealed,
           opened |-> hp.opened, snd |-> hp.snd, rcv |-> hp.rcv]
  /\ hp.ins \in Inputs /\ hp.inr \in Inputs
  /\ hp.snd = [SenderOf(hp.ins) EXCEPT !.seq = Len(hp.sealed)]
  /\ hp.rcv = [ReceiverOf(hp.inr) EXCEPT !.seq = Len(hp.opened)]
  /\ Numbered(hp.snd.key, hp.sealed)
  /\ hp.opened \in Seq(Nat)
  /\ \A i \in DOMAIN hp.opened : hp.opened[i] = i
  /\ Len(hp.opened) <= Len(hp.sealed)
  /\ hp.opened # <<>> => SenderOf(hp.ins).key = ReceiverOf(hp.inr).key
  /\ hp.sealed # <<>> => Len(hp.sealed) < SeqLimit

LEMMA NumberedAppend ==
  ASSUME NEW key, NEW s, Numbered(key, s), NEW ct,
         ct = [key |-> key, seq |-> Len(s), aad |-> "aad", pt |-> Len(s) + 1]
  PROVE  Numbered(key, Append(s, ct)) /\ Len(Append(s, ct)) = Len(s) + 1
<1>1. s \in Seq(Sealed(key)) /\ ct \in Sealed(key) /\ Len(s) \in Nat
  BY DEF Numbered, Sealed
<1>2. /\ Append(s, ct) \in Seq(Sealed(key)) /\ DOMAIN Append(s, ct) = 1 .. Len(s) + 1
      /\ Append(s, ct)[Len(s) + 1] = ct
      /\ \A i \in 1 .. Len(s) : Append(s, ct)[i] = s[i]
  BY <1>1
<1>. HIDE DEF Sealed
<1>3. ASSUME NEW i \in DOMAIN Append(s, ct)
      PROVE  Append(s, ct)[i].seq = i - 1 /\ Append(s, ct)[i].pt = i
  BY <1>1, <1>2 DEF Numbered
<1>. QED  BY <1>1, <1>2, <1>3 DEF Numbered

LEMMA NumberedAt ==
  ASSUME NEW key, NEW s, Numbered(key, s), NEW i \in DOMAIN s
  PROVE  /\ i \in 1 .. Len(s) /\ Len(s) \in Nat
         /\ s[i].key = key /\ s[i].seq = i - 1 /\ s[i].aad = "aad" /\ s[i].pt = i
<1>1. s[i] \in Sealed(key)
  BY DEF Numbered
<1>. QED  BY <1>1 DEF Numbered, Sealed

LEMMA TrafficInit == HpkeInit => TrafficInv
<1>. SUFFICES ASSUME HpkeInit PROVE TrafficInv
  OBVIOUS
<1>1. PICK s, r \in Inputs :
        hp = [ins |-> s, inr |-> r, sealed |-> <<>>, opened |-> <<>>,
              snd |-> SenderOf(s), rcv |-> ReceiverOf(r)]
  BY DEF HpkeInit, SenderOf, ReceiverOf
<1>2. /\ hp.snd = [SenderOf(hp.ins) EXCEPT !.seq = 0]
      /\ hp.rcv = [ReceiverOf(hp.inr) EXCEPT !.seq = 0]
  BY <1>1, ContextsAlike
<1>. QED  BY <1>1, <1>2 DEF TrafficInv, Numbered

LEMMA TrafficSeal == TrafficInv /\ HpkeSeal => TrafficInv'
<1>. SUFFICES ASSUME TrafficInv, HpkeSeal PROVE TrafficInv'
  OBVIOUS
<1>. DEFINE n == Len(hp.sealed)
            ct == [key |-> hp.snd.key, seq |-> n, aad |-> "aad", pt |-> n + 1]
<1>0. n \in Nat /\ SeqLimit \in Nat /\ Len(hp.opened) \in Nat
  BY HpkeAssumption DEF TrafficInv, Numbered
<1>1. hp.snd.role = "Sender" /\ hp.snd.seq = n
  BY ContextsAlike DEF TrafficInv
<1>2. /\ ~(n >= SeqLimit - 1)
      /\ hp' = [hp EXCEPT !.sealed = Append(@, ct), !.snd = IncrementSeq(@)]
  BY <1>1 DEF HpkeSeal, Seal, IncrementSeqFails
<1>3. /\ hp'.ins = hp.ins /\ hp'.inr = hp.inr /\ hp'.opened = hp.opened /\ hp'.rcv = hp.rcv
      /\ hp'.sealed = Append(hp.sealed, ct)
      /\ hp'.snd = [hp.snd EXCEPT !.seq = @ + 1]
      /\ hp' = [ins |-> hp'.ins, inr |-> hp'.inr, sealed |-> hp'.sealed,
                opened |-> hp'.opened, snd |-> hp'.snd, rcv |-> hp'.rcv]
  BY <1>2 DEF TrafficInv, IncrementSeq
<1>4. hp'.snd = [SenderOf(hp.ins) EXCEPT !.seq = n + 1] /\ hp'.snd.key = hp.snd.key
  BY <1>3, ContextsAlike DEF TrafficInv
<1>5. Numbered(hp'.snd.key, hp'.sealed) /\ Len(hp'.sealed) = n + 1
  BY <1>3, <1>4, NumberedAppend DEF TrafficInv
<1>. QED  BY <1>0, <1>2, <1>3, <1>4, <1>5 DEF TrafficInv

LEMMA TrafficOpen == TrafficInv /\ HpkeOpen => TrafficInv'
<1>. SUFFICES ASSUME TrafficInv, HpkeOpen PROVE TrafficInv'
  OBVIOUS
<1>. DEFINE n == Len(hp.opened)
<1>0. n \in Nat /\ SeqLimit \in Nat /\ Len(hp.sealed) \in Nat
  BY HpkeAssumption DEF TrafficInv, Numbered
<1>1. hp.rcv.role = "Receiver" /\ hp.rcv.seq = n
  BY ContextsAlike DEF TrafficInv
<1>2. PICK i \in DOMAIN hp.sealed :
        /\ Open(hp.rcv, "aad", hp.sealed[i]) # None
        /\ hp' = [hp EXCEPT !.opened = Append(@, Open(hp.rcv, "aad", hp.sealed[i])),
                            !.rcv = IncrementSeq(@)]
  BY DEF HpkeOpen
<1>3. /\ hp.sealed[i].key = hp.rcv.key /\ hp.sealed[i].seq = n
      /\ Open(hp.rcv, "aad", hp.sealed[i]) = hp.sealed[i].pt
  BY <1>1, <1>2 DEF Open
<1>4. /\ i = n + 1 /\ hp.sealed[i].pt = n + 1 /\ n + 1 <= Len(hp.sealed)
      /\ hp.snd.key = hp.rcv.key
  BY <1>0, <1>3, NumberedAt DEF TrafficInv
<1>5. /\ hp'.ins = hp.ins /\ hp'.inr = hp.inr /\ hp'.sealed = hp.sealed /\ hp'.snd = hp.snd
      /\ hp'.opened = Append(hp.opened, n + 1)
      /\ hp'.rcv = [hp.rcv EXCEPT !.seq = @ + 1]
      /\ hp' = [ins |-> hp'.ins, inr |-> hp'.inr, sealed |-> hp'.sealed,
                opened |-> hp'.opened, snd |-> hp'.snd, rcv |-> hp'.rcv]
  BY <1>2, <1>3, <1>4 DEF TrafficInv, IncrementSeq
<1>6. hp'.rcv = [ReceiverOf(hp.inr) EXCEPT !.seq = n + 1]
  BY <1>5, ContextsAlike DEF TrafficInv
<1>7. SenderOf(hp.ins).key = ReceiverOf(hp.inr).key
  BY <1>4, ContextsAlike DEF TrafficInv
<1>8. /\ hp'.opened \in Seq(Nat) /\ Len(hp'.opened) = n + 1
      /\ \A j \in DOMAIN hp'.opened : hp'.opened[j] = j
  BY <1>0, <1>5 DEF TrafficInv
<1>. QED  BY <1>0, <1>4, <1>5, <1>6, <1>7, <1>8 DEF TrafficInv

LEMMA TrafficSays == TrafficInv => HpkeInOrder
<1>. SUFFICES ASSUME TrafficInv PROVE HpkeInOrder
  OBVIOUS
<1>0. Len(hp.opened) \in Nat /\ SeqLimit \in Nat /\ Len(hp.sealed) \in Nat
  BY HpkeAssumption DEF TrafficInv, Numbered
<1>1. hp.opened = [i \in DOMAIN hp.opened |-> i]
  BY DEF TrafficInv
<1>2. \A i, j \in DOMAIN hp.sealed : hp.sealed[i].seq = hp.sealed[j].seq => i = j
  BY NumberedAt DEF TrafficInv
<1>3. /\ hp.snd.key = SenderOf(hp.ins).key /\ hp.snd.exporter = SenderOf(hp.ins).exporter
      /\ hp.rcv.key = ReceiverOf(hp.inr).key /\ hp.rcv.exporter = ReceiverOf(hp.inr).exporter
      /\ hp.rcv.role = "Receiver" /\ hp.rcv.seq = Len(hp.opened)
  BY ContextsAlike DEF TrafficInv
<1>4. hp.opened # <<>> => Bound(hp.ins) = Bound(hp.inr)
  BY ContextsAlike DEF TrafficInv
<1>5. ASSUME Bound(hp.ins) = Bound(hp.inr), Len(hp.opened) < Len(hp.sealed)
      PROVE  Open(hp.rcv, "aad", hp.sealed[Len(hp.opened) + 1]) = Len(hp.opened) + 1
  <2>1. hp.snd.key = hp.rcv.key
    BY <1>3, <1>5, ContextsAlike DEF TrafficInv
  <2>2. Len(hp.opened) < SeqLimit - 1
    BY <1>0, <1>5 DEF TrafficInv
  <2>3. /\ Len(hp.opened) + 1 \in DOMAIN hp.sealed
        /\ hp.sealed[Len(hp.opened) + 1].key = hp.snd.key
        /\ hp.sealed[Len(hp.opened) + 1].aad = "aad"
        /\ hp.sealed[Len(hp.opened) + 1].seq = Len(hp.opened)
        /\ hp.sealed[Len(hp.opened) + 1].pt = Len(hp.opened) + 1
    <3>1. Len(hp.opened) + 1 \in DOMAIN hp.sealed
      BY <1>0, <1>5 DEF TrafficInv, Numbered
    <3>. QED  BY <1>0, <3>1, NumberedAt DEF TrafficInv
  <2>. QED  BY <1>0, <1>3, <2>1, <2>2, <2>3 DEF Open, IncrementSeqFails
<1>6. (Export(hp.snd, "ctx", 1, 255) = Export(hp.rcv, "ctx", 1, 255))
        <=> Bound(hp.ins) = Bound(hp.inr)
  BY <1>3, ContextsAlike DEF TrafficInv, Export
<1>. QED  BY <1>1, <1>2, <1>4, <1>5, <1>6 DEF HpkeInOrder

(* Whatever the network repeats or reorders, the receiver opens the sealed *)
(* messages in order and each once, no two messages share a key and a      *)
(* number, and the two ends agree on the key and on what they export       *)
(* exactly when they were set up alike, for every limit of the number      *)
(* (HpkeContextImpl).                                                      *)
THEOREM HpkeOpensInOrder == HpkeSpec => []HpkeInOrder
<1>1. TrafficInv /\ UNCHANGED hp => TrafficInv'
  BY DEF TrafficInv
<1>2. TrafficInv /\ [HpkeNext]_hp => TrafficInv'
  BY <1>1, TrafficSeal, TrafficOpen DEF HpkeNext
<1>. QED  BY <1>2, TrafficInit, TrafficSays, PTL DEF HpkeSpec
-----------------------------------------------------------------------------
(***************************************************************************)
(* Exported authenticators.  What an end makes ends in a Finished whose    *)
(* MAC is keyed by the connection and the direction, and is over the whole *)
(* of request, certificate and signature; every message of a delivery was  *)
(* made by somebody, so a Finished that is accepted says who made it, with *)
(* what, and in answer to which request.                                   *)
(***************************************************************************)
ExportedAuthSpec == ExportedAuthInit /\ [][ExportedAuthNext]_ea

KeyingOf(conn, dir) == IF dir = "UPSTREAM" THEN ClientKeying(conn) ELSE ServerKeying(conn)
CertificateOf(request, certs) ==
  [Message("Certificate") EXCEPT !.context = DecodeAuthRequest(request).context, !.certs = certs]
VerifyOf(cert, scheme, transcript) ==
  [Message("CertificateVerify") EXCEPT !.scheme = scheme, !.value = Signature(cert, scheme, transcript)]

(* The transcript that a Finished is over.                                 *)
Signed(transcript, verify) == ComputeFinishedTranscript(transcript, verify)

LEMMA MessageFields ==
  /\ \A r, c : /\ CertificateOf(r, c).type = "Certificate"
               /\ CertificateOf(r, c).context = DecodeAuthRequest(r).context
               /\ CertificateOf(r, c).certs = c
  /\ \A c, s, t : /\ VerifyOf(c, s, t).type = "CertificateVerify"
                  /\ VerifyOf(c, s, t).scheme = s
                  /\ VerifyOf(c, s, t).value = Signature(c, s, t)
  /\ \A k, t : /\ FinishedOf(k, t).type = "Finished"
               /\ FinishedOf(k, t).value = GetFinishedData(k, t)
BY DEF CertificateOf, VerifyOf, FinishedOf, Message

(* A Finished tells its key and what it is over.                           *)
LEMMA FinishedTells ==
  ASSUME NEW k, NEW l, NEW t, NEW u, GetFinishedData(k, t) = GetFinishedData(l, u)
  PROVE  k.finishedMacKey = l.finishedMacKey /\ t = u
BY DEF GetFinishedData

(* The MAC key tells the connection and the direction.                     *)
LEMMA KeyingTells ==
  ASSUME NEW c \in AuthConnections, NEW d \in AuthConnections,
         NEW x \in Directions, NEW y \in Directions,
         KeyingOf(c, x).finishedMacKey = KeyingOf(d, y).finishedMacKey
  PROVE  c = d /\ x = y
<1>1. ASSUME NEW l, NEW m, Exported(c, l) = Exported(d, m)
      PROVE  c = d /\ l = m
  BY <1>1, ExportedAuthAssumption
  DEF Exported, GetExportedKeyingMaterial, DeriveSecret, ExpandLabel
<1>2. /\ KeyingOf(c, x).finishedMacKey =
           Exported(c, IF x = "UPSTREAM" THEN "EXPORTER-client authenticator finished key"
                                         ELSE "EXPORTER-server authenticator finished key")
      /\ KeyingOf(d, y).finishedMacKey =
           Exported(d, IF y = "UPSTREAM" THEN "EXPORTER-client authenticator finished key"
                                         ELSE "EXPORTER-server authenticator finished key")
  BY DEF KeyingOf, ClientKeying, ServerKeying
<1>. QED  BY <1>1, <1>2 DEF Directions

(* Short sequences put together.                                           *)
LEMMA OneMore ==
  ASSUME NEW Els, NEW s \in Seq(Els), NEW x \in Els, NEW t \in Seq(Els),
         Len(t) = Len(s) + 1, \A i \in 1 .. Len(s) : t[i] = s[i], t[Len(s) + 1] = x
  PROVE  Append(s, x) = t /\ s \o <<x>> = t
<1>. DEFINE u == Append(s, x)
            v == s \o <<x>>
<1>1. /\ u \in Seq(Els) /\ Len(u) = Len(s) + 1 /\ u[Len(s) + 1] = x
      /\ \A i \in 1 .. Len(s) : u[i] = s[i]
  OBVIOUS
<1>2. /\ v \in Seq(Els) /\ Len(v) = Len(s) + 1 /\ v[Len(s) + 1] = x
      /\ \A i \in 1 .. Len(s) : v[i] = s[i]
  OBVIOUS
<1>. HIDE DEF u, v
<1>3. ASSUME NEW w \in Seq(Els), Len(w) = Len(s) + 1, w[Len(s) + 1] = x,
             \A i \in 1 .. Len(s) : w[i] = s[i]
      PROVE  w = t
  <2>1. Len(s) \in Nat /\ \A i \in 1 .. Len(w) : w[i] = t[i]
    BY <1>3
  <2>. QED  BY <1>3, <2>1
<1>. QED  BY <1>1, <1>2, <1>3 DEF u, v

LEMMA TwoMore ==
  ASSUME NEW a, NEW b, NEW c
  PROVE  /\ Append(<<a, b>>, c) = <<a, b, c>>
         /\ <<a>> \o <<>> = <<a>> /\ <<a>> \o <<b>> = <<a, b>> /\ <<a, b>> \o <<c>> = <<a, b, c>>
<1>. DEFINE Els == {a, b, c}
            s1 == <<a>>
            s2 == <<a, b>>
            s3 == <<a, b, c>>
<1>1. /\ s1 \in Seq(Els) /\ Len(s1) = 1 /\ s1[1] = a
      /\ s2 \in Seq(Els) /\ Len(s2) = 2 /\ s2[1] = a /\ s2[2] = b
      /\ s3 \in Seq(Els) /\ Len(s3) = 3 /\ s3[1] = a /\ s3[2] = b /\ s3[3] = c
      /\ b \in Els /\ c \in Els
  OBVIOUS
<1>2. s1 \o <<>> = s1
  BY <1>1
<1>. HIDE DEF Els, s1, s2, s3
<1>3. s1 \o <<b>> = s2
  <2>1. Len(s2) = Len(s1) + 1 /\ s2[Len(s1) + 1] = b /\ \A i \in 1 .. Len(s1) : s2[i] = s1[i]
    BY <1>1
  <2>. QED  BY <1>1, <2>1, OneMore
<1>4. Append(s2, c) = s3 /\ s2 \o <<c>> = s3
  <2>1. Len(s3) = Len(s2) + 1 /\ s3[Len(s2) + 1] = c /\ \A i \in 1 .. Len(s2) : s3[i] = s2[i]
    BY <1>1
  <2>. QED  BY <1>1, <2>1, OneMore
<1>. QED  BY <1>2, <1>3, <1>4 DEF s1, s2, s3

LEMMA ThreeMore ==
  ASSUME NEW a, NEW b, NEW c, NEW d
  PROVE  Append(<<a, b, c>>, d) = <<a, b, c, d>>
<1>. DEFINE Els == {a, b, c, d}
            s3 == <<a, b, c>>
            s4 == <<a, b, c, d>>
<1>1. /\ s3 \in Seq(Els) /\ Len(s3) = 3 /\ s3[1] = a /\ s3[2] = b /\ s3[3] = c
      /\ s4 \in Seq(Els) /\ Len(s4) = 4 /\ s4[1] = a /\ s4[2] = b /\ s4[3] = c /\ s4[4] = d
      /\ d \in Els
  OBVIOUS
<1>. HIDE DEF Els, s3, s4
<1>2. Len(s4) = Len(s3) + 1 /\ s4[Len(s3) + 1] = d /\ \A i \in 1 .. Len(s3) : s4[i] = s3[i]
  BY <1>1
<1>3. Append(s3, d) = s4
  BY <1>1, <1>2, OneMore
<1>. QED  BY <1>3 DEF s3, s4

(* The transcript tells the request and the certificate.                   *)
LEMMA TranscriptTells ==
  ASSUME NEW k, NEW l, NEW r, NEW s, NEW c, NEW d
  PROVE  /\ ComputeTranscript(k, r, c) = ComputeTranscript(l, s, d) => r = s /\ c = d
         /\ \A v, w : Signed(ComputeTranscript(k, r, c), v) = Signed(ComputeTranscript(l, s, d), w)
                        => r = s /\ c = d /\ v = w
         /\ \A v : v # d => Signed(ComputeTranscript(k, r, c), v) # ComputeTranscript(l, s, d)
<1>1. ASSUME NEW x, NEW q, NEW e
      PROVE  ComputeTranscript(x, q, e) =
               LET m == [Message("context") EXCEPT !.value = x.handshakeContext]
               IN IF q = None THEN <<m, e>> ELSE <<m, q, e>>
  <2>. DEFINE m == [Message("context") EXCEPT !.value = x.handshakeContext]
  <2>1. ComputeTranscript(x, q, e) =
          <<m>> \o (IF q = None THEN <<>> ELSE <<q>>) \o <<e>>
    BY DEF ComputeTranscript
  <2>. HIDE DEF m
  <2>2. <<m>> \o <<>> = <<m>> /\ <<m>> \o <<e>> = <<m, e>>
    BY TwoMore
  <2>3. <<m>> \o <<q>> = <<m, q>> /\ <<m, q>> \o <<e>> = <<m, q, e>>
    BY TwoMore
  <2>. QED  BY <2>1, <2>2, <2>3 DEF m
<1>2. /\ \A m, e, v : Append(<<m, e>>, v) = <<m, e, v>>
      /\ \A m, q, e, v : Append(<<m, q, e>>, v) = <<m, q, e, v>>
  BY TwoMore, ThreeMore
<1>. QED  BY <1>1, <1>2 DEF ComputeFinishedTranscript, Signed

(* What an end makes: an empty authenticator, or the three messages.       *)
LEMMA WhatIsMade ==
  ASSUME NEW keying, NEW cert, NEW request
  PROVE  LET made == MakeAuthenticator(keying, cert, request)
             scheme == GetSignatureScheme(cert, DecodeAuthRequest(request).schemes)
             transcript(certs) == ComputeTranscript(keying, request, CertificateOf(request, certs))
             verify == VerifyOf(cert, scheme, transcript(cert.chain))
         IN /\ scheme = None => made = <<FinishedOf(keying, transcript(<<>>))>>
            /\ scheme # None =>
                 made = <<CertificateOf(request, cert.chain), verify,
                          FinishedOf(keying, Signed(transcript(cert.chain), verify))>>
BY DEF MakeAuthenticator, GetEmptyAuthenticator, CertificateOf, VerifyOf, ComputeFinishedTranscript, Signed

LEMMA MadeIsSeq ==
  ASSUME NEW keying, NEW cert, NEW request
  PROVE  LET made == MakeAuthenticator(keying, cert, request)
         IN made \in Seq({made[i] : i \in DOMAIN made}) /\ Len(made) \in {1, 3}
<1>1. /\ \A a : <<a>> \in Seq({<<a>>[i] : i \in DOMAIN <<a>>}) /\ Len(<<a>>) = 1
      /\ \A a, b, c : LET t == <<a, b, c>> IN t \in Seq({t[i] : i \in DOMAIN t}) /\ Len(t) = 3
  OBVIOUS
<1>. QED  BY <1>1, WhatIsMade

(* An end has nothing to prove only if it shares no scheme with its        *)
(* context.                                                                *)
LEMMA NothingToProve ==
  ASSUME NEW cert, NEW schemes, GetSignatureScheme(cert, schemes) = None
  PROVE  cert.schemes \cap {AuthSupported[i] : i \in DOMAIN AuthSupported} = {}
<1>1. /\ DOMAIN AuthSupported \subseteq Nat
      /\ \A i \in DOMAIN AuthSupported : AuthSupported[i] # None
  <2>. DEFINE Els == {AuthSupported[i] : i \in DOMAIN AuthSupported} \ {None}
  <2>1. AuthSupported \in Seq(Els) /\ None \notin Els
    BY ExportedAuthAssumption
  <2>. HIDE DEF Els
  <2>. QED  BY <2>1
<1>2. FirstOf(AuthSupported, cert.schemes) = None
  BY DEF GetSignatureScheme
<1>. SUFFICES ASSUME NEW n \in DOMAIN AuthSupported, AuthSupported[n] \in cert.schemes
              PROVE  FALSE
  OBVIOUS
<1>. DEFINE hits == {i \in DOMAIN AuthSupported : AuthSupported[i] \in cert.schemes}
            less == {ss \in Nat \X Nat : ss[1] < ss[2]}
<1>3. IsWellFoundedOn(less, Nat)
  BY NatLessThanWellFounded DEF OpToRel
<1>4. hits \subseteq Nat /\ hits # {}
  BY <1>1
<1>5. PICK i \in hits : \A j \in hits : <<j, i>> \notin less
  <2>. HIDE DEF hits, less
  <2>. QED  BY <1>3, <1>4, WFMin
<1>6. \A j \in hits : i <= j
  <2>. TAKE j \in hits
  <2>1. i \in Nat /\ j \in Nat /\ ~(j < i)
    BY <1>4, <1>5
  <2>. QED  BY <2>1
<1>7. \E k \in DOMAIN AuthSupported :
        AuthSupported[k] \in cert.schemes
          /\ \A j \in DOMAIN AuthSupported : AuthSupported[j] \in cert.schemes => k <= j
  BY <1>6
<1>8. \E k \in DOMAIN AuthSupported : FirstOf(AuthSupported, cert.schemes) = AuthSupported[k]
  BY <1>7 DEF FirstOf
<1>. QED  BY <1>1, <1>2, <1>8

(* The inductive invariant: an authenticator is what its end makes, and    *)
(* what was checked is made of the messages of such.                       *)
MadeBySomebody(auth) ==
  /\ auth \in Seq({auth[i] : i \in DOMAIN auth})
  /\ \A i \in DOMAIN auth : \E m \in ea.made : \E j \in DOMAIN m.auth : auth[i] = m.auth[j]
AuthInv ==
  /\ ea = [requests |-> ea.requests, made |-> ea.made, got |-> ea.got]
  /\ \A m \in ea.made :
       /\ m.conn \in AuthConnections /\ m.dir \in Directions /\ m.cert \in AuthCerts
       /\ m.auth = MakeAuthenticator(KeyingOf(m.conn, m.dir), m.cert, m.request)
  /\ ea.got # None =>
       /\ ea.got.conn \in AuthConnections /\ ea.got.dir \in Directions
       /\ MadeBySomebody(ea.got.auth)
       /\ ea.got.context = GetAuthenticatorContext(ea.got.auth)
       /\ ea.got.certs = ValidateAuthenticator(ea.got.conn, ea.got.dir, ea.got.request, ea.got.auth)

LEMMA SameElements ==
  ASSUME NEW A, NEW B, NEW s \in Seq(A), \A i \in DOMAIN s : s[i] \in B
  PROVE  s \in Seq(B)
<1>1. s \in [1 .. Len(s) -> B] /\ Len(s) \in Nat
  OBVIOUS
<1>. QED  BY <1>1

(* However an application cuts and mixes authenticators, every message is  *)
(* one of theirs.                                                          *)
LEMMA DeliveriesAreMade ==
  ASSUME AuthInv, NEW auth \in Deliveries
  PROVE  MadeBySomebody(auth)
<1>. DEFINE Els == UNION {{m.auth[j] : j \in DOMAIN m.auth} : m \in ea.made}
<1>1. \A m \in ea.made : m.auth \in Seq({m.auth[i] : i \in DOMAIN m.auth}) /\ Len(m.auth) \in {1, 3}
  <2>. TAKE m \in ea.made
  <2>1. m.auth = MakeAuthenticator(KeyingOf(m.conn, m.dir), m.cert, m.request)
    BY DEF AuthInv
  <2>. QED  BY <2>1, MadeIsSeq
<1>2. \A m \in ea.made : m.auth \in Seq(Els) /\ Len(m.auth) \in {1, 3}
  <2>1. ASSUME NEW m \in ea.made PROVE m.auth \in Seq(Els)
    <3>1. \A i \in DOMAIN m.auth : m.auth[i] \in Els
      OBVIOUS
    <3>. HIDE DEF Els
    <3>. QED  BY <1>1, <3>1, SameElements
  <2>. QED  BY <1>1, <2>1
<1>3. \A x \in Els : \E m \in ea.made : \E j \in DOMAIN m.auth : x = m.auth[j]
  OBVIOUS
<1>. HIDE DEF Els
<1>4. \A m \in ea.made, n \in 0 .. 2 : Cut(m.auth, n) \in Seq(Els)
  BY <1>2 DEF Cut
<1>5. \A m \in ea.made, n \in 1 .. 2 : SubSeq(m.auth, n + 1, Len(m.auth)) \in Seq(Els)
  BY <1>2
<1>6. \A s, t \in Seq(Els) : s \o t \in Seq(Els)
  OBVIOUS
<1>7. auth \in Seq(Els)
  <2>1. CASE auth \in {m.auth : m \in ea.made}
    BY <1>2, <2>1
  <2>2. CASE auth \in {Cut(m.auth, n) : m \in ea.made, n \in 0 .. 2}
    BY <1>4, <2>2
  <2>3. CASE auth \in {TwoTogether(l, m) : l \in ea.made, m \in ea.made}
    <3>1. PICK l, m \in ea.made : auth = TwoTogether(l, m)
      BY <2>3
    <3>. QED  BY <1>2, <1>6, <3>1 DEF TwoTogether
  <2>4. CASE auth \in {PartsOfTwo(l, m, n) : l \in ea.made, m \in ea.made, n \in 1 .. 2}
    <3>1. PICK l, m \in ea.made, n \in 1 .. 2 : auth = PartsOfTwo(l, m, n)
      BY <2>4
    <3>2. Cut(l.auth, n) \in Seq(Els)
      BY <1>4
    <3>. QED  BY <1>5, <1>6, <3>1, <3>2 DEF PartsOfTwo
  <2>. QED  BY <2>1, <2>2, <2>3, <2>4 DEF Deliveries
<1>8. auth \in Seq({auth[i] : i \in DOMAIN auth}) /\ \A i \in DOMAIN auth : auth[i] \in Els
  BY <1>7
<1>. QED  BY <1>3, <1>8 DEF MadeBySomebody

LEMMA AuthInit == ExportedAuthInit => AuthInv
BY DEF ExportedAuthInit, AuthInv

LEMMA AuthStep == AuthInv /\ [ExportedAuthNext]_ea => AuthInv'
<1>. SUFFICES ASSUME AuthInv, [ExportedAuthNext]_ea PROVE AuthInv'
  OBVIOUS
<1>1. CASE AskForAuthenticator
  <2>1. PICK r : ea' = [ea EXCEPT !.requests = @ \cup {r}]
    BY <1>1 DEF AskForAuthenticator
  <2>2. ea'.made = ea.made /\ ea'.got = ea.got
        /\ ea' = [requests |-> ea'.requests, made |-> ea'.made, got |-> ea'.got]
    BY <2>1 DEF AuthInv
  <2>. QED  BY <2>2 DEF AuthInv, MadeBySomebody
<1>2. CASE ProveIdentity
  <2>1. PICK conn \in AuthConnections, dir \in Directions, cert \in AuthCerts,
             request \in ea.requests :
          /\ ea.got = None
          /\ ea' = [ea EXCEPT !.made = @ \cup
               {[conn |-> conn, dir |-> dir, cert |-> cert, request |-> request,
                 auth |-> GetAuthenticator(conn, dir, cert, request)]}]
    BY <1>2 DEF ProveIdentity
  <2>. DEFINE new == [conn |-> conn, dir |-> dir, cert |-> cert, request |-> request,
                      auth |-> GetAuthenticator(conn, dir, cert, request)]
  <2>2. /\ ea'.made = ea.made \cup {new} /\ ea'.got = None
        /\ ea' = [requests |-> ea'.requests, made |-> ea'.made, got |-> ea'.got]
    BY <2>1 DEF AuthInv
  <2>3. /\ new.conn \in AuthConnections /\ new.dir \in Directions /\ new.cert \in AuthCerts
        /\ new.auth = MakeAuthenticator(KeyingOf(new.conn, new.dir), new.cert, new.request)
    BY DEF GetAuthenticator, KeyingOf
  <2>. HIDE DEF new
  <2>. QED  BY <2>2, <2>3 DEF AuthInv
<1>3. CASE CheckIdentity
  <2>1. PICK conn \in AuthConnections, dir \in Directions, request \in ea.requests,
             auth \in Deliveries :
          ea' = [ea EXCEPT !.got =
            [conn |-> conn, dir |-> dir, request |-> request, auth |-> auth,
             context |-> GetAuthenticatorContext(auth),
             certs |-> ValidateAuthenticator(conn, dir, request, auth)]]
    BY <1>3 DEF CheckIdentity
  <2>2. /\ ea'.made = ea.made
        /\ ea'.got = [conn |-> conn, dir |-> dir, request |-> request, auth |-> auth,
                      context |-> GetAuthenticatorContext(auth),
                      certs |-> ValidateAuthenticator(conn, dir, request, auth)]
        /\ ea' = [requests |-> ea'.requests, made |-> ea'.made, got |-> ea'.got]
    BY <2>1 DEF AuthInv
  <2>3. MadeBySomebody(auth)
    BY DeliveriesAreMade
  <2>. QED  BY <2>2, <2>3 DEF AuthInv, MadeBySomebody
<1>4. CASE UNCHANGED ea
  BY <1>4 DEF AuthInv, MadeBySomebody
<1>. QED  BY <1>1, <1>2, <1>3, <1>4 DEF ExportedAuthNext

(* Who made the messages that a check accepted.                            *)
LEMMA AcceptedWasMade ==
  ASSUME AuthInv, ea.got # None, ea.got.certs # None
  PROVE  \E m \in ea.made :
           /\ Answers(m) /\ IsPrefix(m.auth, ea.got.auth)
           /\ ea.got.certs = (IF Len(m.auth) = 1 THEN <<>> ELSE m.cert.chain)
           /\ Len(m.auth) = 3 => ea.got.context = DecodeAuthRequest(m.request).context
           /\ Len(m.auth) = 1 =>
                m.cert.schemes \cap {AuthSupported[i] : i \in DOMAIN AuthSupported} = {}
<1>. DEFINE other == IF ea.got.dir = "UPSTREAM" THEN "DOWNSTREAM" ELSE "UPSTREAM"
            keying == KeyingOf(ea.got.conn, other)
            request == ea.got.request
            auth == ea.got.auth
            transcript == ComputeTranscript(keying, request, auth[1])
            schemeOf(m) == GetSignatureScheme(m.cert, DecodeAuthRequest(m.request).schemes)
            keyingOf(m) == KeyingOf(m.conn, m.dir)
            transcriptOf(m, certs) ==
              ComputeTranscript(keyingOf(m), m.request, CertificateOf(m.request, certs))
            verifyOf(m) == VerifyOf(m.cert, schemeOf(m), transcriptOf(m, m.cert.chain))
<1>1. /\ other \in Directions /\ ea.got.conn \in AuthConnections
      /\ \A d \in Directions : d = other => d # ea.got.dir
      /\ ea.got.certs = Validate(keying, request, auth)
      /\ ea.got.context = GetAuthenticatorContext(auth)
      /\ MadeBySomebody(auth)
  BY DEF AuthInv, Directions, ValidateAuthenticator, KeyingOf
<1>2. \A m \in ea.made :
        /\ schemeOf(m) = None => m.auth = <<FinishedOf(keyingOf(m), transcriptOf(m, <<>>))>>
        /\ schemeOf(m) # None =>
             m.auth = <<CertificateOf(m.request, m.cert.chain), verifyOf(m),
                        FinishedOf(keyingOf(m), Signed(transcriptOf(m, m.cert.chain), verifyOf(m)))>>
  BY WhatIsMade DEF AuthInv
<1>3. \A m \in ea.made : keyingOf(m).finishedMacKey = keying.finishedMacKey =>
        m.conn = ea.got.conn /\ m.dir = other
  BY <1>1, KeyingTells DEF AuthInv
<1>. HIDE DEF other, keying, schemeOf, keyingOf
<1>4. CASE auth # <<>> /\ auth[1].type = "Finished"
  <2>1. /\ auth = <<FinishedOf(keying,
                     ComputeTranscript(keying, request, CertificateOf(request, <<>>)))>>
        /\ ea.got.certs = <<>>
    BY <1>1, <1>4 DEF Validate, GetEmptyAuthenticator, CertificateOf
  <2>2. PICK m \in ea.made : \E j \in DOMAIN m.auth : auth[1] = m.auth[j]
    BY <1>1, <2>1 DEF MadeBySomebody
  <2>3. ASSUME schemeOf(m) # None PROVE FALSE
    <3>1. auth[1] = FinishedOf(keyingOf(m), Signed(transcriptOf(m, m.cert.chain), verifyOf(m)))
      BY <1>2, <1>4, <2>2, <2>3, MessageFields
    <3>2. GetFinishedData(keyingOf(m), Signed(transcriptOf(m, m.cert.chain), verifyOf(m)))
            = GetFinishedData(keying,
                ComputeTranscript(keying, request, CertificateOf(request, <<>>)))
      BY <2>1, <3>1, MessageFields
    <3>4. Signed(transcriptOf(m, m.cert.chain), verifyOf(m))
            = ComputeTranscript(keying, request, CertificateOf(request, <<>>))
      BY <3>2, FinishedTells
    <3>3. verifyOf(m) # CertificateOf(request, <<>>)
      BY MessageFields
    <3>. HIDE DEF verifyOf
    <3>. QED  BY <3>3, <3>4, TranscriptTells
  <2>4. m.auth = <<FinishedOf(keyingOf(m), transcriptOf(m, <<>>))>> /\ m.auth = auth
    BY <1>2, <2>1, <2>2, <2>3
  <2>5. /\ keyingOf(m).finishedMacKey = keying.finishedMacKey
        /\ transcriptOf(m, <<>>) = ComputeTranscript(keying, request, CertificateOf(request, <<>>))
    BY <2>1, <2>4, MessageFields, FinishedTells
  <2>6. m.request = request /\ m.conn = ea.got.conn /\ m.dir = other
    BY <1>3, <2>5, TranscriptTells
  <2>7. Answers(m) /\ IsPrefix(m.auth, auth) /\ Len(m.auth) = 1
    <3>1. Len(m.auth) = 1
      BY <2>4
    <3>2. IsPrefix(m.auth, auth)
      BY <2>4, <3>1 DEF IsPrefix
    <3>3. Answers(m)
      BY <1>1, <2>6 DEF Answers, AuthInv
    <3>. QED  BY <3>1, <3>2, <3>3
  <2>8. m.cert.schemes \cap {AuthSupported[i] : i \in DOMAIN AuthSupported} = {}
    BY <2>3, NothingToProve DEF schemeOf
  <2>. QED  BY <2>1, <2>7, <2>8
<1>5. CASE ~(auth # <<>> /\ auth[1].type = "Finished")
  <2>1. /\ Len(auth) >= 3 /\ auth # <<>>
        /\ auth[1].type = "Certificate" /\ auth[2].type = "CertificateVerify"
        /\ auth[3].type = "Finished"
        /\ auth[3].value = GetFinishedData(keying, Signed(transcript, auth[2]))
        /\ ea.got.certs = auth[1].certs
    BY <1>1, <1>5 DEF Validate, ComputeFinishedTranscript, Signed, MadeBySomebody
  <2>2. /\ auth \in Seq({auth[i] : i \in DOMAIN auth}) /\ Len(auth) \in Nat
        /\ 1 \in DOMAIN auth /\ 2 \in DOMAIN auth /\ 3 \in DOMAIN auth
    BY <1>1, <2>1 DEF MadeBySomebody
  <2>3. PICK m \in ea.made : \E j \in DOMAIN m.auth : auth[3] = m.auth[j]
    BY <1>1, <2>2 DEF MadeBySomebody
  <2>4. ASSUME schemeOf(m) = None PROVE FALSE
    <3>1. auth[3] = FinishedOf(keyingOf(m), transcriptOf(m, <<>>))
      BY <1>2, <2>3, <2>4
    <3>2. GetFinishedData(keying, Signed(transcript, auth[2]))
            = GetFinishedData(keyingOf(m), transcriptOf(m, <<>>))
      BY <2>1, <3>1, MessageFields
    <3>4. Signed(transcript, auth[2]) = transcriptOf(m, <<>>)
      BY <3>2, FinishedTells
    <3>3. auth[2] # CertificateOf(m.request, <<>>)
      BY <2>1, MessageFields
    <3>. QED  BY <3>3, <3>4, TranscriptTells
  <2>5. m.auth = <<CertificateOf(m.request, m.cert.chain), verifyOf(m),
                   FinishedOf(keyingOf(m), Signed(transcriptOf(m, m.cert.chain), verifyOf(m)))>>
    BY <1>2, <2>4
  <2>6. auth[3] = FinishedOf(keyingOf(m), Signed(transcriptOf(m, m.cert.chain), verifyOf(m)))
    BY <2>1, <2>3, <2>5, MessageFields
  <2>7. /\ keyingOf(m).finishedMacKey = keying.finishedMacKey
        /\ Signed(transcriptOf(m, m.cert.chain), verifyOf(m)) = Signed(transcript, auth[2])
    <3>1. GetFinishedData(keyingOf(m), Signed(transcriptOf(m, m.cert.chain), verifyOf(m)))
            = GetFinishedData(keying, Signed(transcript, auth[2]))
      BY <2>1, <2>6, MessageFields
    <3>. QED  BY <3>1, FinishedTells
  <2>8. /\ m.request = request /\ m.conn = ea.got.conn /\ m.dir = other
        /\ auth[1] = CertificateOf(m.request, m.cert.chain) /\ auth[2] = verifyOf(m)
    BY <1>3, <2>7, TranscriptTells
  <2>. HIDE DEF auth, transcript, verifyOf, transcriptOf, request
  <2>9. Len(m.auth) = 3 /\ m.auth[1] = auth[1] /\ m.auth[2] = auth[2] /\ m.auth[3] = auth[3]
    BY <2>5, <2>6, <2>8
  <2>10. IsPrefix(m.auth, auth)
    <3>1. m.auth \in Seq({m.auth[i] : i \in DOMAIN m.auth})
      BY MadeIsSeq DEF AuthInv
    <3>2. SubSeq(m.auth, 1, 3) = SubSeq(auth, 1, 3)
      BY <2>1, <2>2, <2>9, <3>1
    <3>. QED  BY <2>1, <2>9, <3>2 DEF IsPrefix
  <2>11. Answers(m)
    BY <1>1, <2>8 DEF Answers, AuthInv, request
  <2>12. ea.got.certs = m.cert.chain /\ ea.got.context = DecodeAuthRequest(m.request).context
    BY <1>1, <2>1, <2>8, MessageFields DEF GetAuthenticatorContext
  <2>. QED  BY <2>9, <2>10, <2>11, <2>12 DEF auth
<1>. QED  BY <1>4, <1>5

(* What the other end made in answer to the request is accepted.           *)
LEMMA MadeIsAccepted ==
  ASSUME AuthInv, ea.got # None, NEW m \in ea.made, Answers(m), m.auth = ea.got.auth
  PROVE  ea.got.certs # None
<1>. DEFINE keying == KeyingOf(m.conn, m.dir)
            scheme == GetSignatureScheme(m.cert, DecodeAuthRequest(m.request).schemes)
            cert == CertificateOf(m.request, m.cert.chain)
            transcript == ComputeTranscript(keying, m.request, cert)
            verify == VerifyOf(m.cert, scheme, transcript)
            finished == FinishedOf(keying, Signed(transcript, verify))
<1>1. ea.got.certs = Validate(keying, m.request, m.auth)
  BY DEF AuthInv, Answers, ValidateAuthenticator, KeyingOf, Directions
<1>2. CASE scheme = None
  <2>1. /\ m.auth = GetEmptyAuthenticator(keying, m.request)
        /\ m.auth = <<FinishedOf(keying,
                       ComputeTranscript(keying, m.request, CertificateOf(m.request, <<>>)))>>
    BY <1>2 DEF AuthInv, MakeAuthenticator, GetEmptyAuthenticator, CertificateOf
  <2>2. m.auth # <<>> /\ m.auth[1].type = "Finished"
    BY <2>1, MessageFields
  <2>. QED  BY <1>1, <2>1, <2>2, ExportedAuthAssumption DEF Validate
<1>3. CASE scheme # None
  <2>1. m.auth = <<cert, verify, finished>>
    BY <1>3, WhatIsMade DEF AuthInv
  <2>2. /\ cert.type = "Certificate" /\ cert.certs = m.cert.chain
        /\ verify.type = "CertificateVerify" /\ verify.scheme = scheme
        /\ verify.value = Signature(m.cert, scheme, transcript)
        /\ finished.type = "Finished"
        /\ finished.value = GetFinishedData(keying, Signed(transcript, verify))
    BY MessageFields
  <2>. HIDE DEF keying, scheme, cert, verify, finished
  <2>3. /\ m.auth # <<>> /\ Len(m.auth) = 3
        /\ m.auth[1] = cert /\ m.auth[2] = verify /\ m.auth[3] = finished
    BY <2>1
  <2>4. PeerVerifies(cert.certs, verify, transcript)
    BY <2>2 DEF PeerVerifies, Signature
  <2>5. Validate(keying, m.request, m.auth) = m.cert.chain
    BY <2>2, <2>3, <2>4 DEF Validate, ComputeFinishedTranscript, Signed
  <2>. QED  BY <1>1, <2>5, ExportedAuthAssumption DEF AuthInv
<1>. QED  BY <1>2, <1>3

(* For every set of connections, certificates and requests, a chain is     *)
(* accepted exactly when the other end of the same connection made the     *)
(* authenticator with it, for that request, and an empty one only from an  *)
(* end that had nothing to prove, however the messages were cut, mixed and *)
(* carried to other connections (ExportedAuthenticator).                   *)
THEOREM AuthenticatorsAreBound == ExportedAuthSpec => []AuthenticatorsBind
<1>1. AuthInv => AuthenticatorsBind
  BY AcceptedWasMade, MadeIsAccepted DEF AuthenticatorsBind
<1>. QED  BY <1>1, AuthInit, AuthStep, PTL DEF ExportedAuthSpec

-----------------------------------------------------------------------------
(***************************************************************************)
(* The key schedule.  Every secret but those of a key update is a term of  *)
(* the setup and of the transcript up to a message (Fixed), so that two    *)
(* ends with one transcript get the same; a secret after a key update is   *)
(* made of the one before it (Moved).  That no secret serves two uses is   *)
(* carried along as the set of those taken grows (Apart).                  *)
(***************************************************************************)
KeyScheduleSpec == KeyScheduleInit /\ [][KeyScheduleNext]_ks

(* The absent value is none of the records and sequences that secrets,     *)
(* schedulers and cookies are.                                             *)
NoneIsNoFunction == None # [x \in DOMAIN None |-> None[x]]

(* The shape of the state, and the secrets of a setup.                     *)
Sched(type, secret, app) == [type |-> type, secret |-> secret, app |-> app, err |-> None]
App(c, i, s, j) == [client |-> c, clientGeneration |-> i, server |-> s, serverGeneration |-> j]
End(sch, transcript, got) == [sch |-> sch, transcript |-> transcript, got |-> got]
Conn(setup, at, binder, hrr, secrets, client, server) ==
  [setup |-> setup, at |-> at, binder |-> binder, hrr |-> hrr, secrets |-> secrets,
   client |-> client, server |-> server]

PskSecret == Extract(None, <<"psk">>)
HandshakeSecretOf(setup) ==
  Chained(IF setup.accept THEN PskSecret ELSE Extract(None, Zeros),
          IF setup.ecdhe THEN <<"dh">> ELSE Zeros)
MasterSecretOf(setup) == Chained(HandshakeSecretOf(setup), Zeros)

(* The transcripts, from message to message.                               *)
BeforeHello(setup, hrr) ==
  IF setup.retry = "none" THEN <<>> ELSE Retried(FirstHello(setup), hrr)
FirstOnly == <<>> \o <<"ClientHello">>
ToHello(setup, hrr) == BeforeHello(setup, hrr) \o <<"ClientHello">>
ToServerHello(setup, hrr) == ToHello(setup, hrr) \o <<"ServerHello">>
ToFlight(setup, hrr) == ToServerHello(setup, hrr) \o ServerFlight(setup)
ToEnd(setup, hrr) == ToFlight(setup, hrr) \o (ClientAnswer(setup) \o <<"ClientFinished">>)

BinderSecret(setup) == ExpandLabel(PskSecret, EarlySecrets[BinderType(setup)], Blank, HashLength)
EarlySecret(label) == ExpandLabel(PskSecret, label, FirstOnly, HashLength)
HandshakeTraffic(setup, hrr, label) ==
  DeriveSecret(HandshakeSecretOf(setup), label, ToServerHello(setup, hrr))
Master(setup, hrr, label) == DeriveSecret(MasterSecretOf(setup), label, ToFlight(setup, hrr))
Resumption(setup, hrr) == DeriveSecret(MasterSecretOf(setup), "res master", ToEnd(setup, hrr))

(* A secret taken before there is a ServerHello.                           *)
FixedEarly(setup, h) ==
  /\ h.gen = 0
  /\ \/ h.use = "binder" /\ h.secret = BinderSecret(setup)
     \/ h.use = "early" /\ h.secret = EarlySecret("c e traffic")
     \/ h.use = "early exporter" /\ h.secret = EarlySecret("e exp master")
Fixed(setup, hrr, h) ==
  \/ FixedEarly(setup, h)
  \/ /\ h.gen = 0
     /\ \/ h.use = "client handshake" /\ h.secret = HandshakeTraffic(setup, hrr, "c hs traffic")
        \/ h.use = "server handshake" /\ h.secret = HandshakeTraffic(setup, hrr, "s hs traffic")
        \/ h.use = "exporter" /\ h.secret = Master(setup, hrr, "exp master")
        \/ h.use = "client" /\ h.secret = Master(setup, hrr, "c ap traffic")
        \/ h.use = "server" /\ h.secret = Master(setup, hrr, "s ap traffic")
        \/ h.use = "resumption" /\ h.secret = Resumption(setup, hrr)
  \/ h.use = "psk" /\ h.secret = GetResumptionSecret(Resumption(setup, hrr), <<"nonce", h.gen>>)

(* A secret after key updates.                                             *)
Sides == {"client", "server"}
Moved(h, all) ==
  /\ h.use \in Sides /\ h.gen \in Nat \ {0}
  /\ \E g \in all : g.use = h.use /\ g.gen = h.gen - 1 /\ h.secret = Updated(g.secret)

Apart(all) == \A g, h \in all : (g.secret = h.secret) <=> (g.use = h.use /\ g.gen = h.gen)
HeldInv(setup, hrr, all) ==
  /\ IsFiniteSet(all)
  /\ \A h \in all : /\ h = Holds(h.use, h.gen, h.secret)
                    /\ Fixed(setup, hrr, h) \/ Moved(h, all)
  /\ Apart(all)

(* The label of a secret tells its use.                                    *)
LabelTells(use, label) ==
  /\ use = "binder" => label \in {"ext binder", "res binder"}
  /\ use = "early" => label = "c e traffic"
  /\ use = "early exporter" => label = "e exp master"
  /\ use = "client handshake" => label = "c hs traffic"
  /\ use = "server handshake" => label = "s hs traffic"
  /\ use = "exporter" => label = "exp master"
  /\ use = "client" => label = "c ap traffic"
  /\ use = "server" => label = "s ap traffic"
  /\ use = "resumption" => label = "res master"
  /\ use = "psk" => label = "resumption"
FixedUses == {"binder", "early", "early exporter", "client handshake", "server handshake",
              "exporter", "client", "server", "resumption", "psk"}

LEMMA BinderLabel ==
  ASSUME NEW setup
  PROVE  EarlySecrets[BinderType(setup)] \in {"ext binder", "res binder"}
BY DEF BinderType, EarlySecrets

LEMMA FixedLabel ==
  ASSUME NEW setup, NEW hrr, NEW h, Fixed(setup, hrr, h)
  PROVE  /\ h.use \in FixedUses /\ LabelTells(h.use, h.secret.label)
         /\ h.use # "psk" => h.gen = 0
<1>1. /\ BinderSecret(setup).label = EarlySecrets[BinderType(setup)]
      /\ \A l : EarlySecret(l).label = l
      /\ \A l : HandshakeTraffic(setup, hrr, l).label = l
      /\ \A l : Master(setup, hrr, l).label = l
      /\ Resumption(setup, hrr).label = "res master"
  BY DEF ExpandLabel, BinderSecret, EarlySecret, HandshakeTraffic, Master, Resumption, DeriveSecret
<1>2. h.use \in FixedUses /\ (h.use # "psk" => h.gen = 0)
  BY DEF Fixed, FixedEarly, FixedUses
<1>3. /\ h.use = "binder" => h.secret = BinderSecret(setup)
      /\ h.use = "early" => h.secret = EarlySecret("c e traffic")
      /\ h.use = "early exporter" => h.secret = EarlySecret("e exp master")
      /\ h.use = "client handshake" => h.secret = HandshakeTraffic(setup, hrr, "c hs traffic")
      /\ h.use = "server handshake" => h.secret = HandshakeTraffic(setup, hrr, "s hs traffic")
      /\ h.use = "exporter" => h.secret = Master(setup, hrr, "exp master")
      /\ h.use = "client" => h.secret = Master(setup, hrr, "c ap traffic")
      /\ h.use = "server" => h.secret = Master(setup, hrr, "s ap traffic")
      /\ h.use = "resumption" => h.secret = Resumption(setup, hrr)
      /\ h.use = "psk" =>
           h.secret = GetResumptionSecret(Resumption(setup, hrr), <<"nonce", h.gen>>)
  BY DEF Fixed, FixedEarly
<1>5. /\ BinderSecret(setup).label \in {"ext binder", "res binder"}
      /\ EarlySecret("c e traffic").label = "c e traffic"
      /\ EarlySecret("e exp master").label = "e exp master"
      /\ HandshakeTraffic(setup, hrr, "c hs traffic").label = "c hs traffic"
      /\ HandshakeTraffic(setup, hrr, "s hs traffic").label = "s hs traffic"
      /\ Master(setup, hrr, "exp master").label = "exp master"
      /\ Master(setup, hrr, "c ap traffic").label = "c ap traffic"
      /\ Master(setup, hrr, "s ap traffic").label = "s ap traffic"
  BY <1>1, BinderLabel
<1>4. LabelTells(h.use, h.secret.label)
  <2>1. /\ h.use = "binder" => h.secret.label \in {"ext binder", "res binder"}
        /\ h.use = "early" => h.secret.label = "c e traffic"
        /\ h.use = "early exporter" => h.secret.label = "e exp master"
    BY <1>3, <1>5
  <2>2. /\ h.use = "client handshake" => h.secret.label = "c hs traffic"
        /\ h.use = "server handshake" => h.secret.label = "s hs traffic"
        /\ h.use = "exporter" => h.secret.label = "exp master"
        /\ h.use = "client" => h.secret.label = "c ap traffic"
        /\ h.use = "server" => h.secret.label = "s ap traffic"
    BY <1>3, <1>5
  <2>3. /\ h.use = "resumption" => h.secret.label = "res master"
        /\ h.use = "psk" => h.secret.label = "resumption"
    <3>1. GetResumptionSecret(Resumption(setup, hrr), <<"nonce", h.gen>>).label = "resumption"
      BY DEF GetResumptionSecret, ExpandLabel
    <3>. QED  BY <1>1, <1>3, <3>1
  <2>. QED  BY <2>1, <2>2, <2>3 DEF LabelTells
<1>. QED  BY <1>2, <1>4

LEMMA LabelsDiffer ==
  ASSUME NEW u \in FixedUses, NEW l, LabelTells(u, l)
  PROVE  /\ \A v \in FixedUses : LabelTells(v, l) => u = v
         /\ l # "traffic upd"
BY DEF LabelTells, FixedUses

LEMMA UpdatedTells ==
  /\ \A s : Updated(s).label = "traffic upd"
  /\ \A s, t : Updated(s) = Updated(t) => s = t
BY DEF Updated, ExpandLabel

LEMMA FixedApart ==
  ASSUME NEW setup, NEW hrr, NEW g, NEW h, Fixed(setup, hrr, g), Fixed(setup, hrr, h)
  PROVE  (g.secret = h.secret) <=> (g.use = h.use /\ g.gen = h.gen)
<1>1. /\ g.use \in FixedUses /\ LabelTells(g.use, g.secret.label)
      /\ h.use \in FixedUses /\ LabelTells(h.use, h.secret.label)
      /\ g.use # "psk" => g.gen = 0
      /\ h.use # "psk" => h.gen = 0
  BY FixedLabel
<1>2. g.secret = h.secret => g.use = h.use
  BY <1>1, LabelsDiffer
<1>3. CASE g.use = "psk" /\ h.use = "psk"
  <2>1. /\ g.secret = GetResumptionSecret(Resumption(setup, hrr), <<"nonce", g.gen>>)
        /\ h.secret = GetResumptionSecret(Resumption(setup, hrr), <<"nonce", h.gen>>)
    BY <1>3 DEF Fixed, FixedEarly
  <2>2. g.secret.ctx = <<"nonce", g.gen>> /\ h.secret.ctx = <<"nonce", h.gen>>
    BY <2>1 DEF GetResumptionSecret, ExpandLabel
  <2>. QED  BY <1>3, <2>1, <2>2
<1>4. CASE g.use = h.use /\ g.use # "psk"
  <2>1. g.secret = h.secret
    BY <1>4 DEF Fixed, FixedEarly
  <2>. QED  BY <1>1, <1>4, <2>1
<1>. QED  BY <1>2, <1>3, <1>4

(* A secret of a key update is nobody else's.                              *)
LEMMA MovedApart ==
  ASSUME NEW setup, NEW hrr, NEW all, NEW g, NEW h, Fixed(setup, hrr, g), Moved(h, all)
  PROVE  g.secret # h.secret /\ ~(g.use = h.use /\ g.gen = h.gen)
<1>1. h.secret.label = "traffic upd"
  BY UpdatedTells DEF Moved
<1>2. /\ g.use \in FixedUses /\ LabelTells(g.use, g.secret.label)
      /\ g.use # "psk" => g.gen = 0
  BY FixedLabel
<1>. QED  BY <1>1, <1>2, LabelsDiffer DEF Moved, Sides

(* The set grows by a secret of the schedule.                              *)
LEMMA AddFixed ==
  ASSUME NEW setup, NEW hrr, NEW all, NEW x,
         HeldInv(setup, hrr, all), Fixed(setup, hrr, x), x = Holds(x.use, x.gen, x.secret)
  PROVE  HeldInv(setup, hrr, all \cup {x})
<1>1. \A h \in all : (x.secret = h.secret) <=> (x.use = h.use /\ x.gen = h.gen)
  BY FixedApart, MovedApart DEF HeldInv
<1>2. Apart(all \cup {x})
  BY <1>1 DEF HeldInv, Apart
<1>3. \A h \in all : Moved(h, all) => Moved(h, all \cup {x})
  BY DEF Moved
<1>4. IsFiniteSet(all \cup {x})
  BY FS_AddElement DEF HeldInv
<1>. QED  BY <1>2, <1>3, <1>4 DEF HeldInv

(* It grows by a secret of a key update.                                   *)
LEMMA AddMoved ==
  ASSUME NEW setup, NEW hrr, NEW all, HeldInv(setup, hrr, all),
         NEW g \in all, g.use \in Sides, g.gen \in Nat
  PROVE  HeldInv(setup, hrr, all \cup {Holds(g.use, g.gen + 1, Updated(g.secret))})
<1>. DEFINE x == Holds(g.use, g.gen + 1, Updated(g.secret))
<1>1. x.use = g.use /\ x.gen = g.gen + 1 /\ x.secret = Updated(g.secret)
      /\ x = Holds(x.use, x.gen, x.secret)
  BY DEF Holds
<1>. HIDE DEF x
<1>2. Moved(x, all \cup {x}) /\ Moved(x, all)
  BY <1>1 DEF Moved
<1>3. ASSUME NEW h \in all
      PROVE  (x.secret = h.secret) <=> (x.use = h.use /\ x.gen = h.gen)
  <2>1. CASE Fixed(setup, hrr, h)
    BY <1>2, <2>1, MovedApart
  <2>2. CASE Moved(h, all)
    <3>1. PICK b \in all : b.use = h.use /\ b.gen = h.gen - 1 /\ h.secret = Updated(b.secret)
      BY <2>2 DEF Moved
    <3>2. x.secret = h.secret <=> g.secret = b.secret
      BY <1>1, <3>1, UpdatedTells
    <3>3. g.secret = b.secret <=> (g.use = b.use /\ g.gen = b.gen)
      BY DEF HeldInv, Apart
    <3>4. h.gen \in Nat
      BY <2>2 DEF Moved
    <3>. QED  BY <1>1, <3>1, <3>2, <3>3, <3>4
  <2>. QED  BY <2>1, <2>2 DEF HeldInv
<1>4. Apart(all \cup {x})
  BY <1>3 DEF HeldInv, Apart
<1>5. \A h \in all : Moved(h, all) => Moved(h, all \cup {x})
  BY DEF Moved
<1>6. IsFiniteSet(all \cup {x})
  BY FS_AddElement DEF HeldInv
<1>7. HeldInv(setup, hrr, all \cup {x})
  BY <1>1, <1>2, <1>4, <1>5, <1>6 DEF HeldInv
<1>. QED  BY <1>7 DEF x

-----------------------------------------------------------------------------
(* What is there, is not the absent value.                                 *)
LEMMA Present ==
  ASSUME NoneIsNoFunction
  PROVE  /\ \A f, l, c, n : ExpandLabel(f, l, c, n) # None
         /\ \A c, i, s, j : App(c, i, s, j) # None
         /\ \A v, c, g, h, a : [version |-> v, cipher |-> c, group |-> g,
                                chloHash |-> h, appToken |-> a] # None
         /\ \A k, p : [key |-> k, plaintext |-> p] # None
         /\ <<"c">> # None
<1>1. ASSUME NEW r, r = [x \in DOMAIN r |-> r[x]] PROVE r # None
  BY <1>1 DEF NoneIsNoFunction
<1>2. ASSUME NEW f, NEW l, NEW c, NEW n PROVE ExpandLabel(f, l, c, n) # None
  <2>. DEFINE r == ExpandLabel(f, l, c, n)
  <2>1. r = [x \in DOMAIN r |-> r[x]]
    BY DEF ExpandLabel
  <2>. HIDE DEF r
  <2>2. r # None
    BY <1>1, <2>1
  <2>. QED  BY <2>2 DEF r
<1>3. ASSUME NEW c, NEW i, NEW s, NEW j PROVE App(c, i, s, j) # None
  <2>. DEFINE r == App(c, i, s, j)
  <2>1. r = [x \in DOMAIN r |-> r[x]]
    BY DEF App
  <2>. HIDE DEF r
  <2>2. r # None
    BY <1>1, <2>1
  <2>. QED  BY <2>2 DEF r
<1>4. ASSUME NEW v, NEW c, NEW g, NEW h, NEW a
      PROVE  [version |-> v, cipher |-> c, group |-> g, chloHash |-> h, appToken |-> a] # None
  <2>. DEFINE r == [version |-> v, cipher |-> c, group |-> g, chloHash |-> h, appToken |-> a]
  <2>1. r = [x \in DOMAIN r |-> r[x]]
    OBVIOUS
  <2>. HIDE DEF r
  <2>2. r # None
    BY <1>1, <2>1
  <2>. QED  BY <2>2 DEF r
<1>5. ASSUME NEW k, NEW p PROVE [key |-> k, plaintext |-> p] # None
  <2>. DEFINE r == [key |-> k, plaintext |-> p]
  <2>1. r = [x \in DOMAIN r |-> r[x]]
    OBVIOUS
  <2>. HIDE DEF r
  <2>2. r # None
    BY <1>1, <2>1
  <2>. QED  BY <2>2 DEF r
<1>6. <<"c">> # None
  <2>. DEFINE r == <<"c">>
  <2>1. r = [x \in DOMAIN r |-> r[x]]
    OBVIOUS
  <2>. HIDE DEF r
  <2>2. r # None
    BY <1>1, <2>1
  <2>. QED  BY <2>2 DEF r
<1>. QED  BY <1>2, <1>3, <1>4, <1>5, <1>6

(* The operations on an end.                                               *)
LEMMA EndIs ==
  ASSUME NEW s, NEW t, NEW g
  PROVE  /\ End(s, t, g).sch = s /\ End(s, t, g).transcript = t /\ End(s, t, g).got = g
         /\ \A hs : Got(End(s, t, g), hs) = End(s, t, g \cup hs)
         /\ \A r : Runs(End(s, t, g), r) = End(r, t, g)
         /\ \A u : [End(s, t, g) EXCEPT !.transcript = u] = End(s, u, g)
<1>1. End(s, t, g).sch = s /\ End(s, t, g).transcript = t /\ End(s, t, g).got = g
  BY DEF End
<1>2. ASSUME NEW hs PROVE Got(End(s, t, g), hs) = End(s, t, g \cup hs)
  <2>. DEFINE x == g \cup hs
  <2>1. Got(End(s, t, g), hs) = [End(s, t, g) EXCEPT !.got = x]
    BY <1>1 DEF Got
  <2>. HIDE DEF x
  <2>2. [End(s, t, g) EXCEPT !.got = x] = End(s, t, x)
    BY DEF End
  <2>. QED  BY <2>1, <2>2 DEF x
<1>3. ASSUME NEW r PROVE Runs(End(s, t, g), r) = End(r, t, g)
  BY DEF End, Runs
<1>4. ASSUME NEW u PROVE [End(s, t, g) EXCEPT !.transcript = u] = End(s, u, g)
  BY DEF End
<1>. QED  BY <1>1, <1>2, <1>3, <1>4

LEMMA EndFields ==
  ASSUME NEW e, NEW s, NEW t, NEW g, e = End(s, t, g)
  PROVE  e.sch = s /\ e.transcript = t /\ e.got = g /\ e = End(e.sch, e.transcript, e.got)
BY EndIs

Continued(end, transcript) == [end EXCEPT !.transcript = transcript]
LEMMA EndContinues ==
  ASSUME NEW s, NEW t, NEW g, NEW u
  PROVE  Continued(End(s, t, g), u) = End(s, u, g)
BY DEF End, Continued
LEMMA ServerContinues ==
  ASSUME NEW u, ks.server = End(NewScheduler, ks.server.transcript, ks.server.got)
  PROVE  Continued(ks.server, u) = End(NewScheduler, u, ks.server.got)
<1>. DEFINE t == ks.server.transcript
            g == ks.server.got
<1>1. ks.server = End(NewScheduler, t, g)
  OBVIOUS
<1>. HIDE DEF t, g
<1>2. Continued(End(NewScheduler, t, g), u) = End(NewScheduler, u, g)
  BY EndContinues
<1>3. Continued(ks.server, u) = End(NewScheduler, u, g)
  BY <1>1, <1>2
<1>. QED  BY <1>3 DEF g

LEMMA EndSees ==
  ASSUME NEW s, NEW t, NEW g, NEW m
  PROVE  Sees(End(s, t, g), m) = End(s, t \o m, g)
<1>. DEFINE u == t \o m
<1>1. Sees(End(s, t, g), m) = [End(s, t, g) EXCEPT !.transcript = u]
  BY DEF Sees, End
<1>. HIDE DEF u
<1>2. Sees(End(s, t, g), m) = End(s, u, g)
  BY <1>1, EndIs
<1>. QED  BY <1>2 DEF u

LEMMA SchedIs ==
  ASSUME NEW t, NEW s, NEW a
  PROVE  /\ Sched(t, s, a).type = t /\ Sched(t, s, a).secret = s
         /\ Sched(t, s, a).app = a /\ Sched(t, s, a).err = None
         /\ \A u, x : WithSecret(Sched(t, s, a), u, x) = Sched(u, x, a)
         /\ NewScheduler = Sched(None, None, None)
<1>1. ASSUME NEW u, NEW x PROVE WithSecret(Sched(t, s, a), u, x) = Sched(u, x, a)
  <2>1. Sched(t, s, a) \in [type : {t}, secret : {s}, app : {a}, err : {None}]
    BY DEF Sched
  <2>2. WithSecret(Sched(t, s, a), u, x) \in [type : {u}, secret : {x}, app : {a}, err : {None}]
    BY <2>1 DEF WithSecret
  <2>3. Sched(u, x, a) \in [type : {u}, secret : {x}, app : {a}, err : {None}]
    BY DEF Sched
  <2>. QED  BY <2>2, <2>3
<1>2. NewScheduler = Sched(None, None, None)
  BY DEF Sched, NewScheduler
<1>3. /\ Sched(t, s, a).type = t /\ Sched(t, s, a).secret = s
      /\ Sched(t, s, a).app = a /\ Sched(t, s, a).err = None
  BY DEF Sched
<1>. QED  BY <1>1, <1>2, <1>3

(* The first steps of the scheduler.                                       *)
PskScheduler == Sched("EarlySecret", PskSecret, None)
LEMMA EarlySchedule ==
  /\ DeriveEarlySecret(NewScheduler, <<"psk">>) = PskScheduler
  /\ \A setup : GetEarlySecret(PskScheduler, BinderType(setup), Blank) = BinderSecret(setup)
  /\ \A t : /\ GetEarlySecret(PskScheduler, "ClientEarlyTraffic", t)
                 = ExpandLabel(PskSecret, "c e traffic", t, HashLength)
            /\ GetEarlySecret(PskScheduler, "EarlyExporter", t)
                 = ExpandLabel(PskSecret, "e exp master", t, HashLength)
<1>1. DeriveEarlySecret(NewScheduler, <<"psk">>) = PskScheduler
  BY SchedIs DEF DeriveEarlySecret, PskScheduler, PskSecret
<1>2. PskScheduler.type = "EarlySecret" /\ PskScheduler.secret = PskSecret
  BY SchedIs DEF PskScheduler
<1>3. \A setup : BinderType(setup) \notin {"ECHAcceptConfirmation", "HRRECHAcceptConfirmation"}
  BY DEF BinderType
<1>4. /\ EarlySecrets["ClientEarlyTraffic"] = "c e traffic"
      /\ EarlySecrets["EarlyExporter"] = "e exp master"
  BY DEF EarlySecrets
<1>5. \A setup : GetEarlySecret(PskScheduler, BinderType(setup), Blank) = BinderSecret(setup)
  BY <1>2, <1>3 DEF GetEarlySecret, BinderSecret
<1>6. \A t : /\ GetEarlySecret(PskScheduler, "ClientEarlyTraffic", t)
                  = ExpandLabel(PskSecret, "c e traffic", t, HashLength)
             /\ GetEarlySecret(PskScheduler, "EarlyExporter", t)
                  = ExpandLabel(PskSecret, "e exp master", t, HashLength)
  BY <1>2, <1>4 DEF GetEarlySecret
<1>. QED  BY <1>1, <1>5, <1>6

(* What an end takes when it hashes a hello with a PSK.                    *)
Offered(setup, transcript, early) ==
  {Holds("binder", 0, BinderSecret(setup))} \cup
    IF ~early THEN {}
    ELSE {Holds("early", 0, ExpandLabel(PskSecret, "c e traffic", transcript, HashLength)),
          Holds("early exporter", 0, ExpandLabel(PskSecret, "e exp master", transcript, HashLength))}
BinderOver(setup, transcript) ==
  [key |-> BinderSecret(setup), over |-> transcript \o <<"prefix">>]

LEMMA HelloWithPsk ==
  ASSUME NEW setup, NEW s, NEW t, NEW g
  PROVE  /\ SentBinder(setup, End(s, t, g)) = BinderOver(setup, t)
         /\ \A early : EncodeWithBinders(setup, End(s, t, g), PskScheduler, "ClientHello", early)
                         = End(s, t \o <<"ClientHello">>,
                               g \cup Offered(setup, t \o <<"ClientHello">>, early))
<1>1. /\ End(s, t, g).transcript = t
      /\ PskBinder(setup, PskScheduler, End(s, t, g)).key = BinderSecret(setup)
      /\ PskBinder(setup, PskScheduler, End(s, t, g)) = BinderOver(setup, t)
  <2>1. End(s, t, g).transcript = t
    BY EndIs
  <2>2. GetEarlySecret(PskScheduler, BinderType(setup), Blank) = BinderSecret(setup)
    BY EarlySchedule
  <2>3. PskBinder(setup, PskScheduler, End(s, t, g)) = BinderOver(setup, t)
    BY <2>1, <2>2 DEF PskBinder, BinderOver
  <2>. QED  BY <2>1, <2>3 DEF BinderOver
<1>2. SentBinder(setup, End(s, t, g)) = BinderOver(setup, t)
  BY <1>1, EarlySchedule DEF SentBinder
<1>3. ASSUME NEW early
      PROVE  EncodeWithBinders(setup, End(s, t, g), PskScheduler, "ClientHello", early)
               = End(s, t \o <<"ClientHello">>, g \cup Offered(setup, t \o <<"ClientHello">>, early))
  <2>1. EncodeWithBinders(setup, End(s, t, g), PskScheduler, "ClientHello", early)
          = Got(Sees(End(s, t, g), <<"ClientHello">>), Offered(setup, t \o <<"ClientHello">>, early))
    BY <1>1, EarlySchedule DEF EncodeWithBinders, Offered
  <2>. QED  BY <2>1, EndIs, EndSees
<1>. QED  BY <1>2, <1>3

(* The scheduler from the ServerHello on.                                  *)
HandshakeStart(setup) == IF setup.accept THEN PskScheduler ELSE NewScheduler
HandshakeScheduler(setup) == Sched("HandshakeSecret", HandshakeSecretOf(setup), None)
AppAt(setup, transcript) ==
  App(DeriveSecret(MasterSecretOf(setup), "c ap traffic", transcript), 0,
      DeriveSecret(MasterSecretOf(setup), "s ap traffic", transcript), 0)
MasterScheduler(setup, transcript) ==
  Sched("MasterSecret", MasterSecretOf(setup), AppAt(setup, transcript))
HandshakeHeld(setup, transcript) ==
  {Holds("client handshake", 0, DeriveSecret(HandshakeSecretOf(setup), "c hs traffic", transcript)),
   Holds("server handshake", 0, DeriveSecret(HandshakeSecretOf(setup), "s hs traffic", transcript))}

LEMMA HandshakeBegins ==
  ASSUME NEW setup \in KeySetups, NEW t, NEW g
  PROVE  DeriveHandshake(setup, End(HandshakeStart(setup), t, g))
           = End(HandshakeScheduler(setup), t, g)
<1>. DEFINE sch == HandshakeStart(setup)
<1>0. /\ setup.accept \in BOOLEAN /\ setup.ecdhe \in BOOLEAN /\ (~setup.ecdhe => setup.accept)
      /\ None # "EarlySecret"
  BY KeySetupsAssumption
<1>1. /\ setup.accept => sch = Sched("EarlySecret", PskSecret, None)
      /\ ~setup.accept => sch = Sched(None, None, None)
  BY SchedIs DEF HandshakeStart, PskScheduler
<1>2. ASSUME setup.accept
      PROVE  DeriveHandshake(setup, End(sch, t, g)) = End(HandshakeScheduler(setup), t, g)
  <2>1. sch.type = "EarlySecret" /\ sch.secret = PskSecret
        /\ \A u, x : WithSecret(sch, u, x) = Sched(u, x, None)
    BY <1>1, <1>2, SchedIs
  <2>2. DeriveHandshakeSecretEcdhe(sch, <<"dh">>)
          = Sched("HandshakeSecret", Chained(PskSecret, <<"dh">>), None)
    BY <1>0, <2>1 DEF DeriveHandshakeSecretEcdhe
  <2>3. DeriveHandshakeSecret(sch) = Sched("HandshakeSecret", Chained(PskSecret, Zeros), None)
    BY <2>1 DEF DeriveHandshakeSecret
  <2>. HIDE DEF sch
  <2>4. DeriveHandshake(setup, End(sch, t, g)) = End(HandshakeScheduler(setup), t, g)
    BY <1>0, <1>2, <2>2, <2>3, EndIs DEF DeriveHandshake, HandshakeScheduler, HandshakeSecretOf
  <2>. QED  BY <2>4
<1>3. ASSUME ~setup.accept
      PROVE  DeriveHandshake(setup, End(sch, t, g)) = End(HandshakeScheduler(setup), t, g)
  <2>1. sch.type = None /\ \A u, x : WithSecret(sch, u, x) = Sched(u, x, None)
    BY <1>1, <1>3, SchedIs
  <2>2. DeriveHandshakeSecretEcdhe(sch, <<"dh">>)
          = Sched("HandshakeSecret", Chained(Extract(None, Zeros), <<"dh">>), None)
    BY <1>0, <2>1 DEF DeriveHandshakeSecretEcdhe
  <2>. HIDE DEF sch
  <2>3. DeriveHandshake(setup, End(sch, t, g)) = End(HandshakeScheduler(setup), t, g)
    BY <1>0, <1>3, <2>2, EndIs DEF DeriveHandshake, HandshakeScheduler, HandshakeSecretOf
  <2>. QED  BY <2>3
<1>. QED  BY <1>0, <1>2, <1>3 DEF sch

LEMMA HandshakeSchedule ==
  ASSUME NEW setup \in KeySetups, NEW t, NEW g
  PROVE  HandshakeKeys(End(HandshakeScheduler(setup), t, g))
           = End(HandshakeScheduler(setup), t, g \cup HandshakeHeld(setup, t))
<1>4. HandshakeKeys(End(HandshakeScheduler(setup), t, g))
        = End(HandshakeScheduler(setup), t, g \cup HandshakeHeld(setup, t))
  <2>. DEFINE hs == HandshakeScheduler(setup)
  <2>1. hs.type = "HandshakeSecret" /\ hs.secret = HandshakeSecretOf(setup)
    BY SchedIs DEF HandshakeScheduler
  <2>2. /\ HandshakeSecrets["ClientHandshakeTraffic"] = "c hs traffic"
        /\ HandshakeSecrets["ServerHandshakeTraffic"] = "s hs traffic"
    BY DEF HandshakeSecrets
  <2>3. /\ GetHandshakeSecret(hs, "ClientHandshakeTraffic", t)
             = DeriveSecret(HandshakeSecretOf(setup), "c hs traffic", t)
        /\ GetHandshakeSecret(hs, "ServerHandshakeTraffic", t)
             = DeriveSecret(HandshakeSecretOf(setup), "s hs traffic", t)
    BY <2>1, <2>2 DEF GetHandshakeSecret, DeriveSecret
  <2>. HIDE DEF hs
  <2>4. HandshakeKeys(End(hs, t, g)) = Got(End(hs, t, g), HandshakeHeld(setup, t))
    <3>1. End(hs, t, g).sch = hs /\ End(hs, t, g).transcript = t
      BY EndIs
    <3>. QED  BY <2>3, <3>1 DEF HandshakeKeys, HandshakeHeld
  <2>5. HandshakeKeys(End(hs, t, g)) = End(hs, t, g \cup HandshakeHeld(setup, t))
    BY <2>4, EndIs
  <2>. QED  BY <2>5 DEF hs
<1>. QED  BY <1>4

LEMMA MasterSchedule ==
  ASSUME NEW setup, NEW t
  PROVE  /\ DeriveMasterSecret(HandshakeScheduler(setup))
              = Sched("MasterSecret", MasterSecretOf(setup), None)
         /\ DeriveAppTrafficSecrets(Sched("MasterSecret", MasterSecretOf(setup), None), t)
              = MasterScheduler(setup, t)
         /\ ClearMasterSecret(MasterScheduler(setup, t)) = Sched(None, None, AppAt(setup, t))
         /\ \A a, u : LET sch == Sched("MasterSecret", MasterSecretOf(setup), a)
                      IN /\ GetMasterSecret(sch, "ExporterMaster", u)
                              = DeriveSecret(MasterSecretOf(setup), "exp master", u)
                         /\ GetMasterSecret(sch, "ResumptionMaster", u)
                              = DeriveSecret(MasterSecretOf(setup), "res master", u)
<1>1. DeriveMasterSecret(HandshakeScheduler(setup))
        = Sched("MasterSecret", MasterSecretOf(setup), None)
  BY SchedIs DEF DeriveMasterSecret, HandshakeScheduler, MasterSecretOf
<1>2. DeriveAppTrafficSecrets(Sched("MasterSecret", MasterSecretOf(setup), None), t)
        = MasterScheduler(setup, t)
  <2>. DEFINE sch == Sched("MasterSecret", MasterSecretOf(setup), None)
  <2>1. sch.type = "MasterSecret" /\ sch.secret = MasterSecretOf(setup)
    BY SchedIs
  <2>. HIDE DEF sch
  <2>2. DeriveAppTrafficSecrets(sch, t) = [sch EXCEPT !.app = AppAt(setup, t)]
    BY <2>1 DEF DeriveAppTrafficSecrets, AppAt, App
  <2>3. \A a : [sch EXCEPT !.app = a] = Sched("MasterSecret", MasterSecretOf(setup), a)
    BY DEF sch, Sched
  <2>4. DeriveAppTrafficSecrets(sch, t) = Sched("MasterSecret", MasterSecretOf(setup), AppAt(setup, t))
    BY <2>2, <2>3
  <2>. QED  BY <2>4 DEF sch, MasterScheduler
<1>3. ClearMasterSecret(MasterScheduler(setup, t)) = Sched(None, None, AppAt(setup, t))
  BY SchedIs DEF ClearMasterSecret, MasterScheduler
<1>4. ASSUME NEW a, NEW u
      PROVE  LET sch == Sched("MasterSecret", MasterSecretOf(setup), a)
             IN /\ GetMasterSecret(sch, "ExporterMaster", u)
                     = DeriveSecret(MasterSecretOf(setup), "exp master", u)
                /\ GetMasterSecret(sch, "ResumptionMaster", u)
                     = DeriveSecret(MasterSecretOf(setup), "res master", u)
  <2>1. MasterSecrets["ExporterMaster"] = "exp master" /\ MasterSecrets["ResumptionMaster"] = "res master"
    BY DEF MasterSecrets
  <2>. DEFINE sch == Sched("MasterSecret", MasterSecretOf(setup), a)
  <2>2. sch.type = "MasterSecret" /\ sch.secret = MasterSecretOf(setup)
    BY SchedIs
  <2>. HIDE DEF sch
  <2>3. /\ GetMasterSecret(sch, "ExporterMaster", u)
             = DeriveSecret(MasterSecretOf(setup), "exp master", u)
        /\ GetMasterSecret(sch, "ResumptionMaster", u)
             = DeriveSecret(MasterSecretOf(setup), "res master", u)
    BY <2>1, <2>2 DEF GetMasterSecret
  <2>. QED  BY <2>3 DEF sch
<1>. QED  BY <1>1, <1>2, <1>3, <1>4

SchedsWith(t, s, c, i, d, j) ==
  [type : {t}, secret : {s}, err : {None},
   app : [client : {c}, clientGeneration : {i}, server : {d}, serverGeneration : {j}]]

LEMMA SchedsWithOne ==
  ASSUME NEW t, NEW s, NEW c, NEW i, NEW d, NEW j
  PROVE  /\ Sched(t, s, App(c, i, d, j)) \in SchedsWith(t, s, c, i, d, j)
         /\ \A r \in SchedsWith(t, s, c, i, d, j) : r = Sched(t, s, App(c, i, d, j))
<1>1. Sched(t, s, App(c, i, d, j)) \in SchedsWith(t, s, c, i, d, j)
  BY DEF Sched, App, SchedsWith
<1>2. ASSUME NEW r \in SchedsWith(t, s, c, i, d, j)
      PROVE  r = Sched(t, s, App(c, i, d, j))
  <2>1. r.app \in [client : {c}, clientGeneration : {i}, server : {d}, serverGeneration : {j}]
    BY DEF SchedsWith
  <2>2. r.app = App(c, i, d, j)
    BY <2>1 DEF App
  <2>. QED  BY <2>2 DEF SchedsWith, Sched
<1>. QED  BY <1>1, <1>2

LEMMA AppSecrets ==
  ASSUME NoneIsNoFunction, NEW t, NEW s, NEW c, NEW i, NEW d, NEW j
  PROVE  LET sch == Sched(t, s, App(c, i, d, j))
         IN /\ GetAppSecret(sch, "client") = c /\ GetAppSecret(sch, "server") = d
            /\ Generation(sch, "client") = i /\ Generation(sch, "server") = j
            /\ ClientKeyUpdate(sch) = Sched(t, s, App(Updated(c), i + 1, d, j))
            /\ ServerKeyUpdate(sch) = Sched(t, s, App(c, i, Updated(d), j + 1))
<1>. DEFINE sch == Sched(t, s, App(c, i, d, j))
<1>1. /\ sch.app = App(c, i, d, j) /\ sch.app # None
      /\ sch.app.client = c /\ sch.app.server = d
      /\ sch.app.clientGeneration = i /\ sch.app.serverGeneration = j
  BY Present DEF Sched, App
<1>2. /\ GetAppSecret(sch, "client") = c /\ GetAppSecret(sch, "server") = d
      /\ Generation(sch, "client") = i /\ Generation(sch, "server") = j
  BY <1>1 DEF GetAppSecret, Generation
<1>3. \A a : [sch EXCEPT !.app = a] = Sched(t, s, a)
  BY DEF Sched
<1>4. ASSUME NEW x, NEW n
      PROVE  /\ [sch EXCEPT !.app.client = x, !.app.clientGeneration = n] = Sched(t, s, App(x, n, d, j))
             /\ [sch EXCEPT !.app.server = x, !.app.serverGeneration = n] = Sched(t, s, App(c, i, x, n))
  <2>. DEFINE upC == [sch EXCEPT !.app.client = x, !.app.clientGeneration = n]
              upS == [sch EXCEPT !.app.server = x, !.app.serverGeneration = n]
  <2>1. sch \in SchedsWith(t, s, c, i, d, j)
    BY SchedsWithOne
  <2>2. upC \in SchedsWith(t, s, x, n, d, j) /\ upS \in SchedsWith(t, s, c, i, x, n)
    <3>. HIDE DEF sch
    <3>. QED  BY <2>1 DEF SchedsWith
  <2>. HIDE DEF sch, upC, upS
  <2>3. upC = Sched(t, s, App(x, n, d, j))
    BY <2>2, SchedsWithOne
  <2>4. upS = Sched(t, s, App(c, i, x, n))
    BY <2>2, SchedsWithOne
  <2>. QED  BY <2>3, <2>4 DEF upC, upS
<1>5. /\ ClientKeyUpdate(sch) = [sch EXCEPT !.app.client = Updated(c), !.app.clientGeneration = i + 1]
      /\ ServerKeyUpdate(sch) = [sch EXCEPT !.app.server = Updated(d), !.app.serverGeneration = j + 1]
  BY <1>1 DEF ClientKeyUpdate, ServerKeyUpdate
<1>. HIDE DEF sch
<1>. QED  BY <1>2, <1>4, <1>5 DEF sch

(* The cookie of a stateless retry: what it holds, and what it gives back. *)
CookieStateOf(setup) == CookieState(ServerConfig(FALSE), FirstHello(setup), <<"app token">>)
CookieOf(setup) == [key |-> Extracted(TokenSecret(1), CookieContexts),
                    plaintext |-> EncodeCookie(CookieStateOf(setup))]
HrrOf(setup) == StatelessRetry(CookieStateOf(setup), CookieOf(setup))

LEMMA Joins ==
  ASSUME NEW E, NEW p \in Seq(E), NEW q \in Seq(E)
  PROVE  /\ p \o q \in Seq(E) /\ Len(p \o q) = Len(p) + Len(q)
         /\ \A i \in 1 .. Len(p) : (p \o q)[i] = p[i]
         /\ \A i \in 1 .. Len(q) : (p \o q)[Len(p) + i] = q[i]
OBVIOUS

LEMMA CookieRoundTrip ==
  ASSUME NoneIsNoFunction, NEW s
  PROVE  /\ EncodeCookie(s) # None
         /\ DecodeCookie(EncodeCookie(s))
              = [version |-> s.version, cipher |-> s.cipher, group |-> s.group,
                 chloHash |-> s.chloHash, appToken |-> s.appToken]
<1>. DEFINE Els == {s.version, s.cipher, s.group, s.chloHash, s.appToken, "Yes", "No"}
            a == <<s.version, s.cipher>>
            b == IF s.group = None THEN <<"No">> ELSE <<"Yes", s.group>>
            c == <<s.chloHash, s.appToken, "No">>
            ab == a \o b
            f == ab \o c
<1>1. /\ a \in Seq(Els) /\ Len(a) = 2 /\ a[1] = s.version /\ a[2] = s.cipher
      /\ c \in Seq(Els) /\ Len(c) = 3 /\ c[1] = s.chloHash /\ c[2] = s.appToken
      /\ b \in Seq(Els)
      /\ s.group = None => Len(b) = 1 /\ b[1] = "No"
      /\ s.group # None => Len(b) = 2 /\ b[1] = "Yes" /\ b[2] = s.group
  <2>1. a \in Seq(Els) /\ Len(a) = 2 /\ a[1] = s.version /\ a[2] = s.cipher
    OBVIOUS
  <2>2. c \in Seq(Els) /\ Len(c) = 3 /\ c[1] = s.chloHash /\ c[2] = s.appToken
    OBVIOUS
  <2>3. CASE s.group = None
    BY <2>1, <2>2, <2>3
  <2>4. CASE s.group # None
    BY <2>1, <2>2, <2>4
  <2>. QED  BY <2>3, <2>4
<1>. HIDE DEF Els, a, b, c
<1>2. /\ ab \in Seq(Els) /\ Len(ab) = 2 + Len(b)
      /\ ab[1] = s.version /\ ab[2] = s.cipher /\ \A i \in 1 .. Len(b) : ab[2 + i] = b[i]
  <2>1. /\ ab \in Seq(Els) /\ Len(ab) = Len(a) + Len(b)
        /\ \A i \in 1 .. Len(a) : ab[i] = a[i]
        /\ \A i \in 1 .. Len(b) : ab[Len(a) + i] = b[i]
    BY <1>1, Joins, SMTT(60)
  <2>. HIDE DEF ab
  <2>2. 1 \in 1 .. Len(a) /\ 2 \in 1 .. Len(a)
    BY <1>1
  <2>. QED  BY <1>1, <2>1, <2>2
<1>. HIDE DEF ab
<1>3. /\ f \in Seq(Els)
      /\ \A i \in 1 .. Len(ab) : f[i] = ab[i]
      /\ \A i \in 1 .. Len(c) : f[Len(ab) + i] = c[i]
  <2>1. ab \in Seq(Els) /\ c \in Seq(Els)
    BY <1>1, <1>2
  <2>. QED  BY <2>1, Joins
<1>4. f = EncodeCookie(s)
  BY DEF f, ab, a, b, c, EncodeCookie
<1>. HIDE DEF f
<1>5. f # None
  <2>1. f = [x \in DOMAIN f |-> f[x]]
    BY <1>3
  <2>. QED  BY <2>1 DEF NoneIsNoFunction
<1>6. CASE s.group = None
  <2>1. /\ f[1] = s.version /\ f[2] = s.cipher /\ f[3] = "No"
        /\ f[4] = s.chloHash /\ f[5] = s.appToken
    <3>0. Len(b) = 1
      BY <1>1, <1>6
    <3>1. Len(b) = 1 /\ Len(ab) = 3
      BY <1>2, <3>0
    <3>2. f[1] = ab[1] /\ f[2] = ab[2] /\ f[3] = ab[3] /\ ab[2 + 1] = b[1]
      BY <1>2, <1>3, <3>1
    <3>3. f[3 + 1] = c[1] /\ f[3 + 2] = c[2]
      BY <1>1, <1>3, <3>1
    <3>. QED  BY <1>1, <1>2, <1>6, <3>2, <3>3
  <2>2. DecodeCookie(f) = [version |-> s.version, cipher |-> s.cipher, group |-> None,
                           chloHash |-> s.chloHash, appToken |-> s.appToken]
    BY <2>1 DEF DecodeCookie
  <2>. QED  BY <1>4, <1>5, <1>6, <2>2
<1>7. CASE s.group # None
  <2>1. /\ f[1] = s.version /\ f[2] = s.cipher /\ f[3] = "Yes" /\ f[4] = s.group
        /\ f[5] = s.chloHash /\ f[6] = s.appToken
    <3>1. Len(b) = 2 /\ Len(ab) = 4
      BY <1>1, <1>2, <1>7, SMTT(60)
    <3>2. /\ f[1] = ab[1] /\ f[2] = ab[2] /\ f[3] = ab[3] /\ f[4] = ab[4]
          /\ ab[2 + 1] = b[1] /\ ab[2 + 2] = b[2]
      BY <1>2, <1>3, <3>1
    <3>3. f[4 + 1] = c[1] /\ f[4 + 2] = c[2]
      BY <1>1, <1>3, <3>1
    <3>. QED  BY <1>1, <1>2, <1>7, <3>2, <3>3
  <2>2. DecodeCookie(f) = [version |-> s.version, cipher |-> s.cipher, group |-> s.group,
                           chloHash |-> s.chloHash, appToken |-> s.appToken]
    BY <2>1 DEF DecodeCookie
  <2>. QED  BY <1>4, <1>5, <2>2
<1>. QED  BY <1>6, <1>7

LEMMA CookieGivesBack ==
  ASSUME NoneIsNoFunction, NEW setup, NEW secrets
  PROVE  LET state == GetCookieState(secrets, HrrOf(setup))
         IN /\ state = None \/ state = CookieStateOf(setup)
            /\ (\E i \in DOMAIN secrets : secrets[i] = TokenSecret(1)) =>
                 state = CookieStateOf(setup) /\ state # None
            /\ StatelessRetry(CookieStateOf(setup), HrrOf(setup).cookie) = HrrOf(setup)
            /\ CookieStateOf(setup).chloHash = FirstHello(setup)
<1>. DEFINE s == CookieStateOf(setup)
            p == EncodeCookie(s)
<1>1. s = [version |-> s.version, cipher |-> s.cipher, group |-> s.group,
           chloHash |-> s.chloHash, appToken |-> s.appToken]
      /\ s.chloHash = FirstHello(setup)
  BY DEF CookieStateOf, CookieState
<1>2. s # None /\ p # None /\ DecodeCookie(p) = s
  <2>. HIDE DEF s
  <2>1. EncodeCookie(s) # None /\ DecodeCookie(EncodeCookie(s)) = s
    BY <1>1, CookieRoundTrip
  <2>2. \A v, c, g, h, a : [version |-> v, cipher |-> c, group |-> g,
                            chloHash |-> h, appToken |-> a] # None
    BY Present
  <2>3. s # None
    BY <1>1, <2>2
  <2>. QED  BY <2>1, <2>3
<1>3. HrrOf(setup).cookie = CookieOf(setup)
  BY DEF HrrOf, StatelessRetry
<1>4. /\ CookieOf(setup).key = Extracted(TokenSecret(1), CookieContexts)
      /\ CookieOf(setup).plaintext = p
  BY DEF CookieOf
<1>. HIDE DEF s, p
<1>5. /\ TokenDecrypt(secrets, CookieContexts, CookieOf(setup)) \in {None, p}
      /\ (\E i \in DOMAIN secrets : secrets[i] = TokenSecret(1)) =>
           TokenDecrypt(secrets, CookieContexts, CookieOf(setup)) = p
  BY <1>4 DEF TokenDecrypt
<1>6. /\ GetCookieState(secrets, HrrOf(setup)) \in {None, s}
      /\ (\E i \in DOMAIN secrets : secrets[i] = TokenSecret(1)) =>
           GetCookieState(secrets, HrrOf(setup)) = s
  BY <1>2, <1>3, <1>5 DEF GetCookieState
<1>7. StatelessRetry(s, HrrOf(setup).cookie) = HrrOf(setup)
  BY <1>3 DEF HrrOf, s
<1>. QED  BY <1>1, <1>2, <1>6, <1>7 DEF s

LEMMA CookieStillGood ==
  ASSUME NEW setup
  PROVE  VerifyCookieState(CookieStateOf(setup), ServerConfig(FALSE), FirstHello(setup))
BY DEF VerifyCookieState, CookieStateOf, CookieState, HrrGroup

LEMMA RetryWithoutState ==
  ASSUME NEW setup,
         NEW hrr, hrr # None,
         hrr = GetStatelessResponse(ServerConfig(FALSE), FirstHello(setup), <<TokenSecret(1)>>)
  PROVE  hrr = HrrOf(setup)
<1>1. TokenEncrypt(<<TokenSecret(1)>>, CookieContexts, EncodeCookie(CookieStateOf(setup)))
        = CookieOf(setup)
  BY DEF TokenEncrypt, CookieOf
<1>. QED  BY <1>1 DEF GetStatelessResponse, HrrOf, CookieStateOf

-----------------------------------------------------------------------------
(* The inductive invariant, phase by phase.                                *)
Held == ks.client.got \cup ks.server.got
NotYet == {"start", "hello", "retry", "second hello", "failed"}
Phases == NotYet \cup {"flight", "client handshake", "client finished", "open"}

KeysShape ==
  /\ DOMAIN ks = {"setup", "at", "binder", "hrr", "secrets", "client", "server"}
  /\ ks.client = End(ks.client.sch, ks.client.transcript, ks.client.got)
  /\ ks.server = End(ks.server.sch, ks.server.transcript, ks.server.got)
  /\ ks.setup \in KeySetups /\ ks.at \in Phases

(* Before the ServerHello the schedulers are new and what was taken comes  *)
(* from the PSK; after a retry the server has, or can get back, the        *)
(* transcript that the client continues.                                   *)
HelloInv ==
  /\ ks.at \in NotYet =>
       /\ ks.client.sch = NewScheduler /\ ks.server.sch = NewScheduler
       /\ \A h \in Held : FixedEarly(ks.setup, h)
  /\ ks.at = "start" => ks.client.transcript = <<>>
  /\ ks.at \in {"start", "hello"} =>
       ks.server.transcript = <<>> /\ ks.secrets = <<TokenSecret(1)>>
  /\ ks.at = "hello" =>
       ks.client.transcript = FirstOnly /\ ks.binder = BinderOver(ks.setup, <<>>)
  /\ ks.at \in {"retry", "second hello"} =>
       /\ ks.setup.retry # "none"
       /\ ks.setup.retry = "stateless" => ks.hrr = HrrOf(ks.setup)
       /\ ks.setup.retry # "stateless" =>
            ks.server.transcript = Retried(FirstHello(ks.setup), ks.hrr)
  /\ ks.at = "second hello" =>
       /\ ks.client.transcript = ToHello(ks.setup, ks.hrr)
       /\ ks.binder = BinderOver(ks.setup, BeforeHello(ks.setup, ks.hrr))
  /\ ks.at = "failed" =>
       ks.setup.otherServer \/ \A i \in DOMAIN ks.secrets : ks.secrets[i] # TokenSecret(1)

(* After its flight the server keeps the master secret until the client's  *)
(* Finished, while the client follows the transcript.                      *)
FlightInv ==
  /\ ks.at \in {"flight", "client handshake", "client finished"} =>
       /\ ks.server.transcript = ToFlight(ks.setup, ks.hrr)
       /\ ks.server.sch = MasterScheduler(ks.setup, ToFlight(ks.setup, ks.hrr))
       /\ Holds("server", 0, Master(ks.setup, ks.hrr, "s ap traffic")) \in ks.server.got
  /\ ks.at = "flight" =>
       /\ ks.client.transcript = ToHello(ks.setup, ks.hrr) /\ ks.client.sch = NewScheduler
  /\ ks.at = "client handshake" =>
       /\ ks.client.transcript = ToServerHello(ks.setup, ks.hrr)
       /\ ks.client.sch = HandshakeScheduler(ks.setup)

(* An end that is done has forgotten its master secret, and holds what its *)
(* scheduler has: the current secret of either side, and the one for       *)
(* resumption.                                                             *)
Done(setup, hrr, sch, got) ==
  /\ sch = Sched(None, None, App(sch.app.client, sch.app.clientGeneration,
                                 sch.app.server, sch.app.serverGeneration))
  /\ sch.app.clientGeneration \in Nat /\ sch.app.serverGeneration \in Nat
  /\ Holds("client", sch.app.clientGeneration, sch.app.client) \in got
  /\ Holds("server", sch.app.serverGeneration, sch.app.server) \in got
  /\ Holds("resumption", 0, Resumption(setup, hrr)) \in got
OpenInv ==
  /\ ks.at \in {"client finished", "open"} =>
       Done(ks.setup, ks.hrr, ks.client.sch, ks.client.got)
  /\ ks.at = "open" => Done(ks.setup, ks.hrr, ks.server.sch, ks.server.got)

KeysInv == /\ KeysShape /\ HelloInv /\ FlightInv /\ OpenInv
           /\ HeldInv(ks.setup, ks.hrr, Held)

-----------------------------------------------------------------------------
(* What is held grows.                                                     *)
LEMMA HoldsIs ==
  ASSUME NEW u, NEW g, NEW s
  PROVE  /\ Holds(u, g, s).use = u /\ Holds(u, g, s).gen = g /\ Holds(u, g, s).secret = s
         /\ Holds(u, g, s) = Holds(Holds(u, g, s).use, Holds(u, g, s).gen, Holds(u, g, s).secret)
BY DEF Holds

FixedHold(setup, hrr, x) == Fixed(setup, hrr, x) /\ x = Holds(x.use, x.gen, x.secret)

LEMMA AddTwo ==
  ASSUME NEW setup, NEW hrr, NEW all, NEW x, NEW y, HeldInv(setup, hrr, all),
         FixedHold(setup, hrr, x), FixedHold(setup, hrr, y)
  PROVE  HeldInv(setup, hrr, all \cup {x, y})
<1>1. HeldInv(setup, hrr, all \cup {x})
  BY AddFixed DEF FixedHold
<1>2. HeldInv(setup, hrr, (all \cup {x}) \cup {y})
  BY <1>1, AddFixed DEF FixedHold
<1>3. (all \cup {x}) \cup {y} = all \cup {x, y}
  OBVIOUS
<1>. QED  BY <1>2, <1>3

LEMMA AddOffered ==
  ASSUME NEW setup, NEW hrr, NEW all, NEW t, NEW early, HeldInv(setup, hrr, all),
         early => t = FirstOnly
  PROVE  /\ HeldInv(setup, hrr, all \cup Offered(setup, t, early))
         /\ \A h \in Offered(setup, t, early) : FixedEarly(setup, h)
<1>. DEFINE b == Holds("binder", 0, BinderSecret(setup))
            e == Holds("early", 0, EarlySecret("c e traffic"))
            x == Holds("early exporter", 0, EarlySecret("e exp master"))
<1>0. /\ b.use = "binder" /\ b.gen = 0 /\ b.secret = BinderSecret(setup)
      /\ e.use = "early" /\ e.gen = 0 /\ e.secret = EarlySecret("c e traffic")
      /\ x.use = "early exporter" /\ x.gen = 0 /\ x.secret = EarlySecret("e exp master")
  BY DEF Holds
<1>a. b = Holds(b.use, b.gen, b.secret) /\ e = Holds(e.use, e.gen, e.secret)
      /\ x = Holds(x.use, x.gen, x.secret)
  BY <1>0
<1>1. FixedEarly(setup, b) /\ FixedEarly(setup, e) /\ FixedEarly(setup, x)
  <2>. HIDE DEF b, e, x
  <2>. QED  BY <1>0 DEF FixedEarly
<1>2. FixedHold(setup, hrr, b) /\ FixedHold(setup, hrr, e) /\ FixedHold(setup, hrr, x)
  <2>. HIDE DEF b, e, x
  <2>. QED  BY <1>a, <1>1 DEF FixedHold, Fixed
<1>3. CASE early
  <2>1. Offered(setup, t, early) = {b} \cup {e, x}
    BY <1>3 DEF Offered, EarlySecret
  <2>. HIDE DEF b, e, x
  <2>2. HeldInv(setup, hrr, all \cup {b})
    BY <1>2, AddFixed DEF FixedHold
  <2>3. HeldInv(setup, hrr, (all \cup {b}) \cup {e, x})
    BY <1>2, <2>2, AddTwo
  <2>4. (all \cup {b}) \cup {e, x} = all \cup ({b} \cup {e, x})
    OBVIOUS
  <2>. QED  BY <1>1, <2>1, <2>3, <2>4
<1>4. CASE ~early
  <2>1. Offered(setup, t, early) = {b}
    BY <1>4 DEF Offered
  <2>. HIDE DEF b
  <2>. QED  BY <1>1, <1>2, <2>1, AddFixed DEF FixedHold
<1>. QED  BY <1>3, <1>4

(* A retry changes nothing of what comes from the PSK.                     *)
LEMMA EarlyStays ==
  ASSUME NEW setup, NEW hrr, NEW new, NEW all, HeldInv(setup, hrr, all),
         \A h \in all : FixedEarly(setup, h)
  PROVE  HeldInv(setup, new, all)
BY DEF HeldInv, Fixed

-----------------------------------------------------------------------------
(* The steps up to the second hello.                                       *)
LEMMA FirstSeen ==
  ASSUME NEW setup, NEW s, NEW g, NEW early
  PROVE  /\ Sees(End(s, <<>>, g), <<"ClientHello">>) = End(s, FirstOnly, g)
         /\ EncodeWithBinders(setup, End(s, <<>>, g), DeriveEarlySecret(NewScheduler, <<"psk">>),
                              "ClientHello", early)
              = End(s, FirstOnly, g \cup Offered(setup, FirstOnly, early))
<1>. DEFINE e == <<>>
            m == <<"ClientHello">>
            f == e \o m
<1>1. Sees(End(s, e, g), m) = End(s, f, g)
  <2>. HIDE DEF e, m
  <2>. QED  BY EndSees
<1>2. EncodeWithBinders(setup, End(s, e, g), PskScheduler, "ClientHello", early)
        = End(s, e \o <<"ClientHello">>, g \cup Offered(setup, e \o <<"ClientHello">>, early))
  <2>. HIDE DEF e
  <2>. QED  BY HelloWithPsk
<1>3. DeriveEarlySecret(NewScheduler, <<"psk">>) = PskScheduler
  BY EarlySchedule
<1>. QED  BY <1>1, <1>2, <1>3, Zenon DEF FirstOnly

LEMMA HelloStep ==
  ASSUME KeysInv, ClientSendsHello
  PROVE  KeysInv'
<1>1. /\ DOMAIN ks' = DOMAIN ks /\ ks'.setup = ks.setup /\ ks'.hrr = ks.hrr
      /\ ks'.secrets = ks.secrets /\ ks'.server = ks.server /\ ks.at = "start" /\ ks'.at = "hello"
      /\ ks'.binder = SentBinder(ks.setup, ks.client)
      /\ ks'.client = IF ks.setup.psk = None THEN Sees(ks.client, <<"ClientHello">>)
           ELSE EncodeWithBinders(ks.setup, ks.client, DeriveEarlySecret(NewScheduler, <<"psk">>),
                                  "ClientHello", ks.setup.early)
  BY DEF ClientSendsHello, KeysInv, KeysShape
<1>2. /\ ks.client = End(NewScheduler, <<>>, ks.client.got) /\ ks.server.sch = NewScheduler
      /\ ks.server.transcript = <<>> /\ ks.secrets = <<TokenSecret(1)>>
      /\ \A h \in Held : FixedEarly(ks.setup, h)
  BY <1>1 DEF KeysInv, KeysShape, HelloInv, NotYet
<1>3. ks'.binder = BinderOver(ks.setup, <<>>)
  BY <1>1, <1>2, HelloWithPsk
<1>4. /\ ks'.client = End(NewScheduler, FirstOnly, ks'.client.got)
      /\ HeldInv(ks.setup, ks.hrr, Held')
      /\ \A h \in Held' : FixedEarly(ks.setup, h)
  <2>1. CASE ks.setup.psk = None
    <3>1. ks'.client = End(NewScheduler, FirstOnly, ks.client.got)
      <4>1. Sees(End(NewScheduler, <<>>, ks.client.got), <<"ClientHello">>)
              = End(NewScheduler, FirstOnly, ks.client.got)
        BY FirstSeen, Zenon
      <4>. QED  BY <1>1, <1>2, <2>1, <4>1
    <3>2. ks'.client.got = ks.client.got
      BY <3>1, EndIs
    <3>. QED  BY <1>1, <1>2, <3>1, <3>2 DEF KeysInv, Held
  <2>2. CASE ks.setup.psk # None
    <3>. DEFINE off == Offered(ks.setup, FirstOnly, ks.setup.early)
    <3>1. ks'.client = End(NewScheduler, FirstOnly, ks.client.got \cup off)
      BY <1>1, <1>2, <2>2, FirstSeen
    <3>2. ks'.client.got = ks.client.got \cup off
      BY <3>1, EndIs
    <3>3. HeldInv(ks.setup, ks.hrr, Held \cup off) /\ \A h \in off : FixedEarly(ks.setup, h)
      BY AddOffered DEF KeysInv
    <3>. HIDE DEF off
    <3>4. Held' = Held \cup off
      BY <1>1, <3>2 DEF Held
    <3>. QED  BY <1>2, <3>1, <3>2, <3>3, <3>4
  <2>. QED  BY <2>1, <2>2
<1>5. KeysShape'
  <2>1. ks'.client = End(ks'.client.sch, ks'.client.transcript, ks'.client.got)
    BY <1>4, EndIs
  <2>. QED  BY <1>1, <2>1 DEF KeysInv, KeysShape, Phases, NotYet
<1>6. HelloInv'
  <2>1. ks'.client.sch = NewScheduler /\ ks'.client.transcript = FirstOnly
    BY <1>4, EndIs
  <2>. QED  BY <1>1, <1>2, <1>3, <1>4, <2>1 DEF HelloInv, NotYet
<1>7. FlightInv' /\ OpenInv'
  BY <1>1 DEF FlightInv, OpenInv
<1>. QED  BY <1>1, <1>4, <1>5, <1>6, <1>7 DEF KeysInv

LEMMA StatefulRetryStep ==
  ASSUME KeysInv, StatefulRetry
  PROVE  KeysInv'
<1>1. PICK hrr :
        ks' = [ks EXCEPT !.at = "retry", !.hrr = hrr,
                 !.server.transcript = Retried(FirstHello(ks.setup), hrr)]
  BY DEF StatefulRetry
<1>2. /\ DOMAIN ks' = DOMAIN ks /\ ks'.setup = ks.setup /\ ks'.hrr = hrr
      /\ ks'.secrets = ks.secrets /\ ks'.client = ks.client /\ ks.at = "hello" /\ ks'.at = "retry"
      /\ ks'.server = [ks.server EXCEPT !.transcript = Retried(FirstHello(ks.setup), hrr)]
      /\ ks.setup.retry = "stateful"
  BY <1>1 DEF StatefulRetry, KeysInv, KeysShape
<1>3. /\ ks.server = End(NewScheduler, ks.server.transcript, ks.server.got)
      /\ ks.client.sch = NewScheduler
      /\ \A h \in Held : FixedEarly(ks.setup, h)
  BY <1>2 DEF KeysInv, KeysShape, HelloInv, NotYet
<1>4. ks'.server = End(NewScheduler, Retried(FirstHello(ks.setup), hrr), ks.server.got)
  BY <1>2, <1>3, EndIs
<1>5. /\ ks'.server.sch = NewScheduler /\ ks'.server.got = ks.server.got
      /\ ks'.server.transcript = Retried(FirstHello(ks.setup), hrr)
  BY <1>4, EndIs
<1>6. Held' = Held
  BY <1>2, <1>5 DEF Held
<1>7. HeldInv(ks.setup, hrr, Held)
  BY <1>3, EarlyStays DEF KeysInv
<1>8. KeysShape'
  BY <1>2, <1>4, <1>5 DEF KeysInv, KeysShape, Phases, NotYet
<1>9. HelloInv'
  BY <1>2, <1>3, <1>5, <1>6 DEF HelloInv, NotYet
<1>10. FlightInv' /\ OpenInv'
  BY <1>2 DEF FlightInv, OpenInv
<1>. QED  BY <1>2, <1>6, <1>7, <1>8, <1>9, <1>10 DEF KeysInv

LEMMA StatelessRetryStep ==
  ASSUME KeysInv, AnswerWithoutState
  PROVE  KeysInv'
<1>1. PICK hrr :
        /\ hrr = GetStatelessResponse(ServerConfig(FALSE), FirstHello(ks.setup), ks.secrets)
        /\ hrr # None
        /\ ks' = [ks EXCEPT !.at = "retry", !.hrr = hrr]
  BY DEF AnswerWithoutState
<1>2. /\ DOMAIN ks' = DOMAIN ks /\ ks'.setup = ks.setup /\ ks'.hrr = hrr
      /\ ks'.secrets = ks.secrets /\ ks'.client = ks.client /\ ks'.server = ks.server
      /\ ks.at = "hello" /\ ks'.at = "retry" /\ ks.setup.retry = "stateless"
  BY <1>1 DEF AnswerWithoutState, KeysInv, KeysShape
<1>3. /\ ks.server.sch = NewScheduler /\ ks.client.sch = NewScheduler
      /\ ks.secrets = <<TokenSecret(1)>>
      /\ \A h \in Held : FixedEarly(ks.setup, h)
  BY <1>2 DEF KeysInv, HelloInv, NotYet
<1>4. hrr = HrrOf(ks.setup)
  <2>1. hrr = GetStatelessResponse(ServerConfig(FALSE), FirstHello(ks.setup), <<TokenSecret(1)>>)
    BY <1>1, <1>3, Zenon
  <2>. QED  BY <1>1, <2>1, RetryWithoutState, Zenon
<1>6. Held' = Held
  BY <1>2 DEF Held
<1>7. HeldInv(ks.setup, hrr, Held)
  BY <1>3, EarlyStays DEF KeysInv
<1>8. KeysShape'
  BY <1>2 DEF KeysInv, KeysShape, Phases, NotYet
<1>9. HelloInv'
  BY <1>2, <1>3, <1>4, <1>6 DEF HelloInv, NotYet
<1>10. FlightInv' /\ OpenInv'
  BY <1>2 DEF FlightInv, OpenInv
<1>. QED  BY <1>2, <1>6, <1>7, <1>8, <1>9, <1>10 DEF KeysInv

LEMMA RotateStep ==
  ASSUME KeysInv, RotateTokenSecrets
  PROVE  KeysInv'
<1>1. PICK new : ks' = [ks EXCEPT !.secrets = SetSecrets(@, new)]
  BY DEF RotateTokenSecrets
<1>2. /\ DOMAIN ks' = DOMAIN ks /\ ks'.setup = ks.setup /\ ks'.hrr = ks.hrr
      /\ ks'.binder = ks.binder /\ ks'.client = ks.client /\ ks'.server = ks.server
      /\ ks.at = "retry" /\ ks'.at = "retry" /\ Held' = Held
  BY <1>1 DEF RotateTokenSecrets, KeysInv, KeysShape, Held
<1>3. KeysShape'
  BY <1>2 DEF KeysInv, KeysShape
<1>4. HelloInv'
  BY <1>2 DEF KeysInv, HelloInv, NotYet
<1>5. FlightInv' /\ OpenInv'
  BY <1>2 DEF FlightInv, OpenInv
<1>. QED  BY <1>2, <1>3, <1>4, <1>5 DEF KeysInv

(* From message to message.                                                *)
LEMMA MessagesSeen ==
  ASSUME NEW setup, NEW hrr, NEW s, NEW g
  PROVE  /\ Sees(End(s, BeforeHello(setup, hrr), g), <<"ClientHello">>)
              = End(s, ToHello(setup, hrr), g)
         /\ Sees(End(s, ToHello(setup, hrr), g), <<"ServerHello">>)
              = End(s, ToServerHello(setup, hrr), g)
         /\ Sees(End(s, ToServerHello(setup, hrr), g), ServerFlight(setup))
              = End(s, ToFlight(setup, hrr), g)
         /\ Sees(End(s, ToFlight(setup, hrr), g), ClientAnswer(setup) \o <<"ClientFinished">>)
              = End(s, ToEnd(setup, hrr), g)
<1>1. Sees(End(s, BeforeHello(setup, hrr), g), <<"ClientHello">>) = End(s, ToHello(setup, hrr), g)
  <2>. DEFINE t == BeforeHello(setup, hrr)
              m == <<"ClientHello">>
  <2>1. Sees(End(s, t, g), m) = End(s, t \o m, g)
    <3>. HIDE DEF t, m
    <3>. QED  BY EndSees
  <2>. QED  BY <2>1, Zenon DEF ToHello
<1>2. Sees(End(s, ToHello(setup, hrr), g), <<"ServerHello">>) = End(s, ToServerHello(setup, hrr), g)
  <2>. DEFINE t == ToHello(setup, hrr)
              m == <<"ServerHello">>
  <2>1. Sees(End(s, t, g), m) = End(s, t \o m, g)
    <3>. HIDE DEF t, m
    <3>. QED  BY EndSees
  <2>. QED  BY <2>1, Zenon DEF ToServerHello
<1>3. Sees(End(s, ToServerHello(setup, hrr), g), ServerFlight(setup))
        = End(s, ToFlight(setup, hrr), g)
  <2>. DEFINE t == ToServerHello(setup, hrr)
              m == ServerFlight(setup)
  <2>1. Sees(End(s, t, g), m) = End(s, t \o m, g)
    <3>. HIDE DEF t, m
    <3>. QED  BY EndSees
  <2>. QED  BY <2>1, Zenon DEF ToFlight
<1>4. Sees(End(s, ToFlight(setup, hrr), g), ClientAnswer(setup) \o <<"ClientFinished">>)
        = End(s, ToEnd(setup, hrr), g)
  <2>. DEFINE t == ToFlight(setup, hrr)
              m == ClientAnswer(setup) \o <<"ClientFinished">>
  <2>1. Sees(End(s, t, g), m) = End(s, t \o m, g)
    <3>. HIDE DEF t, m
    <3>. QED  BY EndSees
  <2>. QED  BY <2>1, Zenon DEF ToEnd
<1>. QED  BY <1>1, <1>2, <1>3, <1>4

LEMMA HelloSeen ==
  ASSUME NEW setup, NEW hrr, NEW s, NEW g, NEW early
  PROVE  /\ SentBinder(setup, End(s, BeforeHello(setup, hrr), g))
              = BinderOver(setup, BeforeHello(setup, hrr))
         /\ EncodeWithBinders(setup, End(s, BeforeHello(setup, hrr), g),
                              DeriveEarlySecret(NewScheduler, <<"psk">>), "ClientHello", early)
              = End(s, ToHello(setup, hrr), g \cup Offered(setup, ToHello(setup, hrr), early))
<1>. DEFINE b == BeforeHello(setup, hrr)
<1>1. EncodeWithBinders(setup, End(s, b, g), PskScheduler, "ClientHello", early)
        = End(s, b \o <<"ClientHello">>, g \cup Offered(setup, b \o <<"ClientHello">>, early))
  <2>. HIDE DEF b
  <2>. QED  BY HelloWithPsk
<1>2. DeriveEarlySecret(NewScheduler, <<"psk">>) = PskScheduler
  BY EarlySchedule
<1>3. SentBinder(setup, End(s, b, g)) = BinderOver(setup, b)
  <2>. HIDE DEF b
  <2>. QED  BY HelloWithPsk
<1>. QED  BY <1>1, <1>2, <1>3, Zenon DEF ToHello

LEMMA SecondHelloStep ==
  ASSUME KeysInv, SecondHello
  PROVE  KeysInv'
<1>. DEFINE t == Retried(FirstHello(ks.setup), ks.hrr)
            c == [ks.client EXCEPT !.transcript = t]
            to == ToHello(ks.setup, ks.hrr)
<1>1. ks' = [ks EXCEPT !.at = "second hello", !.binder = SentBinder(ks.setup, c),
         !.client = IF ks.setup.psk = None \/ ks.setup.otherHash THEN Sees(c, <<"ClientHello">>)
                    ELSE EncodeWithBinders(ks.setup, c, DeriveEarlySecret(NewScheduler, <<"psk">>),
                                           "ClientHello", FALSE)]
  BY DEF SecondHello
<1>2. /\ DOMAIN ks' = DOMAIN ks /\ ks'.setup = ks.setup /\ ks'.hrr = ks.hrr
      /\ ks'.secrets = ks.secrets /\ ks'.server = ks.server
      /\ ks.at = "retry" /\ ks'.at = "second hello"
      /\ ks'.binder = SentBinder(ks.setup, c)
      /\ ks'.client = IF ks.setup.psk = None \/ ks.setup.otherHash THEN Sees(c, <<"ClientHello">>)
           ELSE EncodeWithBinders(ks.setup, c, DeriveEarlySecret(NewScheduler, <<"psk">>),
                                  "ClientHello", FALSE)
  <2>. HIDE DEF c
  <2>. QED  BY <1>1 DEF SecondHello, KeysInv, KeysShape
<1>3. /\ ks.client = End(NewScheduler, ks.client.transcript, ks.client.got)
      /\ ks.server.sch = NewScheduler /\ ks.setup.retry # "none"
      /\ ks.setup.retry = "stateless" => ks.hrr = HrrOf(ks.setup)
      /\ ks.setup.retry # "stateless" => ks.server.transcript = Retried(FirstHello(ks.setup), ks.hrr)
      /\ \A h \in Held : FixedEarly(ks.setup, h)
  BY <1>2 DEF KeysInv, KeysShape, HelloInv, NotYet
<1>4. t = BeforeHello(ks.setup, ks.hrr)
  BY <1>3 DEF BeforeHello
<1>5. c = End(NewScheduler, BeforeHello(ks.setup, ks.hrr), ks.client.got)
  <2>. HIDE DEF t
  <2>. QED  BY <1>3, <1>4, EndIs
<1>. HIDE DEF c, t, to
<1>6. ks'.binder = BinderOver(ks.setup, BeforeHello(ks.setup, ks.hrr))
  <2>1. SentBinder(ks.setup, End(NewScheduler, BeforeHello(ks.setup, ks.hrr), ks.client.got))
          = BinderOver(ks.setup, BeforeHello(ks.setup, ks.hrr))
    BY HelloSeen, Zenon
  <2>. QED  BY <1>2, <1>5, <2>1
<1>7. /\ ks'.client = End(NewScheduler, to, ks'.client.got)
      /\ HeldInv(ks.setup, ks.hrr, Held')
      /\ \A h \in Held' : FixedEarly(ks.setup, h)
  <2>1. CASE ks.setup.psk = None \/ ks.setup.otherHash
    <3>1. ks'.client = End(NewScheduler, to, ks.client.got)
      <4>1. Sees(End(NewScheduler, BeforeHello(ks.setup, ks.hrr), ks.client.got), <<"ClientHello">>)
              = End(NewScheduler, to, ks.client.got)
        <5>1. Sees(End(NewScheduler, BeforeHello(ks.setup, ks.hrr), ks.client.got), <<"ClientHello">>)
                = End(NewScheduler, ToHello(ks.setup, ks.hrr), ks.client.got)
          BY MessagesSeen
        <5>. QED  BY <5>1 DEF to
      <4>. QED  BY <1>2, <1>5, <2>1, <4>1
    <3>2. ks'.client.got = ks.client.got
      BY <3>1, EndIs
    <3>. QED  BY <1>2, <1>3, <3>1, <3>2 DEF KeysInv, Held
  <2>2. CASE ~(ks.setup.psk = None \/ ks.setup.otherHash)
    <3>. DEFINE off == Offered(ks.setup, to, FALSE)
    <3>1. ks'.client = End(NewScheduler, to, ks.client.got \cup off)
      <4>1. EncodeWithBinders(ks.setup,
              End(NewScheduler, BeforeHello(ks.setup, ks.hrr), ks.client.got),
              DeriveEarlySecret(NewScheduler, <<"psk">>), "ClientHello", FALSE)
              = End(NewScheduler, to, ks.client.got \cup off)
        <5>. DEFINE no == FALSE
        <5>1. EncodeWithBinders(ks.setup,
                End(NewScheduler, BeforeHello(ks.setup, ks.hrr), ks.client.got),
                DeriveEarlySecret(NewScheduler, <<"psk">>), "ClientHello", no)
                = End(NewScheduler, ToHello(ks.setup, ks.hrr),
                      ks.client.got \cup Offered(ks.setup, ToHello(ks.setup, ks.hrr), no))
          <6>. HIDE DEF no
          <6>. QED  BY HelloSeen
        <5>. QED  BY <5>1 DEF to, off
      <4>. HIDE DEF off
      <4>. QED  BY <1>2, <1>5, <2>2, <4>1
    <3>2. ks'.client.got = ks.client.got \cup off
      <4>. HIDE DEF off
      <4>. QED  BY <3>1, EndIs
    <3>3. HeldInv(ks.setup, ks.hrr, Held \cup off) /\ \A h \in off : FixedEarly(ks.setup, h)
      BY AddOffered DEF KeysInv
    <3>. HIDE DEF off
    <3>4. Held' = Held \cup off
      BY <1>2, <3>2 DEF Held
    <3>. QED  BY <1>3, <3>1, <3>2, <3>3, <3>4
  <2>. QED  BY <2>1, <2>2
<1>8. ks'.client.sch = NewScheduler /\ ks'.client.transcript = to
  BY <1>7, EndIs
<1>9. KeysShape'
  BY <1>2, <1>7, <1>8 DEF KeysInv, KeysShape, Phases, NotYet
<1>10. HelloInv'
  BY <1>2, <1>3, <1>6, <1>7, <1>8 DEF HelloInv, NotYet, to
<1>11. FlightInv' /\ OpenInv'
  BY <1>2 DEF FlightInv, OpenInv
<1>. QED  BY <1>2, <1>7, <1>9, <1>10, <1>11 DEF KeysInv

(* A cookie that the same server cannot open, or not any more.             *)
LEMMA RefusedStep ==
  ASSUME NoneIsNoFunction, KeysInv, CookieIsRefused
  PROVE  KeysInv'
<1>2. /\ DOMAIN ks' = DOMAIN ks /\ ks'.setup = ks.setup /\ ks'.hrr = ks.hrr
      /\ ks'.binder = ks.binder /\ ks'.client = ks.client /\ ks'.server = ks.server
      /\ ks.at = "second hello" /\ ks'.at = "failed" /\ ks'.secrets = ks.secrets /\ Held' = Held
      /\ ks.setup.retry = "stateless" /\ ~CookieIsGood
  BY DEF CookieIsRefused, KeysInv, KeysShape, Held
<1>3. ks.hrr = HrrOf(ks.setup)
  BY <1>2 DEF KeysInv, HelloInv
<1>4. ks.setup.otherServer \/ \A i \in DOMAIN ks.secrets : ks.secrets[i] # TokenSecret(1)
  <2>1. SUFFICES ASSUME ~ks.setup.otherServer,
                        \E i \in DOMAIN ks.secrets : ks.secrets[i] = TokenSecret(1)
                 PROVE  FALSE
    OBVIOUS
  <2>2. /\ GetCookieState(ks.secrets, ks.hrr) = CookieStateOf(ks.setup)
        /\ GetCookieState(ks.secrets, ks.hrr) # None
    BY <1>3, <2>1, CookieGivesBack, Zenon
  <2>3. ks.setup.otherServer = FALSE
    BY <2>1, KeySetupsAssumption DEF KeysInv, KeysShape
  <2>4. CookieIsGood
    BY <2>2, <2>3, CookieStillGood DEF CookieIsGood
  <2>. QED  BY <1>2, <2>4
<1>5. KeysShape'
  BY <1>2 DEF KeysInv, KeysShape, Phases, NotYet
<1>6. HelloInv'
  BY <1>2, <1>4 DEF KeysInv, HelloInv, NotYet
<1>7. FlightInv' /\ OpenInv'
  BY <1>2 DEF FlightInv, OpenInv
<1>. QED  BY <1>2, <1>5, <1>6, <1>7 DEF KeysInv

-----------------------------------------------------------------------------
(* The secrets of the schedule, as they are held.                          *)
LEMMA FixedHolds ==
  ASSUME NEW setup, NEW hrr
  PROVE  /\ FixedHold(setup, hrr, Holds("client handshake", 0, HandshakeTraffic(setup, hrr, "c hs traffic")))
         /\ FixedHold(setup, hrr, Holds("server handshake", 0, HandshakeTraffic(setup, hrr, "s hs traffic")))
         /\ FixedHold(setup, hrr, Holds("exporter", 0, Master(setup, hrr, "exp master")))
         /\ FixedHold(setup, hrr, Holds("client", 0, Master(setup, hrr, "c ap traffic")))
         /\ FixedHold(setup, hrr, Holds("server", 0, Master(setup, hrr, "s ap traffic")))
         /\ FixedHold(setup, hrr, Holds("resumption", 0, Resumption(setup, hrr)))
         /\ \A n : FixedHold(setup, hrr,
              Holds("psk", n, GetResumptionSecret(Resumption(setup, hrr), <<"nonce", n>>)))
<1>1. ASSUME NEW x, x = Holds(x.use, x.gen, x.secret), Fixed(setup, hrr, x)
      PROVE  FixedHold(setup, hrr, x)
  BY <1>1 DEF FixedHold
<1>2. FixedHold(setup, hrr, Holds("client handshake", 0, HandshakeTraffic(setup, hrr, "c hs traffic")))
  <2>. DEFINE x == Holds("client handshake", 0, HandshakeTraffic(setup, hrr, "c hs traffic"))
  <2>1. x.use = "client handshake" /\ x.gen = 0 /\ x.secret = HandshakeTraffic(setup, hrr, "c hs traffic")
    BY DEF Holds
  <2>2. x = Holds(x.use, x.gen, x.secret)
    BY <2>1
  <2>. HIDE DEF x
  <2>3. FixedHold(setup, hrr, x)
    BY <2>1, <2>2 DEF FixedHold, Fixed
  <2>. QED  BY <2>3 DEF x
<1>3. FixedHold(setup, hrr, Holds("server handshake", 0, HandshakeTraffic(setup, hrr, "s hs traffic")))
  <2>. DEFINE x == Holds("server handshake", 0, HandshakeTraffic(setup, hrr, "s hs traffic"))
  <2>1. x.use = "server handshake" /\ x.gen = 0 /\ x.secret = HandshakeTraffic(setup, hrr, "s hs traffic")
    BY DEF Holds
  <2>2. x = Holds(x.use, x.gen, x.secret)
    BY <2>1
  <2>. HIDE DEF x
  <2>3. FixedHold(setup, hrr, x)
    BY <2>1, <2>2 DEF FixedHold, Fixed
  <2>. QED  BY <2>3 DEF x
<1>4. FixedHold(setup, hrr, Holds("exporter", 0, Master(setup, hrr, "exp master")))
  <2>. DEFINE x == Holds("exporter", 0, Master(setup, hrr, "exp master"))
  <2>1. x.use = "exporter" /\ x.gen = 0 /\ x.secret = Master(setup, hrr, "exp master")
    BY DEF Holds
  <2>2. x = Holds(x.use, x.gen, x.secret)
    BY <2>1
  <2>. HIDE DEF x
  <2>3. FixedHold(setup, hrr, x)
    BY <2>1, <2>2 DEF FixedHold, Fixed
  <2>. QED  BY <2>3 DEF x
<1>5. FixedHold(setup, hrr, Holds("client", 0, Master(setup, hrr, "c ap traffic")))
  <2>. DEFINE x == Holds("client", 0, Master(setup, hrr, "c ap traffic"))
  <2>1. x.use = "client" /\ x.gen = 0 /\ x.secret = Master(setup, hrr, "c ap traffic")
    BY DEF Holds
  <2>2. x = Holds(x.use, x.gen, x.secret)
    BY <2>1
  <2>. HIDE DEF x
  <2>3. FixedHold(setup, hrr, x)
    BY <2>1, <2>2 DEF FixedHold, Fixed
  <2>. QED  BY <2>3 DEF x
<1>6. FixedHold(setup, hrr, Holds("server", 0, Master(setup, hrr, "s ap traffic")))
  <2>. DEFINE x == Holds("server", 0, Master(setup, hrr, "s ap traffic"))
  <2>1. x.use = "server" /\ x.gen = 0 /\ x.secret = Master(setup, hrr, "s ap traffic")
    BY DEF Holds
  <2>2. x = Holds(x.use, x.gen, x.secret)
    BY <2>1
  <2>. HIDE DEF x
  <2>3. FixedHold(setup, hrr, x)
    BY <2>1, <2>2 DEF FixedHold, Fixed
  <2>. QED  BY <2>3 DEF x
<1>7. FixedHold(setup, hrr, Holds("resumption", 0, Resumption(setup, hrr)))
  <2>. DEFINE x == Holds("resumption", 0, Resumption(setup, hrr))
  <2>1. x.use = "resumption" /\ x.gen = 0 /\ x.secret = Resumption(setup, hrr)
    BY DEF Holds
  <2>2. x = Holds(x.use, x.gen, x.secret)
    BY <2>1
  <2>. HIDE DEF x
  <2>3. FixedHold(setup, hrr, x)
    BY <2>1, <2>2 DEF FixedHold, Fixed
  <2>. QED  BY <2>3 DEF x
<1>8. ASSUME NEW n
      PROVE  FixedHold(setup, hrr,
               Holds("psk", n, GetResumptionSecret(Resumption(setup, hrr), <<"nonce", n>>)))
  <2>. DEFINE r == GetResumptionSecret(Resumption(setup, hrr), <<"nonce", n>>)
              x == Holds("psk", n, r)
  <2>1. x.use = "psk" /\ x.gen = n /\ x.secret = r
    BY DEF Holds
  <2>2. x = Holds(x.use, x.gen, x.secret)
    BY <2>1
  <2>. HIDE DEF x
  <2>3. FixedHold(setup, hrr, x)
    BY <2>1, <2>2 DEF FixedHold, Fixed
  <2>. QED  BY <2>3 DEF x
<1>. QED  BY <1>2, <1>3, <1>4, <1>5, <1>6, <1>7, <1>8

LEMMA AddHandshake ==
  ASSUME NEW setup, NEW hrr, NEW all, HeldInv(setup, hrr, all)
  PROVE  HeldInv(setup, hrr, all \cup HandshakeHeld(setup, ToServerHello(setup, hrr)))
<1>. DEFINE x == Holds("client handshake", 0, HandshakeTraffic(setup, hrr, "c hs traffic"))
            y == Holds("server handshake", 0, HandshakeTraffic(setup, hrr, "s hs traffic"))
<1>1. HandshakeHeld(setup, ToServerHello(setup, hrr)) = {x, y}
  BY DEF HandshakeHeld, HandshakeTraffic
<1>2. FixedHold(setup, hrr, x) /\ FixedHold(setup, hrr, y)
  BY FixedHolds
<1>. HIDE DEF x, y
<1>. QED  BY <1>1, <1>2, AddTwo

(* What the server does with a hello: its transcript is the client's, and  *)
(* so the binder is the one that it expects.                               *)
LEMMA Restored ==
  ASSUME NoneIsNoFunction, KeysInv,
         ks.at = IF ks.setup.retry = "none" THEN "hello" ELSE "second hello",
         ks.setup.retry = "stateless" => CookieIsGood
  PROVE  /\ RestoredContext = End(NewScheduler, BeforeHello(ks.setup, ks.hrr), ks.server.got)
         /\ ks.binder = BinderOver(ks.setup, BeforeHello(ks.setup, ks.hrr))
         /\ ks.client.transcript = ToHello(ks.setup, ks.hrr)
         /\ ks.client.sch = NewScheduler
<1>1. /\ ks.server = End(NewScheduler, ks.server.transcript, ks.server.got)
      /\ ks.client.sch = NewScheduler
  BY DEF KeysInv, KeysShape, HelloInv, NotYet
<1>2. CASE ks.setup.retry = "none"
  <2>1. /\ ks.server.transcript = <<>> /\ ks.client.transcript = FirstOnly
        /\ ks.binder = BinderOver(ks.setup, <<>>)
    BY <1>2 DEF KeysInv, HelloInv
  <2>2. BeforeHello(ks.setup, ks.hrr) = <<>>
    BY <1>2 DEF BeforeHello
  <2>3. ToHello(ks.setup, ks.hrr) = FirstOnly
    BY <2>2, Zenon DEF ToHello, FirstOnly
  <2>4. RestoredContext = ks.server
    BY <1>2 DEF RestoredContext
  <2>. QED  BY <1>1, <2>1, <2>2, <2>3, <2>4
<1>3. CASE ks.setup.retry # "none"
  <2>1. /\ ks.client.transcript = ToHello(ks.setup, ks.hrr)
        /\ ks.binder = BinderOver(ks.setup, BeforeHello(ks.setup, ks.hrr))
        /\ ks.setup.retry = "stateless" => ks.hrr = HrrOf(ks.setup)
        /\ ks.setup.retry # "stateless" =>
             ks.server.transcript = Retried(FirstHello(ks.setup), ks.hrr)
    BY <1>3 DEF KeysInv, HelloInv
  <2>2. BeforeHello(ks.setup, ks.hrr) = Retried(FirstHello(ks.setup), ks.hrr)
    BY <1>3 DEF BeforeHello
  <2>3. CASE ks.setup.retry # "stateless"
    BY <1>1, <2>1, <2>2, <2>3 DEF RestoredContext
  <2>4. CASE ks.setup.retry = "stateless"
    <3>. DEFINE state == GetCookieState(ks.secrets, ks.hrr)
                ctx == Retried(state.chloHash, StatelessRetry(state, ks.hrr.cookie))
    <3>1. state # None
      BY <2>4 DEF CookieIsGood
    <3>2. /\ state = CookieStateOf(ks.setup)
          /\ StatelessRetry(CookieStateOf(ks.setup), ks.hrr.cookie) = ks.hrr
          /\ CookieStateOf(ks.setup).chloHash = FirstHello(ks.setup)
      BY <2>1, <2>4, <3>1, CookieGivesBack, Zenon
    <3>3. RestoredContext = Continued(ks.server, ctx)
      BY <2>4 DEF RestoredContext, Continued
    <3>. HIDE DEF state
    <3>4. ctx = BeforeHello(ks.setup, ks.hrr)
      BY <2>2, <3>2
    <3>. HIDE DEF ctx
    <3>5. RestoredContext = Continued(ks.server, BeforeHello(ks.setup, ks.hrr))
      BY <3>3, <3>4
    <3>6. Continued(ks.server, BeforeHello(ks.setup, ks.hrr))
            = End(NewScheduler, BeforeHello(ks.setup, ks.hrr), ks.server.got)
      BY <1>1, ServerContinues
    <3>. QED  BY <1>1, <2>1, <3>5, <3>6
  <2>. QED  BY <2>3, <2>4
<1>. QED  BY <1>2, <1>3

LEMMA ServerSetup ==
  ASSUME NEW setup \in KeySetups, NEW hrr, NEW g, NEW all, HeldInv(setup, hrr, all)
  PROVE  \E off :
           /\ SetupSchedulerAndContext(setup, End(NewScheduler, BeforeHello(setup, hrr), g),
                                       BinderOver(setup, BeforeHello(setup, hrr)))
                = End(HandshakeStart(setup), ToHello(setup, hrr), g \cup off)
           /\ HeldInv(setup, hrr, all \cup off)
<1>. DEFINE old == End(NewScheduler, BeforeHello(setup, hrr), g)
            b == BinderOver(setup, BeforeHello(setup, hrr))
            to == ToHello(setup, hrr)
<1>1. setup.accept \in BOOLEAN /\ (setup.earlyAccepted => setup.retry = "none")
  BY KeySetupsAssumption
<1>2. CASE ~setup.accept
  <2>1. Sees(old, <<"ClientHello">>) = End(NewScheduler, to, g)
    BY MessagesSeen
  <2>2. HandshakeStart(setup) = NewScheduler
    BY <1>2 DEF HandshakeStart
  <2>. HIDE DEF to, old, b
  <2>3. SetupSchedulerAndContext(setup, old, b) = End(HandshakeStart(setup), to, g)
    BY <1>2, <2>1, <2>2, EndIs DEF SetupSchedulerAndContext
  <2>4. /\ SetupSchedulerAndContext(setup, old, b) = End(HandshakeStart(setup), to, g \cup {})
        /\ HeldInv(setup, hrr, all \cup {})
    <3>1. g \cup {} = g /\ all \cup {} = all
      OBVIOUS
    <3>. QED  BY <2>3, <3>1
  <2>. QED  BY <2>4 DEF old, b, to
<1>3. CASE setup.accept
  <2>. DEFINE early == setup.earlyAccepted
              off == Offered(setup, to, early)
              psk == DeriveEarlySecret(NewScheduler, <<"psk">>)
  <2>1. SentBinder(setup, old) = b
    BY HelloSeen
  <2>2. EncodeWithBinders(setup, old, psk, "ClientHello", early)
          = End(NewScheduler, to, g \cup off)
    BY HelloSeen
  <2>3. HandshakeStart(setup) = psk
    BY <1>3, EarlySchedule DEF HandshakeStart
  <2>4. early => to = FirstOnly
    <3>1. ASSUME early PROVE BeforeHello(setup, hrr) = <<>>
      BY <1>1, <3>1 DEF BeforeHello
    <3>. QED  BY <3>1, Zenon DEF ToHello, FirstOnly
  <2>5. HeldInv(setup, hrr, all \cup off)
    <3>. HIDE DEF to
    <3>. QED  BY <2>4, AddOffered
  <2>. HIDE DEF to, old, b, off, psk
  <2>6. SetupSchedulerAndContext(setup, old, b) = End(psk, to, g \cup off)
    <3>1. SetupSchedulerAndContext(setup, old, b) = Runs(End(NewScheduler, to, g \cup off), psk)
      BY <1>3, <2>1, <2>2 DEF SetupSchedulerAndContext, psk
    <3>. QED  BY <3>1, EndIs
  <2>7. /\ SetupSchedulerAndContext(setup, old, b) = End(HandshakeStart(setup), to, g \cup off)
        /\ HeldInv(setup, hrr, all \cup off)
    BY <2>3, <2>5, <2>6
  <2>. QED  BY <2>7 DEF old, b, to
<1>. QED  BY <1>1, <1>2, <1>3

MasterHeld(setup, transcript) ==
  {Holds("exporter", 0, DeriveSecret(MasterSecretOf(setup), "exp master", transcript)),
   Holds("server", 0, DeriveSecret(MasterSecretOf(setup), "s ap traffic", transcript))}

LEMMA ServerKeysAre ==
  ASSUME NoneIsNoFunction, NEW setup, NEW t, NEW g
  PROVE  ServerKeys(End(HandshakeScheduler(setup), t, g))
           = End(MasterScheduler(setup, t), t, g \cup MasterHeld(setup, t))
<1>. DEFINE hs == HandshakeScheduler(setup)
            e == End(hs, t, g)
            m == Sched("MasterSecret", MasterSecretOf(setup), None)
            ms == MasterScheduler(setup, t)
<1>1. e.sch = hs /\ e.transcript = t
  <2>. HIDE DEF hs
  <2>. QED  BY EndIs
<1>2. DeriveMasterSecret(hs) = m /\ DeriveAppTrafficSecrets(m, t) = ms
  BY MasterSchedule
<1>3. GetMasterSecret(ms, "ExporterMaster", t) = DeriveSecret(MasterSecretOf(setup), "exp master", t)
  <2>. DEFINE a == AppAt(setup, t)
  <2>1. GetMasterSecret(Sched("MasterSecret", MasterSecretOf(setup), a), "ExporterMaster", t)
          = DeriveSecret(MasterSecretOf(setup), "exp master", t)
    <3>. HIDE DEF a
    <3>. QED  BY MasterSchedule
  <2>. QED  BY <2>1 DEF MasterScheduler
<1>4. GetAppSecret(ms, "server") = DeriveSecret(MasterSecretOf(setup), "s ap traffic", t)
  <2>. DEFINE c == DeriveSecret(MasterSecretOf(setup), "c ap traffic", t)
              d == DeriveSecret(MasterSecretOf(setup), "s ap traffic", t)
              x == MasterSecretOf(setup)
  <2>1. GetAppSecret(Sched("MasterSecret", x, App(c, 0, d, 0)), "server") = d
    <3>. HIDE DEF c, d, x
    <3>. QED  BY AppSecrets
  <2>. QED  BY <2>1 DEF MasterScheduler, AppAt
<1>5. Runs(e, m) = End(m, t, g) /\ Runs(End(m, t, g), ms) = End(ms, t, g)
  <2>. HIDE DEF hs, m, ms
  <2>. QED  BY EndIs
<1>6. End(m, t, g).sch = m /\ End(ms, t, g).sch = ms
  <2>. HIDE DEF m, ms
  <2>. QED  BY EndIs
<1>. HIDE DEF hs, m, ms, e
<1>7. ServerKeys(e) = Got(End(ms, t, g), MasterHeld(setup, t))
  BY <1>1, <1>2, <1>3, <1>4, <1>5, <1>6 DEF ServerKeys, MasterHeld
<1>8. Got(End(ms, t, g), MasterHeld(setup, t)) = End(ms, t, g \cup MasterHeld(setup, t))
  BY EndIs
<1>. QED  BY <1>7, <1>8 DEF e, hs, ms

LEMMA AddMaster ==
  ASSUME NEW setup, NEW hrr, NEW all, HeldInv(setup, hrr, all)
  PROVE  /\ HeldInv(setup, hrr, all \cup MasterHeld(setup, ToFlight(setup, hrr)))
         /\ Holds("server", 0, Master(setup, hrr, "s ap traffic"))
              \in MasterHeld(setup, ToFlight(setup, hrr))
<1>. DEFINE x == Holds("exporter", 0, Master(setup, hrr, "exp master"))
            y == Holds("server", 0, Master(setup, hrr, "s ap traffic"))
<1>1. MasterHeld(setup, ToFlight(setup, hrr)) = {x, y}
  BY DEF MasterHeld, Master
<1>2. FixedHold(setup, hrr, x) /\ FixedHold(setup, hrr, y)
  BY FixedHolds
<1>. HIDE DEF x, y
<1>3. HeldInv(setup, hrr, all \cup {x, y}) /\ y \in {x, y}
  BY <1>2, AddTwo
<1>. QED  BY <1>1, <1>3 DEF y

(* What either end does at the ServerHello.                                *)
LEMMA ServerHelloSeen ==
  ASSUME NEW setup \in KeySetups, NEW hrr, NEW g
  PROVE  HandshakeKeys(Sees(DeriveHandshake(setup,
             End(HandshakeStart(setup), ToHello(setup, hrr), g)), <<"ServerHello">>))
           = End(HandshakeScheduler(setup), ToServerHello(setup, hrr),
                 g \cup HandshakeHeld(setup, ToServerHello(setup, hrr)))
<1>. DEFINE to == ToHello(setup, hrr)
            t == ToServerHello(setup, hrr)
<1>1. DeriveHandshake(setup, End(HandshakeStart(setup), to, g)) = End(HandshakeScheduler(setup), to, g)
  <2>. HIDE DEF to, t
  <2>. QED  BY HandshakeBegins
<1>2. Sees(End(HandshakeScheduler(setup), to, g), <<"ServerHello">>)
        = End(HandshakeScheduler(setup), t, g)
  <2>. DEFINE hs == HandshakeScheduler(setup)
  <2>. HIDE DEF hs
  <2>1. Sees(End(hs, to, g), <<"ServerHello">>) = End(hs, t, g)
    BY MessagesSeen
  <2>. QED  BY <2>1 DEF hs
<1>3. HandshakeKeys(End(HandshakeScheduler(setup), t, g))
        = End(HandshakeScheduler(setup), t, g \cup HandshakeHeld(setup, t))
  <2>. HIDE DEF t
  <2>. QED  BY HandshakeSchedule
<1>. HIDE DEF t, to
<1>4. HandshakeKeys(Sees(DeriveHandshake(setup, End(HandshakeStart(setup), to, g)), <<"ServerHello">>))
        = End(HandshakeScheduler(setup), t, g \cup HandshakeHeld(setup, t))
  BY <1>1, <1>2, <1>3, Zenon
<1>. QED  BY <1>4 DEF t, to

LEMMA FlightStep ==
  ASSUME NoneIsNoFunction, KeysInv, ServerSendsFlight
  PROVE  KeysInv'
<1>. DEFINE setup == ks.setup
            hrr == ks.hrr
            g == ks.server.got
            up == SetupSchedulerAndContext(ks.setup, RestoredContext, ks.binder)
            hello == Sees(DeriveHandshake(ks.setup, up), <<"ServerHello">>)
            new == ServerKeys(Sees(HandshakeKeys(hello), ServerFlight(ks.setup)))
<1>1. ks' = [ks EXCEPT !.at = "flight", !.server = new]
  BY DEF ServerSendsFlight
<1>2. /\ DOMAIN ks' = DOMAIN ks /\ ks'.setup = ks.setup /\ ks'.hrr = ks.hrr
      /\ ks'.secrets = ks.secrets /\ ks'.client = ks.client /\ ks'.at = "flight"
      /\ ks'.server = new
  <2>. HIDE DEF new
  <2>. QED  BY <1>1 DEF KeysInv, KeysShape
<1>3. /\ RestoredContext = End(NewScheduler, BeforeHello(setup, hrr), g)
      /\ ks.binder = BinderOver(setup, BeforeHello(setup, hrr))
      /\ ks.client.transcript = ToHello(setup, hrr)
      /\ ks.client.sch = NewScheduler
  BY Restored DEF ServerSendsFlight
<1>4. setup \in KeySetups /\ HeldInv(setup, hrr, Held)
  BY DEF KeysInv, KeysShape
<1>. HIDE DEF setup, hrr, g
<1>5. PICK off :
        /\ SetupSchedulerAndContext(setup, End(NewScheduler, BeforeHello(setup, hrr), g),
                                    BinderOver(setup, BeforeHello(setup, hrr)))
             = End(HandshakeStart(setup), ToHello(setup, hrr), g \cup off)
        /\ HeldInv(setup, hrr, Held \cup off)
  BY <1>4, ServerSetup
<1>. DEFINE g1 == g \cup off
            g2 == g1 \cup HandshakeHeld(setup, ToServerHello(setup, hrr))
            g3 == g2 \cup MasterHeld(setup, ToFlight(setup, hrr))
            hs == HandshakeScheduler(setup)
<1>6. up = End(HandshakeStart(setup), ToHello(setup, hrr), g1)
  <2>1. up = SetupSchedulerAndContext(setup, RestoredContext, ks.binder)
    BY DEF setup
  <2>. HIDE DEF up
  <2>. QED  BY <1>3, <1>5, <2>1
<1>8. HandshakeKeys(hello) = End(hs, ToServerHello(setup, hrr), g2)
  <2>1. hello = Sees(DeriveHandshake(setup, up), <<"ServerHello">>)
    BY DEF setup
  <2>. HIDE DEF hello, up, g1
  <2>2. HandshakeKeys(Sees(DeriveHandshake(setup,
          End(HandshakeStart(setup), ToHello(setup, hrr), g1)), <<"ServerHello">>))
          = End(HandshakeScheduler(setup), ToServerHello(setup, hrr), g2)
    BY <1>4, ServerHelloSeen
  <2>. QED  BY <1>6, <2>1, <2>2
<1>9. new = End(MasterScheduler(setup, ToFlight(setup, hrr)), ToFlight(setup, hrr), g3)
  <2>1. new = ServerKeys(Sees(HandshakeKeys(hello), ServerFlight(setup)))
    BY DEF setup
  <2>. HIDE DEF new, hello, g2
  <2>2. Sees(End(HandshakeScheduler(setup), ToServerHello(setup, hrr), g2), ServerFlight(setup))
          = End(HandshakeScheduler(setup), ToFlight(setup, hrr), g2)
    BY MessagesSeen
  <2>3. ServerKeys(End(HandshakeScheduler(setup), ToFlight(setup, hrr), g2))
          = End(MasterScheduler(setup, ToFlight(setup, hrr)), ToFlight(setup, hrr),
                g2 \cup MasterHeld(setup, ToFlight(setup, hrr)))
    BY ServerKeysAre
  <2>. QED  BY <1>8, <2>1, <2>2, <2>3
<1>. HIDE DEF new
<1>10. /\ ks'.server.sch = MasterScheduler(setup, ToFlight(setup, hrr))
       /\ ks'.server.transcript = ToFlight(setup, hrr) /\ ks'.server.got = g3
       /\ ks'.server = End(ks'.server.sch, ks'.server.transcript, ks'.server.got)
  <2>. HIDE DEF g3
  <2>. QED  BY <1>2, <1>9, EndIs
<1>11. /\ HeldInv(setup, hrr, Held')
       /\ Holds("server", 0, Master(setup, hrr, "s ap traffic")) \in ks'.server.got
  <2>. DEFINE h == HandshakeHeld(setup, ToServerHello(setup, hrr))
              m == MasterHeld(setup, ToFlight(setup, hrr))
  <2>1. HeldInv(setup, hrr, (Held \cup off) \cup h)
    BY <1>5, AddHandshake
  <2>2. HeldInv(setup, hrr, ((Held \cup off) \cup h) \cup m)
        /\ Holds("server", 0, Master(setup, hrr, "s ap traffic")) \in m
    <3>. HIDE DEF h
    <3>. QED  BY <2>1, AddMaster
  <2>. HIDE DEF h, m
  <2>3. Held' = ((Held \cup off) \cup h) \cup m
    <3>1. Held' = ks.client.got \cup g3
      BY <1>2, <1>10 DEF Held
    <3>2. Held = ks.client.got \cup g
      BY DEF Held, g
    <3>3. g3 = ((g \cup off) \cup h) \cup m
      BY DEF h, m
    <3>. QED  BY <3>1, <3>2, <3>3
  <2>4. m \subseteq ks'.server.got
    BY <1>10 DEF m
  <2>. QED  BY <2>2, <2>3, <2>4
<1>12. KeysShape'
  BY <1>2, <1>10 DEF KeysInv, KeysShape, Phases, NotYet
<1>13. HelloInv'
  BY <1>2 DEF HelloInv, NotYet
<1>14. FlightInv' /\ OpenInv'
  BY <1>2, <1>3, <1>10, <1>11 DEF FlightInv, OpenInv, setup, hrr
<1>15. HeldInv(ks.setup, ks.hrr, Held)'
  BY <1>2, <1>11 DEF setup, hrr
<1>. QED  BY <1>12, <1>13, <1>14, <1>15 DEF KeysInv

LEMMA ServerHelloStep ==
  ASSUME NoneIsNoFunction, KeysInv, ClientGetsServerHello
  PROVE  KeysInv'
<1>. DEFINE setup == ks.setup
            hrr == ks.hrr
            g == ks.client.got
            sch == IF ks.setup.accept THEN DeriveEarlySecret(NewScheduler, <<"psk">>) ELSE NewScheduler
            new == HandshakeKeys(Sees(DeriveHandshake(ks.setup, Runs(ks.client, sch)), <<"ServerHello">>))
            more == HandshakeHeld(setup, ToServerHello(setup, hrr))
<1>1. ks' = [ks EXCEPT !.at = "client handshake", !.client = new]
  BY DEF ClientGetsServerHello
<1>2. /\ DOMAIN ks' = DOMAIN ks /\ ks'.setup = ks.setup /\ ks'.hrr = ks.hrr
      /\ ks'.server = ks.server /\ ks.at = "flight" /\ ks'.at = "client handshake"
      /\ ks'.client = new
  <2>. HIDE DEF new
  <2>. QED  BY <1>1 DEF ClientGetsServerHello, KeysInv, KeysShape
<1>3. /\ ks.client = End(NewScheduler, ToHello(setup, hrr), g)
      /\ setup \in KeySetups /\ HeldInv(setup, hrr, Held)
  BY <1>2 DEF KeysInv, KeysShape, FlightInv
<1>4. sch = HandshakeStart(setup)
  BY EarlySchedule DEF HandshakeStart
<1>5. new = HandshakeKeys(Sees(DeriveHandshake(setup, Runs(ks.client, sch)), <<"ServerHello">>))
  OBVIOUS
<1>. HIDE DEF setup, hrr, g, sch, new
<1>6. Runs(ks.client, sch) = End(HandshakeStart(setup), ToHello(setup, hrr), g)
  <2>1. \A r : Runs(End(NewScheduler, ToHello(setup, hrr), g), r) = End(r, ToHello(setup, hrr), g)
    BY EndIs
  <2>. QED  BY <1>3, <1>4, <2>1
<1>7. new = End(HandshakeScheduler(setup), ToServerHello(setup, hrr), g \cup more)
  <2>1. HandshakeKeys(Sees(DeriveHandshake(setup,
          End(HandshakeStart(setup), ToHello(setup, hrr), g)), <<"ServerHello">>))
          = End(HandshakeScheduler(setup), ToServerHello(setup, hrr), g \cup more)
    BY <1>3, ServerHelloSeen
  <2>. QED  BY <1>5, <1>6, <2>1
<1>8. HeldInv(setup, hrr, Held \cup more)
  BY <1>3, AddHandshake
<1>. HIDE DEF more
<1>9. /\ ks'.client.sch = HandshakeScheduler(setup)
      /\ ks'.client.transcript = ToServerHello(setup, hrr)
      /\ ks'.client.got = g \cup more
      /\ ks'.client = End(ks'.client.sch, ks'.client.transcript, ks'.client.got)
  <2>. DEFINE both == g \cup more
              t == ToServerHello(setup, hrr)
              hs == HandshakeScheduler(setup)
  <2>1. ks'.client = End(hs, t, both)
    BY <1>2, <1>7
  <2>. HIDE DEF both, t, hs
  <2>2. ks'.client.sch = hs /\ ks'.client.transcript = t /\ ks'.client.got = both
    BY <2>1, EndIs
  <2>. QED  BY <2>1, <2>2 DEF both, t, hs
<1>10. Held' = Held \cup more
  BY <1>2, <1>9 DEF Held, g
<1>11. KeysShape'
  BY <1>2, <1>9 DEF KeysInv, KeysShape, Phases, NotYet
<1>12. HelloInv'
  BY <1>2 DEF HelloInv, NotYet
<1>13. FlightInv' /\ OpenInv'
  BY <1>2, <1>9 DEF KeysInv, FlightInv, OpenInv, setup, hrr
<1>14. HeldInv(ks.setup, ks.hrr, Held)'
  BY <1>2, <1>8, <1>10 DEF setup, hrr
<1>. QED  BY <1>11, <1>12, <1>13, <1>14 DEF KeysInv

(* What the client has after its Finished.                                 *)
AppScheduler(setup, transcript) == Sched(None, None, AppAt(setup, transcript))
FinalHeld(setup, hrr) ==
  {Holds("exporter", 0, Master(setup, hrr, "exp master")),
   Holds("resumption", 0, Resumption(setup, hrr))}
AppHeld(setup, hrr) ==
  {Holds("client", 0, Master(setup, hrr, "c ap traffic")),
   Holds("server", 0, Master(setup, hrr, "s ap traffic"))}

LEMMA AppSchedule ==
  ASSUME NoneIsNoFunction, NEW setup, NEW t, NEW type, NEW secret
  PROVE  LET sch == Sched(type, secret, AppAt(setup, t))
         IN /\ GetAppSecret(sch, "client") = DeriveSecret(MasterSecretOf(setup), "c ap traffic", t)
            /\ GetAppSecret(sch, "server") = DeriveSecret(MasterSecretOf(setup), "s ap traffic", t)
<1>. DEFINE c == DeriveSecret(MasterSecretOf(setup), "c ap traffic", t)
            d == DeriveSecret(MasterSecretOf(setup), "s ap traffic", t)
<1>1. /\ GetAppSecret(Sched(type, secret, App(c, 0, d, 0)), "client") = c
      /\ GetAppSecret(Sched(type, secret, App(c, 0, d, 0)), "server") = d
  <2>. HIDE DEF c, d
  <2>. QED  BY AppSecrets
<1>. QED  BY <1>1 DEF AppAt

LEMMA ClientFinishesAre ==
  ASSUME NoneIsNoFunction, NEW setup, NEW hrr, NEW g
  PROVE  ClientFinishes(setup, End(HandshakeScheduler(setup), ToFlight(setup, hrr), g))
           = End(AppScheduler(setup, ToFlight(setup, hrr)), ToEnd(setup, hrr),
                 g \cup (FinalHeld(setup, hrr) \cup AppHeld(setup, hrr)))
<1>. DEFINE flight == ToFlight(setup, hrr)
            whole == ToEnd(setup, hrr)
            first == HandshakeScheduler(setup)
            second == Sched("MasterSecret", MasterSecretOf(setup), None)
            third == MasterScheduler(setup, flight)
            last == AppScheduler(setup, flight)
            answer == ClientAnswer(setup) \o <<"ClientFinished">>
            start == End(first, flight, g)
<1>1. start.sch = first /\ start.transcript = flight /\ Runs(start, second) = End(second, flight, g)
  <2>. HIDE DEF first, flight, second
  <2>. QED  BY EndIs
<1>2. End(second, flight, g).sch = second /\ Sees(End(second, flight, g), answer) = End(second, whole, g)
  <2>1. End(second, flight, g).sch = second
    <3>. HIDE DEF flight, second
    <3>. QED  BY EndIs
  <2>2. Sees(End(second, flight, g), answer) = End(second, whole, g)
    <3>. HIDE DEF second
    <3>. QED  BY MessagesSeen
  <2>. QED  BY <2>1, <2>2
<1>3. End(second, whole, g).transcript = whole /\ Runs(End(second, whole, g), last) = End(last, whole, g) /\ End(last, whole, g).sch = last
  <2>. HIDE DEF whole, second, last
  <2>. QED  BY EndIs
<1>4. DeriveMasterSecret(first) = second /\ DeriveAppTrafficSecrets(second, flight) = third
  <2>. HIDE DEF flight
  <2>. QED  BY MasterSchedule
<1>5. ClearMasterSecret(third) = last
  <2>. HIDE DEF flight
  <2>. QED  BY MasterSchedule DEF AppScheduler
<1>6. GetMasterSecret(second, "ExporterMaster", flight) = Master(setup, hrr, "exp master")
  <2>1. GetMasterSecret(second, "ExporterMaster", flight) = DeriveSecret(MasterSecretOf(setup), "exp master", flight)
    <3>. HIDE DEF flight
    <3>. QED  BY MasterSchedule
  <2>. QED  BY <2>1 DEF Master
<1>7. GetMasterSecret(second, "ResumptionMaster", whole) = Resumption(setup, hrr)
  <2>1. GetMasterSecret(second, "ResumptionMaster", whole) = DeriveSecret(MasterSecretOf(setup), "res master", whole)
    <3>. HIDE DEF whole
    <3>. QED  BY MasterSchedule
  <2>. QED  BY <2>1 DEF Resumption
<1>8. /\ GetAppSecret(last, "client") = Master(setup, hrr, "c ap traffic")
      /\ GetAppSecret(last, "server") = Master(setup, hrr, "s ap traffic")
  <2>1. /\ GetAppSecret(last, "client") = DeriveSecret(MasterSecretOf(setup), "c ap traffic", flight)
        /\ GetAppSecret(last, "server") = DeriveSecret(MasterSecretOf(setup), "s ap traffic", flight)
    <3>. HIDE DEF flight
    <3>. QED  BY AppSchedule DEF AppScheduler
  <2>. QED  BY <2>1 DEF Master
<1>. HIDE DEF flight, whole, first, second, third, last, start
<1>9. ClientFinishes(setup, start)
        = Got(End(last, whole, g), FinalHeld(setup, hrr) \cup AppHeld(setup, hrr))
  <2>1. ClientAnswer(setup) \o <<"ClientFinished">> = answer
    OBVIOUS
  <2>. HIDE DEF answer
  <2>. QED  BY <1>1, <1>2, <1>3, <1>4, <1>5, <1>6, <1>7, <1>8, <2>1
            DEF ClientFinishes, FinalHeld, AppHeld
<1>10. Got(End(last, whole, g), FinalHeld(setup, hrr) \cup AppHeld(setup, hrr))
         = End(last, whole, g \cup (FinalHeld(setup, hrr) \cup AppHeld(setup, hrr)))
  BY EndIs
<1>. QED  BY <1>9, <1>10 DEF flight, whole, first, last, start

LEMMA AddFinal ==
  ASSUME NEW setup, NEW hrr, NEW all, HeldInv(setup, hrr, all)
  PROVE  /\ HeldInv(setup, hrr, all \cup (FinalHeld(setup, hrr) \cup AppHeld(setup, hrr)))
         /\ HeldInv(setup, hrr, all \cup {Holds("client", 0, Master(setup, hrr, "c ap traffic")),
                                          Holds("resumption", 0, Resumption(setup, hrr))})
<1>. DEFINE x == Holds("exporter", 0, Master(setup, hrr, "exp master"))
            r == Holds("resumption", 0, Resumption(setup, hrr))
            c == Holds("client", 0, Master(setup, hrr, "c ap traffic"))
            d == Holds("server", 0, Master(setup, hrr, "s ap traffic"))
<1>1. FinalHeld(setup, hrr) = {x, r} /\ AppHeld(setup, hrr) = {c, d}
  BY DEF FinalHeld, AppHeld
<1>2. /\ FixedHold(setup, hrr, x) /\ FixedHold(setup, hrr, r)
      /\ FixedHold(setup, hrr, c) /\ FixedHold(setup, hrr, d)
  BY FixedHolds
<1>. HIDE DEF x, r, c, d
<1>3. HeldInv(setup, hrr, all \cup {x, r})
  BY <1>2, AddTwo
<1>4. HeldInv(setup, hrr, (all \cup {x, r}) \cup {c, d})
  BY <1>2, <1>3, AddTwo
<1>5. (all \cup {x, r}) \cup {c, d} = all \cup ({x, r} \cup {c, d})
  OBVIOUS
<1>6. HeldInv(setup, hrr, all \cup {c, r})
  BY <1>2, AddTwo
<1>. QED  BY <1>1, <1>4, <1>5, <1>6 DEF c, r

(* An end whose handshake is over, with the secrets of a schedule.         *)
LEMMA AppDone ==
  ASSUME NEW setup, NEW hrr, NEW got,
         Holds("client", 0, Master(setup, hrr, "c ap traffic")) \in got,
         Holds("server", 0, Master(setup, hrr, "s ap traffic")) \in got,
         Holds("resumption", 0, Resumption(setup, hrr)) \in got
  PROVE  Done(setup, hrr, AppScheduler(setup, ToFlight(setup, hrr)), got)
<1>. DEFINE c == Master(setup, hrr, "c ap traffic")
            d == Master(setup, hrr, "s ap traffic")
            sch == AppScheduler(setup, ToFlight(setup, hrr))
<1>1. sch = Sched(None, None, App(c, 0, d, 0))
  BY DEF AppScheduler, AppAt, Master
<1>. HIDE DEF c, d, sch
<1>2. sch.app = App(c, 0, d, 0)
  BY <1>1 DEF Sched
<1>3. /\ App(c, 0, d, 0).client = c /\ App(c, 0, d, 0).clientGeneration = 0
      /\ App(c, 0, d, 0).server = d /\ App(c, 0, d, 0).serverGeneration = 0
  BY DEF App
<1>4. Holds("client", 0, c) \in got /\ Holds("server", 0, d) \in got
  BY DEF c, d
<1>5. Done(setup, hrr, sch, got)
  <2>1. /\ sch.app.client = c /\ sch.app.clientGeneration = 0
        /\ sch.app.server = d /\ sch.app.serverGeneration = 0
    BY <1>2, <1>3
  <2>2. sch = Sched(None, None, App(sch.app.client, sch.app.clientGeneration,
                                    sch.app.server, sch.app.serverGeneration))
    BY <1>1, <2>1, Zenon
  <2>3. sch.app.clientGeneration \in Nat /\ sch.app.serverGeneration \in Nat
    <3>1. 0 \in Nat
      OBVIOUS
    <3>. QED  BY <2>1, <3>1, Zenon
  <2>4. /\ Holds("client", sch.app.clientGeneration, sch.app.client) \in got
        /\ Holds("server", sch.app.serverGeneration, sch.app.server) \in got
    BY <1>4, <2>1, Zenon
  <2>. QED  BY <2>2, <2>3, <2>4, Zenon DEF Done
<1>. QED  BY <1>5 DEF sch

LEMMA ClientFinishedStep ==
  ASSUME NoneIsNoFunction, KeysInv, ClientGetsFinished
  PROVE  KeysInv'
<1>. DEFINE setup == ks.setup
            hrr == ks.hrr
            g == ks.client.got
            new == ClientFinishes(ks.setup, Sees(ks.client, ServerFlight(ks.setup)))
            more == FinalHeld(setup, hrr) \cup AppHeld(setup, hrr)
<1>1. ks' = [ks EXCEPT !.at = "client finished", !.client = new]
  BY DEF ClientGetsFinished
<1>2. /\ DOMAIN ks' = DOMAIN ks /\ ks'.setup = ks.setup /\ ks'.hrr = ks.hrr
      /\ ks'.server = ks.server /\ ks.at = "client handshake" /\ ks'.at = "client finished"
      /\ ks'.client = new
  <2>. HIDE DEF new
  <2>. QED  BY <1>1 DEF ClientGetsFinished, KeysInv, KeysShape
<1>3. /\ ks.client = End(HandshakeScheduler(setup), ToServerHello(setup, hrr), g)
      /\ HeldInv(setup, hrr, Held)
  BY <1>2 DEF KeysInv, KeysShape, FlightInv
<1>4. new = ClientFinishes(setup, Sees(ks.client, ServerFlight(setup)))
  OBVIOUS
<1>. HIDE DEF setup, hrr, g, new
<1>5. Sees(End(HandshakeScheduler(setup), ToServerHello(setup, hrr), g), ServerFlight(setup))
        = End(HandshakeScheduler(setup), ToFlight(setup, hrr), g)
  BY MessagesSeen
<1>6. ClientFinishes(setup, End(HandshakeScheduler(setup), ToFlight(setup, hrr), g))
        = End(AppScheduler(setup, ToFlight(setup, hrr)), ToEnd(setup, hrr), g \cup more)
  BY ClientFinishesAre
<1>7. HeldInv(setup, hrr, Held \cup more)
  BY <1>3, AddFinal
<1>8. /\ Holds("client", 0, Master(setup, hrr, "c ap traffic")) \in more
      /\ Holds("server", 0, Master(setup, hrr, "s ap traffic")) \in more
      /\ Holds("resumption", 0, Resumption(setup, hrr)) \in more
  BY DEF FinalHeld, AppHeld
<1>. HIDE DEF more
<1>9. /\ ks'.client.sch = AppScheduler(setup, ToFlight(setup, hrr))
      /\ ks'.client.got = g \cup more
      /\ ks'.client = End(ks'.client.sch, ks'.client.transcript, ks'.client.got)
  <2>. DEFINE both == g \cup more
              seen == ToEnd(setup, hrr)
              last == AppScheduler(setup, ToFlight(setup, hrr))
  <2>1. ks'.client = End(last, seen, both)
    BY <1>2, <1>3, <1>4, <1>5, <1>6
  <2>. HIDE DEF both, seen, last
  <2>2. ks'.client.sch = last /\ ks'.client.transcript = seen /\ ks'.client.got = both
    BY <2>1, EndIs
  <2>. QED  BY <2>1, <2>2 DEF both, last
<1>10. Held' = Held \cup more
  BY <1>2, <1>9 DEF Held, g
<1>11. KeysShape'
  BY <1>2, <1>9 DEF KeysInv, KeysShape, Phases, NotYet
<1>12. HelloInv'
  BY <1>2 DEF HelloInv, NotYet
<1>13. FlightInv'
  BY <1>2 DEF KeysInv, FlightInv
<1>14. OpenInv'
  <2>1. /\ Holds("client", 0, Master(ks'.setup, ks'.hrr, "c ap traffic")) \in ks'.client.got
        /\ Holds("server", 0, Master(ks'.setup, ks'.hrr, "s ap traffic")) \in ks'.client.got
        /\ Holds("resumption", 0, Resumption(ks'.setup, ks'.hrr)) \in ks'.client.got
        /\ ks'.client.sch = AppScheduler(ks'.setup, ToFlight(ks'.setup, ks'.hrr))
    BY <1>2, <1>8, <1>9 DEF setup, hrr
  <2>2. Done(ks'.setup, ks'.hrr, ks'.client.sch, ks'.client.got)
    BY <2>1, AppDone
  <2>. QED  BY <1>2, <2>2 DEF OpenInv
<1>15. HeldInv(ks.setup, ks.hrr, Held)'
  BY <1>2, <1>7, <1>10 DEF setup, hrr
<1>. QED  BY <1>11, <1>12, <1>13, <1>14, <1>15 DEF KeysInv

LEMMA ServerFinishedStep ==
  ASSUME NoneIsNoFunction, KeysInv, ServerGetsFinished
  PROVE  KeysInv'
<1>. DEFINE setup == ks.setup
            hrr == ks.hrr
            g == ks.server.got
            end == Sees(ks.server, ClientAnswer(ks.setup) \o <<"ClientFinished">>)
            taken == {Holds("client", 0, GetAppSecret(end.sch, "client")),
                      Holds("resumption", 0, GetMasterSecret(end.sch, "ResumptionMaster", end.transcript))}
            new == Got(Runs(end, ClearMasterSecret(end.sch)), taken)
            more == {Holds("client", 0, Master(setup, hrr, "c ap traffic")),
                     Holds("resumption", 0, Resumption(setup, hrr))}
            flight == ToFlight(setup, hrr)
            whole == ToEnd(setup, hrr)
            sch == MasterScheduler(setup, flight)
            last == AppScheduler(setup, flight)
<1>1. ks' = [ks EXCEPT !.at = "open", !.server = new]
  BY DEF ServerGetsFinished
<1>2. /\ DOMAIN ks' = DOMAIN ks /\ ks'.setup = ks.setup /\ ks'.hrr = ks.hrr
      /\ ks'.client = ks.client /\ ks.at = "client finished" /\ ks'.at = "open"
      /\ ks'.server = new
  <2>. HIDE DEF new
  <2>. QED  BY <1>1 DEF ServerGetsFinished, KeysInv, KeysShape
<1>3. /\ ks.server = End(sch, flight, g)
      /\ HeldInv(setup, hrr, Held)
      /\ Holds("server", 0, Master(setup, hrr, "s ap traffic")) \in g
      /\ Done(setup, hrr, ks.client.sch, ks.client.got)
  BY <1>2 DEF KeysInv, KeysShape, FlightInv, OpenInv
<1>4. end = Sees(ks.server, ClientAnswer(setup) \o <<"ClientFinished">>)
  OBVIOUS
<1>. HIDE DEF setup, hrr, g, end
<1>5. Sees(End(sch, flight, g), ClientAnswer(setup) \o <<"ClientFinished">>) = End(sch, whole, g)
  <2>. HIDE DEF sch
  <2>. QED  BY MessagesSeen
<1>6. end = End(sch, whole, g)
  <2>. HIDE DEF sch, flight, whole
  <2>. QED  BY <1>3, <1>4, <1>5, Zenon
<1>7. end.sch = sch /\ end.transcript = whole
  <2>. HIDE DEF sch, whole
  <2>. QED  BY <1>6, EndIs
<1>8. ClearMasterSecret(sch) = last
  <2>. HIDE DEF flight
  <2>. QED  BY MasterSchedule DEF AppScheduler
<1>9. GetAppSecret(sch, "client") = Master(setup, hrr, "c ap traffic")
  <2>1. GetAppSecret(sch, "client") = DeriveSecret(MasterSecretOf(setup), "c ap traffic", flight)
    <3>. HIDE DEF flight
    <3>. QED  BY AppSchedule DEF MasterScheduler
  <2>. QED  BY <2>1 DEF Master
<1>10. GetMasterSecret(sch, "ResumptionMaster", whole) = Resumption(setup, hrr)
  <2>1. GetMasterSecret(sch, "ResumptionMaster", whole)
          = DeriveSecret(MasterSecretOf(setup), "res master", whole)
    <3>. DEFINE app == AppAt(setup, flight)
    <3>1. GetMasterSecret(Sched("MasterSecret", MasterSecretOf(setup), app), "ResumptionMaster", whole)
            = DeriveSecret(MasterSecretOf(setup), "res master", whole)
      <4>. HIDE DEF whole, app
      <4>. QED  BY MasterSchedule
    <3>. QED  BY <3>1 DEF MasterScheduler
  <2>. QED  BY <2>1 DEF Resumption
<1>. HIDE DEF sch, whole
<1>11. taken = more
  BY <1>7, <1>9, <1>10
<1>12. new = End(last, whole, g \cup more)
  <2>1. Runs(End(sch, whole, g), last) = End(last, whole, g)
    <3>. HIDE DEF last
    <3>. QED  BY EndIs
  <2>2. Got(End(last, whole, g), more) = End(last, whole, g \cup more)
    <3>. HIDE DEF last, more
    <3>. QED  BY EndIs
  <2>. HIDE DEF taken, more, last
  <2>. QED  BY <1>6, <1>7, <1>8, <1>11, <2>1, <2>2
<1>13. HeldInv(setup, hrr, Held \cup more)
  BY <1>3, AddFinal
<1>14. /\ Holds("client", 0, Master(setup, hrr, "c ap traffic")) \in more
       /\ Holds("resumption", 0, Resumption(setup, hrr)) \in more
  OBVIOUS
<1>. HIDE DEF more, new, last
<1>15. /\ ks'.server.sch = last /\ ks'.server.got = g \cup more
       /\ ks'.server = End(ks'.server.sch, ks'.server.transcript, ks'.server.got)
  <2>. DEFINE both == g \cup more
  <2>1. ks'.server = End(last, whole, both)
    BY <1>2, <1>12
  <2>. HIDE DEF both
  <2>2. ks'.server.sch = last /\ ks'.server.transcript = whole /\ ks'.server.got = both
    BY <2>1, EndIs
  <2>. QED  BY <2>1, <2>2 DEF both
<1>16. Held' = Held \cup more
  BY <1>2, <1>15 DEF Held, g
<1>17. KeysShape'
  BY <1>2, <1>15 DEF KeysInv, KeysShape, Phases, NotYet
<1>18. HelloInv' /\ FlightInv'
  BY <1>2 DEF HelloInv, FlightInv, NotYet
<1>19. OpenInv'
  <2>1. Done(setup, hrr, AppScheduler(setup, ToFlight(setup, hrr)), ks'.server.got)
    <3>1. /\ Holds("client", 0, Master(setup, hrr, "c ap traffic")) \in ks'.server.got
          /\ Holds("server", 0, Master(setup, hrr, "s ap traffic")) \in ks'.server.got
          /\ Holds("resumption", 0, Resumption(setup, hrr)) \in ks'.server.got
      BY <1>3, <1>14, <1>15
    <3>. QED  BY <3>1, AppDone
  <2>2. Done(setup, hrr, ks'.server.sch, ks'.server.got)
    BY <1>15, <2>1 DEF last
  <2>. QED  BY <1>2, <1>3, <2>2 DEF OpenInv, setup, hrr
<1>20. HeldInv(ks.setup, ks.hrr, Held)'
  BY <1>2, <1>13, <1>16 DEF setup, hrr
<1>. QED  BY <1>17, <1>18, <1>19, <1>20 DEF KeysInv

(* A key update, of either direction at either end.                        *)
LEMMA DoneIs ==
  ASSUME NEW setup, NEW hrr, NEW got, NEW c, NEW i, NEW d, NEW j
  PROVE  Done(setup, hrr, Sched(None, None, App(c, i, d, j)), got) <=>
           /\ i \in Nat /\ j \in Nat
           /\ Holds("client", i, c) \in got /\ Holds("server", j, d) \in got
           /\ Holds("resumption", 0, Resumption(setup, hrr)) \in got
<1>. DEFINE sch == Sched(None, None, App(c, i, d, j))
<1>1. sch.app = App(c, i, d, j)
  BY SchedIs
<1>2. /\ App(c, i, d, j).client = c /\ App(c, i, d, j).clientGeneration = i
      /\ App(c, i, d, j).server = d /\ App(c, i, d, j).serverGeneration = j
  BY DEF App
<1>3. sch = Sched(None, None, App(c, i, d, j))
  OBVIOUS
<1>. HIDE DEF sch
<1>4. /\ sch.app.client = c /\ sch.app.clientGeneration = i
      /\ sch.app.server = d /\ sch.app.serverGeneration = j
  BY <1>1, <1>2, Zenon
<1>5. Done(setup, hrr, sch, got) <=>
        /\ i \in Nat /\ j \in Nat
        /\ Holds("client", i, c) \in got /\ Holds("server", j, d) \in got
        /\ Holds("resumption", 0, Resumption(setup, hrr)) \in got
  BY <1>3, <1>4, Zenon DEF Done
<1>. QED  BY <1>5 DEF sch

MovedOn(setup, hrr, sch, t, got, all, side) ==
  \E s, y :
    /\ Moves(End(sch, t, got), side, KeyUpdateOf(side, sch)) = End(s, t, got \cup {y})
    /\ Done(setup, hrr, s, got \cup {y})
    /\ HeldInv(setup, hrr, all \cup {y})

LEMMA MovesOn ==
  ASSUME NoneIsNoFunction, NEW setup, NEW hrr, NEW all, HeldInv(setup, hrr, all),
         NEW sch, NEW t, NEW got, got \subseteq all, Done(setup, hrr, sch, got),
         NEW side \in Sides
  PROVE  MovedOn(setup, hrr, sch, t, got, all, side)
<1>. DEFINE c == sch.app.client
            i == sch.app.clientGeneration
            d == sch.app.server
            j == sch.app.serverGeneration
            up == KeyUpdateOf(side, sch)
<1>1. sch = Sched(None, None, App(c, i, d, j))
  BY DEF Done
<1>2. /\ i \in Nat /\ j \in Nat
      /\ Holds("client", i, c) \in got /\ Holds("server", j, d) \in got
      /\ Holds("resumption", 0, Resumption(setup, hrr)) \in got
  BY DEF Done
<1>. HIDE DEF c, i, d, j
<1>3. ASSUME NEW s, NEW x, up = s,
             GetAppSecret(s, side) = x.secret, Generation(s, side) = x.gen, side = x.use,
             x = Holds(x.use, x.gen, x.secret)
      PROVE  Moves(End(sch, t, got), side, up) = End(s, t, got \cup {x})
  <2>1. Moves(End(sch, t, got), side, s) = Got(Runs(End(sch, t, got), s), {x})
    BY <1>3 DEF Moves
  <2>2. Runs(End(sch, t, got), s) = End(s, t, got) /\ Got(End(s, t, got), {x}) = End(s, t, got \cup {x})
    BY EndIs
  <2>. HIDE DEF up
  <2>. QED  BY <1>3, <2>1, <2>2
<1>4. CASE side = "client"
  <2>. DEFINE x == Holds("client", i + 1, Updated(c))
              s == Sched(None, None, App(Updated(c), i + 1, d, j))
              h == Holds("client", i, c)
  <2>1. /\ up = s /\ GetAppSecret(s, "client") = Updated(c) /\ Generation(s, "client") = i + 1
    <3>1. ClientKeyUpdate(Sched(None, None, App(c, i, d, j))) = s
      BY AppSecrets
    <3>2. up = ClientKeyUpdate(sch)
      BY <1>4 DEF KeyUpdateOf
    <3>3. up = s
      <4>. HIDE DEF s, up
      <4>. QED  BY <1>1, <3>1, <3>2
    <3>4. GetAppSecret(s, "client") = Updated(c) /\ Generation(s, "client") = i + 1
      <4>. DEFINE u == Updated(c)
                  n == i + 1
      <4>1. /\ GetAppSecret(Sched(None, None, App(u, n, d, j)), "client") = u
            /\ Generation(Sched(None, None, App(u, n, d, j)), "client") = n
        <5>. HIDE DEF u, n
        <5>. QED  BY AppSecrets
      <4>. QED  BY <4>1
    <3>. QED  BY <3>3, <3>4
  <2>2. x.use = "client" /\ x.gen = i + 1 /\ x.secret = Updated(c) /\ x = Holds(x.use, x.gen, x.secret)
    BY DEF Holds
  <2>3. h.use = "client" /\ h.gen = i /\ h.secret = c
    BY DEF Holds
  <2>4. HeldInv(setup, hrr, all \cup {x})
    <3>1. h \in all
      BY <1>2
    <3>. HIDE DEF h
    <3>2. HeldInv(setup, hrr, all \cup {Holds(h.use, h.gen + 1, Updated(h.secret))})
      BY <1>2, <2>3, <3>1, AddMoved DEF Sides
    <3>. QED  BY <2>3, <3>2
  <2>5. Done(setup, hrr, s, got \cup {x})
    <3>. DEFINE u == Updated(c)
                n == i + 1
                more == got \cup {x}
    <3>1. /\ n \in Nat /\ j \in Nat /\ Holds("client", n, u) \in more
          /\ Holds("server", j, d) \in more
          /\ Holds("resumption", 0, Resumption(setup, hrr)) \in more
      BY <1>2
    <3>2. Done(setup, hrr, Sched(None, None, App(u, n, d, j)), more)
      <4>. HIDE DEF u, n, more
      <4>. QED  BY <3>1, DoneIs
    <3>. QED  BY <3>2
  <2>6. Moves(End(sch, t, got), side, up) = End(s, t, got \cup {x})
    <3>. HIDE DEF x, s, up
    <3>. QED  BY <1>3, <1>4, <2>1, <2>2
  <2>. HIDE DEF x, s
  <2>. QED  BY <2>4, <2>5, <2>6 DEF MovedOn
<1>5. CASE side = "server"
  <2>. DEFINE x == Holds("server", j + 1, Updated(d))
              s == Sched(None, None, App(c, i, Updated(d), j + 1))
              h == Holds("server", j, d)
  <2>1. /\ up = s /\ GetAppSecret(s, "server") = Updated(d) /\ Generation(s, "server") = j + 1
    <3>1. ServerKeyUpdate(Sched(None, None, App(c, i, d, j))) = s
      BY AppSecrets
    <3>2. up = ServerKeyUpdate(sch)
      BY <1>5 DEF KeyUpdateOf
    <3>3. up = s
      <4>. HIDE DEF s, up
      <4>. QED  BY <1>1, <3>1, <3>2
    <3>4. GetAppSecret(s, "server") = Updated(d) /\ Generation(s, "server") = j + 1
      <4>. DEFINE u == Updated(d)
                  n == j + 1
      <4>1. /\ GetAppSecret(Sched(None, None, App(c, i, u, n)), "server") = u
            /\ Generation(Sched(None, None, App(c, i, u, n)), "server") = n
        <5>. HIDE DEF u, n
        <5>. QED  BY AppSecrets
      <4>. QED  BY <4>1
    <3>. QED  BY <3>3, <3>4
  <2>2. x.use = "server" /\ x.gen = j + 1 /\ x.secret = Updated(d) /\ x = Holds(x.use, x.gen, x.secret)
    BY DEF Holds
  <2>3. h.use = "server" /\ h.gen = j /\ h.secret = d
    BY DEF Holds
  <2>4. HeldInv(setup, hrr, all \cup {x})
    <3>1. h \in all
      BY <1>2
    <3>. HIDE DEF h
    <3>2. HeldInv(setup, hrr, all \cup {Holds(h.use, h.gen + 1, Updated(h.secret))})
      BY <1>2, <2>3, <3>1, AddMoved DEF Sides
    <3>. QED  BY <2>3, <3>2
  <2>5. Done(setup, hrr, s, got \cup {x})
    <3>. DEFINE u == Updated(d)
                n == j + 1
                more == got \cup {x}
    <3>1. /\ i \in Nat /\ n \in Nat /\ Holds("client", i, c) \in more
          /\ Holds("server", n, u) \in more
          /\ Holds("resumption", 0, Resumption(setup, hrr)) \in more
      BY <1>2
    <3>2. Done(setup, hrr, Sched(None, None, App(c, i, u, n)), more)
      <4>. HIDE DEF u, n, more
      <4>. QED  BY <3>1, DoneIs
    <3>. QED  BY <3>2
  <2>6. Moves(End(sch, t, got), side, up) = End(s, t, got \cup {x})
    <3>. HIDE DEF x, s, up
    <3>. QED  BY <1>3, <1>5, <2>1, <2>2
  <2>. HIDE DEF x, s
  <2>. QED  BY <2>4, <2>5, <2>6 DEF MovedOn
<1>. QED  BY <1>4, <1>5 DEF Sides

MovesAt(at, side) == ks' = [ks EXCEPT ![at] = Moves(ks[at], side, KeyUpdateOf(side, ks[at].sch))]

LEMMA MovesStep ==
  ASSUME NoneIsNoFunction, KeysInv, NEW at \in Sides, NEW side \in Sides,
         ks.at = "open" \/ (ks.at = "client finished" /\ at = "client"),
         MovesAt(at, side)
  PROVE  KeysInv'
<1>1. CASE at = "client"
  <2>. DEFINE old == ks.client
              new == Moves(old, side, KeyUpdateOf(side, old.sch))
  <2>1. /\ DOMAIN ks' = DOMAIN ks /\ ks'.setup = ks.setup /\ ks'.hrr = ks.hrr
        /\ ks'.secrets = ks.secrets /\ ks'.at = ks.at /\ ks'.server = ks.server /\ ks'.client = new
    <3>1. ks[at] = old
      BY <1>1
    <3>2. ks' = [ks EXCEPT ![at] = new]
      <4>. HIDE DEF old
      <4>. QED  BY <3>1 DEF MovesAt
    <3>. HIDE DEF new
    <3>. QED  BY <1>1, <3>2 DEF KeysInv, KeysShape
  <2>2. PICK s, y :
          /\ Moves(End(old.sch, old.transcript, old.got), side, KeyUpdateOf(side, old.sch))
               = End(s, old.transcript, old.got \cup {y})
          /\ Done(ks.setup, ks.hrr, s, old.got \cup {y})
          /\ HeldInv(ks.setup, ks.hrr, Held \cup {y})
    <3>1. old.got \subseteq Held /\ HeldInv(ks.setup, ks.hrr, Held)
      BY DEF Held, KeysInv
    <3>2. Done(ks.setup, ks.hrr, old.sch, old.got)
      BY <1>1 DEF KeysInv, OpenInv
    <3>. DEFINE sch == old.sch
                seen == old.transcript
                held == old.got
                all == Held
                setup == ks.setup
                hrr == ks.hrr
    <3>3. held \subseteq all /\ HeldInv(setup, hrr, all) /\ Done(setup, hrr, sch, held)
      BY <3>1, <3>2
    <3>. HIDE DEF sch, seen, held, all, setup, hrr
    <3>4. MovedOn(setup, hrr, sch, seen, held, all, side)
      BY <3>3, MovesOn
    <3>. QED  BY <3>4 DEF MovedOn, sch, seen, held, all, setup, hrr
  <2>3. old = End(old.sch, old.transcript, old.got)
    BY DEF KeysInv, KeysShape
  <2>4. ks'.client = End(s, old.transcript, old.got \cup {y})
    <3>. HIDE DEF old
    <3>. QED  BY <2>1, <2>2, <2>3
  <2>5. /\ ks'.client.sch = s /\ ks'.client.got = old.got \cup {y}
        /\ ks'.client = End(ks'.client.sch, ks'.client.transcript, ks'.client.got)
    <3>. DEFINE both == old.got \cup {y}
                seen == old.transcript
    <3>1. ks'.client = End(s, seen, both)
      BY <2>4
    <3>. HIDE DEF both, seen
    <3>2. ks'.client.sch = s /\ ks'.client.transcript = seen /\ ks'.client.got = both
      BY <3>1, EndFields, ZenonT(60)
    <3>. QED  BY <3>1, <3>2 DEF both
  <2>6. Held' = Held \cup {y}
    BY <2>1, <2>5 DEF Held
  <2>7. KeysShape'
    BY <2>1, <2>5 DEF KeysInv, KeysShape
  <2>8. HelloInv' /\ FlightInv'
    BY <1>1, <2>1 DEF KeysInv, HelloInv, FlightInv, NotYet
  <2>9. OpenInv'
    BY <1>1, <2>1, <2>2, <2>5 DEF KeysInv, OpenInv
  <2>10. HeldInv(ks.setup, ks.hrr, Held)'
    BY <2>1, <2>2, <2>6
  <2>. QED  BY <2>7, <2>8, <2>9, <2>10 DEF KeysInv
<1>2. CASE at = "server"
  <2>. DEFINE old == ks.server
              new == Moves(old, side, KeyUpdateOf(side, old.sch))
  <2>1. /\ DOMAIN ks' = DOMAIN ks /\ ks'.setup = ks.setup /\ ks'.hrr = ks.hrr
        /\ ks'.secrets = ks.secrets /\ ks'.at = ks.at /\ ks'.client = ks.client /\ ks'.server = new
    <3>1. ks[at] = old
      BY <1>2
    <3>2. ks' = [ks EXCEPT ![at] = new]
      <4>. HIDE DEF old
      <4>. QED  BY <3>1 DEF MovesAt
    <3>. HIDE DEF new
    <3>. QED  BY <1>2, <3>2 DEF KeysInv, KeysShape
  <2>2. PICK s, y :
          /\ Moves(End(old.sch, old.transcript, old.got), side, KeyUpdateOf(side, old.sch))
               = End(s, old.transcript, old.got \cup {y})
          /\ Done(ks.setup, ks.hrr, s, old.got \cup {y})
          /\ HeldInv(ks.setup, ks.hrr, Held \cup {y})
    <3>1. old.got \subseteq Held /\ HeldInv(ks.setup, ks.hrr, Held)
      BY DEF Held, KeysInv
    <3>2. Done(ks.setup, ks.hrr, old.sch, old.got)
      BY <1>2 DEF KeysInv, OpenInv
    <3>. DEFINE sch == old.sch
                seen == old.transcript
                held == old.got
                all == Held
                setup == ks.setup
                hrr == ks.hrr
    <3>3. held \subseteq all /\ HeldInv(setup, hrr, all) /\ Done(setup, hrr, sch, held)
      BY <3>1, <3>2
    <3>. HIDE DEF sch, seen, held, all, setup, hrr
    <3>4. MovedOn(setup, hrr, sch, seen, held, all, side)
      BY <3>3, MovesOn
    <3>. QED  BY <3>4 DEF MovedOn, sch, seen, held, all, setup, hrr
  <2>3. old = End(old.sch, old.transcript, old.got)
    BY DEF KeysInv, KeysShape
  <2>4. ks'.server = End(s, old.transcript, old.got \cup {y})
    <3>. HIDE DEF old
    <3>. QED  BY <2>1, <2>2, <2>3
  <2>5. /\ ks'.server.sch = s /\ ks'.server.got = old.got \cup {y}
        /\ ks'.server = End(ks'.server.sch, ks'.server.transcript, ks'.server.got)
    <3>. DEFINE both == old.got \cup {y}
                seen == old.transcript
    <3>1. ks'.server = End(s, seen, both)
      BY <2>4
    <3>. HIDE DEF both, seen
    <3>2. ks'.server.sch = s /\ ks'.server.transcript = seen /\ ks'.server.got = both
      BY <3>1, EndFields, ZenonT(60)
    <3>. QED  BY <3>1, <3>2 DEF both
  <2>6. Held' = Held \cup {y}
    BY <2>1, <2>5 DEF Held
  <2>7. KeysShape'
    BY <2>1, <2>5 DEF KeysInv, KeysShape
  <2>8. HelloInv' /\ FlightInv'
    BY <1>2, <2>1 DEF KeysInv, HelloInv, FlightInv, NotYet
  <2>9. OpenInv'
    BY <1>2, <2>1, <2>2, <2>5 DEF KeysInv, OpenInv
  <2>10. HeldInv(ks.setup, ks.hrr, Held)'
    BY <2>1, <2>2, <2>6
  <2>. QED  BY <2>7, <2>8, <2>9, <2>10 DEF KeysInv
<1>. QED  BY <1>1, <1>2 DEF Sides

(* A ticket: the secret for resumption is one, and both ends have it.      *)
LEMMA ResumptionMasterIs ==
  ASSUME NEW setup, NEW hrr, NEW all, HeldInv(setup, hrr, all), NEW end, end.got \subseteq all,
         Holds("resumption", 0, Resumption(setup, hrr)) \in end.got
  PROVE  ResumptionMaster(end).secret = Resumption(setup, hrr)
<1>1. \E h \in end.got : h.use = "resumption"
  BY HoldsIs
<1>2. ResumptionMaster(end) \in end.got /\ ResumptionMaster(end).use = "resumption"
  BY <1>1 DEF ResumptionMaster
<1>. DEFINE h == ResumptionMaster(end)
<1>3. h \in all /\ h.use = "resumption"
  BY <1>2
<1>. HIDE DEF h
<1>4. ~Moved(h, all)
  BY <1>3 DEF Moved, Sides
<1>5. Fixed(setup, hrr, h)
  BY <1>3, <1>4 DEF HeldInv
<1>6. h.secret = Resumption(setup, hrr)
  BY <1>3, <1>5 DEF Fixed, FixedEarly
<1>. QED  BY <1>6 DEF h

TicketHold(setup, hrr, nonce) ==
  Holds("psk", nonce, GetResumptionSecret(Resumption(setup, hrr), <<"nonce", nonce>>))

LEMMA TicketIs ==
  ASSUME NEW setup, NEW hrr, NEW all, HeldInv(setup, hrr, all), NEW sch, NEW t, NEW got,
         got \subseteq all, Holds("resumption", 0, Resumption(setup, hrr)) \in got, NEW nonce
  PROVE  Ticket(End(sch, t, got), nonce) = End(sch, t, got \cup {TicketHold(setup, hrr, nonce)})
<1>. DEFINE e == End(sch, t, got)
<1>1. e.got = got
  BY EndIs
<1>. HIDE DEF e
<1>2. ResumptionMaster(e).secret = Resumption(setup, hrr)
  BY <1>1, ResumptionMasterIs
<1>3. Ticket(e, nonce) = Got(e, {TicketHold(setup, hrr, nonce)})
  BY <1>2 DEF Ticket, TicketHold
<1>4. Got(End(sch, t, got), {TicketHold(setup, hrr, nonce)})
        = End(sch, t, got \cup {TicketHold(setup, hrr, nonce)})
  BY EndIs
<1>. QED  BY <1>3, <1>4 DEF e

LEMMA DoneGrows ==
  ASSUME NEW setup, NEW hrr, NEW sch, NEW got, NEW more, Done(setup, hrr, sch, got)
  PROVE  /\ Done(setup, hrr, sch, got \cup more)
         /\ Holds("resumption", 0, Resumption(setup, hrr)) \in got
BY DEF Done

TicketAdds(setup, hrr, sch, t, got, e, y) ==
  /\ e = End(sch, t, got \cup {y}) /\ Done(setup, hrr, sch, got \cup {y})
  /\ e.sch = sch /\ e.transcript = t /\ e.got = got \cup {y}

LEMMA TicketOfOne ==
  ASSUME NEW setup, NEW hrr, NEW all, HeldInv(setup, hrr, all), NEW sch, NEW t, NEW got,
         got \subseteq all, Done(setup, hrr, sch, got), NEW nonce
  PROVE  TicketAdds(setup, hrr, sch, t, got, Ticket(End(sch, t, got), nonce),
                    TicketHold(setup, hrr, nonce))
<1>. DEFINE y == TicketHold(setup, hrr, nonce)
            e == Ticket(End(sch, t, got), nonce)
            both == got \cup {y}
<1>1. e = End(sch, t, both)
  BY DoneGrows, TicketIs
<1>2. Done(setup, hrr, sch, both)
  BY DoneGrows
<1>. HIDE DEF e, both
<1>3. e.sch = sch /\ e.transcript = t /\ e.got = both
  BY <1>1, EndFields
<1>. QED  BY <1>1, <1>2, <1>3 DEF TicketAdds, e, both

LEMMA TicketStep ==
  ASSUME NoneIsNoFunction, KeysInv, NEW nonce, NewTicket(nonce)
  PROVE  KeysInv'
<1>. DEFINE y == TicketHold(ks.setup, ks.hrr, nonce)
<1>1. /\ DOMAIN ks' = DOMAIN ks /\ ks'.setup = ks.setup /\ ks'.hrr = ks.hrr
      /\ ks.at = "open" /\ ks'.at = "open"
      /\ ks'.client = Ticket(ks.client, nonce) /\ ks'.server = Ticket(ks.server, nonce)
  BY DEF NewTicket, KeysInv, KeysShape
<1>2. /\ HeldInv(ks.setup, ks.hrr, Held) /\ ks.client.got \subseteq Held /\ ks.server.got \subseteq Held
      /\ Done(ks.setup, ks.hrr, ks.client.sch, ks.client.got)
      /\ Done(ks.setup, ks.hrr, ks.server.sch, ks.server.got)
      /\ ks.client = End(ks.client.sch, ks.client.transcript, ks.client.got)
      /\ ks.server = End(ks.server.sch, ks.server.transcript, ks.server.got)
  BY <1>1 DEF KeysInv, KeysShape, OpenInv, Held
<1>3. TicketAdds(ks.setup, ks.hrr, ks.client.sch, ks.client.transcript, ks.client.got, ks'.client, y)
  <2>. DEFINE sch == ks.client.sch
              seen == ks.client.transcript
              held == ks.client.got
              all == Held
              setup == ks.setup
              hrr == ks.hrr
  <2>1. /\ ks'.client = Ticket(End(sch, seen, held), nonce) /\ held \subseteq all
        /\ Done(setup, hrr, sch, held) /\ HeldInv(setup, hrr, all)
    BY <1>1, <1>2
  <2>. HIDE DEF sch, seen, held, all, setup, hrr
  <2>2. TicketAdds(setup, hrr, sch, seen, held, Ticket(End(sch, seen, held), nonce),
                   TicketHold(setup, hrr, nonce))
    BY <2>1, TicketOfOne
  <2>3. TicketAdds(setup, hrr, sch, seen, held, ks'.client, TicketHold(setup, hrr, nonce))
    BY <2>1, <2>2, Zenon
  <2>. QED  BY <2>3 DEF sch, seen, held, setup, hrr
<1>0. TicketAdds(ks.setup, ks.hrr, ks.server.sch, ks.server.transcript, ks.server.got, ks'.server, y)
  <2>. DEFINE sch == ks.server.sch
              seen == ks.server.transcript
              held == ks.server.got
              all == Held
              setup == ks.setup
              hrr == ks.hrr
  <2>1. /\ ks'.server = Ticket(End(sch, seen, held), nonce) /\ held \subseteq all
        /\ Done(setup, hrr, sch, held) /\ HeldInv(setup, hrr, all)
    BY <1>1, <1>2
  <2>. HIDE DEF sch, seen, held, all, setup, hrr
  <2>2. TicketAdds(setup, hrr, sch, seen, held, Ticket(End(sch, seen, held), nonce),
                   TicketHold(setup, hrr, nonce))
    BY <2>1, TicketOfOne
  <2>3. TicketAdds(setup, hrr, sch, seen, held, ks'.server, TicketHold(setup, hrr, nonce))
    BY <2>1, <2>2, Zenon
  <2>. QED  BY <2>3 DEF sch, seen, held, setup, hrr
<1>4. HeldInv(ks.setup, ks.hrr, Held \cup {y})
  <2>1. FixedHold(ks.setup, ks.hrr, y)
    BY FixedHolds DEF TicketHold
  <2>. HIDE DEF y
  <2>. QED  BY <1>2, <2>1, AddFixed DEF FixedHold
<1>. HIDE DEF y
<1>5. /\ ks'.client.sch = ks.client.sch /\ ks'.client.got = ks.client.got \cup {y}
      /\ ks'.client = End(ks'.client.sch, ks'.client.transcript, ks'.client.got)
      /\ Done(ks.setup, ks.hrr, ks'.client.sch, ks'.client.got)
  BY <1>3 DEF TicketAdds
<1>6. /\ ks'.server.sch = ks.server.sch /\ ks'.server.got = ks.server.got \cup {y}
      /\ ks'.server = End(ks'.server.sch, ks'.server.transcript, ks'.server.got)
      /\ Done(ks.setup, ks.hrr, ks'.server.sch, ks'.server.got)
  BY <1>0 DEF TicketAdds
<1>7. Held' = Held \cup {y}
  BY <1>5, <1>6 DEF Held
<1>8. KeysShape'
  BY <1>1, <1>5, <1>6 DEF KeysInv, KeysShape
<1>9. HelloInv' /\ FlightInv'
  BY <1>1 DEF HelloInv, FlightInv, NotYet
<1>10. OpenInv'
  BY <1>1, <1>5, <1>6 DEF OpenInv
<1>11. HeldInv(ks.setup, ks.hrr, Held)'
  BY <1>1, <1>4, <1>7
<1>. QED  BY <1>8, <1>9, <1>10, <1>11 DEF KeysInv

-----------------------------------------------------------------------------
(* What the invariant says.  First, no two secrets give one key or iv.     *)
KeyOf(h) == TrafficKey(h.secret).key
IvOf(h) == TrafficKey(h.secret).iv

LEMMA KeyTells ==
  /\ \A g, h : KeyOf(g) = KeyOf(h) => g.secret = h.secret
  /\ \A g, h : IvOf(g) = IvOf(h) => g.secret = h.secret
  /\ \A g, h : KeyOf(g) # IvOf(h)
<1>1. \A h : /\ KeyOf(h).from = h.secret /\ KeyOf(h).label = "key"
             /\ IvOf(h).from = h.secret /\ IvOf(h).label = "iv"
  BY DEF KeyOf, IvOf, TrafficKey, ExpandLabel
<1>2. \A g, h : KeyOf(g) = KeyOf(h) => g.secret = h.secret
  BY <1>1
<1>3. \A g, h : IvOf(g) = IvOf(h) => g.secret = h.secret
  BY <1>1
<1>4. \A g, h : KeyOf(g) # IvOf(h)
  BY <1>1
<1>. QED  BY <1>2, <1>3, <1>4

LEMMA TrafficKeysApart ==
  ASSUME NEW T, IsFiniteSet(T), \A g, h \in T : g.secret = h.secret => g = h
  PROVE  Cardinality(UNION {{TrafficKey(h.secret).key, TrafficKey(h.secret).iv} : h \in T})
           = 2 * Cardinality(T)
<1>. DEFINE K == {KeyOf(h) : h \in T}
            V == {IvOf(h) : h \in T}
            k == [h \in T |-> KeyOf(h)]
            v == [h \in T |-> IvOf(h)]
<1>1. k \in Bijection(T, K) /\ v \in Bijection(T, V)
  <2>1. k \in [T -> K] /\ v \in [T -> V]
    OBVIOUS
  <2>2. IsInjective(k) /\ IsInjective(v)
    BY KeyTells DEF IsInjective
  <2>3. /\ \A x \in K : \E h \in T : k[h] = x
        /\ \A x \in V : \E h \in T : v[h] = x
    OBVIOUS
  <2>. QED  BY <2>1, <2>2, <2>3 DEF Bijection, Injection, Surjection
<1>. HIDE DEF k, v
<1>2. IsFiniteSet(K) /\ Cardinality(K) = Cardinality(T)
  <2>1. ExistsBijection(T, K)
    BY <1>1 DEF ExistsBijection
  <2>. QED  BY <2>1, FS_Bijection
<1>3. IsFiniteSet(V) /\ Cardinality(V) = Cardinality(T)
  <2>1. ExistsBijection(T, V)
    BY <1>1 DEF ExistsBijection
  <2>. QED  BY <2>1, FS_Bijection
<1>4. K \cap V = {}
  BY KeyTells
<1>5. UNION {{TrafficKey(h.secret).key, TrafficKey(h.secret).iv} : h \in T} = K \cup V
  BY DEF KeyOf, IvOf
<1>. HIDE DEF K, V
<1>6. Cardinality(K \cup V) = Cardinality(K) + Cardinality(V) - Cardinality(K \cap V)
  BY <1>2, <1>3, FS_Union
<1>7. Cardinality(K \cap V) = 0 /\ Cardinality(T) \in Nat
  BY <1>4, FS_EmptySet, FS_CardinalityType
<1>8. Cardinality(K \cup V) = 2 * Cardinality(T)
  BY <1>2, <1>3, <1>6, <1>7
<1>. QED  BY <1>5, <1>8, Zenon

(* Then, what is exported tells the label and the context.                 *)
LEMMA ExportedTells ==
  ASSUME NoneIsNoFunction, NEW X, X # None
  PROVE  /\ \A l : /\ GetExportedKeyingMaterial(X, l, None).from.label = l
                   /\ GetExportedKeyingMaterial(X, l, None).ctx = <<"hash">>
                   /\ GetExportedKeyingMaterial(X, l, <<"c">>).from.label = l
                   /\ GetExportedKeyingMaterial(X, l, <<"c">>).ctx = <<"hash", "c">>
<1>1. <<"c">> # None
  BY Present
<1>2. <<"hash">> \o <<>> = <<"hash">> /\ <<"hash">> \o <<"c">> = <<"hash", "c">>
  BY TwoMore
<1>3. ASSUME NEW l
      PROVE  /\ GetExportedKeyingMaterial(X, l, None)
                  = ExpandLabel(DeriveSecret(X, l, Blank), "exporter", <<"hash">>, HashLength)
             /\ GetExportedKeyingMaterial(X, l, <<"c">>)
                  = ExpandLabel(DeriveSecret(X, l, Blank), "exporter", <<"hash", "c">>, HashLength)
  <2>1. GetExportedKeyingMaterial(X, l, None)
          = ExpandLabel(DeriveSecret(X, l, Blank), "exporter", <<"hash">> \o <<>>, HashLength)
    BY Zenon DEF GetExportedKeyingMaterial
  <2>2. GetExportedKeyingMaterial(X, l, <<"c">>)
          = ExpandLabel(DeriveSecret(X, l, Blank), "exporter", <<"hash">> \o <<"c">>, HashLength)
    BY <1>1, Zenon DEF GetExportedKeyingMaterial
  <2>. QED  BY <1>2, <2>1, <2>2, Zenon
<1>4. \A s, x : ExpandLabel(s, "exporter", x, HashLength).from = s
                /\ ExpandLabel(s, "exporter", x, HashLength).ctx = x
  BY DEF ExpandLabel
<1>5. \A l : DeriveSecret(X, l, Blank).label = l
  BY DEF DeriveSecret, ExpandLabel
<1>. QED  BY <1>3, <1>4, <1>5

LEMMA OneElementMore ==
  ASSUME NEW T, NEW e, NEW n \in Nat, IsFiniteSet(T), Cardinality(T) = n, e \notin T
  PROVE  IsFiniteSet(T \cup {e}) /\ Cardinality(T \cup {e}) = n + 1
BY FS_AddElement

LEMMA FourDistinct ==
  ASSUME NEW a, NEW b, NEW c, NEW d, a # b, a # c, a # d, b # c, b # d, c # d
  PROVE  Cardinality({a, b, c, d}) = 4
<1>. DEFINE two == {a} \cup {b}
            three == two \cup {c}
            four == three \cup {d}
<1>1. b \notin {a} /\ c \notin two /\ d \notin three /\ four = {a, b, c, d}
  OBVIOUS
<1>2. IsFiniteSet({a}) /\ Cardinality({a}) = 1
  BY FS_Singleton
<1>3. IsFiniteSet(two) /\ Cardinality(two) = 2
  BY <1>1, <1>2, OneElementMore
<1>. HIDE DEF two
<1>4. IsFiniteSet(three) /\ Cardinality(three) = 3
  BY <1>1, <1>3, OneElementMore
<1>. HIDE DEF three
<1>5. Cardinality(four) = 4
  BY <1>1, <1>4, OneElementMore
<1>. QED  BY <1>1, <1>5

LEMMA ExportsApart ==
  ASSUME NoneIsNoFunction, NEW setup, NEW hrr, NEW all, HeldInv(setup, hrr, all)
  PROVE  Cardinality(Exports(all)) = IF \E h \in all : h.use = "exporter" THEN 4 ELSE 0
<1>1. CASE ~\E h \in all : h.use = "exporter"
  <2>1. Exports(all) = {}
    BY <1>1 DEF Exports
  <2>. QED  BY <1>1, <2>1, FS_EmptySet
<1>2. CASE \E h \in all : h.use = "exporter"
  <2>. DEFINE X == Master(setup, hrr, "exp master")
              E(l, c) == GetExportedKeyingMaterial(X, l, c)
  <2>1. \A h \in all : h.use = "exporter" => h.secret = X
    BY DEF HeldInv, Fixed, FixedEarly, Moved, Sides
  <2>2. X # None
    BY Present DEF Master, DeriveSecret
  <2>. HIDE DEF X
  <2>3. Exports(all) = {E(l, c) : l \in {"a", "b"}, c \in {None, <<"c">>}}
    BY <1>2, <2>1 DEF Exports
  <2>4. {E(l, c) : l \in {"a", "b"}, c \in {None, <<"c">>}}
          = {E("a", None), E("b", None), E("a", <<"c">>), E("b", <<"c">>)}
    <3>. HIDE DEF E
    <3>. QED  OBVIOUS
  <2>5. /\ E("a", None) # E("b", None) /\ E("a", None) # E("a", <<"c">>)
        /\ E("a", None) # E("b", <<"c">>) /\ E("b", None) # E("a", <<"c">>)
        /\ E("b", None) # E("b", <<"c">>) /\ E("a", <<"c">>) # E("b", <<"c">>)
    <3>1. /\ E("a", None).from.label = "a" /\ E("a", None).ctx = <<"hash">>
          /\ E("b", None).from.label = "b" /\ E("b", None).ctx = <<"hash">>
          /\ E("a", <<"c">>).from.label = "a" /\ E("a", <<"c">>).ctx = <<"hash", "c">>
          /\ E("b", <<"c">>).from.label = "b" /\ E("b", <<"c">>).ctx = <<"hash", "c">>
      BY <2>2, ExportedTells
    <3>. HIDE DEF E
    <3>2. <<"hash">> # <<"hash", "c">>
      OBVIOUS
    <3>. QED  BY <3>1, <3>2
  <2>. HIDE DEF E
  <2>6. Cardinality({E("a", None), E("b", None), E("a", <<"c">>), E("b", <<"c">>)}) = 4
    BY <2>5, FourDistinct
  <2>7. Cardinality(Exports(all)) = 4
    BY <2>3, <2>4, <2>6
  <2>. QED  BY <1>2, <2>7
<1>. QED  BY <1>1, <1>2

LEMMA KeysInvSays ==
  ASSUME NoneIsNoFunction, KeysInv
  PROVE  KeySchedulesAgree
<1>. DEFINE traffic == TrafficHeld(Held)
<1>0. HeldInv(ks.setup, ks.hrr, Held)
  BY DEF KeysInv
<1>1. ks.client.sch.err = None /\ ks.server.sch.err = None
  <2>1. NewScheduler.err = None
    BY DEF NewScheduler
  <2>2. \A t, s, a : Sched(t, s, a).err = None
    BY SchedIs
  <2>3. /\ \A setup, t : MasterScheduler(setup, t).err = None
        /\ \A setup : HandshakeScheduler(setup).err = None
    BY <2>2 DEF MasterScheduler, HandshakeScheduler
  <2>4. \A setup, hrr, sch, got : Done(setup, hrr, sch, got) => sch.err = None
    BY <2>2 DEF Done
  <2>5. CASE ks.at \in NotYet
    BY <2>1, <2>5 DEF KeysInv, HelloInv
  <2>6. CASE ks.at = "flight"
    BY <2>1, <2>3, <2>6 DEF KeysInv, FlightInv
  <2>7. CASE ks.at = "client handshake"
    <3>1. /\ ks.client.sch = HandshakeScheduler(ks.setup)
          /\ ks.server.sch = MasterScheduler(ks.setup, ToFlight(ks.setup, ks.hrr))
      BY <2>7 DEF KeysInv, FlightInv
    <3>. QED  BY <2>3, <3>1
  <2>8. CASE ks.at = "client finished"
    <3>1. /\ Done(ks.setup, ks.hrr, ks.client.sch, ks.client.got)
          /\ ks.server.sch = MasterScheduler(ks.setup, ToFlight(ks.setup, ks.hrr))
      BY <2>8 DEF KeysInv, FlightInv, OpenInv
    <3>. QED  BY <2>3, <2>4, <3>1
  <2>9. CASE ks.at = "open"
    BY <2>4, <2>9 DEF KeysInv, OpenInv
  <2>. QED  BY <2>5, <2>6, <2>7, <2>8, <2>9 DEF KeysInv, KeysShape, Phases
<1>2. \A h \in Held : h.secret # None
  <2>. SUFFICES ASSUME NEW h \in Held PROVE h.secret # None
    OBVIOUS
  <2>1. \A f, l, c, n : ExpandLabel(f, l, c, n) # None
    BY Present
  <2>2. CASE Moved(h, Held)
    <3>1. PICK g : h.secret = Updated(g.secret)
      BY <2>2 DEF Moved
    <3>. QED  BY <2>1, <3>1 DEF Updated
  <2>3. CASE Fixed(ks.setup, ks.hrr, h)
    <3>1. /\ BinderSecret(ks.setup) # None
          /\ \A l : EarlySecret(l) # None
          /\ \A l : HandshakeTraffic(ks.setup, ks.hrr, l) # None
          /\ \A l : Master(ks.setup, ks.hrr, l) # None
          /\ Resumption(ks.setup, ks.hrr) # None
          /\ \A x, n : GetResumptionSecret(x, n) # None
      BY <2>1 DEF BinderSecret, EarlySecret, HandshakeTraffic, Master, Resumption, DeriveSecret,
                  GetResumptionSecret
    <3>. QED  BY <2>3, <3>1 DEF Fixed, FixedEarly
  <2>. QED  BY <1>0, <2>2, <2>3 DEF HeldInv
<1>3. Apart(Held)
  BY <1>0 DEF HeldInv
<1>4. Cardinality(UNION {{TrafficKey(h.secret).key, TrafficKey(h.secret).iv} : h \in traffic})
        = 2 * Cardinality(traffic)
  <2>1. IsFiniteSet(traffic)
    BY <1>0, FS_Subset DEF HeldInv, TrafficHeld
  <2>2. \A g, h \in Held : g.secret = h.secret => g = h
    BY <1>0, <1>3 DEF HeldInv, Apart
  <2>3. \A g, h \in traffic : g.secret = h.secret => g = h
    BY <2>2 DEF TrafficHeld
  <2>. HIDE DEF traffic
  <2>. QED  BY <2>1, <2>3, TrafficKeysApart
<1>5. Cardinality(Exports(Held)) = IF \E h \in Held : h.use = "exporter" THEN 4 ELSE 0
  BY <1>0, ExportsApart
<1>6. ks.at = "failed" =>
        ks.setup.otherServer \/ \A i \in DOMAIN ks.secrets : ks.secrets[i] # TokenSecret(1)
  BY DEF KeysInv, HelloInv
<1>7. ks.at = "open" => ks.client.sch.secret = None /\ ks.server.sch.secret = None
  <2>1. \A t, s, a : Sched(t, s, a).secret = s
    BY SchedIs
  <2>2. \A setup, hrr, sch, got : Done(setup, hrr, sch, got) => sch.secret = None
    BY <2>1 DEF Done
  <2>. QED  BY <2>2 DEF KeysInv, OpenInv
<1>. DEFINE all == ks.client.got \cup ks.server.got
<1>8. Held = all
  BY DEF Held
<1>9. Apart(all) /\ \A h \in all : h.secret # None
  BY <1>2, <1>3, <1>8
<1>10. \A g, h \in all : (g.secret = h.secret) <=> (g.use = h.use /\ g.gen = h.gen)
  BY <1>9 DEF Apart
<1>11. Cardinality(UNION {{TrafficKey(h.secret).key, TrafficKey(h.secret).iv} :
                            h \in TrafficHeld(all)})
         = 2 * Cardinality(TrafficHeld(all))
  BY <1>4, <1>8, Zenon
<1>12. Cardinality(Exports(all)) = IF \E h \in all : h.use = "exporter" THEN 4 ELSE 0
  BY <1>5, <1>8, Zenon
<1>. QED
  <2>1. ks.client.got \cup ks.server.got = all
    OBVIOUS
  <2>. HIDE DEF all
  <2>. QED  BY <1>1, <1>6, <1>7, <1>9, <1>10, <1>11, <1>12, <2>1 DEF KeySchedulesAgree

LEMMA KeysInvInit ==
  ASSUME KeyScheduleInit
  PROVE  KeysInv
<1>1. PICK setup \in KeySetups :
        ks = [setup |-> setup, at |-> "start", binder |-> None, hrr |-> None,
              secrets |-> <<TokenSecret(1)>>, client |-> NewEnd, server |-> NewEnd]
  BY DEF KeyScheduleInit
<1>2. /\ DOMAIN ks = {"setup", "at", "binder", "hrr", "secrets", "client", "server"}
      /\ ks.setup = setup /\ ks.at = "start" /\ ks.secrets = <<TokenSecret(1)>>
      /\ ks.client = NewEnd /\ ks.server = NewEnd
  BY <1>1
<1>3. /\ NewEnd.sch = NewScheduler /\ NewEnd.transcript = <<>> /\ NewEnd.got = {}
      /\ NewEnd = End(NewEnd.sch, NewEnd.transcript, NewEnd.got)
  BY DEF NewEnd, End
<1>4. Held = {}
  BY <1>2, <1>3 DEF Held
<1>5. KeysShape
  BY <1>2, <1>3 DEF KeysShape, Phases, NotYet
<1>6. HelloInv
  BY <1>2, <1>3, <1>4 DEF HelloInv, NotYet
<1>7. FlightInv /\ OpenInv
  BY <1>2 DEF FlightInv, OpenInv
<1>8. HeldInv(ks.setup, ks.hrr, Held)
  BY <1>4, FS_EmptySet DEF HeldInv, Apart
<1>. QED  BY <1>5, <1>6, <1>7, <1>8 DEF KeysInv

LEMMA KeysInvNext ==
  ASSUME NoneIsNoFunction, KeysInv, [KeyScheduleNext]_ks
  PROVE  KeysInv'
<1>1. CASE UNCHANGED ks
  <2>1. Held' = Held /\ KeysShape' /\ OpenInv'
    BY <1>1 DEF KeysInv, KeysShape, OpenInv, Held
  <2>2. HelloInv'
    BY <1>1, <2>1 DEF KeysInv, HelloInv
  <2>3. FlightInv'
    BY <1>1 DEF KeysInv, FlightInv
  <2>4. HeldInv(ks.setup, ks.hrr, Held)'
    BY <1>1, <2>1 DEF KeysInv
  <2>. QED  BY <2>1, <2>2, <2>3, <2>4 DEF KeysInv
<1>2. CASE \E side \in {"client", "server"} : WriteKeyUpdate(side)
  <2>1. PICK side \in Sides : WriteKeyUpdate(side)
    BY <1>2 DEF Sides
  <2>2. MovesAt(side, side)
    BY <2>1 DEF WriteKeyUpdate, MovesAt
  <2>3. ks.at = "open" \/ (ks.at = "client finished" /\ side = "client")
    BY <2>1 DEF WriteKeyUpdate
  <2>. QED  BY <2>2, <2>3, MovesStep
<1>3. CASE \E side \in {"client", "server"} :
             ReadKeyUpdate(side, IF side = "client" THEN "server" ELSE "client")
  <2>1. PICK side \in Sides, other \in Sides : ReadKeyUpdate(side, other)
    BY <1>3 DEF Sides
  <2>2. MovesAt(side, other) /\ ks.at = "open"
    BY <2>1 DEF ReadKeyUpdate, MovesAt
  <2>. QED  BY <2>2, MovesStep
<1>4. CASE \E nonce \in TicketNonces : NewTicket(nonce)
  BY <1>4, TicketStep
<1>. QED  BY <1>1, <1>2, <1>3, <1>4, HelloStep, StatefulRetryStep, StatelessRetryStep, RotateStep,
             SecondHelloStep, RefusedStep, FlightStep, ServerHelloStep, ClientFinishedStep,
             ServerFinishedStep DEF KeyScheduleNext

(* The two ends of a connection get the same secret for the same use and   *)
(* generation and no secret, key or iv serves two, whatever is offered and *)
(* chosen, however many key updates and tickets there are, and with the    *)
(* server's part of the transcript coming back in a cookie                 *)
(* (KeyScheduler.cpp, FizzServer's and FizzClient's handlers).             *)
THEOREM KeySchedulesHold ==
  ASSUME NoneIsNoFunction
  PROVE  KeyScheduleSpec => []KeySchedulesAgree
<1>1. KeyScheduleInit => KeysInv
  BY KeysInvInit
<1>2. KeysInv /\ [KeyScheduleNext]_ks => KeysInv'
  BY KeysInvNext
<1>3. KeysInv => KeySchedulesAgree
  BY KeysInvSays
<1>. QED  BY <1>1, <1>2, <1>3, PTL DEF KeyScheduleSpec

-----------------------------------------------------------------------------
(***************************************************************************)
(* Certificates and credentials.  What the managers hold is what the end   *)
(* was given, under names that it has; a handshake changes neither, so the *)
(* choice and the verdict are those of the managers as they stand.         *)
(***************************************************************************)
CredentialsSpec == CredentialsInit /\ [][CredentialsNext]_cr

LEMMA FirstPlaceIs ==
  ASSUME NEW N \in SUBSET Nat, N # {}
  PROVE  FirstPlace(N) \in N
<1>. DEFINE less == OpToRel(<, Nat)
<1>1. IsWellFoundedOn(less, Nat)
  BY NatLessThanWellFounded DEF OpToRel
<1>2. PICK x \in N : \A y \in N : ~(<<y, x>> \in less)
  <2>. HIDE DEF less
  <2>. QED  BY <1>1, WFMin
<1>3. \A y \in N : ~(y < x)
  BY <1>2 DEF OpToRel
<1>4. \A y \in N : x <= y
  BY <1>3
<1>. QED  BY <1>4 DEF FirstPlace

(* What a manager finds.                                                   *)
Found(cert, scheme, type) == [cert |-> cert, scheme |-> scheme, type |-> type]

LEMMA FindCertIs ==
  ASSUME NEW mgr, NEW key, NEW schemes
  PROVE  \/ /\ FindCert(mgr, key, schemes) = None
            /\ \A s \in Range(CredSupported) : ~(<<key, s>> \in DOMAIN mgr.certs /\ s \in schemes)
         \/ \E s \in Range(CredSupported) :
              /\ <<key, s>> \in DOMAIN mgr.certs /\ s \in schemes
              /\ FindCert(mgr, key, schemes) = Found(mgr.certs[<<key, s>>], s, "Direct")
<1>. DEFINE found == {i \in DOMAIN CredSupported :
                        <<key, CredSupported[i]>> \in DOMAIN mgr.certs /\ CredSupported[i] \in schemes}
            scheme == CredSupported[FirstPlace(found)]
<1>1. found \in SUBSET Nat
  <2>1. IsList(CredSupported)
    BY CredentialsAssumption
  <2>2. DOMAIN CredSupported = 1 .. Len(CredSupported) /\ Len(CredSupported) \in Nat
    BY <2>1 DEF IsList
  <2>. QED  BY <2>2
<1>2. FindCert(mgr, key, schemes) =
        IF found = {} THEN None ELSE [cert |-> mgr.certs[<<key, scheme>>], scheme |-> scheme, type |-> "Direct"]
  BY DEF FindCert
<1>3. CASE found = {}
  <2>1. \A s \in Range(CredSupported) : ~(<<key, s>> \in DOMAIN mgr.certs /\ s \in schemes)
    BY <1>3 DEF Range
  <2>. QED  BY <1>2, <1>3, <2>1
<1>4. CASE found # {}
  <2>1. FirstPlace(found) \in found
    <3>. HIDE DEF found
    <3>. QED  BY <1>1, <1>4, FirstPlaceIs
  <2>2. scheme \in Range(CredSupported) /\ <<key, scheme>> \in DOMAIN mgr.certs /\ scheme \in schemes
    BY <2>1 DEF Range
  <2>3. FindCert(mgr, key, schemes) = Found(mgr.certs[<<key, scheme>>], scheme, "Direct")
    BY <1>2, <1>4 DEF Found
  <2>. HIDE DEF scheme
  <2>. QED  BY <2>2, <2>3
<1>. QED  BY <1>3, <1>4

LEMMA GetClientCertIs ==
  ASSUME NEW mgr, NEW schemes
  PROVE  \/ /\ GetClientCert(mgr, schemes) = None
            /\ \A s \in Range(CredSupported) : ~(s \in DOMAIN mgr.certs /\ s \in schemes)
         \/ \E s \in Range(CredSupported) :
              /\ s \in DOMAIN mgr.certs /\ s \in schemes
              /\ GetClientCert(mgr, schemes) = Found(mgr.certs[s], s, "Default")
<1>. DEFINE found == {i \in DOMAIN CredSupported :
                        CredSupported[i] \in DOMAIN mgr.certs /\ CredSupported[i] \in schemes}
            scheme == CredSupported[FirstPlace(found)]
<1>1. found \in SUBSET Nat
  <2>1. IsList(CredSupported)
    BY CredentialsAssumption
  <2>2. DOMAIN CredSupported = 1 .. Len(CredSupported) /\ Len(CredSupported) \in Nat
    BY <2>1 DEF IsList
  <2>. QED  BY <2>2
<1>2. GetClientCert(mgr, schemes) =
        IF found = {} THEN None ELSE [cert |-> mgr.certs[scheme], scheme |-> scheme, type |-> "Default"]
  BY DEF GetClientCert
<1>3. CASE found = {}
  <2>1. \A s \in Range(CredSupported) : ~(s \in DOMAIN mgr.certs /\ s \in schemes)
    BY <1>3 DEF Range
  <2>. QED  BY <1>2, <1>3, <2>1
<1>4. CASE found # {}
  <2>1. FirstPlace(found) \in found
    <3>. HIDE DEF found
    <3>. QED  BY <1>1, <1>4, FirstPlaceIs
  <2>2. scheme \in Range(CredSupported) /\ scheme \in DOMAIN mgr.certs /\ scheme \in schemes
    BY <2>1 DEF Range
  <2>3. GetClientCert(mgr, schemes) = Found(mgr.certs[scheme], scheme, "Default")
    BY <1>2, <1>4 DEF Found
  <2>. HIDE DEF scheme
  <2>. QED  BY <2>2, <2>3
<1>. QED  BY <1>3, <1>4

(* Names.                                                                  *)
LEMMA ListIs ==
  ASSUME NEW s, IsList(s)
  PROVE  Len(s) \in Nat /\ DOMAIN s = 1 .. Len(s)
BY DEF IsList

LEMMA ListsEqual ==
  ASSUME NEW s, NEW t, IsList(s), IsList(t), Len(s) = Len(t), \A i \in 1 .. Len(s) : s[i] = t[i]
  PROVE  s = t
BY SMTT(60) DEF IsList

LEMMA ListOf ==
  ASSUME NEW Els, NEW s \in Seq(Els)
  PROVE  IsList(s)
<1>1. Len(s) \in Nat /\ s = [i \in 1 .. Len(s) |-> s[i]]
  OBVIOUS
<1>2. \A i \in 1 .. Len(s) : s[i] \in {s[j] : j \in DOMAIN s}
  BY <1>1
<1>. QED  BY <1>1, <1>2 DEF IsList

LEMMA NoLabelIs == NoLabel \notin {"*", "a", "A"}
BY Zenon DEF NoLabel

LEMMA LowerIs ==
  ASSUME NEW name, IsList(name)
  PROVE  /\ IsList(Lower(name)) /\ Len(Lower(name)) = Len(name)
         /\ \A i \in 1 .. Len(name) : /\ (Lower(name)[i] = "*" <=> name[i] = "*")
                                       /\ (Lower(name)[i] = NoLabel <=> name[i] = NoLabel)
                                       /\ Lower(name)[i] = IF name[i] = "A" THEN "a" ELSE name[i]
<1>0. Len(name) \in Nat /\ DOMAIN name = 1 .. Len(name)
  BY ListIs
<1>. DEFINE low == [i \in 1 .. Len(name) |->
                      IF name[i] \in DOMAIN LowerOf THEN LowerOf[name[i]] ELSE name[i]]
            Els == {low[i] : i \in 1 .. Len(name)}
<1>1. DOMAIN LowerOf = {"A"} /\ LowerOf["A"] = "a"
  BY DEF LowerOf
<1>2. Lower(name) = low
  BY <1>0 DEF Lower
<1>4. \A i \in 1 .. Len(name) : low[i] = IF name[i] = "A" THEN "a" ELSE name[i]
  BY <1>1
<1>5. low \in Seq(Els) /\ Len(low) = Len(name)
  BY <1>0
<1>. HIDE DEF low, Els
<1>6. \A i \in 1 .. Len(name) : /\ (low[i] = "*" <=> name[i] = "*")
                                /\ (low[i] = NoLabel <=> name[i] = NoLabel)
  BY <1>4, NoLabelIs
<1>7. IsList(low)
  BY <1>5, ListOf
<1>. QED  BY <1>2, <1>4, <1>5, <1>6, <1>7

LEMMA ListsTogether ==
  ASSUME NEW s, NEW t, IsList(s), IsList(t)
  PROVE  /\ IsList(s \o t) /\ Len(s \o t) = Len(s) + Len(t)
         /\ \A i \in 1 .. Len(s) : (s \o t)[i] = s[i]
         /\ \A i \in 1 .. Len(t) : (s \o t)[Len(s) + i] = t[i]
<1>. DEFINE Els == {s[i] : i \in DOMAIN s} \cup {t[i] : i \in DOMAIN t}
<1>1. s \in Seq(Els) /\ t \in Seq(Els)
  BY DEF IsList
<1>2. s \o t \in Seq(Els)
  BY <1>1
<1>3. IsList(s \o t)
  BY <1>2, ListOf
<1>. QED  BY <1>1, <1>2, <1>3

LEMMA WildcardKeyIs ==
  ASSUME NEW key, IsList(key), key # <<>>
  PROVE  /\ IsList(WildcardKey(key)) /\ Len(WildcardKey(key)) = Len(key)
         /\ WildcardKey(key)[1] = NoLabel
         /\ \A i \in 2 .. Len(key) : WildcardKey(key)[i] = key[i]
<1>. DEFINE Els == {key[i] : i \in DOMAIN key}
            rest == Tail(key)
            one == <<NoLabel>>
            k == one \o rest
<1>1. key \in Seq(Els)
  BY DEF IsList
<1>2. Len(key) \in Nat \ {0}
  BY <1>1
<1>. HIDE DEF Els
<1>3. /\ rest \in Seq(Els) /\ Len(rest) = Len(key) - 1
      /\ \A i \in 1 .. Len(key) - 1 : rest[i] = key[i + 1]
  BY <1>1, <1>2
<1>4. one \in Seq({NoLabel}) /\ Len(one) = 1 /\ one[1] = NoLabel
  OBVIOUS
<1>5. WildcardKey(key) = k
  BY DEF WildcardKey
<1>. HIDE DEF rest, one
<1>6. IsList(one) /\ IsList(rest)
  BY <1>3, <1>4, ListOf
<1>7. /\ IsList(k) /\ Len(k) = Len(one) + Len(rest)
      /\ \A i \in 1 .. Len(one) : k[i] = one[i]
      /\ \A i \in 1 .. Len(rest) : k[Len(one) + i] = rest[i]
  BY <1>6, ListsTogether
<1>. HIDE DEF k
<1>8. Len(k) = Len(key) /\ k[1] = NoLabel
  BY <1>2, <1>3, <1>4, <1>7
<1>9. ASSUME NEW i \in 2 .. Len(key) PROVE k[i] = key[i]
  <2>1. i - 1 \in 1 .. Len(rest) /\ i - 1 \in 1 .. Len(key) - 1
    BY <1>2, <1>3
  <2>2. k[Len(one) + (i - 1)] = rest[i - 1] /\ rest[i - 1] = key[(i - 1) + 1]
    BY <1>3, <1>7, <2>1
  <2>3. Len(one) + (i - 1) = i /\ (i - 1) + 1 = i
    BY <1>2, <1>4
  <2>. QED  BY <2>2, <2>3
<1>. QED  BY <1>5, <1>7, <1>8, <1>9

(* A name has the key that it is looked up by.                             *)
NameFits(name, sni) ==
  \/ name = Lower(sni)
  \/ name[1] = "*" /\ Len(sni) > 1 /\ Tail(name) = Tail(Lower(sni))
LooksUp(key, sni) ==
  key = Lower(sni) \/ (Len(sni) > 1 /\ key = WildcardKey(Lower(sni)))

LEMMA HasNameIs ==
  ASSUME NEW cert, NEW sni
  PROVE  HasName(cert, sni) <=>
           \E i \in DOMAIN Identities(cert) : NameFits(Lower(Identities(cert)[i]), sni)
BY DEF HasName, NameFits, Identities

LEMMA TailsEqual ==
  ASSUME NEW s, NEW t, IsList(s), IsList(t), Len(s) > 0, Len(t) > 0
  PROVE  Tail(s) = Tail(t) <=> Len(s) = Len(t) /\ \A i \in 2 .. Len(s) : s[i] = t[i]
<1>. DEFINE Els == {s[i] : i \in DOMAIN s} \cup {t[i] : i \in DOMAIN t}
            a == Tail(s)
            b == Tail(t)
<1>1. s \in Seq(Els) /\ t \in Seq(Els)
  BY DEF IsList
<1>. HIDE DEF Els
<1>2. /\ Len(s) \in Nat /\ Len(t) \in Nat
      /\ a \in Seq(Els) /\ Len(a) = Len(s) - 1 /\ \A i \in 1 .. Len(s) - 1 : a[i] = s[i + 1]
      /\ b \in Seq(Els) /\ Len(b) = Len(t) - 1 /\ \A i \in 1 .. Len(t) - 1 : b[i] = t[i + 1]
  BY <1>1
<1>. HIDE DEF a, b
<1>3. IsList(a) /\ IsList(b)
  BY <1>2, ListOf
<1>4. ASSUME a = b PROVE Len(s) = Len(t) /\ \A i \in 2 .. Len(s) : s[i] = t[i]
  <2>1. Len(s) = Len(t)
    BY <1>2, <1>4
  <2>2. ASSUME NEW i \in 2 .. Len(s) PROVE s[i] = t[i]
    <3>1. i - 1 \in 1 .. Len(s) - 1 /\ (i - 1) + 1 = i
      BY <1>2
    <3>. QED  BY <1>2, <1>4, <2>1, <3>1
  <2>. QED  BY <2>1, <2>2
<1>5. ASSUME Len(s) = Len(t), \A i \in 2 .. Len(s) : s[i] = t[i] PROVE a = b
  <2>1. ASSUME NEW i \in 1 .. Len(a) PROVE a[i] = b[i]
    <3>1. i \in 1 .. Len(s) - 1 /\ i + 1 \in 2 .. Len(s)
      BY <1>2
    <3>. QED  BY <1>2, <1>5, <3>1
  <2>. QED  BY <1>2, <1>3, <1>5, <2>1, ListsEqual
<1>. QED  BY <1>4, <1>5 DEF a, b

LEMMA KeyIs ==
  ASSUME NEW name, IsList(name), ~InvalidIdent(name)
  PROVE  /\ Len(name) > 0 /\ IsList(GetKeyFromIdent(name)) /\ Len(GetKeyFromIdent(name)) = Len(name)
         /\ name[1] = "*" => Len(name) > 1 /\ GetKeyFromIdent(name)[1] = NoLabel
         /\ name[1] # "*" => GetKeyFromIdent(name) = Lower(name)
         /\ \A i \in 2 .. Len(name) : GetKeyFromIdent(name)[i] = Lower(name)[i]
<1>1. name # <<>> /\ GetKeyFromIdent(name) # <<NoLabel>>
  BY DEF InvalidIdent
<1>2. Len(name) \in Nat /\ Len(name) > 0
  BY <1>1 DEF IsList
<1>3. CASE name[1] # "*"
  <2>1. GetKeyFromIdent(name) = Lower(name)
    BY <1>3 DEF GetKeyFromIdent
  <2>. QED  BY <1>2, <1>3, <2>1, LowerIs
<1>4. CASE name[1] = "*"
  <2>. DEFINE w == WildcardKey(name)
  <2>1. GetKeyFromIdent(name) = Lower(w)
    BY <1>4 DEF GetKeyFromIdent
  <2>2. /\ IsList(w) /\ Len(w) = Len(name) /\ w[1] = NoLabel
        /\ \A i \in 2 .. Len(name) : w[i] = name[i]
    BY <1>1, WildcardKeyIs
  <2>. HIDE DEF w
  <2>3. /\ IsList(Lower(w)) /\ Len(Lower(w)) = Len(name) /\ Lower(w)[1] = NoLabel
        /\ \A i \in 1 .. Len(name) : /\ Lower(w)[i] = IF w[i] = "A" THEN "a" ELSE w[i]
                                     /\ Lower(name)[i] = IF name[i] = "A" THEN "a" ELSE name[i]
    BY <1>2, <2>2, LowerIs
  <2>4. ASSUME NEW i \in 2 .. Len(name) PROVE Lower(w)[i] = Lower(name)[i]
    <3>1. i \in 1 .. Len(name)
      BY <1>2
    <3>. QED  BY <2>2, <2>3, <3>1
  <2>5. ASSUME Len(name) = 1 PROVE FALSE
    <3>. DEFINE one == <<NoLabel>>
    <3>1. one \in Seq({NoLabel}) /\ Len(one) = 1 /\ one[1] = NoLabel
      OBVIOUS
    <3>2. GetKeyFromIdent(name) # one
      BY <1>1
    <3>. HIDE DEF one
    <3>3. IsList(one)
      BY <3>1, ListOf
    <3>4. \A i \in 1 .. Len(one) : one[i] = Lower(w)[i]
      BY <2>3, <3>1
    <3>. QED  BY <2>1, <2>3, <2>5, <3>1, <3>2, <3>3, <3>4, ListsEqual
  <2>6. Len(name) > 1
    <3>1. Len(name) # 1
      BY <2>5
    <3>2. \A n \in Nat : n > 0 /\ n # 1 => n > 1
      OBVIOUS
    <3>. QED  BY <1>2, <3>1, <3>2, Zenon
  <2>. QED  BY <1>2, <1>4, <2>1, <2>3, <2>4, <2>6
<1>. QED  BY <1>3, <1>4

(* A name is looked up by its key exactly if it fits; a name that begins   *)
(* with an empty label would fit every name in its domain.                 *)
LEMMA NameLookedUp ==
  ASSUME NEW name, IsList(name), ~InvalidIdent(name), name[1] # NoLabel, NEW sni, IsList(sni)
  PROVE  LooksUp(GetKeyFromIdent(name), sni) <=> NameFits(Lower(name), sni)
<1>. DEFINE key == GetKeyFromIdent(name)
            low == Lower(name)
            lsni == Lower(sni)
            wild == WildcardKey(lsni)
<1>1. /\ Len(name) \in Nat /\ Len(name) > 0 /\ IsList(key) /\ Len(key) = Len(name)
      /\ name[1] = "*" => Len(name) > 1 /\ key[1] = NoLabel
      /\ name[1] # "*" => key = low
      /\ \A i \in 2 .. Len(name) : key[i] = low[i]
  BY KeyIs, ListIs
<1>2. /\ IsList(low) /\ Len(low) = Len(name)
      /\ (low[1] = "*" <=> name[1] = "*") /\ low[1] # NoLabel
  BY <1>1, LowerIs
<1>3. IsList(lsni) /\ Len(lsni) = Len(sni) /\ Len(sni) \in Nat
  BY LowerIs, ListIs
<1>4. Len(sni) > 1 => /\ IsList(wild) /\ Len(wild) = Len(sni) /\ wild[1] = NoLabel
                      /\ \A i \in 2 .. Len(sni) : wild[i] = lsni[i]
  <2>1. Len(sni) > 1 => lsni # <<>>
    BY <1>3
  <2>. QED  BY <1>3, <2>1, WildcardKeyIs
<1>5. LooksUp(key, sni) <=> (key = lsni \/ (Len(sni) > 1 /\ key = wild))
  BY DEF LooksUp
<1>6. NameFits(low, sni) <=> (low = lsni \/ (low[1] = "*" /\ Len(sni) > 1 /\ Tail(low) = Tail(lsni)))
  BY DEF NameFits
<1>. HIDE DEF key, low, lsni, wild
<1>7. Len(sni) > 1 => (Tail(low) = Tail(lsni) <=>
                         Len(low) = Len(lsni) /\ \A i \in 2 .. Len(low) : low[i] = lsni[i])
  BY <1>1, <1>2, <1>3, TailsEqual
<1>8. CASE name[1] # "*"
  <2>1. key = low /\ low[1] # "*"
    BY <1>1, <1>2, <1>8
  <2>2. Len(sni) > 1 => key # wild
    BY <1>2, <1>4, <2>1
  <2>. QED  BY <1>5, <1>6, <2>1, <2>2 DEF key, low
<1>9. CASE name[1] = "*"
  <2>1. Len(name) > 1 /\ key[1] = NoLabel /\ low[1] = "*"
    BY <1>1, <1>2, <1>9
  <2>2. Len(sni) = Len(name) => (key = wild <=> \A i \in 2 .. Len(name) : low[i] = lsni[i])
    <3>1. ASSUME Len(sni) = Len(name), key = wild PROVE \A i \in 2 .. Len(name) : low[i] = lsni[i]
      BY <1>1, <1>4, <2>1, <3>1
    <3>2. ASSUME Len(sni) = Len(name), \A i \in 2 .. Len(name) : low[i] = lsni[i] PROVE key = wild
      <4>1. ASSUME NEW i \in 1 .. Len(key) PROVE key[i] = wild[i]
        <5>1. i = 1 \/ i \in 2 .. Len(name)
          BY <1>1
        <5>. QED  BY <1>1, <1>4, <2>1, <3>2, <5>1
      <4>. QED  BY <1>1, <1>4, <2>1, <3>2, <4>1, ListsEqual
    <3>. QED  BY <3>1, <3>2
  <2>3. key = lsni => Len(sni) = Len(name) /\ \A i \in 2 .. Len(name) : low[i] = lsni[i]
    BY <1>1, <1>3
  <2>4. low = lsni => Len(sni) = Len(name) /\ \A i \in 2 .. Len(name) : low[i] = lsni[i]
    BY <1>2, <1>3
  <2>5. key = wild /\ Len(sni) > 1 => Len(sni) = Len(name)
    BY <1>1, <1>4
  <2>6. Len(sni) > 1 /\ Tail(low) = Tail(lsni) <=>
          Len(sni) = Len(name) /\ \A i \in 2 .. Len(name) : low[i] = lsni[i]
    BY <1>2, <1>3, <1>7, <2>1
  <2>. QED  BY <1>5, <1>6, <2>1, <2>2, <2>3, <2>4, <2>5, <2>6 DEF key, low
<1>. QED  BY <1>8, <1>9 DEF key, low

(***************************************************************************)
(* The inductive invariant.                                                *)
(***************************************************************************)

(* A certificate of a chain, and a credential that was issued for the role *)
(* and that the leaf's key signed.                                         *)
PlainCert(cert) ==
  /\ cert.chain \in X509Chains /\ cert.key = cert.chain[1].key
  /\ cert.credential = None /\ cert.type = cert.key.type /\ cert # None
LeafSigned(cert, role) ==
  VerifyWith(cert.chain[1].key.type, cert.chain[1].key, cert.credential.scheme,
             DelegationContext(role), PrepareSignatureBuffer(cert.credential, cert.chain[1]),
             cert.credential.signature)
DelegatedCert(cert, role, pems) ==
  /\ cert.chain \in X509Chains /\ cert # None /\ cert.credential # None
  /\ cert.type = "P256" /\ cert.key.type = "P256"
  /\ cert.credential.verifyScheme \in GetSigSchemes("P256")
  /\ LeafSigned(cert, role)
  /\ \E p \in pems : p.pem.mode = role /\ p.pem.credential = cert.credential
Own(kind, cert, role, pems) ==
  IF kind = "dc" THEN DelegatedCert(cert, role, pems) ELSE PlainCert(cert)

(* What was issued, for which key, when and by whom.                       *)
PemInv(p) ==
  /\ DOMAIN p.pem = {"mode", "credential", "key"} /\ p.pem.credential # None
  /\ p.pem.key = p.pem.credential.publicKey
  /\ p.parent \in X509Chains /\ p.issued \in Int /\ p.valid \in Int
  /\ p.pem.credential.validTime = p.issued + p.valid - p.parent[1].notBefore
  /\ p.pem.credential.signature.data.over[1] = p.parent[1]
  /\ CheckExtensions(p.parent[1])

(* A server's manager has certificates under keys of their names and their *)
(* schemes, and under the identity they are known by; a client's under     *)
(* their schemes.                                                          *)
UnderName(cert, k) ==
  \E i \in DOMAIN Identities(cert), s \in CertSigSchemes(cert) :
    ~InvalidIdent(Identities(cert)[i]) /\ k = <<GetKeyFromIdent(Identities(cert)[i]), s>>
UnderKey(role, cert, k) ==
  IF role = "server" THEN UnderName(cert, k) ELSE k \in CertSigSchemes(cert)
Manager(mgr, kind, role, pems) ==
  /\ DOMAIN mgr = {"certs", "ident", "default"}
  /\ \A k \in DOMAIN mgr.certs : Own(kind, mgr.certs[k], role, pems) /\ UnderKey(role, mgr.certs[k], k)
  /\ \A i \in DOMAIN mgr.ident : Own(kind, mgr.ident[i], role, pems) /\ Identities(mgr.ident[i])[1] = i

(* Everything under which a certificate that was added can be found.       *)
Covered(mgr, cert, role) ==
  IF role = "server"
  THEN /\ \A i \in DOMAIN Identities(cert) :
            /\ ~InvalidIdent(Identities(cert)[i])
            /\ \A s \in CertSigSchemes(cert) :
                 <<GetKeyFromIdent(Identities(cert)[i]), s>> \in DOMAIN mgr.certs
       /\ Identities(cert)[1] \in DOMAIN mgr.ident
  ELSE CertSigSchemes(cert) \subseteq DOMAIN mgr.certs

(* A handshake: what is shown, and what the peer makes of it.              *)
MatchOf(role, mgrs, sni, peer) ==
  IF role = "server" THEN GetServerMatch(mgrs, sni, peer) ELSE GetClientMatch(mgrs, peer)
SentOf(role, cert, peer) ==
  IF role = "server" THEN GetCertificate(cert, peer)
  ELSE [algorithm |-> None, length |-> 0, message |-> GetCertMessage(cert)]
ShownOf(role, sni, peer, match) ==
  [peer |-> peer, sni |-> sni, match |-> match,
   sent |-> IF match = None THEN None ELSE SentOf(role, match.cert, peer),
   signature |-> IF match = None THEN None
                 ELSE SignWith(match.cert.type, match.cert.key, match.scheme,
                               RoleContext(role), <<"transcript">>)]
MessageOf(shown, wrong) == ReceivedMessage(shown.peer, [shown.sent EXCEPT !.length = @ + wrong])
JudgedOf(role, shown, now, wrong, msg) ==
  [now |-> now, wrong |-> wrong, message |-> msg,
   accepted |-> PeerAccepts(role, shown.peer, msg, shown.match.scheme, shown.signature, now)]

CredShape ==
  /\ DOMAIN cr = {"role", "now", "pems", "added", "adds", "mgrs", "shown", "got"}
  /\ DOMAIN cr.mgrs = {"plain", "dc"}
  /\ cr.role \in {"server", "client"} /\ cr.now \in Int
PemsInv == \A p \in cr.pems : PemInv(p)
ManagersInv ==
  /\ Manager(cr.mgrs.plain, "plain", cr.role, cr.pems)
  /\ Manager(cr.mgrs.dc, "dc", cr.role, cr.pems)
AddedInv == \A c \in cr.added : PlainCert(c) /\ Covered(cr.mgrs.plain, c, cr.role)
ShownInv ==
  /\ cr.shown = None => cr.got = None
  /\ cr.shown # None =>
       \E peer \in CredPeers, sni \in (IF cr.role = "server" THEN CredSnis ELSE {None}) :
         cr.shown = ShownOf(cr.role, sni, peer, MatchOf(cr.role, cr.mgrs, sni, peer))
JudgedInv ==
  cr.got # None =>
    \E skew \in CredSkews, wrong \in {-1, 0, 1} :
      /\ cr.shown.sent # None
      /\ cr.shown.sent.algorithm = None => wrong = 0
      /\ cr.got = JudgedOf(cr.role, cr.shown, cr.now + skew, wrong, MessageOf(cr.shown, wrong))
CredInv == CredShape /\ PemsInv /\ ManagersInv /\ AddedInv /\ ShownInv /\ JudgedInv

LEMMA ExtendedBy ==
  ASSUME NEW f, NEW g
  PROVE  /\ DOMAIN Extended(f, g) = (DOMAIN f) \cup (DOMAIN g)
         /\ \A x \in DOMAIN f : Extended(f, g)[x] = f[x]
         /\ \A x \in (DOMAIN g) \ (DOMAIN f) : Extended(f, g)[x] = g[x]
BY DEF Extended

(* More credentials change nothing of what there is.                       *)
LEMMA OwnGrows ==
  ASSUME NEW kind, NEW cert, NEW role, NEW pems, NEW more, pems \subseteq more,
         Own(kind, cert, role, pems)
  PROVE  Own(kind, cert, role, more)
BY DEF Own, DelegatedCert

LEMMA ManagerGrows ==
  ASSUME NEW mgr, NEW kind, NEW role, NEW pems, NEW more, pems \subseteq more,
         Manager(mgr, kind, role, pems)
  PROVE  Manager(mgr, kind, role, more)
BY OwnGrows DEF Manager

LEMMA SameOwn ==
  ASSUME NEW kind, NEW cert, NEW role, NEW pems, Own(kind, cert, role, pems)
  PROVE  cert.chain \in X509Chains /\ cert # None
BY DEF Own, DelegatedCert, PlainCert

(* A server adds a certificate.                                            *)
LEMMA AddCertAsIs ==
  ASSUME NEW mgr, NEW kind, NEW role, NEW pems, Manager(mgr, kind, role, pems), role = "server",
         NEW cert, Own(kind, cert, role, pems), NEW flag
  PROVE  /\ Manager(AddCertAs(mgr, cert, flag), kind, role, pems)
         /\ \A c : Covered(mgr, c, role) => Covered(AddCertAs(mgr, cert, flag), c, role)
         /\ (\A i \in DOMAIN Identities(cert) : ~InvalidIdent(Identities(cert)[i]))
              => Covered(AddCertAs(mgr, cert, flag), cert, role)
<1>. DEFINE ids == Identities(cert)
            bad == {i \in DOMAIN ids : InvalidIdent(ids[i])}
            good == {j \in DOMAIN ids : \A b \in bad : j < b}
            names == {ids[i] : i \in good}
            more == [k \in {GetKeyFromIdent(ident) : ident \in names} \X CertSigSchemes(cert) |-> cert]
            one == [i \in {ids[1]} |-> cert]
            certs == Extended(mgr.certs, more)
            ident == Extended(mgr.ident, one)
            next == AddCertAs(mgr, cert, flag)
<1>1. ids[1] = Identities(cert)[1] /\ IsList(ids) /\ ids # <<>>
  BY SameOwn, CredentialsAssumption DEF Identities
<1>2. DOMAIN ids = 1 .. Len(ids) /\ Len(ids) \in Nat /\ Len(ids) > 0
  BY <1>1 DEF IsList
<1>3. \A i \in good : i \in DOMAIN ids /\ ~InvalidIdent(ids[i])
  BY <1>2
<1>4. bad = {} => good = DOMAIN ids
  OBVIOUS
<1>5. /\ DOMAIN next = {"certs", "ident", "default"} /\ next.certs = certs
      /\ next.ident = IF bad # {} THEN mgr.ident ELSE ident
  <2>1. AddCertIdentity(mgr, cert, names) = [mgr EXCEPT !.certs = certs]
    BY DEF AddCertIdentity
  <2>2. next = IF bad # {} THEN AddCertIdentity(mgr, cert, names)
               ELSE [AddCertIdentity(mgr, cert, names) EXCEPT
                       !.default = IF flag THEN GetKeyFromIdent(ids[1]) ELSE @, !.ident = Extended(@, one)]
    BY DEF AddCertAs
  <2>3. DOMAIN mgr = {"certs", "ident", "default"}
    BY DEF Manager
  <2>. HIDE DEF certs, bad, names, one, ids, next
  <2>4. AddCertIdentity(mgr, cert, names).ident = mgr.ident
    BY <2>1, <2>3
  <2>. QED  BY <2>1, <2>2, <2>3, <2>4
<1>6. /\ DOMAIN certs = (DOMAIN mgr.certs) \cup (DOMAIN more)
      /\ \A k \in DOMAIN mgr.certs : certs[k] = mgr.certs[k]
      /\ \A k \in (DOMAIN more) \ (DOMAIN mgr.certs) : certs[k] = cert
  <2>1. \A k \in DOMAIN more : more[k] = cert
    OBVIOUS
  <2>. DEFINE old == mgr.certs
  <2>. HIDE DEF more, old
  <2>2. /\ DOMAIN Extended(old, more) = (DOMAIN old) \cup (DOMAIN more)
        /\ \A x \in DOMAIN old : Extended(old, more)[x] = old[x]
        /\ \A x \in (DOMAIN more) \ (DOMAIN old) : Extended(old, more)[x] = more[x]
    BY ExtendedBy
  <2>. QED  BY <2>1, <2>2 DEF old
<1>7. /\ DOMAIN ident = (DOMAIN mgr.ident) \cup {ids[1]}
      /\ \A i \in DOMAIN mgr.ident : ident[i] = mgr.ident[i]
      /\ ids[1] \notin DOMAIN mgr.ident => ident[ids[1]] = cert
  <2>1. DOMAIN one = {ids[1]} /\ one[ids[1]] = cert
    OBVIOUS
  <2>. DEFINE old == mgr.ident
  <2>. HIDE DEF one, ids, old
  <2>2. /\ DOMAIN Extended(old, one) = (DOMAIN old) \cup (DOMAIN one)
        /\ \A x \in DOMAIN old : Extended(old, one)[x] = old[x]
        /\ \A x \in (DOMAIN one) \ (DOMAIN old) : Extended(old, one)[x] = one[x]
    BY ExtendedBy
  <2>. QED  BY <2>1, <2>2 DEF old
<1>8. \A k \in DOMAIN more : UnderName(cert, k)
  <2>. SUFFICES ASSUME NEW k \in DOMAIN more PROVE UnderName(cert, k)
    OBVIOUS
  <2>1. PICK i \in good, s \in CertSigSchemes(cert) : k = <<GetKeyFromIdent(ids[i]), s>>
    OBVIOUS
  <2>. QED  BY <1>3, <2>1 DEF UnderName
<1>9. \A i \in good, s \in CertSigSchemes(cert) : <<GetKeyFromIdent(ids[i]), s>> \in DOMAIN more
  OBVIOUS
<1>. HIDE DEF more, one, certs, ident, next, names
<1>10. Manager(next, kind, role, pems)
  <2>1. \A k \in DOMAIN certs : Own(kind, certs[k], role, pems) /\ UnderKey(role, certs[k], k)
    BY <1>6, <1>8 DEF Manager, UnderKey
  <2>2. \A i \in DOMAIN ident : Own(kind, ident[i], role, pems) /\ Identities(ident[i])[1] = i
    BY <1>7 DEF Manager
  <2>. QED  BY <1>5, <2>1, <2>2 DEF Manager
<1>11. ASSUME NEW c, Covered(mgr, c, role) PROVE Covered(next, c, role)
  BY <1>5, <1>6, <1>7, <1>11 DEF Covered
<1>12. ASSUME \A i \in DOMAIN ids : ~InvalidIdent(ids[i]) PROVE Covered(next, cert, role)
  <2>1. bad = {} /\ good = DOMAIN ids
    BY <1>4, <1>12
  <2>2. ids[1] \in DOMAIN next.ident
    BY <1>5, <1>7, <2>1
  <2>3. \A i \in DOMAIN ids, s \in CertSigSchemes(cert) : <<GetKeyFromIdent(ids[i]), s>> \in DOMAIN next.certs
    BY <1>5, <1>6, <1>9, <2>1
  <2>. QED  BY <1>12, <2>2, <2>3 DEF Covered
<1>. QED  BY <1>10, <1>11, <1>12 DEF next

(* A client adds one.                                                      *)
LEMMA AddClientCertIs ==
  ASSUME NEW mgr, NEW kind, NEW role, NEW pems, Manager(mgr, kind, role, pems), role = "client",
         NEW cert, Own(kind, cert, role, pems), NEW flag
  PROVE  /\ Manager(AddClientCert(mgr, cert, flag), kind, role, pems)
         /\ \A c : Covered(mgr, c, role) => Covered(AddClientCert(mgr, cert, flag), c, role)
         /\ Covered(AddClientCert(mgr, cert, flag), cert, role)
<1>. DEFINE more == [s \in CertSigSchemes(cert) |-> cert]
            before == Extended(more, mgr.certs)
            after == Extended(mgr.certs, more)
            next == AddClientCert(mgr, cert, flag)
<1>1. /\ DOMAIN next = {"certs", "ident", "default"} /\ next.ident = mgr.ident
      /\ next.certs = IF flag THEN before ELSE after
  BY DEF AddClientCert, Manager
<1>2. DOMAIN more = CertSigSchemes(cert) /\ \A s \in DOMAIN more : more[s] = cert
  OBVIOUS
<1>. HIDE DEF more, next
<1>. DEFINE old == mgr.certs
<1>. HIDE DEF old
<1>3. /\ DOMAIN Extended(more, old) = (DOMAIN more) \cup (DOMAIN old)
      /\ \A x \in DOMAIN more : Extended(more, old)[x] = more[x]
      /\ \A x \in (DOMAIN old) \ (DOMAIN more) : Extended(more, old)[x] = old[x]
  BY ExtendedBy
<1>4. /\ DOMAIN Extended(old, more) = (DOMAIN old) \cup (DOMAIN more)
      /\ \A x \in DOMAIN old : Extended(old, more)[x] = old[x]
      /\ \A x \in (DOMAIN more) \ (DOMAIN old) : Extended(old, more)[x] = more[x]
  BY ExtendedBy
<1>5. /\ DOMAIN next.certs = (DOMAIN mgr.certs) \cup CertSigSchemes(cert)
      /\ \A s \in DOMAIN next.certs : (next.certs[s] = cert /\ s \in CertSigSchemes(cert))
                                      \/ (next.certs[s] = mgr.certs[s] /\ s \in DOMAIN mgr.certs)
  BY <1>1, <1>2, <1>3, <1>4 DEF old
<1>6. Manager(next, kind, role, pems)
  <2>1. \A k \in DOMAIN next.certs :
          Own(kind, next.certs[k], role, pems) /\ UnderKey(role, next.certs[k], k)
    BY <1>5 DEF Manager, UnderKey
  <2>. QED  BY <1>1, <2>1 DEF Manager
<1>7. \A c : Covered(mgr, c, role) => Covered(next, c, role)
  BY <1>5 DEF Covered
<1>8. Covered(next, cert, role)
  BY <1>5 DEF Covered
<1>. QED  BY <1>6, <1>7, <1>8 DEF next

(* The steps.                                                              *)
LEMMA CredentialIs ==
  ASSUME NEW chain \in X509Chains, NEW key, NEW mode, NEW valid, NEW now, NEW s, NEW v, NEW cred,
         cred = GenerateCredential(MakeSelfCert(chain, chain[1].key, {}), key, s, v,
                                   DelegationContext(mode), valid, now),
         cred # None
  PROVE  /\ cred.publicKey = key /\ cred.validTime = now + valid - chain[1].notBefore
         /\ cred.signature.data.over[1] = chain[1] /\ CheckExtensions(chain[1])
<1>. DEFINE cert == MakeSelfCert(chain, chain[1].key, {})
            draft == [validTime |-> now + valid - cert.chain[1].notBefore, verifyScheme |-> v,
                      publicKey |-> key, scheme |-> s, signature |-> None]
            over == PrepareSignatureBuffer(draft, cert.chain[1])
            sig == SignWith(cert.type, cert.key, s, DelegationContext(mode), over)
<1>1. cert = [chain |-> chain, key |-> chain[1].key, credential |-> None,
              type |-> chain[1].key.type, compressors |-> {}]
  BY DEF MakeSelfCert
<1>2. cert.chain = chain /\ cert.credential = None
  BY <1>1
<1>. HIDE DEF cert
<1>3. /\ cred = [draft EXCEPT !.signature = sig] /\ CheckExtensions(cert.chain[1])
      /\ s \in CertSigSchemes(cert)
  BY DEF GenerateCredential, cert
<1>4. s \in GetSigSchemes(cert.type)
  BY <1>2, <1>3 DEF CertSigSchemes
<1>5. over[1] = cert.chain[1]
  BY DEF PrepareSignatureBuffer
<1>6. sig.data.over = over
  BY <1>4 DEF SignWith, PrepareSignData
<1>7. /\ draft.publicKey = key /\ draft.validTime = now + valid - cert.chain[1].notBefore
      /\ DOMAIN draft = {"validTime", "verifyScheme", "publicKey", "scheme", "signature"}
  OBVIOUS
<1>. HIDE DEF draft, over, sig
<1>8. cred.publicKey = draft.publicKey /\ cred.validTime = draft.validTime /\ cred.signature = sig
  BY <1>3, <1>7
<1>. QED  BY <1>2, <1>3, <1>5, <1>6, <1>7, <1>8

LEMMA SelfCertIs ==
  ASSUME NEW cert \in SelfCerts \ {None}
  PROVE  PlainCert(cert)
<1>1. PICK chain \in X509Chains, key \in {c[1].key : c \in X509Chains},
           algos \in {{}, {"zlib", "zstd"}} : cert = MakeSelfCert(chain, key, algos)
  BY DEF SelfCerts
<1>2. /\ key = chain[1].key
      /\ cert = [chain |-> chain, key |-> key, credential |-> None, type |-> key.type, compressors |-> algos]
  BY <1>1 DEF MakeSelfCert
<1>3. /\ cert.chain = chain /\ cert.key = key /\ cert.credential = None /\ cert.type = key.type
  BY <1>2
<1>. QED  BY <1>2, <1>3 DEF PlainCert

LEMMA LoadedIs ==
  ASSUME NEW chain \in X509Chains, NEW pems, NEW p \in pems, PemInv(p), NEW key, NEW role, NEW cert,
         cert = LoadDCFromPEM(chain, [p.pem EXCEPT !.key = key], role), cert # None
  PROVE  DelegatedCert(cert, role, pems)
<1>. DEFINE pem == [p.pem EXCEPT !.key = key]
            cred == p.pem.credential
<1>1. pem.mode = p.pem.mode /\ pem.credential = cred /\ pem.key = key /\ cred # None
  BY DEF PemInv
<1>. HIDE DEF pem, cred
<1>2. pem.mode = role /\ cert = MakeSelfDelegatedCredential("P256", role, chain, key, cred, {})
  BY <1>1 DEF LoadDCFromPEM, pem
<1>3. /\ key.type = "P256" /\ cred.verifyScheme \in GetSigSchemes("P256")
      /\ VerifyWith(chain[1].key.type, chain[1].key, cred.scheme, DelegationContext(role),
                    PrepareSignatureBuffer(cred, chain[1]), cred.signature)
      /\ cert = [chain |-> chain, key |-> key, credential |-> cred, type |-> "P256", compressors |-> {}]
  BY <1>2 DEF MakeSelfDelegatedCredential
<1>4. cert.chain = chain /\ cert.key = key /\ cert.credential = cred /\ cert.type = "P256"
  BY <1>3
<1>5. LeafSigned(cert, role)
  BY <1>3, <1>4 DEF LeafSigned
<1>6. p.pem.mode = role /\ p.pem.credential = cert.credential
  BY <1>1, <1>2, <1>4 DEF cred
<1>. QED  BY <1>1, <1>3, <1>4, <1>5, <1>6 DEF DelegatedCert

LEMMA IssueStep ==
  ASSUME CredInv, IssueCredential
  PROVE  CredInv'
<1>0. PICK chain \in X509Chains, key \in CredKeys, mode \in CredRoles, valid \in CredLifetimes : \E cred :
        /\ cr.shown = None
        /\ cred = GenerateCredential(MakeSelfCert(chain, chain[1].key, {}), key,
                      SigSchemeOf[chain[1].key.type], SigSchemeOf[key.type], DelegationContext(mode),
                      valid, cr.now)
        /\ cred # None
        /\ cr' = [cr EXCEPT !.pems = @ \cup
              {[pem |-> GenerateDelegatedCredentialPEM(mode, cred, key), parent |-> chain,
                issued |-> cr.now, valid |-> valid]}]
  BY DEF IssueCredential
<1>1. PICK cred :
        /\ cr.shown = None
        /\ cred = GenerateCredential(MakeSelfCert(chain, chain[1].key, {}), key,
                      SigSchemeOf[chain[1].key.type], SigSchemeOf[key.type], DelegationContext(mode),
                      valid, cr.now)
        /\ cred # None
        /\ cr' = [cr EXCEPT !.pems = @ \cup
              {[pem |-> GenerateDelegatedCredentialPEM(mode, cred, key), parent |-> chain,
                issued |-> cr.now, valid |-> valid]}]
  BY <1>0
<1>. DEFINE pem == GenerateDelegatedCredentialPEM(mode, cred, key)
            new == [pem |-> pem, parent |-> chain, issued |-> cr.now, valid |-> valid]
<1>2. /\ cred.publicKey = key /\ cred.validTime = cr.now + valid - chain[1].notBefore
      /\ cred.signature.data.over[1] = chain[1] /\ CheckExtensions(chain[1])
  BY <1>1, CredentialIs
<1>3. /\ DOMAIN pem = {"mode", "credential", "key"} /\ pem.credential = cred /\ pem.key = key
  BY DEF GenerateDelegatedCredentialPEM
<1>4. new.pem = pem /\ new.parent = chain /\ new.issued = cr.now /\ new.valid = valid
  OBVIOUS
<1>5. cr' = [cr EXCEPT !.pems = @ \cup {new}]
  BY <1>1
<1>. HIDE DEF pem, new
<1>6. cr.now \in Int /\ valid \in Int
  BY CredentialsAssumption DEF CredInv, CredShape
<1>7. PemInv(new)
  BY <1>1, <1>2, <1>3, <1>4, <1>6 DEF PemInv
<1>8. /\ CredShape' /\ cr'.role = cr.role /\ cr'.mgrs = cr.mgrs /\ cr'.added = cr.added
      /\ cr'.shown = cr.shown /\ cr'.got = cr.got /\ cr'.pems = cr.pems \cup {new}
  BY <1>5 DEF CredInv, CredShape
<1>9. PemsInv'
  BY <1>7, <1>8 DEF CredInv, PemsInv
<1>10. ManagersInv'
  BY <1>8, ManagerGrows DEF CredInv, ManagersInv
<1>11. AddedInv'
  BY <1>8 DEF CredInv, AddedInv
<1>12. ShownInv' /\ JudgedInv'
  BY <1>1, <1>8 DEF CredInv, ShownInv, JudgedInv
<1>. QED  BY <1>8, <1>9, <1>10, <1>11, <1>12 DEF CredInv

LEMMA AddCertStep ==
  ASSUME CredInv, NEW flag \in BOOLEAN, AddCert(flag)
  PROVE  CredInv'
<1>1. PICK cert \in SelfCerts \ {None} :
        /\ cr.shown = None
        /\ cr' = [cr EXCEPT !.adds = @ + 1, !.added = @ \cup Remember(cert),
                  !.mgrs.plain = IF cr.role = "server" THEN AddCertAs(@, cert, flag)
                                 ELSE AddClientCert(@, cert, flag)]
  BY DEF AddCert
<1>. DEFINE old == cr.mgrs.plain
            next == IF cr.role = "server" THEN AddCertAs(old, cert, flag) ELSE AddClientCert(old, cert, flag)
<1>2. /\ CredShape' /\ cr'.role = cr.role /\ cr'.pems = cr.pems /\ cr'.shown = cr.shown
      /\ cr'.got = cr.got /\ cr'.added = cr.added \cup Remember(cert)
      /\ cr'.mgrs.dc = cr.mgrs.dc /\ cr'.mgrs.plain = next
  BY <1>1 DEF CredInv, CredShape
<1>3. PlainCert(cert) /\ Own("plain", cert, cr.role, cr.pems)
  BY SelfCertIs DEF Own
<1>4. Manager(old, "plain", cr.role, cr.pems) /\ cr.role \in {"server", "client"}
  BY DEF CredInv, ManagersInv, CredShape
<1>5. /\ Manager(next, "plain", cr.role, cr.pems)
      /\ \A c : Covered(old, c, cr.role) => Covered(next, c, cr.role)
      /\ \A c \in Remember(cert) : c = cert /\ Covered(next, c, cr.role)
  <2>1. CASE cr.role = "server"
    BY <1>3, <1>4, <2>1, AddCertAsIs DEF Remember
  <2>2. CASE cr.role = "client"
    BY <1>3, <1>4, <2>2, AddClientCertIs DEF Remember
  <2>. QED  BY <1>4, <2>1, <2>2
<1>. HIDE DEF next
<1>6. AddedInv'
  BY <1>2, <1>3, <1>5 DEF CredInv, AddedInv
<1>7. ManagersInv' /\ PemsInv'
  BY <1>2, <1>5 DEF CredInv, ManagersInv, PemsInv
<1>8. ShownInv' /\ JudgedInv'
  BY <1>1, <1>2 DEF CredInv, ShownInv, JudgedInv
<1>. QED  BY <1>2, <1>6, <1>7, <1>8 DEF CredInv

LEMMA AddDelegatedStep ==
  ASSUME CredInv, NEW flag \in BOOLEAN, AddDelegatedCredential(flag)
  PROVE  CredInv'
<1>0. PICK chain \in X509Chains, p \in cr.pems, key \in CredKeys : \E cert :
        /\ cert = LoadDCFromPEM(chain, [p.pem EXCEPT !.key = key], cr.role)
        /\ cr.shown = None /\ cert # None
        /\ cr' = [cr EXCEPT !.adds = @ + 1,
                  !.mgrs.dc = IF cr.role = "server" THEN AddCertAs(@, cert, flag)
                              ELSE AddClientCert(@, cert, flag)]
  BY DEF AddDelegatedCredential
<1>1. PICK cert :
        /\ cert = LoadDCFromPEM(chain, [p.pem EXCEPT !.key = key], cr.role)
        /\ cr.shown = None /\ cert # None
        /\ cr' = [cr EXCEPT !.adds = @ + 1,
                  !.mgrs.dc = IF cr.role = "server" THEN AddCertAs(@, cert, flag)
                              ELSE AddClientCert(@, cert, flag)]
  BY <1>0
<1>. DEFINE old == cr.mgrs.dc
            next == IF cr.role = "server" THEN AddCertAs(old, cert, flag) ELSE AddClientCert(old, cert, flag)
<1>2. /\ CredShape' /\ cr'.role = cr.role /\ cr'.pems = cr.pems /\ cr'.shown = cr.shown
      /\ cr'.got = cr.got /\ cr'.added = cr.added
      /\ cr'.mgrs.plain = cr.mgrs.plain /\ cr'.mgrs.dc = next
  BY <1>1 DEF CredInv, CredShape
<1>3. Own("dc", cert, cr.role, cr.pems)
  <2>1. PemInv(p)
    BY DEF CredInv, PemsInv
  <2>. QED  BY <1>1, <2>1, LoadedIs DEF Own
<1>4. Manager(old, "dc", cr.role, cr.pems) /\ cr.role \in {"server", "client"}
  BY DEF CredInv, ManagersInv, CredShape
<1>5. Manager(next, "dc", cr.role, cr.pems)
  <2>1. CASE cr.role = "server"
    BY <1>3, <1>4, <2>1, AddCertAsIs
  <2>2. CASE cr.role = "client"
    BY <1>3, <1>4, <2>2, AddClientCertIs
  <2>. QED  BY <1>4, <2>1, <2>2
<1>. HIDE DEF next
<1>6. AddedInv' /\ PemsInv'
  BY <1>2 DEF CredInv, AddedInv, PemsInv
<1>7. ManagersInv'
  BY <1>2, <1>5 DEF CredInv, ManagersInv
<1>8. ShownInv' /\ JudgedInv'
  BY <1>1, <1>2 DEF CredInv, ShownInv, JudgedInv
<1>. QED  BY <1>2, <1>6, <1>7, <1>8 DEF CredInv

LEMMA TickStep ==
  ASSUME CredInv, CredentialTick
  PROVE  CredInv'
<1>1. cr.shown = None /\ cr' = [cr EXCEPT !.now = @ + 1]
  BY DEF CredentialTick
<1>2. /\ CredShape' /\ cr'.role = cr.role /\ cr'.pems = cr.pems /\ cr'.shown = cr.shown
      /\ cr'.got = cr.got /\ cr'.added = cr.added /\ cr'.mgrs = cr.mgrs
  BY <1>1 DEF CredInv, CredShape
<1>3. AddedInv' /\ PemsInv' /\ ManagersInv'
  BY <1>2 DEF CredInv, AddedInv, PemsInv, ManagersInv
<1>4. ShownInv' /\ JudgedInv'
  BY <1>1, <1>2 DEF CredInv, ShownInv, JudgedInv
<1>. QED  BY <1>2, <1>3, <1>4 DEF CredInv

LEMMA PresentStep ==
  ASSUME CredInv, PresentCertificate
  PROVE  CredInv'
<1>0. PICK peer \in CredPeers, sni \in (IF cr.role = "server" THEN CredSnis ELSE {None}) : \E match :
        /\ cr.shown = None /\ match = Match(sni, peer)
        /\ cr' = [cr EXCEPT !.shown =
             [peer |-> peer, sni |-> sni, match |-> match,
              sent |-> IF match = None THEN None ELSE CertificateSent(match.cert, peer),
              signature |-> IF match = None THEN None
                            ELSE SignWith(match.cert.type, match.cert.key, match.scheme,
                                          RoleContext(cr.role), <<"transcript">>)]]
  BY DEF PresentCertificate
<1>1. PICK match :
        /\ cr.shown = None /\ match = Match(sni, peer)
        /\ cr' = [cr EXCEPT !.shown =
             [peer |-> peer, sni |-> sni, match |-> match,
              sent |-> IF match = None THEN None ELSE CertificateSent(match.cert, peer),
              signature |-> IF match = None THEN None
                            ELSE SignWith(match.cert.type, match.cert.key, match.scheme,
                                          RoleContext(cr.role), <<"transcript">>)]]
  BY <1>0
<1>. DEFINE new == ShownOf(cr.role, sni, peer, match)
<1>2. cr' = [cr EXCEPT !.shown = new]
  BY <1>1 DEF ShownOf, SentOf, CertificateSent
<1>3. match = MatchOf(cr.role, cr.mgrs, sni, peer)
  BY <1>1 DEF Match, MatchOf
<1>. HIDE DEF new
<1>4. /\ CredShape' /\ cr'.role = cr.role /\ cr'.pems = cr.pems /\ cr'.shown = new
      /\ cr'.got = cr.got /\ cr'.added = cr.added /\ cr'.mgrs = cr.mgrs
  BY <1>2 DEF CredInv, CredShape
<1>5. AddedInv' /\ PemsInv' /\ ManagersInv'
  BY <1>4 DEF CredInv, AddedInv, PemsInv, ManagersInv
<1>6. cr'.got = None
  BY <1>1, <1>4 DEF CredInv, ShownInv
<1>7. ShownInv' /\ JudgedInv'
  <2>1. cr'.shown = ShownOf(cr'.role, sni, peer, MatchOf(cr'.role, cr'.mgrs, sni, peer))
    BY <1>3, <1>4 DEF new
  <2>2. sni \in (IF cr'.role = "server" THEN CredSnis ELSE {None})
    BY <1>4
  <2>. QED  BY <1>6, <2>1, <2>2 DEF ShownInv, JudgedInv
<1>. QED  BY <1>4, <1>5, <1>7 DEF CredInv

LEMMA CheckStep ==
  ASSUME CredInv, CheckCertificate
  PROVE  CredInv'
<1>0. PICK skew \in CredSkews, wrong \in {-1, 0, 1} : \E msg :
        /\ cr.shown # None /\ cr.got = None /\ cr.shown.sent # None
        /\ cr.shown.sent.algorithm = None => wrong = 0
        /\ msg = ReceivedMessage(cr.shown.peer, [cr.shown.sent EXCEPT !.length = @ + wrong])
        /\ cr' = [cr EXCEPT !.got =
             [now |-> cr.now + skew, wrong |-> wrong, message |-> msg,
              accepted |-> PeerAccepts(cr.role, cr.shown.peer, msg, cr.shown.match.scheme,
                                       cr.shown.signature, cr.now + skew)]]
  BY DEF CheckCertificate
<1>1. PICK msg :
        /\ cr.shown # None /\ cr.got = None /\ cr.shown.sent # None
        /\ cr.shown.sent.algorithm = None => wrong = 0
        /\ msg = ReceivedMessage(cr.shown.peer, [cr.shown.sent EXCEPT !.length = @ + wrong])
        /\ cr' = [cr EXCEPT !.got =
             [now |-> cr.now + skew, wrong |-> wrong, message |-> msg,
              accepted |-> PeerAccepts(cr.role, cr.shown.peer, msg, cr.shown.match.scheme,
                                       cr.shown.signature, cr.now + skew)]]
  BY <1>0
<1>. DEFINE new == JudgedOf(cr.role, cr.shown, cr.now + skew, wrong, MessageOf(cr.shown, wrong))
<1>2. msg = MessageOf(cr.shown, wrong)
  BY <1>1 DEF MessageOf
<1>3. cr' = [cr EXCEPT !.got = new]
  BY <1>1, <1>2 DEF JudgedOf
<1>. HIDE DEF new
<1>4. /\ CredShape' /\ cr'.role = cr.role /\ cr'.pems = cr.pems /\ cr'.shown = cr.shown
      /\ cr'.got = new /\ cr'.added = cr.added /\ cr'.mgrs = cr.mgrs /\ cr'.now = cr.now
  BY <1>3 DEF CredInv, CredShape
<1>5. AddedInv' /\ PemsInv' /\ ManagersInv'
  BY <1>4 DEF CredInv, AddedInv, PemsInv, ManagersInv
<1>6. ShownInv'
  BY <1>1, <1>4 DEF CredInv, ShownInv
<1>7. JudgedInv'
  <2>1. cr'.got = JudgedOf(cr'.role, cr'.shown, cr'.now + skew, wrong, MessageOf(cr'.shown, wrong))
    BY <1>4 DEF new
  <2>. QED  BY <1>1, <1>4, <2>1 DEF JudgedInv
<1>. QED  BY <1>4, <1>5, <1>6, <1>7 DEF CredInv

LEMMA CredInvInit ==
  ASSUME CredentialsInit
  PROVE  CredInv
<1>1. PICK role \in CredRoles :
        cr = [role |-> role, now |-> 0, pems |-> {}, added |-> {}, adds |-> 0,
              mgrs |-> [plain |-> NoManager, dc |-> NoManager], shown |-> None, got |-> None]
  BY DEF CredentialsInit
<1>2. /\ DOMAIN cr = {"role", "now", "pems", "added", "adds", "mgrs", "shown", "got"}
      /\ DOMAIN cr.mgrs = {"plain", "dc"} /\ cr.role = role /\ cr.now = 0
      /\ cr.pems = {} /\ cr.added = {} /\ cr.mgrs.plain = NoManager /\ cr.mgrs.dc = NoManager
      /\ cr.shown = None /\ cr.got = None
  BY <1>1
<1>3. /\ DOMAIN NoManager = {"certs", "ident", "default"}
      /\ NoManager.certs = <<>> /\ NoManager.ident = <<>>
  BY DEF NoManager
<1>4. DOMAIN NoManager.certs = {} /\ DOMAIN NoManager.ident = {}
  BY <1>3
<1>5. CredShape
  BY <1>2, CredentialsAssumption DEF CredShape
<1>6. ManagersInv
  BY <1>2, <1>3, <1>4 DEF ManagersInv, Manager
<1>7. PemsInv /\ AddedInv /\ ShownInv /\ JudgedInv
  BY <1>2 DEF PemsInv, AddedInv, ShownInv, JudgedInv
<1>. QED  BY <1>5, <1>6, <1>7 DEF CredInv

LEMMA CredInvNext ==
  ASSUME CredInv, [CredentialsNext]_cr
  PROVE  CredInv'
<1>1. CASE UNCHANGED cr
  <2>1. CredShape' /\ PemsInv' /\ ManagersInv' /\ AddedInv'
    BY <1>1 DEF CredInv, CredShape, PemsInv, ManagersInv, AddedInv
  <2>2. ShownInv' /\ JudgedInv'
    BY <1>1 DEF CredInv, ShownInv, JudgedInv
  <2>. QED  BY <2>1, <2>2 DEF CredInv
<1>. QED  BY <1>1, IssueStep, AddCertStep, AddDelegatedStep, TickStep, PresentStep, CheckStep
          DEF CredentialsNext

(* What the invariant says: first, of the choice.                          *)
LEMMA NotNone ==
  ASSUME NoneIsNoFunction, NEW r, r = [x \in DOMAIN r |-> r[x]]
  PROVE  r # None
BY DEF NoneIsNoFunction

LEMMA FoundIs ==
  ASSUME NoneIsNoFunction, NEW cert, NEW scheme, NEW type
  PROVE  /\ Found(cert, scheme, type) # None /\ Found(cert, scheme, type).cert = cert
         /\ Found(cert, scheme, type).scheme = scheme /\ Found(cert, scheme, type).type = type
<1>. DEFINE r == Found(cert, scheme, type)
<1>1. /\ r = [x \in DOMAIN r |-> r[x]] /\ r.cert = cert /\ r.scheme = scheme /\ r.type = type
  BY DEF Found
<1>. HIDE DEF r
<1>2. r # None
  BY <1>1, NotNone
<1>. QED  BY <1>1, <1>2 DEF r

ChosenFrom(m, kind, role, pems, schemes) ==
  /\ Own(kind, m.cert, role, pems) /\ m.scheme \in Range(CredSupported) /\ m.scheme \in schemes
  /\ m.scheme \in CertSigSchemes(m.cert)

LEMMA FoundUnderName ==
  ASSUME NoneIsNoFunction, NEW mgr, NEW kind, NEW role, NEW pems, Manager(mgr, kind, role, pems),
         role = "server", NEW key, NEW schemes, FindCert(mgr, key, schemes) # None
  PROVE  LET m == FindCert(mgr, key, schemes)
         IN /\ m = Found(m.cert, m.scheme, "Direct") /\ ChosenFrom(m, kind, role, pems, schemes)
            /\ \E i \in DOMAIN Identities(m.cert) :
                 ~InvalidIdent(Identities(m.cert)[i]) /\ key = GetKeyFromIdent(Identities(m.cert)[i])
<1>. DEFINE m == FindCert(mgr, key, schemes)
<1>1. PICK s \in Range(CredSupported) :
        /\ <<key, s>> \in DOMAIN mgr.certs /\ s \in schemes
        /\ m = Found(mgr.certs[<<key, s>>], s, "Direct")
  BY FindCertIs
<1>. DEFINE cert == mgr.certs[<<key, s>>]
<1>2. Own(kind, cert, role, pems) /\ UnderName(cert, <<key, s>>)
  BY <1>1 DEF Manager, UnderKey
<1>. HIDE DEF m, cert
<1>3. m = Found(cert, s, "Direct") /\ m.cert = cert /\ m.scheme = s
  BY <1>1, FoundIs DEF cert
<1>4. PICK i \in DOMAIN Identities(cert), t \in CertSigSchemes(cert) :
        ~InvalidIdent(Identities(cert)[i]) /\ <<key, s>> = <<GetKeyFromIdent(Identities(cert)[i]), t>>
  BY <1>2 DEF UnderName
<1>5. key = GetKeyFromIdent(Identities(cert)[i]) /\ s = t
  BY <1>4
<1>. QED  BY <1>1, <1>2, <1>3, <1>4, <1>5 DEF ChosenFrom, m

LEMMA NamesOf ==
  ASSUME NEW kind, NEW cert, NEW role, NEW pems, Own(kind, cert, role, pems),
         NEW i \in DOMAIN Identities(cert), ~InvalidIdent(Identities(cert)[i])
  PROVE  IsList(Identities(cert)[i]) /\ Identities(cert)[i][1] # NoLabel
BY SameOwn, CredentialsAssumption DEF Identities, InvalidIdent

LEMMA GetCertIs ==
  ASSUME NoneIsNoFunction, NEW mgr, NEW kind, NEW role, NEW pems, Manager(mgr, kind, role, pems),
         role = "server", NEW sni \in CredSnis, NEW schemes, GetCert(mgr, sni, schemes) # None
  PROVE  LET m == GetCert(mgr, sni, schemes)
         IN /\ ChosenFrom(m, kind, role, pems, schemes)
            /\ m.type = "Direct" => HasName(m.cert, sni)
<1>. DEFINE m == GetCert(mgr, sni, schemes)
<1>1. ASSUME NEW key, sni # None, LooksUp(key, sni), FindCert(mgr, key, schemes) # None,
             m = FindCert(mgr, key, schemes)
      PROVE  ChosenFrom(m, kind, role, pems, schemes) /\ HasName(m.cert, sni)
  <2>. HIDE DEF m
  <2>0. IsList(sni)
    BY <1>1, CredentialsAssumption
  <2>1. ChosenFrom(m, kind, role, pems, schemes)
    BY <1>1, FoundUnderName
  <2>2. PICK i \in DOMAIN Identities(m.cert) :
          ~InvalidIdent(Identities(m.cert)[i]) /\ key = GetKeyFromIdent(Identities(m.cert)[i])
    BY <1>1, FoundUnderName
  <2>3. IsList(Identities(m.cert)[i]) /\ Identities(m.cert)[i][1] # NoLabel
    BY <2>1, <2>2, NamesOf DEF ChosenFrom
  <2>4. NameFits(Lower(Identities(m.cert)[i]), sni)
    BY <1>1, <2>0, <2>2, <2>3, NameLookedUp
  <2>. QED  BY <2>1, <2>4, HasNameIs
<1>2. ASSUME m = GetDefault(mgr, schemes)
      PROVE  ChosenFrom(m, kind, role, pems, schemes) /\ m.type # "Direct"
  <2>. DEFINE f == FindCert(mgr, mgr.default, schemes)
  <2>1. f # None /\ m = [f EXCEPT !.type = "Default"]
    BY <1>2 DEF GetDefault
  <2>. HIDE DEF m
  <2>2. f = Found(f.cert, f.scheme, "Direct") /\ ChosenFrom(f, kind, role, pems, schemes)
    BY <2>1, FoundUnderName
  <2>. HIDE DEF f
  <2>3. DOMAIN f = {"cert", "scheme", "type"}
    BY <2>2 DEF Found
  <2>4. m.cert = f.cert /\ m.scheme = f.scheme /\ m.type = "Default"
    BY <2>1, <2>3
  <2>. QED  BY <2>2, <2>4 DEF ChosenFrom
<1>3. \/ /\ sni # None /\ FindCert(mgr, Lower(sni), schemes) # None
         /\ m = FindCert(mgr, Lower(sni), schemes)
      \/ /\ sni # None /\ Len(sni) > 1 /\ FindCert(mgr, WildcardKey(Lower(sni)), schemes) # None
         /\ m = FindCert(mgr, WildcardKey(Lower(sni)), schemes)
      \/ m = GetDefault(mgr, schemes)
  BY DEF GetCert
<1>. HIDE DEF m
<1>. QED  BY <1>1, <1>2, <1>3 DEF LooksUp, m

(* A name that was added is found.                                         *)
LEMMA CoveredIsFound ==
  ASSUME NoneIsNoFunction, NEW mgr, NEW role, NEW pems, Manager(mgr, "plain", role, pems),
         role = "server", NEW c, PlainCert(c), Covered(mgr, c, role),
         NEW sni \in CredSnis, sni # None, HasName(c, sni), NEW schemes,
         NEW s \in CertSigSchemes(c), s \in schemes, s \in Range(CredSupported)
  PROVE  GetCert(mgr, sni, schemes) # None /\ GetCert(mgr, sni, schemes).type = "Direct"
<1>0. IsList(sni)
  BY CredentialsAssumption
<1>1. PICK i \in DOMAIN Identities(c) : NameFits(Lower(Identities(c)[i]), sni)
  BY HasNameIs
<1>. DEFINE key == GetKeyFromIdent(Identities(c)[i])
<1>2. ~InvalidIdent(Identities(c)[i]) /\ <<key, s>> \in DOMAIN mgr.certs
  BY DEF Covered
<1>3. IsList(Identities(c)[i]) /\ Identities(c)[i][1] # NoLabel
  <2>1. Own("plain", c, role, pems)
    BY DEF Own
  <2>. QED  BY <1>2, <2>1, NamesOf
<1>4. LooksUp(key, sni)
  BY <1>0, <1>1, <1>2, <1>3, NameLookedUp
<1>. HIDE DEF key
<1>5. FindCert(mgr, key, schemes) # None
  <2>1. \/ \A t \in Range(CredSupported) : ~(<<key, t>> \in DOMAIN mgr.certs /\ t \in schemes)
        \/ \E t \in Range(CredSupported) :
             FindCert(mgr, key, schemes) = Found(mgr.certs[<<key, t>>], t, "Direct")
    BY FindCertIs
  <2>2. \A t : Found(mgr.certs[<<key, t>>], t, "Direct") # None
    BY FoundIs
  <2>. QED  BY <1>2, <2>1, <2>2
<1>6. ASSUME NEW k, FindCert(mgr, k, schemes) # None PROVE FindCert(mgr, k, schemes).type = "Direct"
  BY <1>6, FoundUnderName, FoundIs
<1>7. \/ /\ FindCert(mgr, Lower(sni), schemes) # None
         /\ GetCert(mgr, sni, schemes) = FindCert(mgr, Lower(sni), schemes)
      \/ /\ FindCert(mgr, WildcardKey(Lower(sni)), schemes) # None
         /\ GetCert(mgr, sni, schemes) = FindCert(mgr, WildcardKey(Lower(sni)), schemes)
  BY <1>4, <1>5 DEF LooksUp, GetCert
<1>. QED  BY <1>6, <1>7

LEMMA ClientCertIs ==
  ASSUME NoneIsNoFunction, NEW mgr, NEW kind, NEW role, NEW pems, Manager(mgr, kind, role, pems),
         role = "client", NEW schemes, GetClientCert(mgr, schemes) # None
  PROVE  LET m == GetClientCert(mgr, schemes)
         IN ChosenFrom(m, kind, role, pems, schemes) /\ m.type # "Direct"
<1>. DEFINE m == GetClientCert(mgr, schemes)
<1>1. PICK s \in Range(CredSupported) :
        s \in DOMAIN mgr.certs /\ s \in schemes /\ m = Found(mgr.certs[s], s, "Default")
  BY GetClientCertIs
<1>2. Own(kind, mgr.certs[s], role, pems) /\ s \in CertSigSchemes(mgr.certs[s])
  BY <1>1 DEF Manager, UnderKey
<1>. HIDE DEF m
<1>3. m.cert = mgr.certs[s] /\ m.scheme = s /\ m.type = "Default"
  BY <1>1, FoundIs
<1>. QED  BY <1>1, <1>2, <1>3 DEF ChosenFrom, m

(* The match, of either role.                                              *)
ChosenFor(m, peer) ==
  \/ /\ peer.dcSchemes # None /\ ChosenFrom(m, "dc", cr.role, cr.pems, peer.dcSchemes)
     /\ m.cert.credential # None
  \/ /\ ChosenFrom(m, "plain", cr.role, cr.pems, peer.schemes)
     /\ m.cert.credential = None

LEMMA MatchIs ==
  ASSUME NoneIsNoFunction, CredInv, NEW peer,
         NEW sni \in (IF cr.role = "server" THEN CredSnis ELSE {None}),
         NEW m, m = MatchOf(cr.role, cr.mgrs, sni, peer), m # None
  PROVE  ChosenFor(m, peer) /\ (m.type = "Direct" => HasName(m.cert, sni))
<1>1. /\ Manager(cr.mgrs.plain, "plain", cr.role, cr.pems) /\ Manager(cr.mgrs.dc, "dc", cr.role, cr.pems)
      /\ cr.role \in {"server", "client"}
  BY DEF CredInv, ManagersInv, CredShape
<1>2. \A schemes : /\ ChosenFrom(m, "dc", cr.role, cr.pems, schemes) => m.cert.credential # None
                   /\ ChosenFrom(m, "plain", cr.role, cr.pems, schemes) => m.cert.credential = None
  BY DEF ChosenFrom, Own, DelegatedCert, PlainCert
<1>3. CASE cr.role = "server"
  <2>1. \/ peer.dcSchemes # None /\ m = GetCert(cr.mgrs.dc, sni, peer.dcSchemes)
        \/ m = GetCert(cr.mgrs.plain, sni, peer.schemes)
    BY <1>3 DEF MatchOf, GetServerMatch
  <2>2. sni \in CredSnis
    BY <1>3
  <2>3. CASE peer.dcSchemes # None /\ m = GetCert(cr.mgrs.dc, sni, peer.dcSchemes)
    <3>1. /\ ChosenFrom(m, "dc", cr.role, cr.pems, peer.dcSchemes)
          /\ m.type = "Direct" => HasName(m.cert, sni)
      BY <1>1, <1>3, <2>2, <2>3, GetCertIs
    <3>. QED  BY <1>2, <2>3, <3>1 DEF ChosenFor
  <2>4. CASE m = GetCert(cr.mgrs.plain, sni, peer.schemes)
    <3>1. /\ ChosenFrom(m, "plain", cr.role, cr.pems, peer.schemes)
          /\ m.type = "Direct" => HasName(m.cert, sni)
      BY <1>1, <1>3, <2>2, <2>4, GetCertIs
    <3>. QED  BY <1>2, <3>1 DEF ChosenFor
  <2>. QED  BY <2>1, <2>3, <2>4
<1>4. CASE cr.role = "client"
  <2>1. \/ peer.dcSchemes # None /\ m = GetClientCert(cr.mgrs.dc, peer.dcSchemes)
        \/ m = GetClientCert(cr.mgrs.plain, peer.schemes)
    BY <1>4 DEF MatchOf, GetClientMatch
  <2>2. CASE peer.dcSchemes # None /\ m = GetClientCert(cr.mgrs.dc, peer.dcSchemes)
    <3>1. ChosenFrom(m, "dc", cr.role, cr.pems, peer.dcSchemes) /\ m.type # "Direct"
      BY <1>1, <1>4, <2>2, ClientCertIs
    <3>. QED  BY <1>2, <2>2, <3>1 DEF ChosenFor
  <2>3. CASE m = GetClientCert(cr.mgrs.plain, peer.schemes)
    <3>1. ChosenFrom(m, "plain", cr.role, cr.pems, peer.schemes) /\ m.type # "Direct"
      BY <1>1, <1>4, <2>3, ClientCertIs
    <3>. QED  BY <1>2, <3>1 DEF ChosenFor
  <2>. QED  BY <2>1, <2>2, <2>3
<1>. QED  BY <1>1, <1>3, <1>4

LEMMA ChoiceHolds ==
  ASSUME NoneIsNoFunction, CredInv, NEW peer,
         NEW sni \in (IF cr.role = "server" THEN CredSnis ELSE {None}),
         NEW m, m = MatchOf(cr.role, cr.mgrs, sni, peer)
  PROVE  ChoiceIsRight(peer, sni, m)
<1>1. m # None =>
       /\ \E i \in DOMAIN CredSupported : CredSupported[i] = m.scheme
       /\ m.scheme \in (IF m.cert.credential = None THEN peer.schemes ELSE peer.dcSchemes)
       /\ m.cert.credential # None => peer.dcSchemes # None
       /\ m.type = "Direct" => HasName(m.cert, sni)
  <2>. SUFFICES ASSUME m # None
                PROVE  /\ m.scheme \in Range(CredSupported)
                       /\ m.scheme \in (IF m.cert.credential = None THEN peer.schemes ELSE peer.dcSchemes)
                       /\ m.cert.credential # None => peer.dcSchemes # None
                       /\ m.type = "Direct" => HasName(m.cert, sni)
    BY DEF Range
  <2>1. ChosenFor(m, peer) /\ (m.type = "Direct" => HasName(m.cert, sni))
    BY MatchIs
  <2>. QED  BY <2>1 DEF ChosenFor, ChosenFrom
<1>2. ASSUME NEW c \in cr.added, CertSigSchemes(c) \cap peer.schemes \cap Range(CredSupported) # {},
             cr.role = "server" => (sni # None /\ HasName(c, sni))
      PROVE  m # None /\ (m.type = "Direct" \/ m.cert.credential # None \/ cr.role = "client")
  <2>1. /\ Manager(cr.mgrs.plain, "plain", cr.role, cr.pems) /\ cr.role \in {"server", "client"}
        /\ PlainCert(c) /\ Covered(cr.mgrs.plain, c, cr.role)
    BY DEF CredInv, ManagersInv, CredShape, AddedInv
  <2>2. PICK s \in CertSigSchemes(c) : s \in peer.schemes /\ s \in Range(CredSupported)
    BY <1>2
  <2>3. CASE cr.role = "server"
    <3>1. /\ GetCert(cr.mgrs.plain, sni, peer.schemes) # None
          /\ GetCert(cr.mgrs.plain, sni, peer.schemes).type = "Direct"
      BY <1>2, <2>1, <2>2, <2>3, CoveredIsFound
    <3>2. CASE m = GetCert(cr.mgrs.plain, sni, peer.schemes)
      BY <3>1, <3>2
    <3>3. CASE /\ peer.dcSchemes # None /\ GetCert(cr.mgrs.dc, sni, peer.dcSchemes) # None
               /\ m = GetCert(cr.mgrs.dc, sni, peer.dcSchemes)
      <4>1. ChosenFrom(m, "dc", cr.role, cr.pems, peer.dcSchemes)
        <5>1. Manager(cr.mgrs.dc, "dc", cr.role, cr.pems) /\ sni \in CredSnis
          BY <2>3 DEF CredInv, ManagersInv
        <5>. QED  BY <2>3, <3>3, <5>1, GetCertIs
      <4>. QED  BY <3>3, <4>1 DEF ChosenFrom, Own, DelegatedCert
    <3>. QED  BY <2>3, <3>2, <3>3 DEF MatchOf, GetServerMatch
  <2>4. CASE cr.role = "client"
    <3>1. GetClientCert(cr.mgrs.plain, peer.schemes) # None
      <4>1. s \in DOMAIN cr.mgrs.plain.certs
        BY <2>1, <2>4 DEF Covered
      <4>. QED  BY <2>2, <4>1, GetClientCertIs, FoundIs
    <3>2. m # None
      BY <2>4, <3>1 DEF MatchOf, GetClientMatch
    <3>. QED  BY <2>4, <3>2
  <2>. QED  BY <2>1, <2>3, <2>4
<1>. QED  BY <1>1, <1>2 DEF ChoiceIsRight

(* Then, of the verdict.  What arrives is what was sent, or nothing.       *)
LEMMA ArrivesOrNot ==
  ASSUME NoneIsNoFunction, NEW role, NEW sni, NEW peer, NEW match, match # None,
         match.cert.chain \in X509Chains, NEW shown, shown = ShownOf(role, sni, peer, match),
         shown.sent # None, NEW wrong \in {-1, 0, 1}, shown.sent.algorithm = None => wrong = 0,
         NEW msg, msg = MessageOf(shown, wrong), msg # None
  PROVE  msg = GetCertMessage(match.cert) /\ wrong = 0
<1>. DEFINE cert == match.cert
            whole == GetCertMessage(cert)
            sent == shown.sent
            got == [sent EXCEPT !.length = @ + wrong]
            plain == [algorithm |-> None, length |-> 0, message |-> whole]
<1>1. shown.peer = peer /\ sent = SentOf(role, cert, peer)
  BY DEF ShownOf
<1>2. whole.size = Len(cert.chain) /\ Len(cert.chain) \in Nat
  <2>1. IsList(cert.chain)
    BY CredentialsAssumption
  <2>. QED  BY <2>1, ListIs DEF GetCertMessage
<1>3. \/ sent = plain
      \/ \E algo \in {"zlib", "zstd", "brotli"} : sent = Compressor(algo, whole)
  <2>1. CASE role # "server"
    BY <1>1, <2>1 DEF SentOf
  <2>2. CASE role = "server"
    <3>. DEFINE common == {i \in DOMAIN CompressionOrder : CompressionOrder[i] \in peer.algos}
                algo == CompressionOrder[FirstPlace(common)]
    <3>1. sent = IF common = {} THEN plain
                 ELSE IF algo \notin cert.compressors THEN None ELSE CompressWith(algo, whole)
      BY <1>1, <2>2 DEF SentOf, GetCertificate
    <3>2. common \in SUBSET Nat /\ \A i \in common : CompressionOrder[i] \in {"zlib", "zstd", "brotli"}
      BY CredentialsAssumption
    <3>3. CASE common = {}
      BY <3>1, <3>3
    <3>4. CASE common # {}
      <4>1. FirstPlace(common) \in common
        <5>. HIDE DEF common
        <5>. QED  BY <3>2, <3>4, FirstPlaceIs
      <4>2. algo \in {"zlib", "zstd", "brotli"}
        BY <3>2, <4>1
      <4>. HIDE DEF algo, common, plain, whole
      <4>3. sent = CompressWith(algo, whole)
        BY <3>1, <3>4
      <4>. QED  BY <4>2, <4>3 DEF CompressWith, ZlibCompress, ZstdCompress, BrotliCompress
    <3>. QED  BY <3>3, <3>4
  <2>. QED  BY <2>1, <2>2
<1>4. msg = ReceivedMessage(peer, got)
  BY <1>1 DEF MessageOf
<1>. HIDE DEF whole, sent
<1>5. CASE sent = plain
  <2>1. wrong = 0 /\ got.algorithm = None /\ got.message = whole
    BY <1>5 DEF sent
  <2>. QED  BY <1>4, <2>1 DEF ReceivedMessage, whole
<1>6. ASSUME NEW algo \in {"zlib", "zstd", "brotli"}, sent = Compressor(algo, whole)
      PROVE  msg = whole /\ wrong = 0
  <2>1. got.algorithm = algo /\ got.message = whole /\ got.length = whole.size + wrong
    BY <1>6 DEF Compressor
  <2>. HIDE DEF got
  <2>2. algo # None
    BY CredentialsAssumption
  <2>3. msg = HandleCompressedCertificate(peer, got)
    BY <1>4, <2>1, <2>2 DEF ReceivedMessage
  <2>4. msg = Decompressor(algo, got)
    BY <1>6, <2>1, <2>3 DEF HandleCompressedCertificate, ZlibDecompress, ZstdDecompress, BrotliDecompress
  <2>5. got.message.size = got.length /\ msg = got.message
    BY <2>4 DEF Decompressor
  <2>. QED  BY <1>2, <2>1, <2>5
<1>. QED  BY <1>3, <1>5, <1>6 DEF whole

LEMMA SentFields ==
  ASSUME NoneIsNoFunction, NEW cert
  PROVE  /\ GetCertMessage(cert) # None /\ GetCertMessage(cert).chain = cert.chain
         /\ GetCertMessage(cert).credential = cert.credential
<1>. DEFINE r == GetCertMessage(cert)
<1>1. r = [x \in DOMAIN r |-> r[x]] /\ r.chain = cert.chain /\ r.credential = cert.credential
  BY DEF GetCertMessage
<1>. HIDE DEF r
<1>2. r # None
  BY <1>1, NotNone
<1>. QED  BY <1>1, <1>2 DEF r

SignatureBy(key, scheme, context, over) ==
  [key |-> key, scheme |-> scheme, data |-> PrepareSignData(context, over)]

LEMMA SignatureByIs ==
  ASSUME NoneIsNoFunction, NEW key, NEW scheme, NEW context, NEW over
  PROVE  /\ SignatureBy(key, scheme, context, over) # None
         /\ SignatureBy(key, scheme, context, over).key = key
         /\ SignatureBy(key, scheme, context, over).data.over = over
<1>. DEFINE r == SignatureBy(key, scheme, context, over)
<1>1. r = [x \in DOMAIN r |-> r[x]] /\ r.key = key /\ r.data.over = over
  BY DEF SignatureBy, PrepareSignData
<1>. HIDE DEF r
<1>2. r # None
  BY <1>1, NotNone
<1>. QED  BY <1>1, <1>2 DEF r

(* A certificate is accepted if its chain is trusted.                      *)
LEMMA PlainVerdict ==
  ASSUME NoneIsNoFunction, NEW role, NEW peer, NEW cert, PlainCert(cert), NEW now,
         NEW scheme \in CertSigSchemes(cert), NEW sig,
         sig = SignWith(cert.type, cert.key, scheme, RoleContext(role), <<"transcript">>)
  PROVE  PeerAccepts(role, peer, GetCertMessage(cert), scheme, sig, now) <=>
           scheme \in peer.schemes /\ Trusted(cert.chain, peer, role)
<1>. DEFINE msg == GetCertMessage(cert)
            leaf == MakePeerCert(peer, msg)
            over == <<"transcript">>
<1>1. msg # None /\ msg.chain = cert.chain /\ msg.credential = None
  BY SentFields DEF PlainCert
<1>2. leaf = [x509 |-> cert.chain[1], key |-> cert.key, credential |-> None]
  BY <1>1 DEF MakePeerCert, PlainCert
<1>. HIDE DEF msg, leaf, over
<1>3. leaf # None /\ leaf.key = cert.key /\ leaf.credential = None
  <2>1. leaf = [x \in DOMAIN leaf |-> leaf[x]] /\ leaf.key = cert.key /\ leaf.credential = None
    BY <1>2
  <2>. QED  BY <2>1, NotNone
<1>4. scheme \in GetSigSchemes(cert.key.type) /\ cert.type = cert.key.type
  BY DEF PlainCert, CertSigSchemes
<1>5. sig = SignatureBy(cert.key, scheme, RoleContext(role), over)
  BY <1>4 DEF SignWith, SignatureBy, over
<1>6. VerifyLeaf(leaf, scheme, RoleContext(role), over, sig, now)
  BY <1>3, <1>4, <1>5 DEF VerifyLeaf, VerifyWith, PeerKeyFits, SignatureBy
<1>. QED  BY <1>1, <1>3, <1>6 DEF PeerAccepts, Trusted, msg, leaf, over

(* A credential, if moreover it was issued for this and is in its time.    *)
LEMMA DelegatedVerdict ==
  ASSUME NoneIsNoFunction, CredInv, NEW peer, peer.dcSchemes # None, NEW cert,
         DelegatedCert(cert, cr.role, cr.pems), NEW now \in Int,
         NEW scheme \in CertSigSchemes(cert), NEW sig,
         sig = SignWith(cert.type, cert.key, scheme, RoleContext(cr.role), <<"transcript">>)
  PROVE  LET accepted == PeerAccepts(cr.role, peer, GetCertMessage(cert), scheme, sig, now)
             wanted == scheme \in peer.schemes /\ Trusted(cert.chain, peer, cr.role)
         IN /\ accepted => wanted /\ IssuedFor(cert, cr.role, now)
            /\ (wanted /\ IssuedFor(cert, cr.role, now) /\ cert.key.type = cert.chain[1].key.type) => accepted
<1>. DEFINE msg == GetCertMessage(cert)
            leaf == MakePeerCert(peer, msg)
            over == <<"transcript">>
            cred == cert.credential
            x509 == cert.chain[1]
            context == DelegationContext(cr.role)
            buffer == PrepareSignatureBuffer(cred, x509)
<1>1. msg # None /\ msg.chain = cert.chain /\ msg.credential = cred /\ cred # None
  BY SentFields DEF DelegatedCert
<1>2. leaf = IF ~PeerKeyFits(cred.publicKey.type, x509.key) THEN None
             ELSE [x509 |-> x509, key |-> cred.publicKey, credential |-> cred]
  BY <1>1 DEF MakePeerCert
<1>3. scheme = cred.verifyScheme /\ scheme \in GetSigSchemes("P256") /\ cert.type = "P256"
  BY <1>1 DEF DelegatedCert, CertSigSchemes
<1>4. sig = SignatureBy(cert.key, scheme, RoleContext(cr.role), over)
  BY <1>3 DEF SignWith, SignatureBy
<1>5. VerifyWith(x509.key.type, x509.key, cred.scheme, context, buffer, cred.signature)
  BY DEF DelegatedCert, LeafSigned
<1>6. cert.key.type = "P256" /\ cr.role \in {"server", "client"}
  BY DEF DelegatedCert, CredInv, CredShape
<1>7. context = IF RoleContext(cr.role) = "Server" THEN "ServerDelegatedCredential" ELSE "ClientDelegatedCredential"
  BY <1>6 DEF RoleContext, DelegationContext
<1>8. PICK p \in cr.pems : p.pem.mode = cr.role /\ p.pem.credential = cred
  BY DEF DelegatedCert
<1>9. \A q \in cr.pems : q.pem.credential = cred =>
        /\ q.pem.key = cred.publicKey /\ q.parent[1] = x509 /\ CheckExtensions(x509)
        /\ x509.notBefore + cred.validTime = q.issued + q.valid
        /\ q.issued \in Int /\ q.valid \in Int
  <2>. SUFFICES ASSUME NEW q \in cr.pems, q.pem.credential = cred
                PROVE  /\ q.pem.key = cred.publicKey /\ q.parent[1] = x509 /\ CheckExtensions(x509)
                       /\ x509.notBefore + cred.validTime = q.issued + q.valid
                       /\ q.issued \in Int /\ q.valid \in Int
    OBVIOUS
  <2>1. PemInv(q)
    BY DEF CredInv, PemsInv
  <2>2. cred.signature.data.over = buffer
    <3>1. cred.signature = SignatureBy(x509.key, cred.scheme, context, buffer)
      BY <1>5 DEF VerifyWith, SignatureBy
    <3>. HIDE DEF cred, buffer, x509, context
    <3>. QED  BY <3>1, SignatureByIs
  <2>3. buffer[1] = x509
    BY DEF PrepareSignatureBuffer
  <2>4. q.parent[1] = x509
    BY <2>1, <2>2, <2>3 DEF PemInv
  <2>5. q.parent[1].notBefore \in Int /\ q.issued \in Int /\ q.valid \in Int
    BY <2>1, CredentialsAssumption DEF PemInv
  <2>6. q.pem.key = cred.publicKey /\ CheckExtensions(x509)
        /\ cred.validTime = q.issued + q.valid - x509.notBefore
    BY <2>1, <2>4 DEF PemInv
  <2>7. x509.notBefore + cred.validTime = q.issued + q.valid
    BY <2>4, <2>5, <2>6
  <2>. QED  BY <2>4, <2>5, <2>6, <2>7
<1>. DEFINE accepted == PeerAccepts(cr.role, peer, msg, scheme, sig, now)
            verified == VerifyLeaf(leaf, scheme, RoleContext(cr.role), over, sig, now)
<1>10. accepted <=> leaf # None /\ verified /\ scheme \in peer.schemes /\ Trusted(cert.chain, peer, cr.role)
  BY <1>1 DEF PeerAccepts, Trusted
<1>11. PeerKeyFits(cred.publicKey.type, x509.key) =>
         leaf # None /\ leaf.x509 = x509 /\ leaf.key = cred.publicKey /\ leaf.credential = cred
  <2>1. PeerKeyFits(cred.publicKey.type, x509.key) =>
          /\ leaf = [x \in DOMAIN leaf |-> leaf[x]]
          /\ leaf.x509 = x509 /\ leaf.key = cred.publicKey /\ leaf.credential = cred
    BY <1>2
  <2>. HIDE DEF leaf
  <2>. QED  BY <2>1, NotNone
<1>12. ~PeerKeyFits(cred.publicKey.type, x509.key) => leaf = None
  BY <1>2
<1>. HIDE DEF msg, leaf, over, cred, x509, context, buffer
<1>13. PeerKeyFits(cred.publicKey.type, x509.key) =>
         (verified <=>
            /\ scheme = cred.verifyScheme /\ CheckExtensions(x509)
            /\ CheckCredentialTimeValidity(x509, cred, now)
            /\ VerifyWith(cred.publicKey.type, x509.key, cred.scheme, context, buffer, cred.signature)
            /\ VerifyWith(cred.publicKey.type, cred.publicKey, scheme, RoleContext(cr.role), over, sig))
  BY <1>1, <1>7, <1>11 DEF VerifyLeaf, VerifyDelegated, buffer
<1>. DEFINE expires == x509.notBefore + cred.validTime
<1>14. CheckCredentialTimeValidity(x509, cred, now) <=> (now < expires /\ expires - now <= CredWeek)
  BY DEF CheckCredentialTimeValidity
<1>. HIDE DEF expires
<1>15. IssuedFor(cert, cr.role, now) <=>
         /\ cert.key = cred.publicKey /\ CheckExtensions(x509)
         /\ CheckCredentialTimeValidity(x509, cred, now)
  <2>0. \A q \in cr.pems : q.pem.credential = cred =>
          /\ q.pem.key = cred.publicKey /\ q.parent[1] = x509 /\ CheckExtensions(x509)
          /\ q.issued + q.valid = expires /\ q.issued \in Int /\ q.valid \in Int
    BY <1>9 DEF expires
  <2>1. IssuedFor(cert, cr.role, now) <=>
          \E q \in cr.pems :
            /\ q.pem.credential = cred /\ q.pem.mode = cr.role
            /\ q.parent[1] = x509 /\ q.pem.key = cert.key /\ CheckExtensions(x509)
            /\ now < q.issued + q.valid /\ q.issued + q.valid - now <= CredWeek
    BY DEF IssuedFor, cred, x509
  <2>2. ASSUME IssuedFor(cert, cr.role, now)
        PROVE  /\ cert.key = cred.publicKey /\ CheckExtensions(x509)
               /\ CheckCredentialTimeValidity(x509, cred, now)
    <3>1. PICK q \in cr.pems :
            /\ q.pem.credential = cred /\ q.pem.mode = cr.role
            /\ q.parent[1] = x509 /\ q.pem.key = cert.key /\ CheckExtensions(x509)
            /\ now < q.issued + q.valid /\ q.issued + q.valid - now <= CredWeek
      BY <2>1, <2>2
    <3>2. q.issued + q.valid = expires /\ q.issued \in Int /\ q.valid \in Int /\ q.pem.key = cred.publicKey
      BY <2>0, <3>1
    <3>3. now < expires /\ expires - now <= CredWeek
      BY <3>1, <3>2, CredentialsAssumption
    <3>. QED  BY <1>14, <3>1, <3>2, <3>3
  <2>3. ASSUME cert.key = cred.publicKey, CheckExtensions(x509),
               CheckCredentialTimeValidity(x509, cred, now)
        PROVE  IssuedFor(cert, cr.role, now)
    <3>1. /\ p.pem.key = cred.publicKey /\ p.parent[1] = x509 /\ p.issued + p.valid = expires
          /\ p.issued \in Int /\ p.valid \in Int
      BY <1>8, <2>0
    <3>2. now < expires /\ expires - now <= CredWeek
      BY <1>14, <2>3
    <3>3. now < p.issued + p.valid /\ p.issued + p.valid - now <= CredWeek
      BY <3>1, <3>2, CredentialsAssumption
    <3>. QED  BY <1>8, <2>1, <2>3, <3>1, <3>3
  <2>. QED  BY <2>2, <2>3
<1>. HIDE DEF verified
<1>16. ASSUME accepted PROVE /\ scheme \in peer.schemes /\ Trusted(cert.chain, peer, cr.role)
                             /\ IssuedFor(cert, cr.role, now)
  <2>1. PeerKeyFits(cred.publicKey.type, x509.key) /\ verified
    BY <1>10, <1>12, <1>16
  <2>2. sig = SignatureBy(cred.publicKey, scheme, RoleContext(cr.role), over)
    BY <1>13, <2>1 DEF VerifyWith, SignatureBy
  <2>3. cert.key = cred.publicKey
    <3>. DEFINE c == RoleContext(cr.role)
    <3>. HIDE DEF c
    <3>1. SignatureBy(cert.key, scheme, c, over).key = cert.key
      BY SignatureByIs
    <3>2. SignatureBy(cred.publicKey, scheme, c, over).key = cred.publicKey
      BY SignatureByIs
    <3>. QED  BY <1>4, <2>2, <3>1, <3>2 DEF c
  <2>. QED  BY <1>10, <1>13, <1>15, <1>16, <2>1, <2>3
<1>17. ASSUME scheme \in peer.schemes, Trusted(cert.chain, peer, cr.role),
              IssuedFor(cert, cr.role, now), cert.key.type = x509.key.type
       PROVE  accepted
  <2>1. /\ cert.key = cred.publicKey /\ CheckExtensions(x509)
        /\ CheckCredentialTimeValidity(x509, cred, now)
    BY <1>15, <1>17
  <2>2. PeerKeyFits(cred.publicKey.type, x509.key) /\ x509.key.type = cred.publicKey.type
    BY <1>17, <2>1 DEF PeerKeyFits
  <2>3. VerifyWith(cred.publicKey.type, cred.publicKey, scheme, RoleContext(cr.role), over, sig)
    BY <1>3, <1>4, <1>6, <2>1 DEF VerifyWith, PeerKeyFits, SignatureBy
  <2>4. VerifyWith(cred.publicKey.type, x509.key, cred.scheme, context, buffer, cred.signature)
    BY <1>5, <2>2
  <2>. QED  BY <1>3, <1>10, <1>11, <1>13, <1>17, <2>1, <2>2, <2>3, <2>4
<1>. QED  BY <1>16, <1>17 DEF msg, x509

LEMMA VerdictHolds ==
  ASSUME NoneIsNoFunction, CredInv, cr.shown # None, cr.got # None
  PROVE  VerdictIsRight(cr.shown.peer, cr.shown.match, cr.got)
<1>1. PICK peer \in CredPeers, sni \in (IF cr.role = "server" THEN CredSnis ELSE {None}) :
        cr.shown = ShownOf(cr.role, sni, peer, MatchOf(cr.role, cr.mgrs, sni, peer))
  BY DEF CredInv, ShownInv
<1>. DEFINE m == MatchOf(cr.role, cr.mgrs, sni, peer)
            cert == m.cert
            sig == SignWith(cert.type, cert.key, m.scheme, RoleContext(cr.role), <<"transcript">>)
<1>2. PICK skew \in CredSkews, wrong \in {-1, 0, 1} :
        /\ cr.shown.sent # None
        /\ cr.shown.sent.algorithm = None => wrong = 0
        /\ cr.got = JudgedOf(cr.role, cr.shown, cr.now + skew, wrong, MessageOf(cr.shown, wrong))
  BY DEF CredInv, JudgedInv
<1>. DEFINE now == cr.now + skew
            msg == MessageOf(cr.shown, wrong)
<1>. HIDE DEF m
<1>3. m # None /\ cr.shown.peer = peer /\ cr.shown.match = m /\ cr.shown.signature = sig
  BY <1>1, <1>2 DEF ShownOf, m
<1>4. now \in Int
  BY CredentialsAssumption DEF CredInv, CredShape
<1>5. ChosenFor(m, peer)
  BY <1>3, MatchIs DEF m
<1>6. cert.chain \in X509Chains /\ m.scheme \in CertSigSchemes(cert)
  BY <1>5, SameOwn DEF ChosenFor, ChosenFrom
<1>. HIDE DEF msg
<1>7. msg # None => msg = GetCertMessage(cert) /\ wrong = 0
  <2>1. cr.shown = ShownOf(cr.role, sni, peer, m)
    BY <1>1 DEF m
  <2>. QED  BY <1>2, <1>3, <1>6, <2>1, ArrivesOrNot DEF msg
<1>. HIDE DEF now, cert, sig
<1>8. /\ cr.got.now = now /\ cr.got.wrong = wrong /\ cr.got.message = msg
      /\ cr.got.accepted = PeerAccepts(cr.role, peer, msg, m.scheme, sig, now)
  BY <1>2, <1>3 DEF JudgedOf, now, msg
<1>. DEFINE accepted == PeerAccepts(cr.role, peer, msg, m.scheme, sig, now)
            wanted == m.scheme \in peer.schemes /\ Trusted(cert.chain, peer, cr.role)
<1>9. accepted => msg # None
  BY DEF PeerAccepts
<1>10. msg # None =>
         /\ accepted => wanted /\ (cert.credential # None => IssuedFor(cert, cr.role, now))
         /\ (/\ wanted
             /\ cert.credential # None =>
                  IssuedFor(cert, cr.role, now) /\ cert.key.type = cert.chain[1].key.type) => accepted
  <2>. SUFFICES ASSUME msg # None
                PROVE  /\ accepted => wanted /\ (cert.credential # None => IssuedFor(cert, cr.role, now))
                       /\ (/\ wanted
                           /\ cert.credential # None =>
                                IssuedFor(cert, cr.role, now) /\ cert.key.type = cert.chain[1].key.type) => accepted
    OBVIOUS
  <2>1. msg = GetCertMessage(cert)
    BY <1>7
  <2>2. sig = SignWith(cert.type, cert.key, m.scheme, RoleContext(cr.role), <<"transcript">>)
    BY DEF sig
  <2>3. CASE PlainCert(cert)
    <3>1. accepted <=> wanted
      BY <1>6, <2>1, <2>2, <2>3, PlainVerdict
    <3>2. cert.credential = None
      BY <2>3 DEF PlainCert
    <3>. HIDE DEF accepted, wanted
    <3>. QED  BY <3>1, <3>2
  <2>4. CASE DelegatedCert(cert, cr.role, cr.pems) /\ peer.dcSchemes # None
    <3>1. /\ accepted => wanted /\ IssuedFor(cert, cr.role, now)
          /\ (wanted /\ IssuedFor(cert, cr.role, now) /\ cert.key.type = cert.chain[1].key.type) => accepted
      BY <1>4, <1>6, <2>1, <2>2, <2>4, DelegatedVerdict
    <3>2. cert.credential # None
      BY <2>4 DEF DelegatedCert
    <3>. HIDE DEF accepted, wanted
    <3>. QED  BY <3>1, <3>2
  <2>. QED  BY <1>5, <2>3, <2>4 DEF ChosenFor, ChosenFrom, Own, cert
<1>. QED
  <2>1. cr.got.accepted = accepted
    BY <1>8
  <2>. QED  BY <1>3, <1>7, <1>8, <1>9, <1>10, <2>1 DEF VerdictIsRight, cert

(* And of the identity that a ticket names.                                *)
LEMMA IdentityHolds ==
  ASSUME CredInv, cr.role = "server", NEW c \in cr.added
  PROVE  LET ident == Identities(c)[1]
         IN /\ GetIdentityMatch(cr.mgrs, ident) # None
            /\ Identities(GetIdentityMatch(cr.mgrs, ident))[1] = ident
<1>. DEFINE ident == Identities(c)[1]
<1>1. ident \in DOMAIN cr.mgrs.plain.ident
  BY DEF CredInv, AddedInv, Covered
<1>2. ASSUME NEW mgr, NEW kind, Manager(mgr, kind, cr.role, cr.pems), ident \in DOMAIN mgr.ident
      PROVE  GetCertOfIdentity(mgr, ident) # None /\ Identities(GetCertOfIdentity(mgr, ident))[1] = ident
  BY <1>2, SameOwn DEF Manager, GetCertOfIdentity
<1>3. Manager(cr.mgrs.plain, "plain", cr.role, cr.pems) /\ Manager(cr.mgrs.dc, "dc", cr.role, cr.pems)
  BY DEF CredInv, ManagersInv
<1>4. CASE ident \in DOMAIN cr.mgrs.dc.ident
  BY <1>2, <1>3, <1>4 DEF GetIdentityMatch
<1>5. CASE ident \notin DOMAIN cr.mgrs.dc.ident
  <2>1. GetCertOfIdentity(cr.mgrs.dc, ident) = None
    BY <1>5 DEF GetCertOfIdentity
  <2>. QED  BY <1>1, <1>2, <1>3, <2>1 DEF GetIdentityMatch
<1>. QED  BY <1>4, <1>5

LEMMA CredInvSays ==
  ASSUME NoneIsNoFunction, CredInv
  PROVE  CredentialsHold
<1>. SUFFICES ASSUME cr.shown # None
              PROVE  /\ ChoiceIsRight(cr.shown.peer, cr.shown.sni, cr.shown.match)
                     /\ cr.got # None => VerdictIsRight(cr.shown.peer, cr.shown.match, cr.got)
                     /\ cr.role = "server" => \A c \in cr.added :
                          LET ident == Identities(c)[1] IN
                            /\ GetIdentityMatch(cr.mgrs, ident) # None
                            /\ Identities(GetIdentityMatch(cr.mgrs, ident))[1] = ident
  BY DEF CredentialsHold
<1>1. PICK peer \in CredPeers, sni \in (IF cr.role = "server" THEN CredSnis ELSE {None}) :
        cr.shown = ShownOf(cr.role, sni, peer, MatchOf(cr.role, cr.mgrs, sni, peer))
  BY DEF CredInv, ShownInv
<1>. DEFINE m == MatchOf(cr.role, cr.mgrs, sni, peer)
<1>2. cr.shown.peer = peer /\ cr.shown.sni = sni /\ cr.shown.match = m
  BY <1>1 DEF ShownOf
<1>3. ChoiceIsRight(peer, sni, m)
  BY ChoiceHolds
<1>. QED  BY <1>2, <1>3, VerdictHolds, IdentityHolds

(* For every set of certificates, credentials, peers and names, a manager  *)
(* chooses a certificate with the name that was asked for and a scheme     *)
(* that both ends take, a peer accepts a credential only in its time and   *)
(* from the key it was issued for, and nothing that is right is refused    *)
(* but a credential of another key type than its certificate's             *)
(* (CertManager, DelegatedCredentialCertManager, PeerDelegatedCredential). *)
THEOREM CredentialsAreRight ==
  ASSUME NoneIsNoFunction
  PROVE  CredentialsSpec => []CredentialsHold
<1>1. CredentialsInit => CredInv
  BY CredInvInit
<1>2. CredInv /\ [CredentialsNext]_cr => CredInv'
  BY CredInvNext
<1>3. CredInv => CredentialsHold
  BY CredInvSays
<1>. QED  BY <1>1, <1>2, <1>3, PTL DEF CredentialsSpec
=============================================================================
