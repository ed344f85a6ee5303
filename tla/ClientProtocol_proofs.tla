----------------------- MODULE ClientProtocol_proofs -----------------------
(***************************************************************************)
(* The safety properties of the client's state machine, for every context, *)
(* every message of the server and every verdict of the verifier.  Where   *)
(* the property is the client's own, the peer is stronger than the one TLC *)
(* runs: in every step it may replace all that the client has not read yet *)
(* by anything at all.                                                     *)
(***************************************************************************)
EXTENDS ClientWithPeer, Messages_proofs, FiniteSetTheorems

(* A step of a client whose peer and network do as they like.              *)
AnyStep ==
  \/ Connect
  \/ PeerEvent
  \/ AppEvent
  \/ UNCHANGED <<ctx, state, read, write, earlyWrite, offer, neg, transcript,
                 sched, auth, cert, chain, sentCCS, out, calls, written, asked>>

(* Before the ServerHello; between it and the end of the handshake; over.  *)
BeforeHello == {"Uninitialized", "ExpectingServerHello"}
InFlight == {"ExpectingEncryptedExtensions", "ExpectingCertificate",
             "ExpectingCertificateVerify", "ExpectingFinished"}
Over == {"Closed", "Error"}

NegFields == {"version", "cipher", "group", "kex", "early", "pskType",
              "pskMode", "alpn"}
OfferFields == {"psk", "params", "shares", "hello"}

TypeInv ==
  /\ state \in States
  /\ IsSeq(out) /\ IsSeq(calls) /\ IsSeq(transcript)
  /\ IsLayer(read) /\ IsLayer(write) /\ IsLayer(earlyWrite)
  /\ DOMAIN neg = NegFields /\ DOMAIN offer = OfferFields
  /\ sched = [appCtx |-> sched.appCtx, clientGen |-> sched.clientGen,
              serverGen |-> sched.serverGen]
  /\ sched.clientGen \in Nat
  /\ None \notin Elements(ctx.versions) \cup Elements(ctx.ciphers)

(* Which optionals are set, and what the client will find in them.         *)
OptionalsInv ==
  /\ OptionalsAreSet
  /\ state = "Uninitialized" => calls = <<>> /\ out = <<>>
  /\ state \in InFlight /\ neg.early \in {"Attempted", "Accepted"} /\ ~ctx.omitEarly
       => HasLayer(earlyWrite)
  /\ state = "ExpectingServerHello" =>
       neg.early \in {"Attempted", "NotAttempted", "Rejected"}
  /\ state \in InFlight => neg.early \in {"Attempted", "NotAttempted", "Rejected", "Accepted"}
  /\ state = "ExpectingEncryptedExtensions" /\ neg.pskType = "Resumption" =>
       auth # None /\ cert
  /\ state = "ExpectingCertificateVerify" => auth # None

(* The stream, and the layers it will be continued with.  The keys that    *)
(* follow each other are plain, handshake and the generations of the       *)
(* application keys; the early key is used beside the first two.           *)
LevelsIn(s, levels) == \A i \in DOMAIN s : s[i].key.level \in levels
GensUpTo(s, gen) ==
  \A i \in DOMAIN s : s[i].key.level = "App" => s[i].key.gen \in Nat /\ s[i].key.gen <= gen
AppKeyNow == Key("App", "client", sched.clientGen, sched.appCtx)
StreamInv ==
  /\ NoncesDiffer(out) /\ NothingAfterAlert(out)
  /\ HasLayer(write) =>
       /\ Unended(out)
       /\ write.key = PlainKey \/ Fresh(out, write)
       /\ state = "ExpectingServerHello" => write.key = PlainKey
       /\ state \in InFlight => write.key.level = "Hs"
       /\ state = "Established" => write.key = AppKeyNow
  /\ HasLayer(earlyWrite) => earlyWrite.key.level = "Early" /\ Fresh(out, earlyWrite)
  /\ LevelsIn(out, {"Plain", "Early", "Hs", "App"})
  /\ state \in BeforeHello => LevelsIn(out, {"Plain", "Early"})
  /\ state \in InFlight => LevelsIn(out, {"Plain", "Early", "Hs"})
  /\ GensUpTo(out, sched.clientGen)

(* The hellos that were sent, and the retry the transcript begins with.    *)
HellosSent == Cardinality(Holding(out, "ClientHello"))
RetryInv ==
  /\ RetryIsFollowed
  /\ IsFiniteSet(Holding(out, "ClientHello"))
  /\ transcript # <<>> => Len(transcript) >= 2
  /\ transcript # <<>> /\ transcript[1].type = "MessageHash" => Len(transcript) >= 3
  /\ state \in InFlight => transcript # <<>>
  /\ state = "Uninitialized" => transcript = <<>> /\ neg = NothingNegotiated
  /\ state = "ExpectingServerHello" =>
       /\ offer.hello = <<offer.hello[1]>> /\ offer.hello[1].type = "ClientHello"
       /\ offer.hello[1].shares = offer.shares
       /\ neg.group = None
       /\ neg.kex = None => /\ HellosSent = 1 /\ transcript = <<>>
                            /\ neg.version = None /\ neg.cipher = None
       /\ neg.kex # None =>
            /\ transcript # <<>> /\ transcript[1].type = "MessageHash"
            /\ transcript[3] = offer.hello[1]
            /\ neg.version # None /\ neg.cipher # None

(* What became of early data.                                              *)
EarlyInv ==
  /\ state \in BeforeHello \cup InFlight => Holding(out, "EndOfEarlyData") = {}
  /\ Told(calls, "ReportEarlyWriteFailed") => neg.early = "Rejected"
  /\ Told(calls, "HandshakeSuccess") =>
       /\ state \notin BeforeHello \cup InFlight
       /\ Holding(out, "EndOfEarlyData") # {} <=> neg.early = "Accepted" /\ ~ctx.omitEarly

(* Where the server's certificate stands.                                  *)
CertInv ==
  /\ state \in BeforeHello \cup {"ExpectingEncryptedExtensions", "ExpectingCertificate"}
       => ~chain
  /\ state \in {"ExpectingFinished", "Established"} => cert /\ ~chain
  /\ Told(calls, "HandshakeSuccess") => cert /\ ~chain

(* The inductive invariant.                                                *)
Inv ==
  /\ TypeInv /\ OptionalsInv /\ StreamInv /\ RetryInv /\ EarlyInv /\ CertInv

(***************************************************************************)
(* An impostor.  What the client has of it to read is no signature over    *)
(* the transcript, and nothing that opens once a ticket is resumed.        *)
(***************************************************************************)
Unsigned(m) == m.type = "CertificateVerify" => m.over = Wrong
Harmless(m) == Unsigned(m) /\ (m.type = "Front" => Unsigned(m.of))
AllHarmless(ms) == IsSeq(ms) /\ \A k \in DOMAIN ms : Harmless(ms[k])
Arrived == IsSeq(in) /\ \A i \in DOMAIN in : AllHarmless(in[i].body)
NothingOpens ==
  /\ read.key.level = "Hs" /\ read.unparsed = <<>> /\ read.skip = FALSE /\ read.seq \in Nat
  /\ \A i \in DOMAIN in : ~Opens(read, in[i])
ImpostorInv ==
  /\ scenario \in DOMAIN Scenarios
  /\ peer = "impostor" =>
       /\ state \notin {"ExpectingFinished", "Established"}
       /\ ~Told(calls, "HandshakeSuccess") /\ ~Told(calls, "Deliver")
       /\ Arrived /\ AllHarmless(read.unparsed)
       /\ state = "ExpectingServerHello" => read.key = PlainKey
       /\ state \in BeforeHello => \A i \in DOMAIN in : in[i].key.level \in {"Plain", "None"}
       /\ state \in InFlight /\ neg.pskType = "Resumption" =>
            state = "ExpectingEncryptedExtensions" /\ NothingOpens
-----------------------------------------------------------------------------
LEMMA InitInv == Init => Inv
<1> SUFFICES ASSUME Init PROVE Inv
  OBVIOUS
<1> USE DEF Init, InitClient
<1>1. \A type : Holding(out, type) = {} /\ ~Told(calls, type)
  BY DEF Holding, Told
<1>2. TypeInv
  <2>1. None \notin Elements(ctx.versions) \cup Elements(ctx.ciphers)
    BY ScenariosAssumption
  <2> QED
    BY <2>1, TupleIsSeq, NamedLayers
       DEF TypeInv, States, NothingNegotiated, NegFields, NoSecrets, NothingOffered, OfferFields
<1>3. OptionalsInv
  BY NamedLayers DEF OptionalsInv, OptionalsAreSet, InFlight
<1>4. StreamInv
  BY <1>1, NamedLayers
     DEF StreamInv, NoncesDiffer, NothingAfterAlert, LevelsIn, GensUpTo, InFlight
<1>5. RetryInv
  <2>1. IsFiniteSet({}) /\ Cardinality({}) = 0
    BY FS_EmptySet
  <2>2. transcript = <<>> /\ ~(Len(transcript) >= 2) /\ state = "Uninitialized"
    OBVIOUS
  <2>3. RetryIsFollowed
    <3>1. Cardinality(Holding(out, "ClientHello")) = 0
      BY <1>1, <2>1
    <3>2. Cardinality(Holding(out, "ClientHello")) <= 2
      BY <3>1
    <3> HIDE DEF Init, InitClient
    <3> QED
      BY <2>2, <3>2 DEF RetryIsFollowed
  <2> QED
    BY <1>1, <2>1, <2>2, <2>3 DEF RetryInv, InFlight
<1>6. EarlyInv
  BY <1>1 DEF EarlyInv
<1>7. CertInv
  BY <1>1 DEF CertInv
<1> QED
  BY <1>2, <1>3, <1>4, <1>5, <1>6, <1>7 DEF Inv

-----------------------------------------------------------------------------
(* The layer the machine has after an event.                               *)
LEMMA EvLayer ==
  ASSUME TypeInv
  PROVE  /\ IsLayer(ev.layer) /\ ev.layer.key = read.key
         /\ HasLayer(ev.layer) <=> HasLayer(read)
<1>1. IsLayer(ev.layer) /\ ev.layer.key = read.key
  BY ReadEventKeepsKey DEF TypeInv, ev
<1> QED
  BY <1>1 DEF HasLayer

(* What a call adds to what was told.                                      *)
LEMMA ToldStep ==
  ASSUME IsSeq(calls), NEW w, NEW d, calls' = Append(calls, Call(w, d))
  PROVE  /\ IsSeq(calls')
         /\ \A what : Told(calls', what) <=> Told(calls, what) \/ w = what
BY AppendSeq, ToldAppend

-----------------------------------------------------------------------------
(* A stream that goes on, with a layer and the layer of early data.        *)
Goes(s, w, e) ==
  /\ IsSeq(s) /\ NoncesDiffer(s) /\ Unended(s)
  /\ w.key = PlainKey \/ Fresh(s, w)
  /\ HasLayer(e) => e.key.level = "Early" /\ Fresh(s, e)

LEMMA LevelsAppend ==
  ASSUME NEW s, NEW r, NEW levels, NEW gen, IsSeq(s)
  PROVE  /\ (LevelsIn(s, levels) /\ r.key.level \in levels) => LevelsIn(Append(s, r), levels)
         /\ (GensUpTo(s, gen) /\ (r.key.level = "App" => r.key.gen \in Nat /\ r.key.gen <= gen))
              => GensUpTo(Append(s, r), gen)
<1>1. /\ DOMAIN s = 1 .. Len(s) /\ Len(s) \in Nat
      /\ DOMAIN Append(s, r) = 1 .. Len(s) + 1
      /\ \A i \in 1 .. Len(s) : Append(s, r)[i] = s[i]
      /\ Append(s, r)[Len(s) + 1] = r
  BY AppendSeq, IsSeqDomain
<1> QED
  BY <1>1 DEF LevelsIn, GensUpTo

(* A record that ends nothing: plain, under the write layer, or under the  *)
(* layer of early data.                                                    *)
LEMMA SendPlain ==
  ASSUME NEW s, NEW w, NEW e, NEW r, Goes(s, w, e), r.key = PlainKey,
         ~HasType(r, "Alert"), ~HasType(r, "CloseNotify")
  PROVE  Goes(Append(s, r), w, e)
<1>1. /\ IsSeq(Append(s, r)) /\ NoncesDiffer(Append(s, r)) /\ Unended(Append(s, r))
  <2> DEFINE l == [key |-> r.key, seq |-> r.seq]
  <2>1. r.key = l.key /\ r.seq = l.seq /\ l.key = PlainKey
    OBVIOUS
  <2> HIDE DEF l
  <2> QED
    BY <2>1, SendRecord DEF Goes
<1>2. w.key = PlainKey \/ Fresh(Append(s, r), w)
  BY StaysFresh DEF Goes
<1>3. HasLayer(e) => e.key.level = "Early" /\ Fresh(Append(s, r), e)
  <2>1. HasLayer(e) => r.key # e.key
    BY NamedLayers DEF Goes
  <2> QED
    BY <2>1, StaysFresh DEF Goes
<1> QED
  BY <1>1, <1>2, <1>3 DEF Goes

LEMMA SendWrite ==
  ASSUME NEW s, NEW w, NEW e, NEW r, Goes(s, w, e), r.key = w.key, r.seq = w.seq,
         w.key.level # "Early", ~HasType(r, "Alert"), ~HasType(r, "CloseNotify")
  PROVE  /\ \A v : v.key = PlainKey \/ Fresh(Append(s, r), v) => Goes(Append(s, r), v, e)
         /\ IsLayer(w) /\ Encrypts(w) /\ w.key # PlainKey =>
              /\ Fresh(Append(s, r), Sealed(w)) /\ IsLayer(Sealed(w)) /\ Sealed(w).key = w.key
<1>1. IsSeq(Append(s, r)) /\ NoncesDiffer(Append(s, r)) /\ Unended(Append(s, r))
  BY SendRecord DEF Goes
<1>2. HasLayer(e) => e.key.level = "Early" /\ Fresh(Append(s, r), e)
  <2>1. HasLayer(e) => r.key # e.key
    BY DEF Goes
  <2> QED
    BY <2>1, StaysFresh DEF Goes
<1>3. IsLayer(w) /\ Encrypts(w) /\ w.key # PlainKey =>
        /\ Fresh(Append(s, r), Sealed(w)) /\ IsLayer(Sealed(w)) /\ Sealed(w).key = w.key
  BY StaysFresh DEF Goes
<1> QED
  BY <1>1, <1>2, <1>3 DEF Goes

LEMMA SendEarly ==
  ASSUME NEW s, NEW w, NEW e, NEW r, Goes(s, w, e), r.key = e.key, r.seq = e.seq,
         HasLayer(e), IsLayer(e), w.key.level # "Early",
         ~HasType(r, "Alert"), ~HasType(r, "CloseNotify")
  PROVE  /\ Goes(Append(s, r), w, Sealed(e))
         /\ IsLayer(Sealed(e)) /\ Sealed(e).key = e.key
<1>1. IsSeq(Append(s, r)) /\ NoncesDiffer(Append(s, r)) /\ Unended(Append(s, r))
  BY SendRecord DEF Goes
<1>2. w.key = PlainKey \/ Fresh(Append(s, r), w)
  <2>1. r.key # w.key
    BY DEF Goes
  <2> QED
    BY <2>1, StaysFresh DEF Goes
<1>3. Fresh(Append(s, r), Sealed(e)) /\ IsLayer(Sealed(e)) /\ Sealed(e).key = e.key
  BY StaysFresh DEF Goes, Encrypts
<1> QED
  BY <1>1, <1>2, <1>3 DEF Goes
-----------------------------------------------------------------------------
(***************************************************************************)
(* The machine ends, or waits for the peer to: an alert may be sent, then  *)
(* there is no write layer.  Nothing else changes.                         *)
(***************************************************************************)
EndsWith(m) ==
  /\ state' \in {"ExpectingCloseNotify"} \cup Over
  /\ write' = NoLayer
  /\ out' = out \/ (HasLayer(write) /\ out' = Append(out, Seal(write, <<m>>)))
  /\ \/ calls' = calls
     \/ \E w \in {"Error", "EndOfData"} : calls' = Append(calls, Call(w, 0))
  /\ IF state' = "ExpectingCloseNotify" THEN read' = read /\ HasLayer(write)
                                        ELSE read' = NoLayer
  /\ UNCHANGED <<ctx, hsVars>>

(* The keys of the write layer.                                            *)
LEMMA WriteKey ==
  ASSUME Inv, HasLayer(write)
  PROVE  /\ write.key.level \in {"Plain", "Hs", "App"} /\ Goes(out, write, earlyWrite)
         /\ state = "ExpectingServerHello" => write.key = PlainKey
         /\ state \in InFlight => write.key.level = "Hs"
         /\ state \in {"ExpectingServerHello", "Established"} \cup InFlight
         /\ write.key.level = "App" => write.key.gen = sched.clientGen
<1>1. state \in States \ {"Uninitialized", "ExpectingCloseNotify", "Closed", "Error"}
  BY DEF Inv, TypeInv, OptionalsInv, OptionalsAreSet
<1>2. \/ state = "ExpectingServerHello" /\ write.key = PlainKey
      \/ state \in InFlight /\ write.key.level = "Hs"
      \/ state = "Established" /\ write.key = AppKeyNow
  BY <1>1 DEF Inv, StreamInv, States, InFlight
<1> QED
  BY <1>2, NamedLayers DEF Inv, TypeInv, StreamInv, Goes, AppKeyNow, Key, InFlight, BeforeHello, Over
LEMMA EndsKeepInv ==
  ASSUME Inv, Live, NEW m, m.type \in {"Alert", "CloseNotify"}, EndsWith(m)
  PROVE  Inv'
<1>1. /\ state' \in {"ExpectingCloseNotify"} \cup Over /\ write' = NoLayer
      /\ UNCHANGED <<ctx, earlyWrite, offer, neg, transcript, sched, auth, cert, chain>>
      /\ state' = "ExpectingCloseNotify" => read' = read /\ HasLayer(write)
      /\ state' # "ExpectingCloseNotify" => read' = NoLayer
      /\ state \in States \ Over
  BY DEF EndsWith, hsVars, Live, Over, Inv, TypeInv
<1>2. /\ IsSeq(calls')
      /\ \A what : what \notin {"Error", "EndOfData"} =>
           (Told(calls', what) <=> Told(calls, what))
  BY ToldStep DEF EndsWith, Inv, TypeInv
<1>3. /\ IsSeq(out') /\ NoncesDiffer(out') /\ NothingAfterAlert(out')
      /\ \A type : type \notin {"Alert", "CloseNotify"} =>
           Holding(out', type) = Holding(out, type)
      /\ LevelsIn(out', {"Plain", "Early", "Hs", "App"}) /\ GensUpTo(out', sched.clientGen)
      /\ HasLayer(earlyWrite) => Fresh(out', earlyWrite)
  <2>1. CASE out' = out
    BY <2>1 DEF Inv, TypeInv, StreamInv
  <2>2. CASE HasLayer(write) /\ out' = Append(out, Seal(write, <<m>>))
    <3> DEFINE r == Seal(write, <<m>>)
    <3>1. /\ r.key = write.key /\ r.seq = write.seq
          /\ \A type : HasType(r, type) <=> m.type = type
      BY SealFields
    <3>2. /\ Goes(out, write, earlyWrite) /\ write.key.level \in {"Plain", "Hs", "App"}
          /\ write.key.level = "App" => write.key.gen = sched.clientGen
      BY <2>2, WriteKey
    <3>3. /\ IsSeq(out) /\ LevelsIn(out, {"Plain", "Early", "Hs", "App"})
          /\ GensUpTo(out, sched.clientGen) /\ sched.clientGen \in Nat
      BY DEF Inv, TypeInv, StreamInv
    <3> HIDE DEF r
    <3>4. IsSeq(out') /\ NoncesDiffer(out') /\ NothingAfterAlert(out')
      BY <2>2, <3>1, <3>2, SendRecord DEF r, Goes
    <3>5. \A type : type \notin {"Alert", "CloseNotify"} =>
            Holding(out', type) = Holding(out, type)
      BY <2>2, <3>1, <3>3, HoldingAppend DEF r
    <3>6. LevelsIn(out', {"Plain", "Early", "Hs", "App"}) /\ GensUpTo(out', sched.clientGen)
      <4>1. /\ out' = Append(out, r) /\ r.key.level \in {"Plain", "Early", "Hs", "App"}
            /\ r.key.level = "App" => r.key.gen \in Nat /\ r.key.gen <= sched.clientGen
        BY <2>2, <3>1, <3>2, <3>3 DEF r
      <4> QED
        BY <3>3, <4>1, LevelsAppend
    <3>7. HasLayer(earlyWrite) => Fresh(out', earlyWrite)
      <4>1. HasLayer(earlyWrite) => r.key # earlyWrite.key /\ Fresh(out, earlyWrite)
        BY <3>1, <3>2 DEF Goes
      <4> QED
        BY <2>2, <3>3, <4>1, StaysFresh DEF r
    <3> QED
      BY <3>4, <3>5, <3>6, <3>7
  <2> QED
    BY <2>1, <2>2 DEF EndsWith
<1>4. TypeInv'
  BY <1>1, <1>2, <1>3, NamedLayers DEF Inv, TypeInv, States, Over
<1>5. OptionalsInv'
  <2>1. HasLayer(read') <=> state' = "ExpectingCloseNotify"
    BY <1>1, NamedLayers, WriteKey DEF Inv, OptionalsInv, OptionalsAreSet, Over, InFlight
  <2> QED
    BY <1>1, <2>1, NamedLayers DEF OptionalsInv, OptionalsAreSet, Over, InFlight
<1>6. StreamInv'
  BY <1>1, <1>3, NamedLayers DEF Inv, StreamInv, BeforeHello, InFlight, Over
<1>7. RetryInv'
  BY <1>1, <1>3 DEF Inv, RetryInv, RetryIsFollowed, BeforeHello, InFlight, Over
<1>8. EarlyInv'
  BY <1>1, <1>2, <1>3 DEF Inv, EarlyInv, BeforeHello, InFlight, Over
<1>9. CertInv'
  BY <1>1, <1>2 DEF Inv, CertInv, BeforeHello, Over
<1> QED
  BY <1>4, <1>5, <1>6, <1>7, <1>8, <1>9 DEF Inv

LEMMA ErrorKeepsInv ==
  ASSUME Inv, Live, NEW description, HandleError(description)
  PROVE  Inv'
<1>1. EndsWith(Alert(description))
  BY DEF HandleError, EndsWith, Over, Tell, hsVars
<1>2. Alert(description).type = "Alert"
  BY DEF Alert
<1> QED
  BY <1>1, <1>2, EndsKeepInv

-----------------------------------------------------------------------------
(* A step that only reads and tells.                                       *)
ReadsAndTells(what) ==
  /\ UNCHANGED <<ctx, state, write, earlyWrite, offer, neg, transcript, sched, auth,
                 cert, chain, out>>
  /\ read' \in {read, ev.layer}
  /\ calls' = calls \/ \E d : calls' = Append(calls, Call(what, d))

LEMMA ReadsAndTellsKeepsInv ==
  ASSUME Inv, Live, state # "Uninitialized", NEW what, ReadsAndTells(what),
         what \in {"NewCachedPsk", "Deliver", "ReportEarlyWriteFailed"},
         what = "ReportEarlyWriteFailed" => neg.early = "Rejected"
  PROVE  Inv'
<1>1. /\ UNCHANGED <<ctx, state, write, earlyWrite, offer, neg, transcript, sched, auth,
                     cert, chain, out>>
      /\ IsLayer(read') /\ read'.key = read.key
  BY EvLayer DEF ReadsAndTells, Inv, TypeInv
<1>2. IsSeq(calls') /\ \A w : Told(calls', w) => Told(calls, w) \/ w = what
  BY ToldStep DEF ReadsAndTells, Inv, TypeInv
<1>3. TypeInv'
  BY <1>1, <1>2 DEF Inv, TypeInv
<1>4. OptionalsInv'
  BY <1>1 DEF Inv, OptionalsInv, OptionalsAreSet, HasLayer
<1>5. StreamInv' /\ RetryInv'
  BY <1>1 DEF Inv, StreamInv, AppKeyNow, RetryInv, RetryIsFollowed, HellosSent
<1>6. EarlyInv'
  BY <1>1, <1>2 DEF Inv, EarlyInv
<1>7. CertInv'
  BY <1>1, <1>2 DEF Inv, CertInv
<1> QED
  BY <1>3, <1>4, <1>5, <1>6, <1>7 DEF Inv

LEMMA StutterKeepsInv ==
  ASSUME Inv, UNCHANGED <<ctx, state, read, write, earlyWrite, offer, neg, transcript,
                          sched, auth, cert, chain, out, calls>>
  PROVE  Inv'
BY DEF Inv, TypeInv, OptionalsInv, OptionalsAreSet, StreamInv, AppKeyNow, RetryInv,
       RetryIsFollowed, HellosSent, EarlyInv, CertInv
-----------------------------------------------------------------------------
(* The transcript only grows, so a retry it begins with stays.             *)
Extends(t, u) == Len(t) <= Len(u) /\ \A i \in 1 .. Len(t) : u[i] = t[i]

LEMMA GrowthExtends ==
  ASSUME NEW t, IsSeq(t)
  PROVE  /\ \A m : IsSeq(Append(t, m)) /\ Extends(t, Append(t, m))
         /\ \A ms : IsSeq(ms) => IsSeq(Digests(t, ms)) /\ Extends(t, Digests(t, ms))
         /\ \A m : Len(Append(t, m)) = Len(t) + 1
<1>1. \A m : /\ IsSeq(Append(t, m)) /\ Extends(t, Append(t, m)) /\ Len(Append(t, m)) = Len(t) + 1
  BY AppendSeq, IsSeqDomain DEF Extends
<1>2. ASSUME NEW ms, IsSeq(ms)
      PROVE  IsSeq(Digests(t, ms)) /\ Extends(t, Digests(t, ms))
  <2> DEFINE ds == [i \in DOMAIN ms |-> Digest(ms[i])]
  <2>1. DOMAIN ms = 1 .. Len(ms) /\ Len(ms) \in Nat
    BY <1>2, IsSeqDomain
  <2>2. ds \in Seq({ds[i] : i \in DOMAIN ds})
    BY <2>1
  <2>3. IsSeq(ds) /\ Len(ds) \in Nat
    BY <2>2, IsSeqDomain DEF IsSeq
  <2> HIDE DEF ds
  <2>4. IsSeq(t \o ds) /\ Extends(t, t \o ds)
    BY <2>3, ConcatSeq, IsSeqDomain DEF Extends
  <2> QED
    BY <2>4 DEF Digests, ds
<1> QED
  BY <1>1, <1>2

LEMMA RetryStays ==
  ASSUME RetryInv, IsSeq(transcript), IsSeq(transcript'), transcript # <<>>,
         Extends(transcript, transcript'), <<neg.version, neg.cipher, neg.group>>' = <<neg.version, neg.cipher, neg.group>>,
         Holding(out', "ClientHello") = Holding(out, "ClientHello"),
         state' \notin BeforeHello
  PROVE  RetryInv'
<1>1. /\ Len(transcript) >= 2
      /\ transcript[1].type = "MessageHash" => Len(transcript) >= 3
      /\ Len(transcript) \in Nat /\ Len(transcript') \in Nat
      /\ Len(transcript) <= Len(transcript')
      /\ transcript'[1] = transcript[1] /\ transcript'[2] = transcript[2]
      /\ Len(transcript) >= 3 => transcript'[3] = transcript[3]
  <2>1. /\ Len(transcript) >= 2
        /\ transcript[1].type = "MessageHash" => Len(transcript) >= 3
        /\ Len(transcript) \in Nat /\ Len(transcript') \in Nat
    BY IsSeqDomain DEF RetryInv
  <2> QED
    BY <2>1 DEF Extends
<1>2. RetryIsFollowed'
  BY <1>1 DEF RetryInv, RetryIsFollowed
<1>3. transcript' # <<>>
  BY <1>1
<1> QED
  BY <1>1, <1>2, <1>3 DEF RetryInv, BeforeHello
-----------------------------------------------------------------------------
(***************************************************************************)
(* A message of the server's encrypted flight: it is hashed, nothing is    *)
(* sent and the handshake goes on.                                         *)
(***************************************************************************)
InFlightStep ==
  /\ state \in InFlight /\ state' \in InFlight
  /\ \E m : transcript' = Append(transcript, m)
  /\ read' = ev.layer
  /\ <<neg.version, neg.cipher, neg.group>>' = <<neg.version, neg.cipher, neg.group>>
  /\ DOMAIN neg' = NegFields
  /\ neg.early = "Rejected" => neg'.early = "Rejected"
  /\ neg'.early \in {neg.early, "Rejected", "Accepted"}
  /\ neg'.early \in {"Attempted", "Accepted"} => neg.early \in {"Attempted", "Accepted"}
  /\ UNCHANGED <<ctx, write, earlyWrite, offer, sched, out, calls>>

LEMMA InFlightKeeps ==
  ASSUME Inv, InFlightStep
  PROVE  /\ TypeInv' /\ StreamInv' /\ RetryInv' /\ EarlyInv'
         /\ HasLayer(read') /\ HasLayer(write')
         /\ ~Told(calls', "HandshakeSuccess")
         /\ neg'.early \in {"Attempted", "Accepted"} /\ ~ctx'.omitEarly => HasLayer(earlyWrite')
         /\ neg'.early \in {"Attempted", "NotAttempted", "Rejected", "Accepted"}
<1> USE DEF InFlightStep
<1>1. ~Told(calls, "HandshakeSuccess")
  BY DEF Inv, EarlyInv
<1>2. HasLayer(read) /\ HasLayer(write) /\ IsLayer(read') /\ HasLayer(read')
  BY EvLayer DEF Inv, OptionalsInv, OptionalsAreSet, InFlight
<1>3. PICK m : transcript' = Append(transcript, m)
  OBVIOUS
<1>4. IsSeq(transcript') /\ Extends(transcript, transcript')
  BY <1>3, GrowthExtends DEF Inv, TypeInv
<1>5. TypeInv'
  BY <1>2, <1>4 DEF Inv, TypeInv, InFlight, States
<1>6. StreamInv'
  BY <1>2 DEF Inv, StreamInv, InFlight, BeforeHello, AppKeyNow
<1>7. RetryInv'
  <2>1. transcript # <<>> /\ state' \notin BeforeHello
    BY DEF Inv, RetryInv, InFlight, BeforeHello
  <2> QED
    BY <1>4, <2>1, RetryStays DEF Inv, TypeInv
<1>8. EarlyInv'
  BY <1>1 DEF Inv, EarlyInv
<1> QED
  BY <1>1, <1>2, <1>5, <1>6, <1>7, <1>8 DEF Inv, OptionalsInv

LEMMA CertificateRequestKeepsInv ==
  ASSUME Inv, HandleCertificateRequest
  PROVE  Inv'
<1>1. state = "ExpectingCertificate" /\ Live
  BY DEF HandleCertificateRequest, Event, Live
<1>2. CASE \E d : HandleError(d)
  BY <1>1, <1>2, ErrorKeepsInv
<1>3. CASE ~\E d : HandleError(d)
  <2>1. /\ transcript' = AppendToTranscript(transcript, ev.msg)
        /\ read' = ev.layer
        /\ auth' \in {"Sent", "RequestedNoMatch"}
        /\ UNCHANGED <<ctx, state, write, earlyWrite, offer, neg, sched,
                       cert, chain, sentCCS, out, calls, written>>
    BY <1>3 DEF HandleCertificateRequest
  <2>2. InFlightStep
    BY <1>1, <2>1 DEF InFlightStep, InFlight, AppendToTranscript, Inv, TypeInv
  <2>3. OptionalsInv'
    BY <1>1, <2>1, <2>2, InFlightKeeps DEF Inv, OptionalsInv, OptionalsAreSet, None
  <2>4. CertInv'
    BY <1>1, <2>1, <2>2, InFlightKeeps DEF Inv, CertInv
  <2> QED
    BY <2>2, <2>3, <2>4, InFlightKeeps DEF Inv
<1> QED
  BY <1>2, <1>3

LEMMA CertificateKeepsInv ==
  ASSUME Inv, HandleCertificate
  PROVE  Inv'
<1>1. state = "ExpectingCertificate" /\ Live
  BY DEF HandleCertificate, Event, Live
<1>2. CASE \E d : HandleError(d)
  BY <1>1, <1>2, ErrorKeepsInv
<1>3. CASE ~\E d : HandleError(d)
  <2>1. /\ transcript' = AppendToTranscript(transcript, ev.msg)
        /\ read' = ev.layer /\ chain' = TRUE /\ auth' # None
        /\ state' = "ExpectingCertificateVerify"
        /\ UNCHANGED <<ctx, write, earlyWrite, offer, neg, sched, cert, out, calls>>
    BY <1>3 DEF HandleCertificate, None
  <2>2. InFlightStep
    BY <1>1, <2>1 DEF InFlightStep, InFlight, AppendToTranscript, Inv, TypeInv
  <2>3. OptionalsInv'
    BY <2>1, <2>2, InFlightKeeps DEF Inv, OptionalsInv, OptionalsAreSet, InFlight
  <2>4. CertInv'
    BY <2>1, <2>2, InFlightKeeps DEF Inv, CertInv, BeforeHello
  <2> QED
    BY <2>2, <2>3, <2>4, InFlightKeeps DEF Inv
<1> QED
  BY <1>2, <1>3

LEMMA CertificateVerifyKeepsInv ==
  ASSUME Inv, NEW trusted, HandleCertificateVerify(trusted)
  PROVE  Inv'
<1>1. state = "ExpectingCertificateVerify" /\ Live
  BY DEF HandleCertificateVerify, Event, Live
<1>2. CASE \E d : HandleError(d)
  BY <1>1, <1>2, ErrorKeepsInv
<1>3. CASE ~\E d : HandleError(d)
  <2>1. /\ transcript' = AppendToTranscript(transcript, ev.msg)
        /\ read' = ev.layer /\ chain' = FALSE /\ cert' = TRUE
        /\ state' = "ExpectingFinished"
        /\ UNCHANGED <<ctx, write, earlyWrite, offer, neg, sched, auth, out, calls>>
    BY <1>3 DEF HandleCertificateVerify
  <2>2. InFlightStep
    BY <1>1, <2>1 DEF InFlightStep, InFlight, AppendToTranscript, Inv, TypeInv
  <2>3. OptionalsInv'
    BY <1>1, <2>1, <2>2, InFlightKeeps DEF Inv, OptionalsInv, OptionalsAreSet, InFlight
  <2>4. CertInv'
    BY <2>1, <2>2, InFlightKeeps DEF Inv, CertInv, BeforeHello
  <2> QED
    BY <2>2, <2>3, <2>4, InFlightKeeps DEF Inv
<1> QED
  BY <1>2, <1>3
-----------------------------------------------------------------------------
(* Lists of checks, each of which stops the handler when it hits.          *)
Stops(checks) == Avoids(checks, {"ok"})

LEMMA StopsConcat ==
  ASSUME NEW a, NEW b, Stops(a), Stops(b)
  PROVE  /\ Stops(a \o b)
         /\ Silent(a \o b) <=> Silent(a) /\ Silent(b)
<1>1. IsSeq(a) /\ IsSeq(b)
  BY DEF Stops, Avoids
<1> QED
  BY <1>1, AvoidsConcat, FirstHitConcat DEF Stops

LEMMA Passed ==
  ASSUME NEW a, Stops(a), FirstHit(a) = "ok"
  PROVE  Silent(a)
<1>1. FirstHit(a) \in {"ok"} /\ "ok" \in {"ok"}
  OBVIOUS
<1> QED
  BY <1>1, FirstHitAvoids DEF Stops

LEMMA ChecksStop ==
  ASSUME NEW m
  PROVE  /\ Stops(VersionChecks(m)) /\ Stops(PskChecks(m))
         /\ Stops(AcceptedEarlyChecks(m)) /\ Stops(FinishedChecks(m))
<1>1. /\ \A a, b : IsSeq(<<a, b>>)
      /\ \A a, b, c, d : IsSeq(<<a, b, c, d>>)
      /\ \A a, b, c, d, e : IsSeq(<<a, b, c, d, e>>)
  <2>1. /\ \A a, b, c, d : <<a, b, c, d>> \in Seq({a, b, c, d})
        /\ \A a, b, c, d, e : <<a, b, c, d, e>> \in Seq({a, b, c, d, e})
    OBVIOUS
  <2> QED
    BY <2>1, SeqIsSeq, TupleIsSeq
<1>2. Stops(VersionChecks(m))
  BY <1>1 DEF Stops, Avoids, VersionChecks
<1>3. Stops(PskChecks(m))
  BY <1>1 DEF Stops, Avoids, PskChecks
<1>4. Stops(AcceptedEarlyChecks(m))
  BY <1>1 DEF Stops, Avoids, AcceptedEarlyChecks
<1>5. Stops(FinishedChecks(m))
  BY <1>1 DEF Stops, Avoids, FinishedChecks
<1> QED
  BY <1>2, <1>3, <1>4, <1>5

(* Early data is taken for accepted only if it was attempted.              *)
LEMMA AcceptedWasAttempted ==
  ASSUME NEW m, FirstHit(EncryptedExtensionsChecks(m)) = "ok", m.early
  PROVE  neg.early = "Attempted"
<1> DEFINE a == << <<m.fault # None, "illegal_parameter">>,
                   <<m.alpn # None /\ m.alpn \notin ctx.alpns, "illegal_parameter">>,
                   <<m.alpn = None /\ ctx.requireAlpn, "no_application_protocol">> >>
           b == AcceptedEarlyChecks(m)
<1>1. Stops(a)
  <2>1. \A x, y, z : <<x, y, z>> \in Seq({x, y, z})
    OBVIOUS
  <2>2. \A x, y, z : IsSeq(<<x, y, z>>)
    BY <2>1, SeqIsSeq
  <2> QED
    BY <2>2 DEF Stops, Avoids
<1>2. EncryptedExtensionsChecks(m) = a \o b
  BY DEF EncryptedExtensionsChecks
<1> HIDE DEF a
<1>3. Stops(b)
  BY ChecksStop
<1>4. 1 \in DOMAIN b /\ b[1][1] = (neg.early # "Attempted")
  BY DEF AcceptedEarlyChecks
<1> HIDE DEF b
<1>5. Silent(a \o b)
  BY <1>1, <1>2, <1>3, StopsConcat, Passed
<1>6. Silent(b)
  BY <1>1, <1>3, <1>5, StopsConcat
<1> QED
  BY <1>4, <1>6 DEF Silent

LEMMA EncryptedExtensionsKeepsInv ==
  ASSUME Inv, HandleEncryptedExtensions
  PROVE  Inv'
<1>1. state = "ExpectingEncryptedExtensions" /\ Live
  BY DEF HandleEncryptedExtensions, Event, Live
<1>2. CASE \E d : HandleError(d)
  BY <1>1, <1>2, ErrorKeepsInv
<1>3. CASE ~\E d : HandleError(d)
  <2> DEFINE early == CASE ev.msg.early -> "Accepted"
                        [] ~ev.msg.early /\ neg.early = "Attempted" -> "Rejected"
                        [] OTHER -> neg.early
  <2>1. /\ FirstHit(EncryptedExtensionsChecks(ev.msg)) = "ok"
        /\ transcript' = AppendToTranscript(transcript, ev.msg)
        /\ read' = ev.layer
        /\ neg' = [neg EXCEPT !.alpn = ev.msg.alpn, !.early = early]
        /\ state' = IF neg.pskType = "Resumption" THEN "ExpectingFinished"
                                                  ELSE "ExpectingCertificate"
        /\ UNCHANGED <<ctx, write, earlyWrite, offer, sched, auth, cert,
                       chain, sentCCS, out, calls, written>>
    BY <1>3 DEF HandleEncryptedExtensions
  <2>2. /\ ev.msg.early => neg.early = "Attempted"
        /\ ev.msg.early => early = "Accepted"
        /\ ~ev.msg.early /\ neg.early = "Attempted" => early = "Rejected"
        /\ ~ev.msg.early /\ neg.early # "Attempted" => early = neg.early
    BY <2>1, AcceptedWasAttempted
  <2> HIDE DEF early
  <2>3. /\ neg'.early = early /\ neg'.version = neg.version /\ neg'.cipher = neg.cipher
        /\ neg'.group = neg.group /\ DOMAIN neg' = NegFields /\ neg'.pskType = neg.pskType
    BY <2>1 DEF Inv, TypeInv, NegFields
  <2>4. InFlightStep
    <3>1. state' \in InFlight /\ \E m : transcript' = Append(transcript, m)
      BY <2>1 DEF InFlight, AppendToTranscript
    <3>2. /\ neg.early = "Rejected" => neg'.early = "Rejected"
          /\ neg'.early \in {neg.early, "Rejected", "Accepted"}
          /\ neg'.early \in {"Attempted", "Accepted"} => neg.early \in {"Attempted", "Accepted"}
      BY <2>2, <2>3
    <3> QED
      BY <1>1, <2>1, <2>3, <3>1, <3>2 DEF InFlightStep, InFlight
  <2>5. OptionalsInv'
    <3>1. state' = "ExpectingFinished" => auth' # None
      BY <1>1, <2>1 DEF Inv, OptionalsInv
    <3>2. state' \in {"ExpectingFinished", "ExpectingCertificate"}
      BY <2>1
    <3> QED
      BY <2>4, <3>1, <3>2, InFlightKeeps DEF OptionalsInv, OptionalsAreSet
  <2>6. CertInv'
    BY <1>1, <2>1, <2>4, InFlightKeeps DEF Inv, CertInv, OptionalsInv
  <2> QED
    BY <2>4, <2>5, <2>6, InFlightKeeps DEF Inv
<1> QED
  BY <1>2, <1>3
-----------------------------------------------------------------------------
(* The fake CCS, where one is due.                                         *)
WithCCS == out \o CCSOnce

LEMMA WithCCSFacts ==
  ASSUME Inv, HasLayer(write)
  PROVE  /\ Goes(WithCCS, write, earlyWrite)
         /\ \A levels : "Plain" \in levels /\ LevelsIn(out, levels) => LevelsIn(WithCCS, levels)
         /\ GensUpTo(WithCCS, sched.clientGen)
         /\ \A type : Holding(WithCCS, type) = Holding(out, type)
<1>1. Goes(out, write, earlyWrite) /\ IsSeq(out) /\ GensUpTo(out, sched.clientGen)
  BY WriteKey DEF Inv, TypeInv, StreamInv
<1>2. /\ CCS.key = PlainKey /\ CCS.key.level = "Plain" /\ \A type : ~HasType(CCS, type)
  BY NamedLayers DEF CCS, HasType
<1>3. WithCCS = out \/ WithCCS = Append(out, CCS)
  <2>1. out \o <<>> = out
    <3>1. out \in Seq({out[i] : i \in DOMAIN out})
      BY <1>1 DEF IsSeq
    <3> QED
      BY <3>1
  <2>2. out \o <<CCS>> = Append(out, CCS)
    BY <1>1, AppendAsConcat
  <2> QED
    BY <2>1, <2>2 DEF WithCCS, CCSOnce
<1>4. CASE WithCCS = out
  BY <1>1, <1>4
<1>5. CASE WithCCS = Append(out, CCS)
  <2> DEFINE c == CCS
  <2>1. /\ c.key = PlainKey /\ c.key.level = "Plain" /\ \A type : ~HasType(c, type)
        /\ WithCCS = Append(out, c)
    BY <1>2, <1>5
  <2> HIDE DEF c
  <2>2. Goes(WithCCS, write, earlyWrite)
    BY <1>1, <2>1, SendPlain
  <2>3. \A levels : "Plain" \in levels /\ LevelsIn(out, levels) => LevelsIn(WithCCS, levels)
    BY <1>1, <2>1, LevelsAppend
  <2>4. GensUpTo(WithCCS, sched.clientGen)
    BY <1>1, <2>1, LevelsAppend
  <2>5. \A type : Holding(WithCCS, type) = Holding(out, type)
    BY <1>1, <2>1, HoldingAppend
  <2> QED
    BY <2>2, <2>3, <2>4, <2>5
<1> QED
  BY <1>3, <1>4, <1>5

(* A hello, and the records that hold one.                                 *)
LEMMA HelloFields ==
  ASSUME NEW shares, NEW psk, NEW early, NEW cookie, NEW context
  PROVE  LET ch == ClientHello(shares, psk, early, cookie, context)
         IN /\ ch.type = "ClientHello" /\ ch.shares = shares
            /\ ch.early = early /\ ch.cookie = cookie
BY DEF ClientHello

LEMMA OneMoreHello ==
  ASSUME NEW s, NEW r, IsSeq(s), IsFiniteSet(Holding(s, "ClientHello"))
  PROVE  /\ IsFiniteSet(Holding(Append(s, r), "ClientHello"))
         /\ HasType(r, "ClientHello") =>
              Cardinality(Holding(Append(s, r), "ClientHello"))
                = Cardinality(Holding(s, "ClientHello")) + 1
<1> DEFINE H == Holding(s, "ClientHello")
<1>1. Len(s) + 1 \notin H
  BY HoldingAppend
<1>2. HasType(r, "ClientHello") => Holding(Append(s, r), "ClientHello") = H \cup {Len(s) + 1}
  BY HoldingAppend
<1>3. ~HasType(r, "ClientHello") => Holding(Append(s, r), "ClientHello") = H
  BY HoldingAppend
<1> HIDE DEF H
<1>4. IsFiniteSet(H)
  BY DEF H
<1>5. IsFiniteSet(H \cup {Len(s) + 1})
      /\ Cardinality(H \cup {Len(s) + 1}) = Cardinality(H) + 1
  BY <1>1, <1>4, FS_AddElement
<1> QED
  BY <1>2, <1>3, <1>4, <1>5 DEF H

LEMMA ConnectKeepsInv ==
  ASSUME Inv, Connect
  PROVE  Inv'
<1> DEFINE attempted == EarlyDataParams # NoPsk
           chlo == ClientHello(InitialShares, ValidPsk, attempted, NoCookie, <<>>)
           r == Seal(PlainLayer(FALSE), <<chlo>>)
<1>1. /\ state = "Uninitialized" /\ state' = "ExpectingServerHello"
      /\ offer' = [psk |-> ValidPsk, params |-> EarlyDataParams,
                   shares |-> InitialShares, hello |-> <<chlo>>]
      /\ neg' = [neg EXCEPT !.early = IF attempted THEN "Attempted" ELSE "NotAttempted"]
      /\ earlyWrite' = IF attempted /\ ~ctx.omitEarly
                       THEN Layer(Key("Early", "client", 0, <<chlo>>), FALSE) ELSE NoLayer
      /\ out' = Append(out, r)
      /\ IF attempted THEN Tell("EarlyHandshakeSuccess") ELSE UNCHANGED calls
      /\ read' = PlainLayer(FALSE) /\ write' = PlainLayer(FALSE)
      /\ UNCHANGED <<ctx, transcript, sched, auth, cert, chain>>
  BY DEF Connect
<1>2. /\ r.key = PlainKey /\ r.key.level = "Plain"
      /\ \A type : HasType(r, type) <=> type = "ClientHello"
      /\ chlo.type = "ClientHello" /\ chlo.shares = InitialShares
  <2>1. chlo.type = "ClientHello" /\ chlo.shares = InitialShares
    BY HelloFields
  <2> HIDE DEF chlo
  <2>2. r.key = PlainLayer(FALSE).key /\ \A type : HasType(r, type) <=> chlo.type = type
    BY SealFields
  <2> HIDE DEF r
  <2> QED
    BY <2>1, <2>2, NamedLayers
<1> HIDE DEF r, chlo, attempted
<1>3. /\ out = <<>> /\ calls = <<>> /\ transcript = <<>> /\ neg = NothingNegotiated
      /\ IsSeq(out) /\ IsSeq(calls)
  BY <1>1 DEF Inv, TypeInv, OptionalsInv, RetryInv
<1>4. /\ \A type : Holding(out, type) = {} /\ ~Told(calls, type)
      /\ Unended(out) /\ PlainStream(out)
  BY <1>3 DEF Holding, Told, Unended, PlainStream
<1>5. /\ IsSeq(calls') /\ \A what : what # "EarlyHandshakeSuccess" => ~Told(calls', what)
  BY <1>1, <1>3, <1>4, ToldStep DEF Tell
<1>6. PlainStream(out')
  BY <1>1, <1>2, <1>4, PlainAppend
<1>7. /\ IsLayer(earlyWrite') /\ earlyWrite'.seq = 0
      /\ HasLayer(earlyWrite') => earlyWrite'.key.level = "Early"
      /\ attempted /\ ~ctx.omitEarly => HasLayer(earlyWrite')
  BY <1>1, NamedLayers DEF Layer, IsLayer, Key, HasLayer, NoLayer
<1>8. /\ DOMAIN neg' = NegFields /\ neg'.early \in {"Attempted", "NotAttempted"}
      /\ neg'.early = "Attempted" => attempted
      /\ neg'.version = None /\ neg'.cipher = None /\ neg'.group = None /\ neg'.kex = None
  BY <1>1, <1>3 DEF NothingNegotiated, NegFields
<1>9. TypeInv'
  <2>1. IsLayer(read') /\ IsLayer(write') /\ IsLayer(earlyWrite')
    BY <1>1, <1>7, NamedLayers DEF Layer, IsLayer, NoLayer
  <2>2. DOMAIN offer' = OfferFields
    BY <1>1 DEF OfferFields
  <2> QED
    BY <1>1, <1>5, <1>6, <1>8, <2>1, <2>2 DEF Inv, TypeInv, States, PlainStream
<1>10. OptionalsInv'
  <2>1. HasLayer(read') /\ HasLayer(write') /\ offer'.hello # <<>>
    BY <1>1, NamedLayers
  <2> QED
    BY <1>1, <1>7, <1>8, <2>1 DEF OptionalsInv, OptionalsAreSet, InFlight
<1>11. StreamInv'
  <2>1. NoncesDiffer(out') /\ Unended(out') /\ IsSeq(out')
    BY <1>6, PlainNonces DEF PlainStream
  <2>2. NothingAfterAlert(out')
    BY <2>1 DEF NothingAfterAlert, Unended
  <2>3. HasLayer(earlyWrite') => Fresh(out', earlyWrite')
    BY <1>6, <1>7, NamedLayers DEF Fresh, PlainStream
  <2>4. LevelsIn(out', {"Plain", "Early"}) /\ LevelsIn(out', {"Plain", "Early", "Hs", "App"})
    BY <1>6, NamedLayers DEF LevelsIn, PlainStream
  <2>5. GensUpTo(out', sched'.clientGen)
    BY <1>6, NamedLayers DEF GensUpTo, PlainStream
  <2>6. /\ write'.key = PlainKey /\ state' = "ExpectingServerHello"
        /\ state' \notin InFlight
    BY <1>1, NamedLayers DEF InFlight
  <2> QED
    BY <1>7, <2>1, <2>2, <2>3, <2>4, <2>5, <2>6 DEF StreamInv
<1>12. RetryInv'
  <2>1. IsFiniteSet({}) /\ Cardinality({}) = 0
    BY FS_EmptySet
  <2>2. IsFiniteSet(Holding(out', "ClientHello")) /\ Cardinality(Holding(out', "ClientHello")) = 1
    <3>1. /\ IsFiniteSet(Holding(out, "ClientHello"))
          /\ Cardinality(Holding(out, "ClientHello")) = 0
      BY <1>4, <2>1
    <3>2. HasType(r, "ClientHello") /\ out' = Append(out, r) /\ IsSeq(out)
      BY <1>1, <1>2, <1>3
    <3> QED
      BY <3>1, <3>2, OneMoreHello
  <2>3. transcript' = <<>> /\ ~(Len(transcript') >= 2)
    BY <1>1, <1>3
  <2>4. RetryIsFollowed'
    BY <2>2, <2>3 DEF RetryIsFollowed
  <2>5. /\ offer'.hello = <<offer'.hello[1]>> /\ offer'.hello[1].type = "ClientHello"
        /\ offer'.hello[1].shares = offer'.shares
    BY <1>1, <1>2
  <2> QED
    BY <1>1, <1>8, <2>2, <2>3, <2>4, <2>5 DEF RetryInv, HellosSent, InFlight
<1>13. EarlyInv'
  <2>1. Holding(out', "EndOfEarlyData") = {}
    <3>1. ~HasType(r, "EndOfEarlyData") /\ out' = Append(out, r) /\ IsSeq(out)
      BY <1>1, <1>2, <1>3
    <3> QED
      BY <1>4, <3>1, HoldingAppend
  <2> QED
    BY <1>5, <2>1 DEF EarlyInv
<1>14. CertInv'
  BY <1>1, <1>5 DEF Inv, CertInv, BeforeHello
<1> QED
  BY <1>9, <1>10, <1>11, <1>12, <1>13, <1>14 DEF Inv
-----------------------------------------------------------------------------
(* What the checks of the two hellos of a server leave.                    *)
LEMMA VersionPasses ==
  ASSUME NEW m, Silent(VersionChecks(m))
  PROVE  m.version \in Elements(ctx.versions) /\ m.cipher \in Elements(ctx.ciphers)
<1> DEFINE c == VersionChecks(m)
<1>1. /\ 3 \in DOMAIN c /\ c[3][1] = (m.version \notin Elements(ctx.versions))
      /\ 4 \in DOMAIN c /\ c[4][1] = (m.cipher \notin Elements(ctx.ciphers))
  BY DEF VersionChecks
<1> HIDE DEF c
<1>2. Silent(c)
  BY DEF c
<1> QED
  BY <1>1, <1>2 DEF Silent

LEMMA RetryPasses ==
  ASSUME NEW m, FirstHit(RetryChecks(m)) = "ok"
  PROVE  /\ neg.kex = None /\ m.group \notin offer.shares
         /\ m.version \in Elements(ctx.versions) /\ m.cipher \in Elements(ctx.ciphers)
<1> DEFINE a == << <<m.fault = "extensions", "illegal_parameter">>,
                   <<neg.kex # None, "unexpected_message">> >>
           v == VersionChecks(m)
           b == << <<m.group # None /\ m.group \notin ctx.groups, "handshake_failure">>,
                   <<m.group \in offer.shares, "illegal_parameter">> >>
<1>1. Stops(a) /\ Stops(b)
  BY TupleIsSeq DEF Stops, Avoids
<1>2. RetryChecks(m) = a \o v \o b
  BY DEF RetryChecks
<1>3. 2 \in DOMAIN a /\ a[2][1] = (neg.kex # None) /\ 2 \in DOMAIN b /\ b[2][1] = (m.group \in offer.shares)
  OBVIOUS
<1>4. Stops(v)
  BY ChecksStop
<1> HIDE DEF a, v, b
<1>5. Stops(a \o v) /\ Stops(a \o v \o b)
  BY <1>1, <1>4, StopsConcat
<1>6. Silent(a \o v \o b)
  BY <1>2, <1>5, Passed
<1>7. Silent(a \o v) /\ Silent(b)
  BY <1>1, <1>5, <1>6, StopsConcat
<1>8. Silent(a) /\ Silent(v)
  BY <1>1, <1>4, <1>7, StopsConcat
<1>9. neg.kex = None /\ m.group \notin offer.shares
  BY <1>3, <1>7, <1>8 DEF Silent
<1> QED
  BY <1>8, <1>9, VersionPasses DEF v

LEMMA ServerHelloPasses ==
  ASSUME NEW m, FirstHit(ServerHelloChecks(m)) = "ok"
  PROVE  /\ m.group # None => m.group \in offer.shares
         /\ neg.version # None => m.version = neg.version
         /\ neg.cipher # None => m.cipher = neg.cipher
         /\ ~HasUnparsed(ev.layer)
<1> DEFINE a == << <<m.fault = "extensions", "illegal_parameter">> >>
           v == VersionChecks(m)
           b == << <<m.group # None /\ m.group \notin offer.shares, "handshake_failure">>,
                   <<m.session # ctx.compat, "illegal_parameter">>,
                   <<Differs(neg.version, m.version), "handshake_failure">>,
                   <<Differs(neg.cipher, m.cipher), "handshake_failure">> >>
           p == PskChecks(m)
           c == << <<m.group = None /\ ~m.psk, "handshake_failure">>,
                   <<HasUnparsed(ev.layer), "unexpected_message">> >>
<1>1. Stops(a) /\ Stops(c)
  BY TupleIsSeq DEF Stops, Avoids
<1>2. Stops(b)
  <2>1. \A x, y, z, w : <<x, y, z, w>> \in Seq({x, y, z, w})
    OBVIOUS
  <2>2. \A x, y, z, w : IsSeq(<<x, y, z, w>>)
    BY <2>1, SeqIsSeq
  <2> QED
    BY <2>2 DEF Stops, Avoids
<1>3. ServerHelloChecks(m) = a \o v \o b \o p \o c
  BY DEF ServerHelloChecks
<1>4. /\ 1 \in DOMAIN b /\ b[1][1] = (m.group # None /\ m.group \notin offer.shares)
      /\ 3 \in DOMAIN b /\ b[3][1] = Differs(neg.version, m.version)
      /\ 4 \in DOMAIN b /\ b[4][1] = Differs(neg.cipher, m.cipher)
      /\ 2 \in DOMAIN c /\ c[2][1] = HasUnparsed(ev.layer)
  OBVIOUS
<1>5. Stops(v) /\ Stops(p)
  BY ChecksStop
<1> HIDE DEF a, v, b, p, c
<1>6. Stops(a \o v) /\ Stops(a \o v \o b) /\ Stops(a \o v \o b \o p) /\ Stops(a \o v \o b \o p \o c)
  BY <1>1, <1>2, <1>5, StopsConcat
<1>7. Silent(a \o v \o b \o p \o c)
  BY <1>3, <1>6, Passed
<1>8. Silent(a \o v \o b \o p) /\ Silent(c)
  BY <1>1, <1>6, <1>7, StopsConcat
<1>9. Silent(a \o v \o b)
  BY <1>5, <1>6, <1>8, StopsConcat
<1>10. Silent(b)
  BY <1>2, <1>6, <1>9, StopsConcat
<1> QED
  BY <1>4, <1>8, <1>10 DEF Silent, Differs

LEMMA RetryKeepsInv ==
  ASSUME Inv, HandleHelloRetryRequest
  PROVE  Inv'
<1>1. state = "ExpectingServerHello" /\ Live
  BY DEF HandleHelloRetryRequest, Event, Live
<1>2. CASE \E d : HandleError(d)
  BY <1>1, <1>2, ErrorKeepsInv
<1>3. CASE ~\E d : HandleError(d)
  <2> DEFINE m == ev.msg
             psk == IF offer.psk # NoPsk /\ HashOf[offer.psk.cipher] # HashOf[m.cipher]
                    THEN NoPsk ELSE offer.psk
             shares == IF m.group # None THEN {m.group} ELSE offer.shares
             context == <<MessageHash(offer.hello), m>>
             chlo == ClientHello(shares, psk, FALSE, m.cookie, context)
             r == Seal(write, <<chlo>>)
  <2>1. /\ FirstHit(RetryChecks(m)) = "ok"
        /\ offer' = [offer EXCEPT !.psk = psk, !.shares = shares, !.hello = <<chlo>>]
        /\ neg' = [neg EXCEPT !.version = m.version, !.cipher = m.cipher,
                              !.kex = "HelloRetryRequest",
                              !.early = IF @ = "Attempted" THEN "Rejected" ELSE @]
        /\ transcript' = Append(context, chlo)
        /\ earlyWrite' = NoLayer
        /\ out' = WithCCS \o <<r>>
        /\ read' = ev.layer
        /\ UNCHANGED <<ctx, state, write, sched, auth, cert, chain, calls>>
    BY <1>3 DEF HandleHelloRetryRequest, WithCCS
  <2> HIDE DEF m, psk, shares, context
  <2>2. /\ r.key = write.key /\ \A type : HasType(r, type) <=> type = "ClientHello"
        /\ chlo.type = "ClientHello" /\ chlo.shares = shares /\ chlo.cookie = m.cookie
        /\ chlo.early = FALSE
    <3>1. /\ chlo.type = "ClientHello" /\ chlo.shares = shares /\ chlo.cookie = m.cookie
          /\ chlo.early = FALSE
      BY DEF ClientHello
    <3> HIDE DEF chlo
    <3>2. r.key = write.key /\ \A type : HasType(r, type) <=> chlo.type = type
      BY SealFields
    <3> HIDE DEF r
    <3> QED
      BY <3>1, <3>2
  <2> HIDE DEF r, chlo
  <2>3. /\ IsSeq(context) /\ Len(context) = 2
        /\ context[1] = MessageHash(offer.hello) /\ context[2] = m
    BY TupleIsSeq DEF context
  <2>4. /\ neg.kex = None /\ m.group \notin offer.shares
        /\ m.version # None /\ m.cipher # None
    BY <2>1, RetryPasses DEF Inv, TypeInv
  <2>5. /\ HasLayer(write) /\ write.key = PlainKey
    BY <1>1 DEF Inv, OptionalsInv, OptionalsAreSet, StreamInv
  <2>6. /\ Goes(WithCCS, write, earlyWrite) /\ IsSeq(WithCCS)
        /\ \A levels : "Plain" \in levels /\ LevelsIn(out, levels) => LevelsIn(WithCCS, levels)
        /\ GensUpTo(WithCCS, sched.clientGen)
        /\ \A type : Holding(WithCCS, type) = Holding(out, type)
    BY <2>5, WithCCSFacts DEF Goes
  <2>7. out' = Append(WithCCS, r)
    BY <2>1, <2>6, AppendAsConcat
  <2>8. Goes(out', write, earlyWrite)
    BY <2>2, <2>5, <2>6, <2>7, SendPlain
  <2>9. /\ DOMAIN neg' = NegFields /\ neg'.version = m.version /\ neg'.cipher = m.cipher
        /\ neg'.kex = "HelloRetryRequest" /\ neg'.group = neg.group
        /\ neg'.early = IF neg.early = "Attempted" THEN "Rejected" ELSE neg.early
    BY <2>1 DEF Inv, TypeInv, NegFields
  <2>10. /\ DOMAIN offer' = OfferFields /\ offer'.shares = shares /\ offer'.hello = <<chlo>>
    BY <2>1 DEF Inv, TypeInv, OfferFields
  <2>11. /\ IsSeq(transcript') /\ Len(transcript') = 3
         /\ transcript'[1].type = "MessageHash" /\ transcript'[1].of = offer.hello
         /\ transcript'[2] = m /\ transcript'[3] = chlo
    <3>1. /\ IsSeq(transcript') /\ Len(transcript') = 3
          /\ transcript'[1] = context[1] /\ transcript'[2] = context[2] /\ transcript'[3] = chlo
      <4>1. transcript' = Append(context, chlo)
        BY <2>1
      <4>2. /\ IsSeq(Append(context, chlo)) /\ Len(Append(context, chlo)) = Len(context) + 1
            /\ \A i \in 1 .. Len(context) : Append(context, chlo)[i] = context[i]
            /\ Append(context, chlo)[Len(context) + 1] = chlo
        <5>1. IsSeq(context)
          BY <2>3
        <5> QED
          BY <5>1, AppendSeq
      <4> QED
        BY <2>3, <4>1, <4>2
    <3> QED
      BY <2>3, <3>1 DEF MessageHash
  <2>12. TypeInv'
    BY <2>1, <2>8, <2>9, <2>10, <2>11, EvLayer, NamedLayers DEF Inv, TypeInv, Goes
  <2>13. OptionalsInv'
    <3>1. neg'.early \in {"NotAttempted", "Rejected"}
      BY <1>1, <2>9 DEF Inv, OptionalsInv
    <3>2. HasLayer(read') /\ HasLayer(write') /\ offer'.hello # <<>>
      BY <1>1, <2>1, <2>5, <2>10, EvLayer DEF Inv, OptionalsInv, OptionalsAreSet
    <3> QED
      BY <1>1, <2>1, <3>1, <3>2 DEF OptionalsInv, OptionalsAreSet, InFlight
  <2>14. StreamInv'
    <3>1. NothingAfterAlert(out')
      BY <2>8 DEF Goes, NothingAfterAlert, Unended
    <3>2. /\ LevelsIn(out, {"Plain", "Early"}) /\ LevelsIn(out, {"Plain", "Early", "Hs", "App"})
      BY <1>1 DEF Inv, StreamInv, BeforeHello
    <3>3. r.key.level = "Plain"
      BY <2>2, <2>5, NamedLayers
    <3>4. LevelsIn(WithCCS, {"Plain", "Early"}) /\ LevelsIn(WithCCS, {"Plain", "Early", "Hs", "App"})
      BY <2>6, <3>2
    <3>5. /\ LevelsIn(out', {"Plain", "Early"}) /\ LevelsIn(out', {"Plain", "Early", "Hs", "App"})
          /\ GensUpTo(out', sched.clientGen)
      BY <2>6, <2>7, <3>3, <3>4, LevelsAppend
    <3>6. state' = "ExpectingServerHello" /\ state' \notin InFlight
      BY <1>1, <2>1 DEF InFlight
    <3> QED
      BY <2>1, <2>5, <2>8, <3>1, <3>5, <3>6, NamedLayers DEF StreamInv, Goes
  <2>15. RetryInv'
    <3>1. /\ IsFiniteSet(Holding(WithCCS, "ClientHello"))
          /\ Cardinality(Holding(WithCCS, "ClientHello")) = 1
      BY <1>1, <2>4, <2>6 DEF Inv, RetryInv, HellosSent
    <3>2. /\ IsFiniteSet(Holding(out', "ClientHello"))
          /\ Cardinality(Holding(out', "ClientHello")) = 2
      BY <2>2, <2>6, <2>7, <3>1, OneMoreHello
    <3>3. offer.hello[1].shares = offer.shares /\ neg.group = None
      BY <1>1 DEF Inv, RetryInv
    <3>4. RetryIsFollowed'
      <4>1. m.group # None =>
              /\ chlo.shares = {m.group} /\ offer.hello[1].shares \cap chlo.shares = {}
        BY <2>2, <2>4, <3>3 DEF shares
      <4> QED
        BY <2>2, <2>9, <2>11, <3>2, <3>3, <4>1 DEF RetryIsFollowed
    <3>5. transcript' # <<>>
      BY <2>11
    <3>6. /\ offer'.hello = <<offer'.hello[1]>> /\ offer'.hello[1] = chlo
      BY <2>10
    <3>7. /\ offer'.hello[1].type = "ClientHello" /\ offer'.hello[1].shares = offer'.shares
          /\ transcript'[3] = offer'.hello[1]
      BY <2>2, <2>10, <2>11, <3>6
    <3>8. /\ neg'.group = None /\ neg'.kex # None /\ neg'.version # None /\ neg'.cipher # None
          /\ state' = "ExpectingServerHello" /\ state' \notin InFlight
      BY <1>1, <2>1, <2>4, <2>9, <3>3 DEF InFlight, None
    <3> QED
      BY <2>11, <3>2, <3>4, <3>5, <3>6, <3>7, <3>8 DEF RetryInv
  <2>16. EarlyInv'
    <3>1. Holding(out', "EndOfEarlyData") = {}
      <4>1. Holding(out, "EndOfEarlyData") = {}
        BY <1>1 DEF Inv, EarlyInv, BeforeHello
      <4> QED
        BY <2>2, <2>6, <2>7, <4>1, HoldingAppend
    <3> QED
      BY <1>1, <2>1, <2>9, <3>1 DEF Inv, EarlyInv, BeforeHello
  <2>17. CertInv'
    BY <1>1, <2>1 DEF Inv, CertInv
  <2> QED
    BY <2>12, <2>13, <2>14, <2>15, <2>16, <2>17 DEF Inv
<1> QED
  BY <1>2, <1>3
LEMMA ServerHelloKeepsInv ==
  ASSUME Inv, HandleServerHello
  PROVE  Inv'
<1>1. state = "ExpectingServerHello" /\ Live
  BY DEF HandleServerHello, Event, Live
<1>2. CASE \E d : HandleError(d)
  BY <1>1, <1>2, ErrorKeepsInv
<1>3. CASE ~\E d : HandleError(d)
  <2> DEFINE m == ev.msg
             base == IF transcript # <<>> THEN transcript ELSE offer.hello
             t == Append(base, m)
             authNow == CASE ~m.psk -> None
                          [] m.psk /\ offer.psk.clientCert -> "Stored"
                          [] OTHER -> "NotRequested"
             typeNow == CASE m.psk -> "Resumption"
                          [] ~m.psk /\ offer.psk # NoPsk -> "Rejected"
                          [] OTHER -> IF ctx.pskModes # {} THEN "NotAttempted"
                                                           ELSE "NotSupported"
             kexNow == CASE m.group = None -> "None"
                         [] m.group # None /\ neg.kex # None -> neg.kex
                         [] OTHER -> "OneRtt"
             modeNow == CASE ~m.psk -> None
                          [] m.psk /\ m.group # None -> "psk_dhe_ke"
                          [] OTHER -> "psk_ke"
  <2>1. /\ FirstHit(ServerHelloChecks(m)) = "ok"
        /\ transcript' = t
        /\ read' = Layer(Key("Hs", "server", 0, t), FALSE)
        /\ write' = Layer(Key("Hs", "client", 0, t), FALSE)
        /\ neg' = [neg EXCEPT !.version = m.version, !.cipher = m.cipher, !.group = m.group,
                              !.kex = kexNow, !.pskType = typeNow, !.pskMode = modeNow]
        /\ auth' = authNow /\ cert' = m.psk
        /\ offer' = [NothingOffered EXCEPT !.params = offer.params]
        /\ state' = "ExpectingEncryptedExtensions"
        /\ UNCHANGED <<ctx, earlyWrite, sched, chain, out, calls>>
    BY <1>3 DEF HandleServerHello
  <2>2. typeNow = "Resumption" => authNow # None /\ m.psk
    BY DEF None
  <2> HIDE DEF m, authNow, typeNow, kexNow, modeNow
  <2>3. /\ DOMAIN neg' = NegFields /\ neg'.version = m.version /\ neg'.cipher = m.cipher
        /\ neg'.group = m.group /\ neg'.pskType = typeNow /\ neg'.early = neg.early
    BY <2>1 DEF Inv, TypeInv, NegFields
  <2>4. /\ m.group # None => m.group \in offer.shares
        /\ neg.version # None => m.version = neg.version
        /\ neg.cipher # None => m.cipher = neg.cipher
    BY <2>1, ServerHelloPasses
  <2>5. /\ IsSeq(base) /\ Len(base) >= 1 /\ Len(base) \in Nat
        /\ transcript # <<>> => base = transcript
        /\ transcript = <<>> => base[1].type = "ClientHello"
        /\ base[1].type = "MessageHash" => transcript # <<>> /\ Len(base) >= 3
    <3>1. IsSeq(transcript) /\ Len(transcript) \in Nat
      BY IsSeqDomain DEF Inv, TypeInv
    <3>2. /\ offer.hello = <<offer.hello[1]>> /\ offer.hello[1].type = "ClientHello"
          /\ transcript # <<>> => Len(transcript) >= 2
          /\ transcript # <<>> /\ transcript[1].type = "MessageHash" => Len(transcript) >= 3
      BY <1>1 DEF Inv, RetryInv
    <3>3. IsSeq(offer.hello) /\ Len(offer.hello) = 1
      BY <3>2, TupleIsSeq
    <3> QED
      BY <3>1, <3>2, <3>3
  <2> HIDE DEF base
  <2>6. /\ IsSeq(t) /\ Len(t) = Len(base) + 1
        /\ \A i \in 1 .. Len(base) : t[i] = base[i]
    BY <2>5, AppendSeq
  <2> HIDE DEF t
  <2>7. /\ IsLayer(read') /\ IsLayer(write') /\ HasLayer(read') /\ HasLayer(write')
        /\ write'.key.level = "Hs" /\ write'.seq = 0
    BY <2>1, NewLayer DEF HasLayer, Key, NoLayer, Layer
  <2>8. TypeInv'
    <3>1. DOMAIN offer' = OfferFields
      BY <2>1 DEF NothingOffered, OfferFields
    <3> QED
      BY <2>1, <2>3, <2>6, <2>7, <3>1 DEF Inv, TypeInv, States
  <2>9. OptionalsInv'
    <3>1. neg.early \in {"Attempted", "Accepted"} /\ ~ctx.omitEarly => HasLayer(earlyWrite)
      BY <1>1 DEF Inv, OptionalsInv, OptionalsAreSet
    <3>2. neg'.pskType = "Resumption" => auth' # None /\ cert'
      BY <2>1, <2>2, <2>3
    <3>3. /\ neg'.early = neg.early /\ UNCHANGED <<ctx, earlyWrite>>
          /\ neg.early \in {"Attempted", "NotAttempted", "Rejected"}
          /\ state' = "ExpectingEncryptedExtensions"
      BY <1>1, <2>1, <2>3 DEF Inv, OptionalsInv
    <3> QED
      BY <2>7, <3>1, <3>2, <3>3 DEF OptionalsInv, OptionalsAreSet
  <2>10. StreamInv'
    <3>1. Unended(out) /\ IsSeq(out) /\ LevelsIn(out, {"Plain", "Early"})
      BY <1>1 DEF Inv, TypeInv, OptionalsInv, OptionalsAreSet, StreamInv, BeforeHello
    <3>2. Fresh(out, write')
      BY <2>7, <3>1 DEF Fresh, LevelsIn
    <3>3. LevelsIn(out, {"Plain", "Early", "Hs"})
      BY <3>1 DEF LevelsIn
    <3>4. state' \in InFlight /\ state' \notin BeforeHello \cup {"Established"}
      BY <2>1 DEF InFlight, BeforeHello
    <3>5. UNCHANGED <<out, earlyWrite, sched>>
      BY <2>1
    <3>6. state' \notin {"ExpectingServerHello", "Established"}
      BY <2>1
    <3> QED
      BY <2>7, <3>1, <3>2, <3>3, <3>4, <3>5, <3>6 DEF Inv, StreamInv
  <2>11. RetryInv'
    <3>1. transcript' = t /\ state' = "ExpectingEncryptedExtensions" /\ out' = out
      BY <2>1
    <3>2. /\ Len(t) >= 2 /\ t[1] = base[1] /\ t # <<>>
          /\ t[1].type = "MessageHash" => Len(t) >= 3
      BY <2>5, <2>6
    <3>3. RetryIsFollowed'
      <4>1. Cardinality(Holding(out', "ClientHello")) <= 2
        BY <3>1 DEF Inv, RetryInv, RetryIsFollowed
      <4>2. CASE t[1].type # "MessageHash"
        BY <3>1, <4>1, <4>2 DEF RetryIsFollowed
      <4>3. CASE t[1].type = "MessageHash"
        <5>1. /\ base = transcript /\ transcript # <<>> /\ Len(transcript) >= 3
              /\ t[1] = transcript[1] /\ t[2] = transcript[2] /\ t[3] = transcript[3]
          BY <2>5, <2>6, <3>2, <4>3
        <5>2. /\ neg.kex # None
              /\ transcript[3].shares = offer.shares
              /\ neg.version # None /\ neg.cipher # None
          BY <1>1, <5>1 DEF Inv, RetryInv
        <5>3. /\ neg.version = transcript[2].version /\ neg.cipher = transcript[2].cipher
              /\ ~transcript[3].early /\ transcript[3].cookie = transcript[2].cookie
              /\ transcript[2].group # None =>
                   /\ transcript[3].shares = {transcript[2].group}
                   /\ transcript[1].of[1].shares \cap transcript[3].shares = {}
          BY <3>2, <4>3, <5>1 DEF Inv, RetryInv, RetryIsFollowed
        <5>4. neg'.version = neg.version /\ neg'.cipher = neg.cipher
          BY <2>3, <2>4, <5>2
        <5>5. transcript[2].group # None => neg'.group \in {None, transcript[2].group}
          BY <2>3, <2>4, <5>2, <5>3
        <5> QED
          BY <3>1, <4>1, <5>1, <5>3, <5>4, <5>5 DEF RetryIsFollowed
      <4> QED
        BY <4>2, <4>3
    <3>4. IsFiniteSet(Holding(out', "ClientHello"))
      BY <3>1 DEF Inv, RetryInv
    <3> QED
      BY <3>1, <3>2, <3>3, <3>4 DEF RetryInv
  <2>12. EarlyInv'
    BY <1>1, <2>1, <2>3 DEF Inv, EarlyInv, BeforeHello, InFlight
  <2>13. CertInv'
    <3>1. ~chain /\ ~Told(calls, "HandshakeSuccess")
      BY <1>1 DEF Inv, CertInv, EarlyInv, BeforeHello
    <3> QED
      BY <2>1, <3>1 DEF CertInv
  <2> QED
    BY <2>8, <2>9, <2>10, <2>11, <2>12, <2>13 DEF Inv
<1> QED
  BY <1>2, <1>3
-----------------------------------------------------------------------------
(* What a client sends in its second flight.                               *)
LEMMA AuthenticationTypes ==
  ASSUME NEW t
  PROVE  AllTypes(ClientAuthentication(t), {"Certificate", "CertificateVerify", "Finished"})
<1>1. /\ \A kind : Certificate(kind).type = "Certificate"
      /\ \A over, scheme : CertificateVerify(over, scheme).type = "CertificateVerify"
  BY DEF Certificate, CertificateVerify
<1>2. \/ ClientAuthentication(t) = <<>>
      \/ \E a : a.type = "Certificate" /\ ClientAuthentication(t) = <<a>>
      \/ \E a, b : /\ a.type = "Certificate" /\ b.type = "CertificateVerify"
                   /\ ClientAuthentication(t) = <<a, b>>
  <2> DEFINE a == Certificate("chain")
             b == CertificateVerify(Append(t, a), "supported")
             c == Certificate("empty")
  <2>1. ClientAuthentication(t) \in {<<>>, <<c>>, <<a, b>>}
    BY DEF ClientAuthentication
  <2>2. a.type = "Certificate" /\ b.type = "CertificateVerify" /\ c.type = "Certificate"
    BY <1>1
  <2> HIDE DEF a, b, c
  <2> QED
    BY <2>1, <2>2
<1> QED
  BY <1>2, TupleIsSeq DEF AllTypes

LEMMA ExtendsTransitive ==
  ASSUME NEW t, NEW u, NEW v, IsSeq(t), IsSeq(u), IsSeq(v), Extends(t, u), Extends(u, v)
  PROVE  Extends(t, v)
<1>1. Len(t) \in Nat /\ Len(u) \in Nat /\ Len(v) \in Nat
  BY IsSeqDomain
<1> QED
  BY <1>1 DEF Extends

LEMMA FinishedKeepsInv ==
  ASSUME Inv, HandleFinished
  PROVE  Inv'
<1>1. state = "ExpectingFinished" /\ Live /\ state \in InFlight
  BY DEF HandleFinished, Event, Live, InFlight
<1>2. CASE \E d : HandleError(d)
  BY <1>1, <1>2, ErrorKeepsInv
<1>3. CASE ~\E d : HandleError(d)
  <2> DEFINE t == AppendToTranscript(transcript, ev.msg)
             ended == IF EndsEarlyData THEN Append(t, EndOfEarlyData) ELSE t
             authentication == ClientAuthentication(ended)
             fin == Finished(Digests(ended, authentication))
             flight == Append(authentication, fin)
             e == Seal(earlyWrite, <<EndOfEarlyData>>)
             f == Seal(write, flight)
             mid == WithCCS \o (IF EndsEarlyData THEN <<e>> ELSE <<>>)
  <2>1. /\ transcript' = Digests(ended, flight)
        /\ sched' = [NoSecrets EXCEPT !.appCtx = t]
        /\ read' = AppReadLayer(0, t) /\ write' = AppWriteLayer(0, t)
        /\ earlyWrite' = NoLayer
        /\ out' = mid \o <<f>>
        /\ state' = "Established" /\ Tell("HandshakeSuccess")
        /\ UNCHANGED <<ctx, offer, neg, auth, cert, chain>>
    BY <1>3 DEF HandleFinished, AppContext, WithCCS
  <2>2. AllTypes(flight, {"Certificate", "CertificateVerify", "Finished"})
    <3>1. fin.type = "Finished"
      BY DEF Finished
    <3> HIDE DEF fin, ended
    <3> QED
      BY <3>1, AuthenticationTypes, AllTypesAppend
  <2> HIDE DEF fin, authentication, flight
  <2>3. /\ f.key = write.key /\ f.seq = write.seq
        /\ \A type : type \notin {"Certificate", "CertificateVerify", "Finished"} => ~HasType(f, type)
    BY <2>2, SealBody
  <2>4. /\ e.key = earlyWrite.key /\ e.seq = earlyWrite.seq
        /\ \A type : HasType(e, type) <=> type = "EndOfEarlyData"
    <3>1. EndOfEarlyData.type = "EndOfEarlyData"
      BY DEF EndOfEarlyData
    <3> QED
      BY <3>1, SealFields
  <2>5. /\ HasLayer(write) /\ write.key.level = "Hs" /\ Goes(out, write, earlyWrite)
        /\ IsLayer(earlyWrite) /\ IsSeq(out)
        /\ EndsEarlyData => HasLayer(earlyWrite) /\ earlyWrite.key.level = "Early"
    BY <1>1, WriteKey
       DEF Inv, TypeInv, OptionalsInv, OptionalsAreSet, EndsEarlyData, StreamInv
  <2>6. /\ IsSeq(t) /\ IsSeq(transcript') /\ Extends(transcript, transcript')
    <3>1. IsSeq(t) /\ Extends(transcript, t)
      BY GrowthExtends DEF Inv, TypeInv, AppendToTranscript
    <3> HIDE DEF t
    <3>2. IsSeq(ended) /\ Extends(t, ended)
      <4>1. IsSeq(Append(t, EndOfEarlyData)) /\ Extends(t, Append(t, EndOfEarlyData))
        BY <3>1, GrowthExtends
      <4>2. Extends(t, t)
        BY <3>1, IsSeqDomain DEF Extends
      <4> QED
        BY <3>1, <4>1, <4>2
    <3> HIDE DEF ended
    <3>3. IsSeq(transcript') /\ Extends(ended, transcript')
      BY <2>1, <2>2, <3>2, GrowthExtends DEF AllTypes
    <3> QED
      BY <3>1, <3>2, <3>3, ExtendsTransitive DEF Inv, TypeInv
  <2> HIDE DEF e, f, t, ended
  <2>7. /\ Goes(WithCCS, write, earlyWrite) /\ IsSeq(WithCCS)
        /\ LevelsIn(WithCCS, {"Plain", "Early", "Hs"})
        /\ \A type : Holding(WithCCS, type) = Holding(out, type)
    <3>1. LevelsIn(out, {"Plain", "Early", "Hs"})
      BY <1>1 DEF Inv, StreamInv
    <3> QED
      BY <2>5, <3>1, WithCCSFacts DEF Goes
  <2>8. mid = IF EndsEarlyData THEN Append(WithCCS, e) ELSE WithCCS
    <3>1. WithCCS \o <<>> = WithCCS
      <4>1. WithCCS \in Seq({WithCCS[i] : i \in DOMAIN WithCCS})
        BY <2>7 DEF IsSeq
      <4> QED
        BY <4>1
    <3> QED
      BY <2>7, <3>1, AppendAsConcat
  <2> HIDE DEF mid
  <2>9. /\ Goes(mid, write, NoLayer) /\ IsSeq(mid) /\ LevelsIn(mid, {"Plain", "Early", "Hs"})
        /\ Holding(mid, "ClientHello") = Holding(out, "ClientHello")
        /\ Holding(mid, "EndOfEarlyData") # {} <=> EndsEarlyData
    <3>1. Holding(out, "EndOfEarlyData") = {}
      BY <1>1 DEF Inv, EarlyInv
    <3>2. CASE ~EndsEarlyData
      BY <2>7, <2>8, <3>1, <3>2, NamedLayers DEF Goes
    <3>3. CASE EndsEarlyData
      <4>1. mid = Append(WithCCS, e)
        BY <2>8, <3>3
      <4>2. Goes(mid, write, Sealed(earlyWrite))
        BY <2>4, <2>5, <2>7, <3>3, <4>1, SendEarly
      <4>3. LevelsIn(mid, {"Plain", "Early", "Hs"})
        BY <2>4, <2>5, <2>7, <3>3, <4>1, LevelsAppend
      <4>4. /\ Holding(mid, "ClientHello") = Holding(out, "ClientHello")
            /\ Holding(mid, "EndOfEarlyData") # {}
        BY <2>4, <2>7, <4>1, HoldingAppend
      <4> QED
        BY <3>3, <4>2, <4>3, <4>4, NamedLayers DEF Goes
    <3> QED
      BY <3>2, <3>3
  <2>10. out' = Append(mid, f)
    BY <2>1, <2>9, AppendAsConcat
  <2>11. /\ IsLayer(read') /\ HasLayer(read') /\ IsLayer(write') /\ HasLayer(write')
         /\ write'.seq = 0 /\ write'.key = Key("App", "client", 0, t)
         /\ write'.key.level = "App" /\ write'.key.gen = 0
    BY <2>1, NewLayer DEF AppReadLayer, AppWriteLayer, Layer, Key, HasLayer, NoLayer
  <2>12. LevelsIn(out', {"Plain", "Early", "Hs"}) /\ IsSeq(out')
    BY <2>3, <2>5, <2>9, <2>10, LevelsAppend, AppendSeq
  <2>13. Fresh(out', write') /\ GensUpTo(out', 0)
    BY <2>11, <2>12 DEF Fresh, GensUpTo, LevelsIn
  <2>14. Goes(out', write', NoLayer)
    <3>1. write.key.level # "Early" /\ ~HasType(f, "Alert") /\ ~HasType(f, "CloseNotify")
      BY <2>3, <2>5
    <3> QED
      BY <2>3, <2>9, <2>10, <2>13, <3>1, SendWrite
  <2>15. /\ Holding(out', "ClientHello") = Holding(out, "ClientHello")
         /\ Holding(out', "EndOfEarlyData") # {} <=> EndsEarlyData
    <3>1. ~HasType(f, "ClientHello") /\ ~HasType(f, "EndOfEarlyData")
      BY <2>3
    <3> QED
      BY <2>9, <2>10, <3>1, HoldingAppend
  <2>16. /\ IsSeq(calls')
         /\ \A what : Told(calls', what) <=> Told(calls, what) \/ what = "HandshakeSuccess"
    BY <2>1, ToldStep DEF Tell, Inv, TypeInv
  <2>17. /\ sched' = [appCtx |-> t, clientGen |-> 0, serverGen |-> 0]
    BY <2>1 DEF NoSecrets
  <2>18. TypeInv'
    <3>1. /\ sched' = [appCtx |-> sched'.appCtx, clientGen |-> sched'.clientGen,
                       serverGen |-> sched'.serverGen]
          /\ sched'.clientGen \in Nat
      BY <2>17
    <3> QED
      BY <2>1, <2>6, <2>11, <2>12, <2>16, <3>1, NamedLayers DEF Inv, TypeInv, States
  <2>19. OptionalsInv'
    BY <2>1, <2>11 DEF OptionalsInv, OptionalsAreSet, InFlight
  <2>20. StreamInv'
    <3>1. NothingAfterAlert(out')
      BY <2>14 DEF Goes, NothingAfterAlert, Unended
    <3>2. LevelsIn(out', {"Plain", "Early", "Hs", "App"})
      BY <2>12 DEF LevelsIn
    <3>3. sched'.clientGen = 0 /\ sched'.appCtx = t
      BY <2>17
    <3>4. write'.key = AppKeyNow'
      BY <2>11, <3>3 DEF AppKeyNow
    <3>5. state' = "Established" /\ state' \notin BeforeHello \cup InFlight
      BY <2>1 DEF BeforeHello, InFlight
    <3>6. ~HasLayer(earlyWrite')
      BY <2>1, NamedLayers
    <3> QED
      BY <2>13, <2>14, <3>1, <3>2, <3>3, <3>4, <3>5, <3>6 DEF StreamInv, Goes
  <2>21. RetryInv'
    <3>1. transcript # <<>> /\ state' \notin BeforeHello
      BY <1>1, <2>1 DEF Inv, RetryInv, BeforeHello
    <3> QED
      BY <2>1, <2>6, <2>15, <3>1, RetryStays DEF Inv, TypeInv
  <2>22. EarlyInv'
    <3>1. state' \notin BeforeHello \cup InFlight
      BY <2>1 DEF BeforeHello, InFlight
    <3> QED
      BY <2>1, <2>15, <2>16, <3>1 DEF Inv, EarlyInv, EndsEarlyData
  <2>23. CertInv'
    BY <1>1, <2>1 DEF Inv, CertInv, BeforeHello
  <2> QED
    BY <2>18, <2>19, <2>20, <2>21, <2>22, <2>23 DEF Inv
<1> QED
  BY <1>2, <1>3
-----------------------------------------------------------------------------
(***************************************************************************)
(* A record after the handshake, and the layer it leaves: the same one, or *)
(* the one of the next generation.                                         *)
(***************************************************************************)
LEMMA EstablishedSendKeepsInv ==
  ASSUME Inv, state = "Established", NEW m, m.type \in {"AppData", "KeyUpdate"},
         out' = Append(out, Seal(write, <<m>>)),
         UNCHANGED <<ctx, state, earlyWrite, offer, neg, transcript, auth, cert, chain, calls>>,
         sched' = [appCtx |-> sched'.appCtx, clientGen |-> sched'.clientGen,
                   serverGen |-> sched'.serverGen],
         sched'.appCtx = sched.appCtx, IsLayer(read'), HasLayer(read'),
         \/ sched'.clientGen = sched.clientGen /\ write' = Sealed(write)
         \/ /\ sched'.clientGen = sched.clientGen + 1
            /\ write' = AppWriteLayer(sched.clientGen + 1, sched.appCtx)
  PROVE  Inv'
<1> DEFINE r == Seal(write, <<m>>)
<1>1. /\ r.key = write.key /\ r.seq = write.seq
      /\ \A type : type \notin {"AppData", "KeyUpdate"} => ~HasType(r, type)
  BY SealFields
<1> HIDE DEF r
<1>2. /\ HasLayer(write) /\ write.key = AppKeyNow /\ write.key.level = "App"
      /\ write.key.gen = sched.clientGen /\ write.key # PlainKey
      /\ Goes(out, write, earlyWrite) /\ IsSeq(out) /\ sched.clientGen \in Nat
      /\ IsLayer(write) /\ Encrypts(write) /\ GensUpTo(out, sched.clientGen)
      /\ LevelsIn(out, {"Plain", "Early", "Hs", "App"})
  <2>1. /\ HasLayer(write) /\ write.key = AppKeyNow /\ IsLayer(write) /\ IsSeq(out)
        /\ sched.clientGen \in Nat /\ GensUpTo(out, sched.clientGen)
        /\ LevelsIn(out, {"Plain", "Early", "Hs", "App"})
    BY DEF Inv, TypeInv, OptionalsInv, OptionalsAreSet, StreamInv
  <2>2. AppKeyNow.level = "App" /\ AppKeyNow.gen = sched.clientGen
    BY DEF AppKeyNow, Key
  <2> QED
    BY <2>1, <2>2, WriteKey, NamedLayers DEF Encrypts
<1>3. out' = Append(out, r)
  BY DEF r
<1>4. /\ LevelsIn(out', {"Plain", "Early", "Hs", "App"}) /\ GensUpTo(out', sched.clientGen)
      /\ IsSeq(out')
  <2>1. /\ r.key.level \in {"Plain", "Early", "Hs", "App"}
        /\ r.key.gen \in Nat /\ r.key.gen <= sched.clientGen
    BY <1>1, <1>2
  <2>2. IsSeq(out) /\ IsSeq(out')
    BY <1>2, <1>3, AppendSeq
  <2>3. LevelsIn(out', {"Plain", "Early", "Hs", "App"})
    BY <1>2, <1>3, <2>1, <2>2, LevelsAppend
  <2>4. GensUpTo(out, sched.clientGen) /\ out' = Append(out, r)
    BY <1>2, <1>3
  <2>5. GensUpTo(out', sched.clientGen)
    BY <2>1, <2>2, <2>4, LevelsAppend
  <2> QED
    BY <2>2, <2>3, <2>5
<1>5. /\ IsLayer(write') /\ HasLayer(write') /\ Fresh(out', write') /\ write'.key = AppKeyNow'
      /\ sched'.clientGen \in Nat /\ GensUpTo(out', sched'.clientGen)
  <2>1. CASE sched'.clientGen = sched.clientGen /\ write' = Sealed(write)
    <3>1. Fresh(out', Sealed(write)) /\ IsLayer(Sealed(write)) /\ Sealed(write).key = write.key
      <4>1. write.key.level # "Early" /\ ~HasType(r, "Alert") /\ ~HasType(r, "CloseNotify")
        BY <1>1, <1>2
      <4> QED
        BY <1>1, <1>2, <1>3, <4>1, SendWrite
    <3> QED
      BY <1>2, <1>4, <2>1, <3>1 DEF AppKeyNow, HasLayer
  <2>2. CASE /\ sched'.clientGen = sched.clientGen + 1
             /\ write' = AppWriteLayer(sched.clientGen + 1, sched.appCtx)
    <3>1. /\ IsLayer(write') /\ write'.key = AppKeyNow' /\ write'.seq = 0
      <4>1. AppKeyNow' = Key("App", "client", sched.clientGen + 1, sched.appCtx)
        BY <2>2 DEF AppKeyNow
      <4>2. write' = Layer(AppKeyNow', FALSE)
        BY <2>2, <4>1 DEF AppWriteLayer
      <4> QED
        BY <4>2 DEF Layer, IsLayer
    <3>2. AppKeyNow'.level = "App" /\ AppKeyNow'.gen = sched.clientGen + 1
      BY <2>2 DEF AppKeyNow, Key
    <3>3. Fresh(out', write')
      BY <1>2, <1>4, <3>1, <3>2 DEF Fresh, GensUpTo
    <3>4. HasLayer(write')
      BY <3>1, <3>2 DEF HasLayer, NoLayer, Key, Layer
    <3>5. sched'.clientGen \in Nat /\ GensUpTo(out', sched'.clientGen)
      BY <1>2, <1>4, <2>2 DEF GensUpTo
    <3> QED
      BY <3>1, <3>3, <3>4, <3>5
  <2> QED
    BY <2>1, <2>2
<1>6. Goes(out', write', earlyWrite)
  <2>1. write.key.level # "Early" /\ ~HasType(r, "Alert") /\ ~HasType(r, "CloseNotify")
    BY <1>1, <1>2
  <2> QED
    BY <1>1, <1>2, <1>3, <1>5, <2>1, SendWrite
<1>7. /\ Holding(out', "ClientHello") = Holding(out, "ClientHello")
      /\ Holding(out', "EndOfEarlyData") = Holding(out, "EndOfEarlyData")
  BY <1>1, <1>2, <1>3, HoldingAppend
<1>8. TypeInv'
  BY <1>4, <1>5 DEF Inv, TypeInv
<1>9. OptionalsInv'
  BY <1>5 DEF OptionalsInv, OptionalsAreSet, InFlight
<1>10. StreamInv'
  <2>1. NothingAfterAlert(out')
    BY <1>6 DEF Goes, NothingAfterAlert, Unended
  <2>2. state' = "Established" /\ state' \notin BeforeHello \cup InFlight
    BY DEF BeforeHello, InFlight
  <2> QED
    BY <1>4, <1>5, <1>6, <2>1, <2>2 DEF StreamInv, Goes
<1>11. RetryInv'
  BY <1>7 DEF Inv, RetryInv, RetryIsFollowed, HellosSent
<1>12. EarlyInv'
  BY <1>7 DEF Inv, EarlyInv
<1>13. CertInv'
  BY DEF Inv, CertInv
<1> QED
  BY <1>8, <1>9, <1>10, <1>11, <1>12, <1>13 DEF Inv

LEMMA AppWriteKeepsInv ==
  ASSUME Inv, Live, AppWrite
  PROVE  Inv'
<1>1. CASE state # "Established"
  BY <1>1, ErrorKeepsInv DEF AppWrite, HandleInvalidEvent
<1>2. CASE state = "Established"
  <2>1. /\ out' = Append(out, Seal(write, <<AppData(written + 1)>>))
        /\ write' = Sealed(write)
        /\ UNCHANGED <<ctx, state, read, hsVars, calls>>
    BY <1>2 DEF AppWrite
  <2>2. AppData(written + 1).type = "AppData"
    BY DEF AppData
  <2>3. IsLayer(read) /\ HasLayer(read)
    BY <1>2 DEF Inv, TypeInv, OptionalsInv, OptionalsAreSet
  <2>4. sched = [appCtx |-> sched.appCtx, clientGen |-> sched.clientGen,
                 serverGen |-> sched.serverGen]
    BY DEF Inv, TypeInv
  <2> QED
    BY <1>2, <2>1, <2>2, <2>3, <2>4, EstablishedSendKeepsInv DEF hsVars
<1> QED
  BY <1>1, <1>2

LEMMA IgnoreKeepsInv ==
  ASSUME Inv, Live, state # "Uninitialized", IgnoreEarlyAppWrite
  PROVE  Inv'
<1>1. CASE neg.early # "Rejected"
  BY <1>1, ErrorKeepsInv DEF IgnoreEarlyAppWrite
<1>2. CASE neg.early = "Rejected"
  <2>1. ReadsAndTells("ReportEarlyWriteFailed")
    BY <1>2 DEF IgnoreEarlyAppWrite, ReadsAndTells, Tell, hsVars
  <2> QED
    BY <1>2, <2>1, ReadsAndTellsKeepsInv
<1> QED
  BY <1>1, <1>2

LEMMA WriteEarlyKeepsInv ==
  ASSUME Inv, WriteEarly, HasLayer(earlyWrite), state \in {"ExpectingServerHello"} \cup InFlight
  PROVE  Inv'
<1> DEFINE r == Seal(earlyWrite, <<AppData(written + 1)>>)
<1>1. /\ out' = WithCCS \o <<r>> /\ earlyWrite' = Sealed(earlyWrite)
      /\ UNCHANGED <<ctx, state, read, write, offer, neg, transcript, sched, auth,
                     cert, chain, calls>>
  BY DEF WriteEarly, WithCCS
<1>2. /\ r.key = earlyWrite.key /\ r.seq = earlyWrite.seq
      /\ \A type : HasType(r, type) <=> type = "AppData"
  <2>1. AppData(written + 1).type = "AppData"
    BY DEF AppData
  <2> QED
    BY <2>1, SealFields
<1> HIDE DEF r
<1>3. /\ HasLayer(write) /\ write.key.level \in {"Plain", "Hs"} /\ IsLayer(earlyWrite)
      /\ earlyWrite.key.level = "Early" /\ LevelsIn(out, {"Plain", "Early", "Hs", "App"})
      /\ state \in BeforeHello => LevelsIn(out, {"Plain", "Early"})
      /\ state \in InFlight => LevelsIn(out, {"Plain", "Early", "Hs"})
  <2>1. HasLayer(write)
    BY DEF Inv, OptionalsInv, OptionalsAreSet, InFlight
  <2> QED
    BY <2>1, WriteKey, NamedLayers DEF Inv, TypeInv, StreamInv
<1>4. /\ Goes(WithCCS, write, earlyWrite) /\ IsSeq(WithCCS)
      /\ \A levels : "Plain" \in levels /\ LevelsIn(out, levels) => LevelsIn(WithCCS, levels)
      /\ GensUpTo(WithCCS, sched.clientGen)
      /\ \A type : Holding(WithCCS, type) = Holding(out, type)
  BY <1>3, WithCCSFacts DEF Goes
<1>5. out' = Append(WithCCS, r)
  BY <1>1, <1>4, AppendAsConcat
<1>6. Goes(out', write, Sealed(earlyWrite)) /\ IsLayer(Sealed(earlyWrite))
      /\ Sealed(earlyWrite).key = earlyWrite.key
  <2>1. ~HasType(r, "Alert") /\ ~HasType(r, "CloseNotify") /\ write.key.level # "Early"
    BY <1>2, <1>3
  <2> QED
    BY <1>2, <1>3, <1>4, <1>5, <2>1, SendEarly
<1>7. /\ LevelsIn(out', {"Plain", "Early", "Hs", "App"}) /\ GensUpTo(out', sched.clientGen)
      /\ state \in BeforeHello => LevelsIn(out', {"Plain", "Early"})
      /\ state \in InFlight => LevelsIn(out', {"Plain", "Early", "Hs"})
  <2>1. r.key.level = "Early"
    BY <1>2, <1>3
  <2>2. /\ LevelsIn(WithCCS, {"Plain", "Early", "Hs", "App"})
        /\ state \in BeforeHello => LevelsIn(WithCCS, {"Plain", "Early"})
        /\ state \in InFlight => LevelsIn(WithCCS, {"Plain", "Early", "Hs"})
    BY <1>3, <1>4
  <2> QED
    BY <1>4, <1>5, <2>1, <2>2, LevelsAppend
<1>8. /\ Holding(out', "ClientHello") = Holding(out, "ClientHello")
      /\ Holding(out', "EndOfEarlyData") = Holding(out, "EndOfEarlyData")
  BY <1>2, <1>4, <1>5, HoldingAppend
<1>9. TypeInv'
  BY <1>1, <1>6 DEF Inv, TypeInv, Goes
<1>10. OptionalsInv'
  <2>1. HasLayer(earlyWrite')
    BY <1>1, <1>6 DEF HasLayer
  <2>2. OptionalsAreSet'
    BY <1>1, <2>1 DEF Inv, OptionalsInv, OptionalsAreSet
  <2>3. UNCHANGED <<state, neg, ctx, auth, cert>> /\ state # "Uninitialized"
    BY <1>1 DEF InFlight
  <2> QED
    BY <2>1, <2>2, <2>3 DEF Inv, OptionalsInv
<1>11. StreamInv'
  <2>1. NothingAfterAlert(out')
    BY <1>6 DEF Goes, NothingAfterAlert, Unended
  <2>2. state # "Established"
    BY DEF InFlight
  <2>3. earlyWrite'.key.level = "Early" /\ Fresh(out', earlyWrite') /\ Unended(out')
        /\ NoncesDiffer(out')
    BY <1>1, <1>3, <1>6 DEF Goes, HasLayer
  <2>4. write.key = PlainKey \/ Fresh(out', write)
    BY <1>6 DEF Goes
  <2> QED
    BY <1>1, <1>7, <2>1, <2>2, <2>3, <2>4 DEF Inv, StreamInv
<1>12. RetryInv'
  BY <1>1, <1>8 DEF Inv, RetryInv, RetryIsFollowed, HellosSent
<1>13. EarlyInv'
  BY <1>1, <1>8 DEF Inv, EarlyInv
<1>14. CertInv'
  BY <1>1 DEF Inv, CertInv
<1> QED
  BY <1>9, <1>10, <1>11, <1>12, <1>13, <1>14 DEF Inv
LEMMA EarlyAppWriteKeepsInv ==
  ASSUME Inv, Live, EarlyAppWrite
  PROVE  Inv'
<1>1. CASE state \in {"ExpectingServerHello", "ExpectingEncryptedExtensions", "ExpectingFinished"}
  <2>1. HandleEarlyAppWrite
    BY <1>1 DEF EarlyAppWrite
  <2>2. CASE ctx.omitEarly \/ neg.early = "NotAttempted"
    BY <2>1, <2>2, ErrorKeepsInv DEF HandleEarlyAppWrite
  <2>3. CASE ~ctx.omitEarly /\ neg.early = "Rejected"
    BY <1>1, <2>1, <2>3, IgnoreKeepsInv DEF HandleEarlyAppWrite
  <2>4. CASE ~ctx.omitEarly /\ neg.early \notin {"NotAttempted", "Rejected"}
    <3>1. WriteEarly
      BY <2>1, <2>4 DEF HandleEarlyAppWrite
    <3>2. HasLayer(earlyWrite) /\ state \in {"ExpectingServerHello"} \cup InFlight
      BY <1>1, <2>4 DEF Inv, OptionalsInv, OptionalsAreSet, InFlight
    <3> QED
      BY <3>1, <3>2, WriteEarlyKeepsInv
  <2> QED
    BY <2>2, <2>3, <2>4
<1>2. CASE state \in {"ExpectingCertificate", "ExpectingCertificateVerify"}
  BY <1>2, IgnoreKeepsInv DEF EarlyAppWrite
<1>3. CASE state = "Established"
  <2>1. (neg.early = "Accepted" /\ AppWrite) \/ IgnoreEarlyAppWrite
    BY <1>3 DEF EarlyAppWrite
  <2> QED
    BY <1>3, <2>1, AppWriteKeepsInv, IgnoreKeepsInv
<1>4. CASE state \notin {"ExpectingServerHello", "ExpectingEncryptedExtensions",
                         "ExpectingFinished", "ExpectingCertificate",
                         "ExpectingCertificateVerify", "Established"}
  BY <1>4, ErrorKeepsInv DEF EarlyAppWrite, HandleInvalidEvent
<1> QED
  BY <1>1, <1>2, <1>3, <1>4

LEMMA InitiateKeyUpdateKeepsInv ==
  ASSUME Inv, Live, NEW requested, InitiateKeyUpdate(requested)
  PROVE  Inv'
<1>1. CASE \E d : HandleError(d)
  BY <1>1, ErrorKeepsInv
<1>2. CASE ~\E d : HandleError(d)
  <2>1. /\ state = "Established" /\ RekeyWrite(requested)
        /\ sched' = [sched EXCEPT !.clientGen = @ + 1]
        /\ UNCHANGED <<ctx, state, read, earlyWrite, offer, neg, transcript, auth, cert,
                       chain, calls>>
    BY <1>2 DEF InitiateKeyUpdate, HandleInvalidEvent
  <2>2. /\ sched' = [appCtx |-> sched'.appCtx, clientGen |-> sched'.clientGen,
                     serverGen |-> sched'.serverGen]
        /\ sched'.appCtx = sched.appCtx /\ sched'.clientGen = sched.clientGen + 1
    <3>1. sched = [appCtx |-> sched.appCtx, clientGen |-> sched.clientGen,
                   serverGen |-> sched.serverGen]
      BY DEF Inv, TypeInv
    <3> QED
      BY <2>1, <3>1
  <2>3. IsLayer(read') /\ HasLayer(read')
    BY <2>1 DEF Inv, TypeInv, OptionalsInv, OptionalsAreSet
  <2>4. /\ KeyUpdate(requested).type = "KeyUpdate"
        /\ out' = Append(out, Seal(write, <<KeyUpdate(requested)>>))
        /\ write' = AppWriteLayer(sched.clientGen + 1, sched.appCtx)
    BY <2>1 DEF KeyUpdate, RekeyWrite
  <2> QED
    BY <2>1, <2>2, <2>3, <2>4, EstablishedSendKeepsInv
<1> QED
  BY <1>1, <1>2

LEMMA KeyUpdateKeepsInv ==
  ASSUME Inv, HandleKeyUpdate
  PROVE  Inv'
<1>1. state = "Established" /\ Live
  BY DEF HandleKeyUpdate, Event, Live
<1>2. CASE \E d : HandleError(d)
  BY <1>1, <1>2, ErrorKeepsInv
<1>3. CASE ~\E d : HandleError(d)
  <2>1. /\ read' = AppReadLayer(sched.serverGen + 1, sched.appCtx)
        /\ \/ AnswerKeyUpdate
           \/ /\ sched' = [sched EXCEPT !.serverGen = @ + 1]
              /\ UNCHANGED <<out, write>>
        /\ UNCHANGED <<ctx, state, earlyWrite, offer, neg, transcript, auth, cert, chain, calls>>
    BY <1>3 DEF HandleKeyUpdate
  <2>2. IsLayer(read') /\ HasLayer(read')
    BY <2>1, NewLayer DEF AppReadLayer, HasLayer, NoLayer, Layer, Key
  <2>3. sched = [appCtx |-> sched.appCtx, clientGen |-> sched.clientGen,
                 serverGen |-> sched.serverGen]
    BY DEF Inv, TypeInv
  <2>4. CASE AnswerKeyUpdate
    <3>1. /\ sched' = [appCtx |-> sched'.appCtx, clientGen |-> sched'.clientGen,
                       serverGen |-> sched'.serverGen]
          /\ sched'.appCtx = sched.appCtx /\ sched'.clientGen = sched.clientGen + 1
      BY <2>3, <2>4 DEF AnswerKeyUpdate
    <3> DEFINE m == KeyUpdate(FALSE)
    <3>2. /\ m.type = "KeyUpdate" /\ out' = Append(out, Seal(write, <<m>>))
          /\ write' = AppWriteLayer(sched.clientGen + 1, sched.appCtx)
      BY <2>4 DEF KeyUpdate, RekeyWrite, AnswerKeyUpdate
    <3> HIDE DEF m
    <3> QED
      BY <1>1, <2>1, <2>2, <3>1, <3>2, EstablishedSendKeepsInv
  <2>5. CASE /\ sched' = [sched EXCEPT !.serverGen = @ + 1]
             /\ UNCHANGED <<out, write>>
    <3>1. /\ sched' = [appCtx |-> sched'.appCtx, clientGen |-> sched'.clientGen,
                       serverGen |-> sched'.serverGen]
          /\ sched'.appCtx = sched.appCtx /\ sched'.clientGen = sched.clientGen
      BY <2>3, <2>5
    <3>2. TypeInv'
      BY <2>1, <2>2, <2>5, <3>1 DEF Inv, TypeInv
    <3>3. OptionalsInv'
      BY <1>1, <2>1, <2>2, <2>5 DEF Inv, OptionalsInv, OptionalsAreSet
    <3>4. StreamInv'
      BY <2>1, <2>5, <3>1 DEF Inv, StreamInv, AppKeyNow
    <3>5. RetryInv' /\ EarlyInv' /\ CertInv'
      BY <2>1, <2>5 DEF Inv, RetryInv, RetryIsFollowed, HellosSent, EarlyInv, CertInv
    <3> QED
      BY <3>2, <3>3, <3>4, <3>5 DEF Inv
  <2> QED
    BY <2>1, <2>4, <2>5
<1> QED
  BY <1>2, <1>3

LEMMA ClosesKeepInv ==
  ASSUME Inv, Live, HandleCloseNotify \/ AppClose \/ AppCloseImmediate
  PROVE  Inv'
<1>1. CloseNotify.type = "CloseNotify"
  BY DEF CloseNotify
<1>2. CASE HandleCloseNotify
  <2>1. state = "Established" => HasLayer(write)
    BY DEF Inv, OptionalsInv, OptionalsAreSet
  <2>2. EndsWith(CloseNotify)
    BY <1>2, <2>1 DEF HandleCloseNotify, EndsWith, Over, Tell
  <2> QED
    BY <1>1, <2>2, EndsKeepInv
<1>3. CASE AppClose
  <2>1. EndsWith(CloseNotify)
    BY <1>3 DEF AppClose, EndsWith, Over
  <2> QED
    BY <1>1, <2>1, EndsKeepInv
<1>4. CASE AppCloseImmediate
  <2>1. EndsWith(CloseNotify)
    BY <1>4 DEF AppCloseImmediate, EndsWith, Over
  <2> QED
    BY <1>1, <2>1, EndsKeepInv
<1> QED
  BY <1>2, <1>3, <1>4
-----------------------------------------------------------------------------
(* Every step keeps the invariant.                                         *)
LEMMA StepKeepsInv ==
  ASSUME Inv, AnyStep
  PROVE  Inv'
<1>1. CASE Connect
  BY <1>1, ConnectKeepsInv
<1>2. CASE UnexpectedEvent \/ BadRecord \/ NoRecordLayer
  BY <1>2, ErrorKeepsInv DEF UnexpectedEvent, BadRecord, NoRecordLayer, HandleInvalidEvent
<1>3. CASE RecordWithoutEvent
  <2>1. ReadsAndTells("Deliver") /\ Live /\ HasLayer(read)
    BY <1>3 DEF RecordWithoutEvent, ReadsAndTells, hsVars, CanRead
  <2>2. state # "Uninitialized"
    BY <2>1 DEF Inv, OptionalsInv, OptionalsAreSet
  <2> QED
    BY <2>1, <2>2, ReadsAndTellsKeepsInv
<1>4. CASE HandleNewSessionTicket
  <2>1. ReadsAndTells("NewCachedPsk") /\ state = "Established" /\ Live
    BY <1>4 DEF HandleNewSessionTicket, ReadsAndTells, hsVars, Event, Tell, Live
  <2> QED
    BY <2>1, ReadsAndTellsKeepsInv
<1>5. CASE HandleAppData
  <2>1. ReadsAndTells("Deliver") /\ state = "Established" /\ Live
    BY <1>5 DEF HandleAppData, ReadsAndTells, hsVars, Event, Live
  <2> QED
    BY <2>1, ReadsAndTellsKeepsInv
<1>6. CASE HandleHelloRetryRequest \/ HandleServerHello \/ HandleFinished
  BY <1>6, RetryKeepsInv, ServerHelloKeepsInv, FinishedKeepsInv
<1>7. CASE \/ HandleEncryptedExtensions \/ HandleCertificateRequest \/ HandleCertificate
           \/ \E trusted \in Verdicts : HandleCertificateVerify(trusted)
  BY <1>7, EncryptedExtensionsKeepsInv, CertificateRequestKeepsInv, CertificateKeepsInv,
     CertificateVerifyKeepsInv
<1>8. CASE HandleKeyUpdate
  BY <1>8, KeyUpdateKeepsInv
<1>9. CASE HandleCloseNotify
  <2>1. Live
    BY <1>9 DEF HandleCloseNotify, Event, Live
  <2> QED
    BY <1>9, <2>1, ClosesKeepInv
<1>10. CASE AppEvent
  <2>1. /\ Live
        /\ \/ AppWrite \/ EarlyAppWrite \/ WriteNewSessionTicket
           \/ \E requested \in BOOLEAN : InitiateKeyUpdate(requested)
           \/ AppClose \/ AppCloseImmediate
    BY <1>10 DEF AppEvent
  <2>2. CASE WriteNewSessionTicket
    BY <2>1, <2>2, ErrorKeepsInv DEF WriteNewSessionTicket, HandleInvalidEvent
  <2> QED
    BY <2>1, <2>2, AppWriteKeepsInv, EarlyAppWriteKeepsInv, InitiateKeyUpdateKeepsInv,
       ClosesKeepInv
<1>11. CASE UNCHANGED <<ctx, state, read, write, earlyWrite, offer, neg, transcript,
                        sched, auth, cert, chain, sentCCS, out, calls, written, asked>>
  BY <1>11, StutterKeepsInv
<1> QED
  BY <1>1, <1>2, <1>3, <1>4, <1>5, <1>6, <1>7, <1>8, <1>9, <1>10, <1>11
     DEF AnyStep, PeerEvent
-----------------------------------------------------------------------------
(***************************************************************************)
(* What a step adds to the stream once early data was rejected or ended.   *)
(***************************************************************************)
Clean(r) == r.key.level \notin {"Early", "None"}
AddsClean ==
  IsSeq(out') /\ \A i \in DOMAIN out' : i > Len(out) => Clean(out'[i])

LEMMA CleanNewRecords ==
  ASSUME IsSeq(out), AddsClean
  PROVE  \A i \in DOMAIN NewRecords : NewRecords[i].key.level \notin {"Early", "None"}
<1>1. /\ Len(out) \in Nat /\ Len(out') \in Nat /\ DOMAIN out' = 1 .. Len(out')
      /\ out' \in Seq({out'[i] : i \in DOMAIN out'})
  BY IsSeqDomain DEF AddsClean, IsSeq
<1> DEFINE S == {out'[i] : i \in DOMAIN out'}
<1>2. /\ out' \in Seq(S)
  BY <1>1
<1> HIDE DEF S
<1>3. \A i \in DOMAIN NewRecords :
        /\ Len(out) + i \in DOMAIN out' /\ Len(out) + i > Len(out)
        /\ NewRecords[i] = out'[Len(out) + i]
  BY <1>1, <1>2 DEF NewRecords
<1> QED
  BY <1>3 DEF AddsClean, Clean

LEMMA CleanAppend ==
  ASSUME NEW s, NEW r, NEW n, IsSeq(s), \A i \in DOMAIN s : i > n => Clean(s[i]), Clean(r)
  PROVE  IsSeq(Append(s, r)) /\ \A i \in DOMAIN Append(s, r) : i > n => Clean(Append(s, r)[i])
<1>1. /\ DOMAIN s = 1 .. Len(s) /\ Len(s) \in Nat
      /\ DOMAIN Append(s, r) = 1 .. Len(s) + 1
      /\ \A i \in 1 .. Len(s) : Append(s, r)[i] = s[i]
      /\ Append(s, r)[Len(s) + 1] = r /\ IsSeq(Append(s, r))
  BY AppendSeq, IsSeqDomain
<1> QED
  BY <1>1

LEMMA SealsClean ==
  ASSUME Inv
  PROVE  /\ \A i \in DOMAIN out : i > Len(out) => Clean(out[i])
         /\ \A ms : HasLayer(write) => Clean(Seal(write, ms))
         /\ IsSeq(WithCCS) /\ \A i \in DOMAIN WithCCS : i > Len(out) => Clean(WithCCS[i])
<1>1. \A i \in DOMAIN out : i > Len(out) => Clean(out[i])
  BY IsSeqDomain DEF Inv, TypeInv
<1>2. ASSUME NEW ms, HasLayer(write)
      PROVE  Clean(Seal(write, ms))
  <2>1. Seal(write, ms).key = write.key
    BY DEF Seal
  <2> QED
    BY <1>2, <2>1, WriteKey DEF Clean
<1>3. IsSeq(WithCCS) /\ \A i \in DOMAIN WithCCS : i > Len(out) => Clean(WithCCS[i])
  <2>1. IsSeq(out)
    BY DEF Inv, TypeInv
  <2>2. Clean(CCS)
    BY NamedLayers DEF Clean, CCS
  <2>3. WithCCS = out \/ WithCCS = Append(out, CCS)
    <3>1. out \o <<>> = out
      <4>1. out \in Seq({out[i] : i \in DOMAIN out})
        BY <2>1 DEF IsSeq
      <4> QED
        BY <4>1
    <3>2. out \o <<CCS>> = Append(out, CCS)
      BY <2>1, AppendAsConcat
    <3> QED
      BY <3>1, <3>2 DEF WithCCS, CCSOnce
  <2> QED
    BY <1>1, <2>1, <2>2, <2>3, CleanAppend
<1> QED
  BY <1>1, <1>2, <1>3

LEMMA WriteAddsClean ==
  ASSUME Inv, out' = out \/ (HasLayer(write) /\ \E ms : out' = Append(out, Seal(write, ms)))
  PROVE  AddsClean
<1>1. IsSeq(out) /\ \A i \in DOMAIN out : i > Len(out) => Clean(out[i])
  BY SealsClean DEF Inv, TypeInv
<1>2. CASE out' = out
  BY <1>1, <1>2 DEF AddsClean
<1>3. CASE HasLayer(write) /\ \E ms : out' = Append(out, Seal(write, ms))
  <2>1. PICK ms : out' = Append(out, Seal(write, ms))
    BY <1>3
  <2>2. Clean(Seal(write, ms))
    BY <1>3, SealsClean
  <2> QED
    BY <1>1, <2>1, <2>2, CleanAppend DEF AddsClean
<1> QED
  BY <1>2, <1>3

LEMMA ErrorAddsClean ==
  ASSUME Inv, NEW description, HandleError(description)
  PROVE  AddsClean
BY WriteAddsClean DEF HandleError

LEMMA EarlyEnds ==
  ASSUME Inv, AnyStep, neg.early = "Rejected" \/ Holding(out, "EndOfEarlyData") # {}
  PROVE  AddsClean
<1>1. /\ state \in BeforeHello \cup InFlight => neg.early = "Rejected"
      /\ state \notin {"Uninitialized", "ExpectingCloseNotify", "Closed", "Error"} => HasLayer(write)
      /\ IsSeq(out)
  BY DEF Inv, TypeInv, EarlyInv, OptionalsInv, OptionalsAreSet
<1>2. CASE \E d : HandleError(d)
  BY <1>2, ErrorAddsClean
<1>3. CASE Connect
  <2>1. state = "Uninitialized"
    BY <1>3 DEF Connect
  <2>2. neg.early = None
    BY <2>1 DEF Inv, RetryInv, NothingNegotiated
  <2> QED
    BY <1>1, <2>1, <2>2 DEF BeforeHello, None
<1>4. CASE HandleHelloRetryRequest /\ ~\E d : HandleError(d)
  <2> DEFINE hello == ClientHello(IF ev.msg.group # None THEN {ev.msg.group} ELSE offer.shares,
                        IF offer.psk # NoPsk /\ HashOf[offer.psk.cipher] # HashOf[ev.msg.cipher]
                        THEN NoPsk ELSE offer.psk, FALSE, ev.msg.cookie,
                        <<MessageHash(offer.hello), ev.msg>>)
             r == Seal(write, <<hello>>)
  <2>1. out' = WithCCS \o <<r>> /\ state = "ExpectingServerHello"
    BY <1>4 DEF HandleHelloRetryRequest, WithCCS, Event
  <2>2. Clean(r)
    BY <1>1, <2>1, SealsClean
  <2> HIDE DEF r
  <2>3. IsSeq(WithCCS) /\ out' = Append(WithCCS, r)
    BY <2>1, SealsClean, AppendAsConcat
  <2> QED
    BY <2>2, <2>3, SealsClean, CleanAppend DEF AddsClean
<1>5. CASE HandleFinished /\ ~\E d : HandleError(d)
  <2>1. state = "ExpectingFinished" /\ ~EndsEarlyData
    BY <1>1, <1>5 DEF HandleFinished, Event, InFlight, EndsEarlyData
  <2> DEFINE t == AppendToTranscript(transcript, ev.msg)
             r == Seal(write, Append(ClientAuthentication(t),
                                     Finished(Digests(t, ClientAuthentication(t)))))
  <2>2. out' = WithCCS \o <<>> \o <<r>>
    BY <1>5, <2>1 DEF HandleFinished, WithCCS
  <2>3. Clean(r)
    BY <1>1, <2>1, SealsClean
  <2> HIDE DEF r
  <2>4. IsSeq(WithCCS) /\ WithCCS \o <<>> = WithCCS
    <3>1. IsSeq(WithCCS)
      BY SealsClean
    <3>2. WithCCS \in Seq({WithCCS[i] : i \in DOMAIN WithCCS})
      BY <3>1 DEF IsSeq
    <3> QED
      BY <3>1, <3>2
  <2>5. out' = Append(WithCCS, r)
    BY <2>2, <2>4, AppendAsConcat
  <2> QED
    BY <2>3, <2>4, <2>5, SealsClean, CleanAppend DEF AddsClean
<1>6. CASE AppWrite
  BY <1>1, <1>6, WriteAddsClean, ErrorAddsClean DEF AppWrite, HandleInvalidEvent
<1>7. CASE IgnoreEarlyAppWrite
  BY <1>7, WriteAddsClean, ErrorAddsClean DEF IgnoreEarlyAppWrite
<1>8. CASE EarlyAppWrite
  <2>1. CASE state \in {"ExpectingServerHello", "ExpectingEncryptedExtensions", "ExpectingFinished"}
    <3>1. neg.early = "Rejected" /\ HandleEarlyAppWrite
      BY <1>1, <1>8, <2>1 DEF EarlyAppWrite, BeforeHello, InFlight
    <3>2. (\E d : HandleError(d)) \/ IgnoreEarlyAppWrite
      BY <3>1 DEF HandleEarlyAppWrite
    <3> QED
      BY <1>2, <1>7, <3>2
  <2>2. CASE state \notin {"ExpectingServerHello", "ExpectingEncryptedExtensions", "ExpectingFinished"}
    <3>1. (\E d : HandleError(d)) \/ IgnoreEarlyAppWrite \/ AppWrite
      BY <1>8, <2>2 DEF EarlyAppWrite, HandleInvalidEvent
    <3> QED
      BY <1>2, <1>6, <1>7, <3>1
  <2> QED
    BY <2>1, <2>2
<1>9. CASE WriteNewSessionTicket \/ UnexpectedEvent \/ BadRecord \/ NoRecordLayer
  BY <1>9, ErrorAddsClean
     DEF WriteNewSessionTicket, HandleInvalidEvent, UnexpectedEvent, BadRecord, NoRecordLayer
<1>10. ASSUME NEW requested, InitiateKeyUpdate(requested)
       PROVE  AddsClean
  BY <1>1, <1>10, WriteAddsClean, ErrorAddsClean
     DEF InitiateKeyUpdate, HandleInvalidEvent, RekeyWrite
<1>11. CASE HandleKeyUpdate
  <2>1. state = "Established"
    BY <1>11 DEF HandleKeyUpdate, Event
  <2> QED
    BY <1>1, <1>11, <2>1, WriteAddsClean, ErrorAddsClean
       DEF HandleKeyUpdate, AnswerKeyUpdate, RekeyWrite
<1>12. CASE AppClose \/ AppCloseImmediate \/ HandleCloseNotify
  BY <1>1, <1>12, WriteAddsClean DEF AppClose, AppCloseImmediate, HandleCloseNotify
<1>13. CASE /\ ~\E d : HandleError(d)
            /\ \/ RecordWithoutEvent \/ HandleServerHello \/ HandleEncryptedExtensions
               \/ HandleCertificateRequest \/ HandleCertificate
               \/ (\E trusted \in Verdicts : HandleCertificateVerify(trusted))
               \/ HandleNewSessionTicket \/ HandleAppData
  <2>1. out' = out
    BY <1>13 DEF RecordWithoutEvent, HandleServerHello, HandleEncryptedExtensions,
       HandleCertificateRequest, HandleCertificate, HandleCertificateVerify,
       HandleNewSessionTicket, HandleAppData
  <2> QED
    BY <2>1, WriteAddsClean
<1>14. CASE UNCHANGED <<ctx, state, read, write, earlyWrite, offer, neg, transcript,
                        sched, auth, cert, chain, sentCCS, out, calls, written, asked>>
  BY <1>14, WriteAddsClean
<1> QED
  BY <1>2, <1>3, <1>4, <1>5, <1>6, <1>8, <1>9, <1>10, <1>11, <1>12, <1>13, <1>14
     DEF AnyStep, PeerEvent, AppEvent
(* What was negotiated changes only before the handshake is over, in steps *)
(* that tell the application nothing about early data.                     *)
LEMMA NegotiationTells ==
  ASSUME Inv, AnyStep
  PROVE  /\ ctx' = ctx
         /\ \/ neg' = neg
            \/ state \in BeforeHello \cup InFlight /\ calls' = calls
            \/ state = "Uninitialized" /\ Tell("EarlyHandshakeSuccess")
<1>1. CASE \E d : HandleError(d)
  BY <1>1 DEF HandleError, hsVars
<1>2. CASE Connect
  BY <1>2 DEF Connect, BeforeHello
<1>3. CASE AppEvent
  <2>1. CASE AppWrite
    BY <1>1, <2>1 DEF AppWrite, HandleInvalidEvent, hsVars
  <2>2. CASE IgnoreEarlyAppWrite
    BY <1>1, <2>2 DEF IgnoreEarlyAppWrite, hsVars
  <2>3. CASE EarlyAppWrite
    <3>1. (\E d : HandleError(d)) \/ IgnoreEarlyAppWrite \/ AppWrite \/ WriteEarly
      BY <2>3 DEF EarlyAppWrite, HandleEarlyAppWrite, HandleInvalidEvent
    <3> QED
      BY <1>1, <2>1, <2>2, <3>1 DEF WriteEarly
  <2>4. ASSUME NEW requested, InitiateKeyUpdate(requested)
        PROVE  ctx' = ctx /\ neg' = neg
    BY <2>4 DEF InitiateKeyUpdate, HandleInvalidEvent, HandleError, hsVars
  <2>5. CASE WriteNewSessionTicket \/ AppClose \/ AppCloseImmediate
    BY <1>1, <2>5 DEF WriteNewSessionTicket, HandleInvalidEvent, AppClose, AppCloseImmediate, hsVars
  <2> QED
    BY <1>3, <2>1, <2>3, <2>4, <2>5 DEF AppEvent
<1>4. CASE PeerEvent /\ ~\E d : HandleError(d)
  <2>1. CASE HandleHelloRetryRequest \/ HandleServerHello \/ HandleEncryptedExtensions
    BY <1>4, <2>1 DEF HandleHelloRetryRequest, HandleServerHello, HandleEncryptedExtensions,
                      Event, BeforeHello, InFlight
  <2>2. CASE \/ HandleCertificateRequest \/ HandleCertificate \/ HandleFinished
             \/ \E trusted \in Verdicts : HandleCertificateVerify(trusted)
    BY <1>4, <2>2 DEF HandleCertificateRequest, HandleCertificate, HandleFinished,
                      HandleCertificateVerify
  <2>3. CASE \/ RecordWithoutEvent \/ HandleNewSessionTicket \/ HandleAppData
             \/ HandleKeyUpdate \/ HandleCloseNotify
    BY <1>4, <2>3 DEF RecordWithoutEvent, HandleNewSessionTicket, HandleAppData,
                      HandleKeyUpdate, HandleCloseNotify, hsVars
  <2>4. CASE UnexpectedEvent \/ BadRecord \/ NoRecordLayer
    BY <1>1, <2>4 DEF UnexpectedEvent, BadRecord, NoRecordLayer, HandleInvalidEvent
  <2> QED
    BY <1>4, <2>1, <2>2, <2>3, <2>4 DEF PeerEvent
<1>5. CASE UNCHANGED <<ctx, state, read, write, earlyWrite, offer, neg, transcript,
                       sched, auth, cert, chain, sentCCS, out, calls, written, asked>>
  BY <1>5
<1> QED
  BY <1>1, <1>2, <1>3, <1>4, <1>5 DEF AnyStep

(* The step of EarlyDataAllOrNothing.                                      *)
LEMMA EarlyStep ==
  ASSUME Inv, Inv', AnyStep
  PROVE  /\ (neg.early = "Rejected" \/ Holding(out, "EndOfEarlyData") # {}) =>
              \A i \in DOMAIN NewRecords : NewRecords[i].key.level \notin {"Early", "None"}
         /\ Told(calls', "ReportEarlyWriteFailed") => neg.early = "Rejected"
         /\ Told(calls', "HandshakeSuccess") =>
              (Holding(out', "EndOfEarlyData") # {} <=> neg.early = "Accepted" /\ ~ctx.omitEarly)
<1>1. (neg.early = "Rejected" \/ Holding(out, "EndOfEarlyData") # {}) =>
         \A i \in DOMAIN NewRecords : NewRecords[i].key.level \notin {"Early", "None"}
  BY EarlyEnds, CleanNewRecords DEF Inv, TypeInv
<1>2. /\ Told(calls, "ReportEarlyWriteFailed") => neg.early = "Rejected"
      /\ Told(calls, "HandshakeSuccess") => state \notin BeforeHello \cup InFlight
      /\ Told(calls', "ReportEarlyWriteFailed") => neg'.early = "Rejected"
      /\ Told(calls', "HandshakeSuccess") =>
           (Holding(out', "EndOfEarlyData") # {} <=> neg'.early = "Accepted" /\ ~ctx'.omitEarly)
      /\ IsSeq(calls)
  BY DEF Inv, TypeInv, EarlyInv
<1>3. CASE neg' = neg
  BY <1>1, <1>2, <1>3, NegotiationTells
<1>4. CASE state \in BeforeHello \cup InFlight /\ calls' = calls
  BY <1>1, <1>2, <1>4
<1>5. CASE state = "Uninitialized" /\ Tell("EarlyHandshakeSuccess")
  <2>1. \A what : ~Told(calls, what)
    BY <1>5 DEF Inv, OptionalsInv, Told
  <2>2. ~Told(calls', "ReportEarlyWriteFailed") /\ ~Told(calls', "HandshakeSuccess")
    BY <1>2, <1>5, <2>1, ToldStep DEF Tell
  <2> QED
    BY <1>1, <2>2
<1> QED
  BY <1>3, <1>4, <1>5, NegotiationTells
-----------------------------------------------------------------------------
AnyPeer == Init /\ [][AnyStep]_vars

(***************************************************************************)
(* The server and impostor of module ClientWithPeer, and the bounds on     *)
(* them, are a special case: what holds of a client whose unread input may *)
(* change at any time holds of the one TLC runs.                           *)
(***************************************************************************)
THEOREM PeerIsAny == Spec => AnyPeer
<1>1. [Next]_<<vars, peer, sent, scenario>> => [AnyStep]_vars
  BY DEF Next, AnyStep, PeerSends, vars, hsVars
<1> QED
  BY <1>1, PTL DEF Spec, AnyPeer

(***************************************************************************)
(* The inductive invariant holds in every state of every run of            *)
(* ClientProtocol::processSocketData and the application's requests.       *)
(***************************************************************************)
THEOREM InvHolds == AnyPeer => []Inv
<1>1. Init => Inv
  BY InitInv
<1>2. Inv /\ [AnyStep]_vars => Inv'
  BY StepKeepsInv, StutterKeepsInv DEF vars
<1> QED
  BY <1>1, <1>2, PTL DEF AnyPeer

(***************************************************************************)
(* No handler of the client dereferences an optional or a record layer     *)
(* that is not set, in any order of messages, requests and errors.         *)
(***************************************************************************)
THEOREM ClientOptionalsAreSet == Spec => []OptionalsAreSet
<1>1. Inv => OptionalsAreSet
  BY DEF Inv, OptionalsInv
<1> QED
  BY <1>1, InvHolds, PeerIsAny, PTL

(***************************************************************************)
(* The client follows one HelloRetryRequest at most, answers it with the   *)
(* share it asks for and no early data, and holds the ServerHello to what  *)
(* the retry announced, whatever the server sends.                         *)
(***************************************************************************)
THEOREM ClientFollowsRetry == Spec => []RetryIsFollowed
<1>1. Inv => RetryIsFollowed
  BY DEF Inv, RetryInv
<1> QED
  BY <1>1, InvHolds, PeerIsAny, PTL

(***************************************************************************)
(* No two records of the client are sealed with one key and number, and an *)
(* alert is the last thing it sends: over hellos, early data, the second   *)
(* flight, application data and any number of key updates.                 *)
(***************************************************************************)
THEOREM ClientWritesAreSound == Spec => []WritesAreSound
<1>1. Inv => WritesAreSound
  BY DEF Inv, WritesAreSound, NoncesAreFresh, AlertIsLast, StreamInv
<1> QED
  BY <1>1, InvHolds, PeerIsAny, PTL

(***************************************************************************)
(* Nothing is sealed with the early key once early data was rejected or    *)
(* ended; writes are given back only after a rejection; EndOfEarlyData is  *)
(* sent exactly if early data was accepted.                                *)
(***************************************************************************)
THEOREM ClientEarlyDataAllOrNothing == Spec => EarlyDataAllOrNothing
<1> DEFINE Step ==
      /\ (neg.early = "Rejected" \/ Holding(out, "EndOfEarlyData") # {}) =>
           \A i \in DOMAIN NewRecords : NewRecords[i].key.level \notin {"Early", "None"}
      /\ (Told(calls', "ReportEarlyWriteFailed") => neg.early = "Rejected")
      /\ (Told(calls', "HandshakeSuccess") =>
            (Holding(out', "EndOfEarlyData") # {} <=> neg.early = "Accepted" /\ ~ctx.omitEarly))
<1>1. Inv /\ Inv' /\ [AnyStep]_vars => [Step]_vars
  BY EarlyStep
<1> QED
  BY <1>1, InvHolds, PeerIsAny, PTL DEF AnyPeer, EarlyDataAllOrNothing
-----------------------------------------------------------------------------
(***************************************************************************)
(* The impostor.  First: what the client reads of harmless bytes is        *)
(* harmless, and what it leaves unread was unread before.                  *)
(***************************************************************************)
LEMMA HarmlessConcat ==
  ASSUME NEW a, NEW b, AllHarmless(a), AllHarmless(b)
  PROVE  AllHarmless(a \o b)
<1>1. /\ DOMAIN a = 1 .. Len(a) /\ Len(a) \in Nat /\ IsSeq(a) /\ IsSeq(b)
      /\ DOMAIN b = 1 .. Len(b) /\ Len(b) \in Nat
  BY IsSeqDomain DEF AllHarmless
<1>2. /\ DOMAIN (a \o b) = 1 .. Len(a) + Len(b) /\ IsSeq(a \o b)
      /\ \A i \in 1 .. Len(a) : (a \o b)[i] = a[i]
      /\ \A i \in 1 .. Len(b) : (a \o b)[Len(a) + i] = b[i]
  BY <1>1, ConcatSeq
<1>3. ASSUME NEW i \in DOMAIN (a \o b)
      PROVE  Harmless((a \o b)[i])
  <2>1. CASE i \in 1 .. Len(a)
    BY <1>1, <1>2, <2>1 DEF AllHarmless
  <2>2. CASE i \notin 1 .. Len(a)
    <3>1. i - Len(a) \in 1 .. Len(b) /\ i = Len(a) + (i - Len(a))
      BY <1>1, <1>2, <2>2
    <3>2. (a \o b)[i] = b[i - Len(a)]
      BY <1>2, <3>1
    <3> QED
      BY <1>1, <3>1, <3>2 DEF AllHarmless
  <2> QED
    BY <2>1, <2>2
<1> QED
  BY <1>2, <1>3 DEF AllHarmless

LEMMA HarmlessRest ==
  ASSUME NEW b, AllHarmless(b), NEW i \in 1 .. Len(b) + 1
  PROVE  AllHarmless(SubSeq(b, i, Len(b)))
<1> DEFINE S == {b[k] : k \in DOMAIN b}
           c == SubSeq(b, i, Len(b))
<1>1. b \in Seq(S) /\ \A m \in S : Harmless(m)
  BY DEF AllHarmless, IsSeq
<1> HIDE DEF S
<1>2. c \in Seq(S)
  BY <1>1
<1> HIDE DEF c
<1>3. IsSeq(c) /\ \A k \in DOMAIN c : c[k] \in S
  BY <1>2, SeqIsSeq
<1> QED
  BY <1>1, <1>3 DEF AllHarmless, c

LEMMA HarmlessBytes ==
  ASSUME NEW l, NEW s, IsLayer(l), AllHarmless(l.unparsed), Decodable(l.unparsed)
  PROVE  /\ FromBytes(l, s).in = s /\ AllHarmless(FromBytes(l, s).layer.unparsed)
         /\ FromBytes(l, s).kind = "event" => Unsigned(FromBytes(l, s).msg)
<1> DEFINE b == l.unparsed
<1>1. /\ Len(b) \in Nat /\ DOMAIN b = 1 .. Len(b)
      /\ Len(b) >= 1 /\ (b[1].type = "Front" => Len(b) >= 2)
  BY IsSeqDomain DEF AllHarmless, Decodable
<1>2. Harmless(b[1])
  BY <1>1 DEF AllHarmless
<1>3. Unsigned(Decoded(b))
  BY <1>2 DEF Harmless, Decoded
<1>4. AllHarmless(Undecoded(b))
  <2>1. (IF b[1].type = "Front" THEN 3 ELSE 2) \in 1 .. Len(b) + 1
    BY <1>1
  <2> QED
    BY <2>1, HarmlessRest DEF Undecoded
<1>5. [l EXCEPT !.unparsed = Undecoded(b)].unparsed = Undecoded(b)
  BY DEF IsLayer
<1> QED
  BY <1>3, <1>4, <1>5 DEF FromBytes

LEMMA TailElements ==
  ASSUME NEW s, IsSeq(s), s # <<>>
  PROVE  /\ IsSeq(Tail(s)) /\ \A i \in DOMAIN Tail(s) : \E j \in DOMAIN s : Tail(s)[i] = s[j]
         /\ 1 \in DOMAIN s /\ Head(s) = s[1]
<1> DEFINE S == {s[i] : i \in DOMAIN s}
<1>1. s \in Seq(S) /\ \A x \in S : \E j \in DOMAIN s : x = s[j]
  BY DEF IsSeq
<1> HIDE DEF S
<1>2. Tail(s) \in Seq(S) /\ 1 \in DOMAIN s /\ Head(s) = s[1]
  BY <1>1
<1>3. IsSeq(Tail(s)) /\ \A i \in DOMAIN Tail(s) : Tail(s)[i] \in S
  <2> DEFINE u == Tail(s)
  <2>1. u \in Seq(S)
    BY <1>2
  <2> HIDE DEF u
  <2>2. IsSeq(u) /\ \A i \in DOMAIN u : u[i] \in S
    BY <2>1, SeqIsSeq
  <2> QED
    BY <2>2 DEF u
<1> QED
  BY <1>1, <1>2, <1>3

LEMMA EvHarmless ==
  ASSUME TypeInv, CanRead(read, in), Arrived, AllHarmless(read.unparsed)
  PROVE  /\ IsSeq(ev.in) /\ \A i \in DOMAIN ev.in : \E j \in DOMAIN in : ev.in[i] = in[j]
         /\ AllHarmless(ev.layer.unparsed)
         /\ ev.kind = "event" => Unsigned(ev.msg)
<1>1. CASE Decodable(read.unparsed)
  <2>1. ev = FromBytes(read, in)
    BY <1>1 DEF ev, ReadEvent
  <2> QED
    BY <1>1, <2>1, HarmlessBytes DEF TypeInv, Arrived
<1>2. CASE ~Decodable(read.unparsed)
  <2>1. in # <<>> /\ IsSeq(in)
    BY <1>2 DEF CanRead, Arrived
  <2> DEFINE r == Head(in)
             got == Read(read, r)
             bytes == [got.layer EXCEPT !.unparsed = @ \o r.body]
             rest == Tail(in)
  <2>2. /\ IsSeq(rest) /\ \A i \in DOMAIN rest : \E j \in DOMAIN in : rest[i] = in[j]
        /\ AllHarmless(r.body)
    BY <2>1, TailElements DEF Arrived
  <2>3. IsLayer(got.layer) /\ got.layer.unparsed = read.unparsed
    <3>1. IsLayer(got.layer)
      BY ReadKeepsKey DEF TypeInv
    <3>2. \/ got.layer = read
          \/ got.layer = [read EXCEPT !.seq = @ + 1, !.skip = FALSE]
          \/ got.layer = [read EXCEPT !.skip = FALSE]
      BY DEF Read, ReadEncrypted, ReadPlaintext
    <3>3. IsLayer(read)
      BY DEF TypeInv
    <3> HIDE DEF got
    <3> QED
      BY <3>1, <3>2, <3>3 DEF IsLayer
  <2> HIDE DEF got
  <2>4. IsLayer(bytes) /\ bytes.unparsed = read.unparsed \o r.body
    <3>1. \A k, u : IsLayer(k) => LET m == [k EXCEPT !.unparsed = u]
                                 IN IsLayer(m) /\ m.unparsed = u
      BY DEF IsLayer
    <3> DEFINE k == got.layer
               u == k.unparsed \o r.body
    <3>2. IsLayer(k) /\ u = read.unparsed \o r.body /\ bytes = [k EXCEPT !.unparsed = u]
      BY <2>3
    <3> HIDE DEF k, u, r, bytes
    <3> QED
      BY <3>1, <3>2
  <2>5. AllHarmless(bytes.unparsed)
    <3>1. AllHarmless(read.unparsed) /\ AllHarmless(r.body)
      BY <2>2
    <3> HIDE DEF bytes, r
    <3>2. AllHarmless(read.unparsed \o r.body)
      BY <3>1, HarmlessConcat
    <3> QED
      BY <2>4, <3>2
  <2>6. ev = LET Result(kind, msg) == [kind |-> kind, msg |-> msg,
                                       layer |-> got.layer, in |-> rest]
             IN CASE got.kind # "ok" -> Result(got.kind, NoMessage)
                  [] got.kind = "ok" /\ ContentType(r.body) # "handshake" ->
                       IF HasUnparsed(read) THEN Result("bad", NoMessage)
                       ELSE [Result("event", r.body[1]) EXCEPT
                               !.in = IF r.body[1].type = "CloseNotify" THEN <<>> ELSE @]
                  [] OTHER ->
                       IF Decodable(bytes.unparsed) THEN FromBytes(bytes, rest)
                       ELSE [kind |-> "skip", msg |-> NoMessage, layer |-> bytes, in |-> rest]
    BY <1>2 DEF ev, ReadEvent, got
  <2> HIDE DEF bytes, rest, r
  <2>7. CASE got.kind # "ok"
    <3>1. ev.in = rest /\ ev.layer = got.layer /\ ev.msg = NoMessage
      BY <2>6, <2>7
    <3> QED
      BY <2>2, <2>3, <3>1 DEF Unsigned, NoMessage
  <2>8. CASE got.kind = "ok" /\ ContentType(r.body) # "handshake"
    <3>1. /\ ev.in = rest \/ ev.in = <<>>
          /\ ev.layer = got.layer /\ ev.msg \in {NoMessage, r.body[1]}
      BY <2>6, <2>8
    <3>2. r.body[1].type # "CertificateVerify" /\ NoMessage.type # "CertificateVerify"
      BY <2>8 DEF ContentType, NoMessage, AlertTypes
    <3>3. Unsigned(ev.msg)
      BY <3>1, <3>2 DEF Unsigned
    <3>4. IsSeq(ev.in) /\ \A i \in DOMAIN ev.in : \E j \in DOMAIN in : ev.in[i] = in[j]
      BY <2>2, <3>1, TupleIsSeq
    <3> QED
      BY <2>3, <3>1, <3>3, <3>4
  <2>9. CASE got.kind = "ok" /\ ContentType(r.body) = "handshake" /\ Decodable(bytes.unparsed)
    <3>1. ev = FromBytes(bytes, rest)
      BY <2>6, <2>9
    <3>2. /\ ev.in = rest /\ AllHarmless(ev.layer.unparsed)
          /\ ev.kind = "event" => Unsigned(ev.msg)
      BY <2>4, <2>5, <2>9, <3>1, HarmlessBytes
    <3> QED
      BY <2>2, <3>2
  <2>10. CASE got.kind = "ok" /\ ContentType(r.body) = "handshake" /\ ~Decodable(bytes.unparsed)
    <3>1. ev.in = rest /\ ev.layer = bytes /\ ev.kind = "skip"
      BY <2>6, <2>10
    <3> QED
      BY <2>2, <2>5, <3>1
  <2> QED
    BY <2>7, <2>8, <2>9, <2>10
<1> QED
  BY <1>1, <1>2

(* With a ticket resumed, a record of the impostor is dropped or an error. *)
LEMMA EvUnopened ==
  ASSUME TypeInv, CanRead(read, in), IsSeq(in), NothingOpens
  PROVE  /\ ev.kind \in {"bad", "skip"} /\ ev.layer = read /\ ev.in = Tail(in)
         /\ in # <<>>
<1>1. ~Decodable(read.unparsed) /\ in # <<>>
  <2>1. ~Decodable(<<>>)
    BY DEF Decodable
  <2> QED
    BY <2>1 DEF NothingOpens, CanRead
<1> DEFINE r == Head(in)
           got == Read(read, r)
<1>2. ~Opens(read, r)
  BY <1>1, TailElements DEF NothingOpens
<1> HIDE DEF r
<1>3. got.kind \in {"bad", "skip"} /\ got.layer = read
  BY <1>2 DEF NothingOpens, Encrypts, Read, ReadEncrypted
<1> HIDE DEF got
<1>4. ev = [kind |-> got.kind, msg |-> NoMessage, layer |-> got.layer, in |-> Tail(in)]
  BY <1>1, <1>3 DEF ev, ReadEvent, got, r
<1> QED
  BY <1>1, <1>3, <1>4
LEMMA ImpostorInit == Init => ImpostorInv
<1> SUFFICES ASSUME Init PROVE ImpostorInv
  OBVIOUS
<1>1. /\ scenario \in DOMAIN Scenarios /\ state = "Uninitialized" /\ in = <<>>
      /\ calls = <<>> /\ read.unparsed = <<>>
  BY DEF Init, InitClient, NoLayer, Layer
<1>2. Arrived /\ AllHarmless(read.unparsed)
  BY <1>1, TupleIsSeq DEF Arrived, AllHarmless
<1>3. \A what : ~Told(calls, what)
  BY <1>1 DEF Told
<1> QED
  BY <1>1, <1>2, <1>3 DEF ImpostorInv, InFlight

(* What an impostor can say is harmless.                                   *)
LEMMA MessagesHarmless ==
  ASSUME peer = "impostor", scenario \in DOMAIN Scenarios, NEW m \in HandshakeMessages
  PROVE  Unsigned(m) /\ m.type \notin {"Front", "Back"}
<1>1. CASE state = "ExpectingServerHello"
  <2>1. m.type \in {"HelloRetryRequest", "ServerHello", "EncryptedExtensions"}
    BY <1>1, ScenariosAssumption DEF HandshakeMessages
  <2> QED
    BY <2>1 DEF Unsigned
<1>2. CASE state = "ExpectingEncryptedExtensions"
  <2>1. m.type \in {"HelloRetryRequest", "ServerHello", "EncryptedExtensions", "CertificateRequest"}
    BY <1>2, ScenariosAssumption DEF HandshakeMessages, CertificateRequest
  <2> QED
    BY <2>1 DEF Unsigned
<1>3. CASE state = "ExpectingCertificate"
  <2>1. m.type \in {"CertificateRequest", "Certificate", "CompressedCertificate"}
    BY <1>3 DEF HandshakeMessages, CertificateRequest, Certificate, CompressedCertificate
  <2> QED
    BY <2>1 DEF Unsigned
<1>4. CASE state = "ExpectingCertificateVerify"
  <2>1. m \in {CertificateVerify(Wrong, "supported"), Finished(transcript)}
    BY <1>4 DEF HandshakeMessages, Signatures
  <2> QED
    BY <2>1 DEF Unsigned, CertificateVerify, Finished
<1>5. CASE state \notin {"ExpectingServerHello", "ExpectingEncryptedExtensions",
                         "ExpectingCertificate", "ExpectingCertificateVerify"}
  <2>1. m \in {Finished(transcript), Finished(Wrong), NewSessionTicket(TRUE),
               KeyUpdate(TRUE), KeyUpdate(FALSE)}
    BY <1>5 DEF HandshakeMessages
  <2>2. m.type \in {"Finished", "NewSessionTicket", "KeyUpdate"}
    BY <2>1 DEF Finished, NewSessionTicket, KeyUpdate
  <2> QED
    BY <2>2 DEF Unsigned
<1> QED
  BY <1>1, <1>2, <1>3, <1>4, <1>5

LEMMA TupleHarmless ==
  /\ AllHarmless(<<>>)
  /\ \A a : Harmless(a) => AllHarmless(<<a>>)
  /\ \A a, b : Harmless(a) /\ Harmless(b) => AllHarmless(<<a, b>>)
BY TupleIsSeq DEF AllHarmless

LEMMA RecordsHarmless ==
  ASSUME peer = "impostor", scenario \in DOMAIN Scenarios, NEW r \in Records
  PROVE  AllHarmless(r.body)
<1>1. \A m \in HandshakeMessages : Harmless(m) /\ Harmless(Front(m))
  <2>1. ASSUME NEW m \in HandshakeMessages
        PROVE  Harmless(m) /\ Harmless(Front(m))
    <3>1. Unsigned(m) /\ m.type \notin {"Front", "Back"}
      BY MessagesHarmless
    <3>2. Front(m).type = "Front" /\ Front(m).of = m
      BY DEF Front
    <3> QED
      BY <3>1, <3>2 DEF Harmless, Unsigned
  <2> QED
    BY <2>1
<1>2. /\ Harmless(AppData(1)) /\ Harmless(Alert("any")) /\ Harmless(CloseNotify)
      /\ Harmless(Back) /\ Harmless(NewSessionTicket(TRUE))
  BY DEF Harmless, Unsigned, AppData, Alert, CloseNotify, Back, NewSessionTicket
<1>3. \A b \in Bodies : AllHarmless(b)
  BY <1>1, <1>2, TupleHarmless DEF Bodies
<1>4. \A l, b : Seal(l, b).body = b
  BY DEF Seal
<1>5. CASE r = CCS
  BY <1>5, TupleHarmless DEF CCS
<1>6. CASE \E l, b : r = Seal(l, b) /\ AllHarmless(b)
  BY <1>4, <1>6
<1>7. AllHarmless(<<Alert("any")>>) /\ AllHarmless(<<CloseNotify>>)
  BY <1>2, TupleHarmless
<1>8. r = CCS \/ \E l, b : r = Seal(l, b) /\ AllHarmless(b)
  <2>1. CASE r \in (IF HasKeys /\ HasLayer(read) THEN {Seal(read, b) : b \in Bodies} ELSE {})
    BY <1>3, <2>1
  <2>2. CASE r \in {CCS, Seal(PlainLayer(FALSE), <<Alert("any")>>),
                    Seal([read EXCEPT !.seq = @ + 1], <<CloseNotify>>)}
    BY <1>7, <2>2
  <2> QED
    BY <2>1, <2>2 DEF Records
<1> QED
  BY <1>5, <1>6, <1>8

LEMMA ImpostorSends ==
  ASSUME Inv, ImpostorInv, PeerSends
  PROVE  ImpostorInv'
<1>1. UNCHANGED <<ctx, state, read, neg, calls, peer, scenario>>
  BY DEF PeerSends, hsVars
<1>2. PICK r \in Records : in' = <<r>>
  BY DEF PeerSends
<1>3. CASE peer # "impostor"
  BY <1>1, <1>3 DEF ImpostorInv
<1>4. CASE peer = "impostor"
  <2>1. DOMAIN in' = {1} /\ in'[1] = r /\ IsSeq(in')
    BY <1>2, TupleIsSeq
  <2>2. AllHarmless(r.body)
    BY <1>4, RecordsHarmless DEF ImpostorInv
  <2>3. Arrived'
    BY <2>1, <2>2 DEF Arrived
  <2> DEFINE past == Seal([read EXCEPT !.seq = @ + 1], <<CloseNotify>>)
             plain == Seal(PlainLayer(FALSE), <<Alert("any")>>)
  <2>4. /\ past.key = read.key /\ past.seq = read.seq + 1
        /\ plain.key = PlainKey /\ CCS.key = PlainKey
    <3>1. [read EXCEPT !.seq = @ + 1].key = read.key /\ [read EXCEPT !.seq = @ + 1].seq = read.seq + 1
      BY DEF Inv, TypeInv, IsLayer
    <3>2. CCS.key = PlainKey
      BY DEF CCS
    <3>3. \A l, b : Seal(l, b).key = l.key /\ Seal(l, b).seq = l.seq
      BY DEF Seal
    <3>4. past.key = read.key /\ past.seq = read.seq + 1
      BY <3>1, <3>3
    <3> HIDE DEF past
    <3>5. plain.key = PlainKey
      BY DEF Seal, PlainLayer, Layer
    <3> HIDE DEF plain
    <3> QED
      BY <3>2, <3>4, <3>5
  <2>5. r \in {CCS, past, plain} \/ (HasKeys /\ r.key = read.key)
    <3>1. \A b : Seal(read, b).key = read.key
      BY DEF Seal
    <3> QED
      BY <3>1 DEF Records
  <2> HIDE DEF past, plain
  <2>6. state \in BeforeHello => r.key.level \in {"Plain", "None"}
    <3>1. state \in BeforeHello => read.key.level \in {"Plain", "None"}
      BY <1>4, NamedLayers
         DEF ImpostorInv, BeforeHello, Inv, OptionalsInv, OptionalsAreSet, HasLayer
    <3> QED
      BY <2>4, <2>5, <3>1, NamedLayers
  <2>7. state \in InFlight /\ neg.pskType = "Resumption" => ~Opens(read, r)
    <3>1. SUFFICES ASSUME state \in InFlight /\ neg.pskType = "Resumption" PROVE ~Opens(read, r)
      OBVIOUS
    <3>2. read.key.level = "Hs" /\ read.seq \in Nat
      BY <1>4, <3>1 DEF ImpostorInv, NothingOpens
    <3>3. r \in {CCS, past, plain}
      BY <1>4, <2>5, <3>1 DEF HasKeys
    <3> QED
      BY <2>4, <3>2, <3>3, NamedLayers DEF Opens
  <2> QED
    BY <1>1, <1>4, <2>1, <2>3, <2>6, <2>7 DEF ImpostorInv, NothingOpens, Opens
<1> QED
  BY <1>3, <1>4
(* What is left to read after a step was there before it.                  *)
Consumes == in' = in \/ (CanRead(read, in) /\ in' = ev.in)

LEMMA ArrivedStays ==
  ASSUME Inv, ImpostorInv, peer = "impostor", Consumes
  PROVE  Arrived' /\ \A i \in DOMAIN in' : \E j \in DOMAIN in : in'[i] = in[j]
<1>1. Arrived /\ AllHarmless(read.unparsed) /\ TypeInv
  BY DEF ImpostorInv, Inv
<1>2. IsSeq(in') /\ \A i \in DOMAIN in' : \E j \in DOMAIN in : in'[i] = in[j]
  BY <1>1, EvHarmless DEF Consumes, Arrived
<1> QED
  BY <1>1, <1>2 DEF Arrived

(* The machine ends, and an impostor achieved nothing.                     *)
LEMMA ImpostorEnds ==
  ASSUME Inv, ImpostorInv, Consumes, UNCHANGED <<peer, scenario>>,
         state' \in {"ExpectingCloseNotify"} \cup Over, read' \in {read, NoLayer},
         \/ calls' = calls
         \/ \E w \in {"Error", "EndOfData"} : calls' = Append(calls, Call(w, 0))
  PROVE  ImpostorInv'
<1>1. CASE peer # "impostor"
  BY <1>1 DEF ImpostorInv
<1>2. CASE peer = "impostor"
  <2>1. Arrived'
    BY <1>2, ArrivedStays
  <2>2. ~Told(calls', "HandshakeSuccess") /\ ~Told(calls', "Deliver")
    BY <1>2, ToldStep DEF ImpostorInv, Inv, TypeInv
  <2>3. AllHarmless(read'.unparsed)
    <3>1. NoLayer.unparsed = <<>>
      BY DEF NoLayer, Layer
    <3> QED
      BY <1>2, <3>1, TupleHarmless DEF ImpostorInv
  <2>4. state' \notin BeforeHello \cup InFlight \cup {"ExpectingServerHello", "ExpectingFinished", "Established"}
    BY DEF Over, BeforeHello, InFlight
  <2> QED
    BY <2>1, <2>2, <2>3, <2>4 DEF ImpostorInv
<1> QED
  BY <1>1, <1>2

LEMMA ImpostorError ==
  ASSUME Inv, ImpostorInv, Consumes, UNCHANGED <<peer, scenario>>,
         NEW description, HandleError(description)
  PROVE  ImpostorInv'
BY ImpostorEnds DEF HandleError, Tell, Over

(* A step of the application that neither reads nor ends anything.         *)
LEMMA ImpostorWaits ==
  ASSUME Inv, ImpostorInv, UNCHANGED <<state, read, neg, in, peer, scenario>>,
         calls' = calls \/ calls' = Append(calls, Call("ReportEarlyWriteFailed", 0))
  PROVE  ImpostorInv'
<1>1. \A what : what # "ReportEarlyWriteFailed" => (Told(calls', what) => Told(calls, what))
  BY ToldStep DEF Inv, TypeInv
<1> QED
  BY <1>1 DEF ImpostorInv, NothingOpens, Arrived, Opens

LEMMA ImpostorAppEvent ==
  ASSUME Inv, ImpostorInv, AppEvent, UNCHANGED <<peer, scenario>>
  PROVE  ImpostorInv'
<1>0. Consumes /\ in' = in
  BY DEF AppEvent, Consumes
<1>1. CASE peer # "impostor"
  BY <1>1 DEF ImpostorInv
<1>2. CASE peer = "impostor"
  <2>1. state # "Established"
    BY <1>2 DEF ImpostorInv
  <2>2. CASE \E d : HandleError(d)
    BY <1>0, <2>2, ImpostorError
  <2>3. CASE IgnoreEarlyAppWrite \/ WriteEarly
    BY <1>0, <2>2, <2>3, ImpostorWaits DEF IgnoreEarlyAppWrite, WriteEarly, Tell, hsVars
  <2>4. CASE EarlyAppWrite
    <3>1. (\E d : HandleError(d)) \/ IgnoreEarlyAppWrite \/ WriteEarly
      BY <2>1, <2>4 DEF EarlyAppWrite, HandleEarlyAppWrite, HandleInvalidEvent
    <3> QED
      BY <2>2, <2>3, <3>1
  <2>5. CASE \/ AppWrite \/ WriteNewSessionTicket
             \/ \E requested \in BOOLEAN : InitiateKeyUpdate(requested)
    BY <2>1, <2>2, <2>5
       DEF AppWrite, WriteNewSessionTicket, InitiateKeyUpdate, HandleInvalidEvent
  <2>6. CASE AppClose \/ AppCloseImmediate
    BY <1>0, <2>6, ImpostorEnds DEF AppClose, AppCloseImmediate, Over
  <2> QED
    BY <2>4, <2>5, <2>6 DEF AppEvent
<1> QED
  BY <1>1, <1>2

LEMMA ImpostorConnect ==
  ASSUME Inv, ImpostorInv, Connect, UNCHANGED <<peer, scenario>>
  PROVE  ImpostorInv'
<1>1. /\ state = "Uninitialized" /\ state' = "ExpectingServerHello" /\ in' = in
      /\ read' = PlainLayer(FALSE)
      /\ calls' = calls \/ calls' = Append(calls, Call("EarlyHandshakeSuccess", 0))
  BY DEF Connect, Tell
<1>2. \A what : what # "EarlyHandshakeSuccess" => (Told(calls', what) => Told(calls, what))
  BY <1>1, ToldStep DEF Inv, TypeInv
<1>3. read'.key = PlainKey /\ AllHarmless(read'.unparsed)
  <2>1. PlainLayer(FALSE).unparsed = <<>> /\ PlainLayer(FALSE).key = PlainKey
    BY DEF PlainLayer, Layer
  <2> QED
    BY <1>1, <2>1, TupleHarmless
<1>4. state \in BeforeHello /\ state' \notin InFlight
  BY <1>1 DEF BeforeHello, InFlight
<1> QED
  BY <1>1, <1>2, <1>3, <1>4 DEF ImpostorInv, Arrived

(* A signature of the impostor never passes.                               *)
LEMMA SignatureFails ==
  ASSUME Inv, NEW m, NEW trusted, state = "ExpectingCertificateVerify",
         Unsigned(m), m.type = "CertificateVerify"
  PROVE  FirstHit(VerifyChecks(m, trusted)) # "ok"
<1>1. m.over # transcript
  <2>1. transcript # <<>> /\ Len(transcript) >= 2
    BY DEF Inv, RetryInv, InFlight
  <2>2. Len(Wrong) = 1 /\ m.over = Wrong
    BY DEF Wrong, Unsigned
  <2>3. transcript # Wrong
    <3> SUFFICES ASSUME transcript = Wrong PROVE FALSE
      OBVIOUS
    <3>1. Len(transcript) = 1
      BY <2>2
    <3> QED
      BY <2>1, <3>1
  <2> QED
    BY <2>2, <2>3
<1> DEFINE c == VerifyChecks(m, trusted)
<1>2. Stops(c)
  <2>1. \A x, y, z : <<x, y, z>> \in Seq({x, y, z})
    OBVIOUS
  <2>2. \A x, y, z : IsSeq(<<x, y, z>>)
    BY <2>1, SeqIsSeq
  <2> QED
    BY <2>2 DEF Stops, Avoids, VerifyChecks
<1>3. 2 \in DOMAIN c /\ c[2][1] = (m.over # transcript)
  BY DEF VerifyChecks
<1> HIDE DEF c
<1>4. ~Silent(c)
  BY <1>1, <1>3 DEF Silent
<1>5. FirstHit(c) # "ok"
  BY <1>2, <1>4, Passed
<1> QED
  BY <1>5 DEF c

LEMMA ImpostorPeerEvent ==
  ASSUME Inv, ImpostorInv, PeerEvent, UNCHANGED <<peer, scenario>>
  PROVE  ImpostorInv'
<1>1. CASE peer # "impostor"
  BY <1>1 DEF ImpostorInv
<1>2. CASE peer = "impostor"
  <2>1. Consumes
    BY DEF PeerEvent, Consumes, UnexpectedEvent, BadRecord, NoRecordLayer, RecordWithoutEvent,
           HandleHelloRetryRequest, HandleServerHello, HandleEncryptedExtensions,
           HandleCertificateRequest, HandleCertificate, HandleCertificateVerify,
           HandleFinished, HandleNewSessionTicket, HandleAppData, HandleKeyUpdate,
           HandleCloseNotify, Event
  <2>2. /\ Arrived' /\ \A i \in DOMAIN in' : \E j \in DOMAIN in : in'[i] = in[j]
    BY <1>2, <2>1, ArrivedStays
  <2>3. CASE \E d : HandleError(d)
    BY <2>1, <2>3, ImpostorError
  <2>4. state \notin {"ExpectingFinished", "Established"} /\ TypeInv /\ Arrived
        /\ AllHarmless(read.unparsed) /\ IsSeq(in)
        /\ ~Told(calls, "HandshakeSuccess") /\ ~Told(calls, "Deliver")
    BY <1>2 DEF ImpostorInv, Inv, Arrived
  <2>5. CanRead(read, in) => /\ AllHarmless(ev.layer.unparsed)
                             /\ ev.kind = "event" => Unsigned(ev.msg)
                             /\ ev.layer.key = read.key
    BY <2>4, EvHarmless, EvLayer
  <2>6. state \in InFlight /\ CanRead(read, in) /\ ev.kind = "event" => neg.pskType # "Resumption"
    BY <1>2, <2>4, EvUnopened DEF ImpostorInv
  <2>7. CASE RecordWithoutEvent
    <3>1. /\ CanRead(read, in) /\ in' = ev.in /\ read' = ev.layer
          /\ UNCHANGED <<state, neg, calls>>
      BY <2>7 DEF RecordWithoutEvent, hsVars
    <3>2. state \in InFlight /\ neg.pskType = "Resumption" => NothingOpens'
      <4>1. SUFFICES ASSUME state \in InFlight /\ neg.pskType = "Resumption" PROVE NothingOpens'
        OBVIOUS
      <4>2. NothingOpens
        BY <1>2, <4>1 DEF ImpostorInv
      <4>3. read' = read
        BY <2>4, <3>1, <4>2, EvUnopened
      <4> QED
        BY <2>2, <4>2, <4>3 DEF NothingOpens, Opens
    <3> QED
      BY <1>2, <2>2, <2>4, <2>5, <3>1, <3>2 DEF ImpostorInv
  <2>8. CASE HandleHelloRetryRequest /\ ~\E d : HandleError(d)
    <3>1. /\ state = "ExpectingServerHello" /\ CanRead(read, in) /\ read' = ev.layer
          /\ UNCHANGED <<state, calls>>
      BY <2>8 DEF HandleHelloRetryRequest, Event
    <3>2. state \in BeforeHello /\ state' \notin InFlight
      BY <3>1 DEF BeforeHello, InFlight
    <3> QED
      BY <1>2, <2>2, <2>4, <2>5, <3>1, <3>2 DEF ImpostorInv
  <2>9. CASE HandleServerHello /\ ~\E d : HandleError(d)
    <3> DEFINE t == Append(IF transcript # <<>> THEN transcript ELSE offer.hello, ev.msg)
    <3>1. /\ state = "ExpectingServerHello" /\ state' = "ExpectingEncryptedExtensions"
          /\ read' = Layer(Key("Hs", "server", 0, t), FALSE) /\ UNCHANGED calls
      BY <2>9 DEF HandleServerHello, Event
    <3> HIDE DEF t
    <3>2. /\ read'.key.level = "Hs" /\ read'.unparsed = <<>> /\ read'.skip = FALSE
          /\ read'.seq = 0
      BY <3>1 DEF Layer, Key
    <3>3. \A i \in DOMAIN in' : in'[i].key.level \in {"Plain", "None"}
      BY <1>2, <2>2, <3>1 DEF ImpostorInv, BeforeHello
    <3>4. NothingOpens'
      BY <3>2, <3>3 DEF NothingOpens, Opens
    <3>5. AllHarmless(read'.unparsed)
      BY <3>2, TupleHarmless
    <3> QED
      BY <1>2, <2>2, <2>4, <3>1, <3>4, <3>5 DEF ImpostorInv, BeforeHello
  <2>10. CASE /\ ~\E d : HandleError(d)
              /\ HandleEncryptedExtensions \/ HandleCertificateRequest \/ HandleCertificate
    <3>1. /\ state \in InFlight /\ CanRead(read, in) /\ ev.kind = "event" /\ read' = ev.layer
          /\ neg'.pskType = neg.pskType /\ UNCHANGED calls
      <4>1. CASE HandleEncryptedExtensions
        BY <2>4, <2>10, <4>1 DEF HandleEncryptedExtensions, Event, InFlight, TypeInv, NegFields
      <4>2. CASE HandleCertificateRequest \/ HandleCertificate
        BY <2>10, <4>2 DEF HandleCertificateRequest, HandleCertificate, Event, InFlight
      <4> QED
        BY <2>10, <4>1, <4>2
    <3>2. state' \in {"ExpectingCertificate", "ExpectingCertificateVerify"}
      BY <2>6, <2>10, <3>1
         DEF HandleEncryptedExtensions, HandleCertificateRequest, HandleCertificate, Event
    <3> QED
      BY <1>2, <2>2, <2>4, <2>5, <2>6, <3>1, <3>2 DEF ImpostorInv, BeforeHello
  <2>11. ASSUME NEW trusted, HandleCertificateVerify(trusted)
         PROVE  \E d : HandleError(d)
    <3>1. /\ state = "ExpectingCertificateVerify" /\ CanRead(read, in) /\ ev.kind = "event"
          /\ ev.msg.type = "CertificateVerify"
      BY <2>11 DEF HandleCertificateVerify, Event
    <3>2. FirstHit(VerifyChecks(ev.msg, trusted)) # "ok"
      BY <2>5, <3>1, SignatureFails
    <3> QED
      BY <2>11, <3>2 DEF HandleCertificateVerify
  <2>12. CASE UnexpectedEvent \/ BadRecord \/ NoRecordLayer
    BY <2>3, <2>12 DEF UnexpectedEvent, BadRecord, NoRecordLayer, HandleInvalidEvent
  <2>13. CASE HandleCloseNotify
    BY <2>1, <2>13, ImpostorEnds DEF HandleCloseNotify, Over, Tell
  <2>14. ~HandleFinished /\ ~HandleNewSessionTicket /\ ~HandleAppData /\ ~HandleKeyUpdate
    BY <2>4 DEF HandleFinished, HandleNewSessionTicket, HandleAppData, HandleKeyUpdate, Event
  <2> QED
    BY <2>3, <2>7, <2>8, <2>9, <2>10, <2>11, <2>12, <2>13, <2>14 DEF PeerEvent
<1> QED
  BY <1>1, <1>2

(***************************************************************************)
(* Authentication of the server: whatever an impostor sends, the client    *)
(* neither completes a handshake with it nor delivers data of it; and it   *)
(* completes none with a chain that was received and not verified.         *)
(***************************************************************************)
THEOREM ClientAuthenticatesServer == Spec => []ServerAuthenticated
<1>1. Init => ImpostorInv
  BY ImpostorInit
<1>2. Inv /\ ImpostorInv /\ [Next]_<<vars, peer, sent, scenario>> => ImpostorInv'
  <2> SUFFICES ASSUME Inv, ImpostorInv, [Next]_<<vars, peer, sent, scenario>>
               PROVE  ImpostorInv'
    OBVIOUS
  <2>1. CASE Connect /\ UNCHANGED <<peer, sent, scenario>>
    BY <2>1, ImpostorConnect
  <2>2. CASE PeerEvent /\ UNCHANGED <<peer, sent, scenario>>
    BY <2>2, ImpostorPeerEvent
  <2>3. CASE AppEvent /\ UNCHANGED <<peer, sent, scenario>>
    BY <2>3, ImpostorAppEvent
  <2>4. CASE PeerSends
    BY <2>4, ImpostorSends
  <2>5. CASE UNCHANGED <<vars, peer, sent, scenario>>
    BY <2>5, ImpostorWaits DEF vars
  <2> QED
    BY <2>1, <2>2, <2>3, <2>4, <2>5 DEF Next
<1>3. Inv /\ ImpostorInv => ServerAuthenticated
  BY DEF Inv, CertInv, ImpostorInv, ServerAuthenticated
<1> QED
  BY <1>1, <1>2, <1>3, InvHolds, PeerIsAny, PTL DEF Spec
=============================================================================
