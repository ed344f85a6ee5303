----------------------- MODULE ServerProtocol_proofs -----------------------
(***************************************************************************)
(* The safety properties of the server's state machine, for every context, *)
(* every ClientHello and every answer of the services it asks.  The peer   *)
(* is stronger than the one TLC runs: in every step it may replace all     *)
(* that the server has not read yet by anything at all.                    *)
(***************************************************************************)
EXTENDS ServerWithPeer, Messages_proofs

(* A step of a server whose peer and network do as they like.              *)
AnyStep ==
  \/ Accept
  \/ PeerEvent
  \/ AppEvent
  \/ UNCHANGED <<ctx, state, read, write, hsRead, neg, transcript, sched, cert,
                 chain, out, calls, written, asked>>

(* Before the ServerHello; over; after it and not over.                    *)
BeforeHello == {"Uninitialized", "ExpectingClientHello"}
Over == {"Closed", "Error"}

NegFields == {"version", "cipher", "group", "kex", "early", "replay", "pskType",
              "pskMode", "alpn"}

TypeInv ==
  /\ state \in States
  /\ IsSeq(out) /\ IsSeq(calls) /\ IsSeq(transcript)
  /\ IsLayer(read) /\ IsLayer(write) /\ IsLayer(hsRead)
  /\ DOMAIN neg = NegFields
  /\ sched = [appCtx |-> sched.appCtx, clientGen |-> sched.clientGen,
              serverGen |-> sched.serverGen]
  /\ sched.serverGen \in Nat

(* Which layers there are; what is over stays over.                        *)
LayersInv ==
  /\ HasLayer(read) <=>
       \/ state \notin {"Uninitialized", "Closed", "Error"}
       \/ Told(calls, "AttemptVersionFallback")
  /\ Told(calls, "AttemptVersionFallback") => state = "Error"
  /\ state \notin {"Uninitialized", "ExpectingCloseNotify", "Closed", "Error"}
       => HasLayer(write)
  /\ state = "Uninitialized" => ~HasLayer(write)
  /\ state = "AcceptingEarlyData" => HasLayer(hsRead)

(* The stream, and the layer it will be continued with.  The keys the      *)
(* server writes with come in an order: none, plain, handshake, and the    *)
(* generations of the application keys.                                    *)
AppKeyNow == Key("App", "server", sched.serverGen, sched.appCtx)
StreamInv ==
  /\ NoncesDiffer(out) /\ NothingAfterAlert(out)
  /\ state = "Uninitialized" => out = <<>>
  /\ HasLayer(write) =>
       /\ Unended(out)
       /\ write.key = PlainKey \/ (write.key = AppKeyNow /\ Fresh(out, write))
       /\ state \in BeforeHello => write.key = PlainKey
       /\ state \notin BeforeHello \cup Over => write.key = AppKeyNow
  /\ \A i \in DOMAIN out :
       /\ state \in BeforeHello => out[i].key = PlainKey
       /\ out[i].key.level = "App" =>
            out[i].key.gen \in Nat /\ out[i].key.gen <= sched.serverGen

(* What a HelloRetryRequest announced is what the state remembers.         *)
RetryInv ==
  /\ RetryIsHonoured
  /\ state \in BeforeHello =>
       /\ Holding(out, "ServerHello") = {}
       /\ neg.group = None => Holding(out, "HelloRetryRequest") = {}
       /\ neg.group # None =>
            neg.version # None /\ neg.cipher # None /\ neg.kex = "HelloRetryRequest"
       /\ neg.early # None =>
            neg.early # "Accepted" /\ neg.kex = "HelloRetryRequest"
       /\ \A i \in Holding(out, "HelloRetryRequest") :
            LET hrr == out[i].body[1]
            IN <<hrr.version, hrr.cipher, hrr.group>> =
                 <<neg.version, neg.cipher, neg.group>>

EarlyAllowed ==
  /\ ctx.acceptEarly
  /\ neg.early = "Accepted"
  /\ neg.replay = "NotReplay"
  /\ neg.pskType = "Resumption"
  /\ Holding(out, "HelloRetryRequest") = {}

(* What the application was told, by the state that told it.               *)
CallsInv ==
  /\ EarlyDataIsGuarded
  /\ state \in BeforeHello => calls = <<>>
  /\ state = "AcceptingEarlyData" =>
       EarlyAllowed /\ Told(calls, "EarlyHandshakeSuccess")
  /\ state = "AcceptingData" => Told(calls, "HandshakeSuccess")
  /\ Told(calls, "HandshakeSuccess") =>
       state \in {"AcceptingData", "ExpectingCloseNotify", "Closed", "Error"}

ClientTrusted == ctx.clientAuth = "Required" => cert \/ neg.pskType = "Resumption"
AuthInv ==
  /\ ClientAuthEnforced
  /\ state \notin {"ExpectingCertificateVerify", "ExpectingCloseNotify"} \cup Over
       => ~chain
  /\ state \in {"AcceptingEarlyData", "ExpectingFinished", "AcceptingData"}
       => ClientTrusted

SkipInv ==
  /\ SkippingIsJustified
  /\ ~hsRead.skip

KeysInv ==
  /\ state = "AcceptingEarlyData" => read.key.level = "Early"
  /\ state = "AcceptingData" => read.key.level = "App"

(* The inductive invariant.                                                *)
Inv ==
  /\ TypeInv /\ LayersInv /\ StreamInv /\ RetryInv
  /\ CallsInv /\ AuthInv /\ SkipInv /\ KeysInv
-----------------------------------------------------------------------------
LEMMA InitInv == Init => Inv
<1> SUFFICES ASSUME Init PROVE Inv
  OBVIOUS
<1> USE DEF Init, InitServer
<1>1. \A type : Holding(out, type) = {} /\ ~Told(calls, type)
  BY DEF Holding, Told
<1>2. TypeInv
  BY TupleIsSeq, NamedLayers
     DEF TypeInv, States, NothingNegotiated, NegFields, NoSecrets
<1>3. LayersInv
  BY <1>1, NamedLayers DEF LayersInv
<1>4. StreamInv
  BY <1>1, NamedLayers DEF StreamInv, NoncesDiffer, NothingAfterAlert
<1>5. RetryInv
  BY <1>1 DEF RetryInv, RetryIsHonoured, BeforeHello, NothingNegotiated
<1>6. CallsInv
  BY <1>1 DEF CallsInv, EarlyDataIsGuarded, BeforeHello
<1>7. AuthInv
  BY <1>1 DEF AuthInv, ClientAuthEnforced
<1>8. SkipInv
  BY NamedLayers DEF SkipInv, SkippingIsJustified
<1>9. KeysInv
  BY DEF KeysInv
<1> QED
  BY <1>2, <1>3, <1>4, <1>5, <1>6, <1>7, <1>8, <1>9 DEF Inv

-----------------------------------------------------------------------------
(* The layer the machine has after an event.                               *)
LEMMA EvLayer ==
  ASSUME TypeInv
  PROVE  /\ IsLayer(ev.layer) /\ ev.layer.key = read.key
         /\ ev.layer.skip = read.skip \/ ev.layer.skip = FALSE
         /\ HasLayer(ev.layer) <=> HasLayer(read)
<1>1. /\ IsLayer(ev.layer) /\ ev.layer.key = read.key
      /\ ev.layer.skip = read.skip \/ ev.layer.skip = FALSE
  BY ReadEventKeepsKey DEF TypeInv, ev
<1> QED
  BY <1>1 DEF HasLayer

(* A call leaves EarlyDataIsGuarded as it is, unless it delivers data      *)
(* without permission.                                                     *)
LEMMA GuardedStep ==
  ASSUME IsSeq(calls), EarlyDataIsGuarded, UNCHANGED <<ctx, neg>>,
         Holding(out', "HelloRetryRequest") = Holding(out, "HelloRetryRequest"),
         \/ calls' = calls
         \/ \E w, d : /\ calls' = Append(calls, Call(w, d))
                      /\ w = "Deliver" =>
                           \/ Told(calls, "HandshakeSuccess")
                           \/ Told(calls, "EarlyHandshakeSuccess") /\ EarlyAllowed
  PROVE  EarlyDataIsGuarded'
<1>1. CASE calls' = calls
  BY <1>1 DEF EarlyDataIsGuarded
<1>2. ASSUME NEW w, NEW d, calls' = Append(calls, Call(w, d)),
             w = "Deliver" =>
               \/ Told(calls, "HandshakeSuccess")
               \/ Told(calls, "EarlyHandshakeSuccess") /\ EarlyAllowed
      PROVE  EarlyDataIsGuarded'
  <2>1. /\ DOMAIN calls = 1 .. Len(calls) /\ Len(calls) \in Nat
        /\ IsSeq(calls') /\ Len(calls') = Len(calls) + 1
        /\ DOMAIN calls' = 1 .. Len(calls) + 1
        /\ \A i \in 1 .. Len(calls) : calls'[i] = calls[i]
        /\ calls'[Len(calls) + 1] = Call(w, d)
    BY <1>2, AppendSeq, IsSeqDomain
  <2> SUFFICES ASSUME NEW i \in 1 .. Len(calls) + 1, calls'[i].type = "Deliver",
                      ~Told(SubSeq(calls', 1, i), "HandshakeSuccess")
               PROVE  Told(SubSeq(calls', 1, i), "EarlyHandshakeSuccess") /\ EarlyAllowed'
    BY <2>1 DEF EarlyDataIsGuarded, EarlyAllowed
  <2>2. \A what : Told(SubSeq(calls', 1, i), what) <=> \E k \in 1 .. i : calls'[k].type = what
    BY <2>1, ToldPrefix
  <2>3. CASE i \in 1 .. Len(calls)
    <3>1. \A what : Told(SubSeq(calls, 1, i), what) <=> \E k \in 1 .. i : calls[k].type = what
      BY <2>3, ToldPrefix
    <3>2. \A k \in 1 .. i : calls'[k] = calls[k]
      BY <2>1, <2>3
    <3>3. \A what : Told(SubSeq(calls', 1, i), what) <=> Told(SubSeq(calls, 1, i), what)
      BY <2>2, <3>1, <3>2
    <3>4. /\ Told(SubSeq(calls, 1, i), "EarlyHandshakeSuccess")
          /\ EarlyAllowed
      BY <2>1, <2>3, <3>3 DEF EarlyDataIsGuarded, EarlyAllowed
    <3> QED
      BY <3>3, <3>4 DEF EarlyAllowed
  <2>4. CASE i = Len(calls) + 1
    <3>1. w = "Deliver"
      BY <2>1, <2>4 DEF Call
    <3>2. \A what : Told(calls, what) => \E k \in 1 .. i : calls'[k].type = what
      BY <2>1, <2>4 DEF Told
    <3>3. ~Told(calls, "HandshakeSuccess")
      BY <2>2, <3>2
    <3> QED
      BY <1>2, <2>2, <3>1, <3>2, <3>3 DEF EarlyAllowed
  <2> QED
    BY <2>1, <2>3, <2>4
<1> QED
  BY <1>1, <1>2

(* What a call adds to what was told.                                      *)
LEMMA ToldStep ==
  ASSUME IsSeq(calls), NEW w, NEW d, calls' = Append(calls, Call(w, d))
  PROVE  /\ IsSeq(calls')
         /\ \A what : Told(calls', what) <=> Told(calls, what) \/ w = what
BY AppendSeq, ToldAppend

(***************************************************************************)
(* The machine ends, or waits for the peer to: an alert may be sent, then  *)
(* there is no write layer.  Nothing else changes.                         *)
(***************************************************************************)
EndsWith(m) ==
  /\ state' \in {"ExpectingCloseNotify"} \cup Over
  /\ write' = NoLayer
  /\ out' = out \/ (HasLayer(write) /\ out' = Append(out, Seal(write, <<m>>)))
  /\ \/ calls' = calls
     \/ \E w \in {"Error", "EndOfData"} : calls' = Append(calls, Call(w, 0))
  /\ IF state' = "ExpectingCloseNotify" THEN read' = read /\ HasLayer(write)
                                        ELSE read' = NoLayer
  /\ UNCHANGED <<ctx, hsVars>>

LEMMA EndsKeepInv ==
  ASSUME Inv, Live, NEW m, m.type \in {"Alert", "CloseNotify"}, EndsWith(m)
  PROVE  Inv'
<1> USE DEF Inv
<1>1. /\ state' \in {"ExpectingCloseNotify"} \cup Over /\ write' = NoLayer
      /\ UNCHANGED <<ctx, hsRead, neg, transcript, sched, cert, chain>>
      /\ state' = "ExpectingCloseNotify" => read' = read /\ HasLayer(write)
      /\ state' # "ExpectingCloseNotify" => read' = NoLayer
      /\ state \in States \ Over
  BY DEF EndsWith, hsVars, Live, Over, TypeInv
<1>2. /\ IsSeq(calls')
      /\ \A what : what \notin {"Error", "EndOfData"} =>
           (Told(calls', what) <=> Told(calls, what))
  BY ToldStep DEF EndsWith, TypeInv
<1>3. /\ IsSeq(out') /\ NoncesDiffer(out') /\ NothingAfterAlert(out')
      /\ \A type : type \notin {"Alert", "CloseNotify"} =>
           Holding(out', type) = Holding(out, type)
      /\ \A i \in DOMAIN out : i \in DOMAIN out' /\ out'[i] = out[i]
      /\ \A i \in DOMAIN out' : i \notin DOMAIN out => out'[i].key = write.key
      /\ out' # out => HasLayer(write)
  <2>1. CASE out' = out
    BY <2>1 DEF TypeInv, StreamInv
  <2>2. CASE HasLayer(write) /\ out' = Append(out, Seal(write, <<m>>))
    <3>1. /\ write.key = PlainKey \/ Fresh(out, write)
          /\ IsSeq(out) /\ NoncesDiffer(out) /\ Unended(out)
      BY <2>2 DEF StreamInv, TypeInv
    <3>2. IsSeq(out') /\ NoncesDiffer(out') /\ NothingAfterAlert(out')
      BY <2>2, <3>1, SendRecord, SealFields, ZenonT(60)
    <3>3. \A type : type \notin {"Alert", "CloseNotify"} =>
            Holding(out', type) = Holding(out, type)
      BY <2>2, HoldingAppend, SealFields DEF TypeInv
    <3>4. /\ DOMAIN out = 1 .. Len(out) /\ Len(out) \in Nat
          /\ DOMAIN out' = 1 .. Len(out) + 1
          /\ \A i \in 1 .. Len(out) : out'[i] = out[i]
          /\ out'[Len(out) + 1].key = write.key
      BY <2>2, AppendSeq, IsSeqDomain, SealFields DEF TypeInv
    <3> QED
      BY <2>2, <3>2, <3>3, <3>4
  <2> QED
    BY <2>1, <2>2 DEF EndsWith
<1>4. TypeInv'
  BY <1>1, <1>2, <1>3, NamedLayers DEF TypeInv, States, Over
<1>5. LayersInv'
  BY <1>1, <1>2, NamedLayers DEF LayersInv, Over
<1>6. StreamInv'
  <2>1. ASSUME NEW i \in DOMAIN out', out'[i].key.level = "App"
        PROVE  out'[i].key.gen \in Nat /\ out'[i].key.gen <= sched.serverGen
    <3>1. CASE i \in DOMAIN out
      BY <1>3, <2>1, <3>1 DEF StreamInv
    <3>2. CASE i \notin DOMAIN out
      <4>1. write.key = AppKeyNow
        BY <1>3, <2>1, <3>2, NamedLayers DEF StreamInv
      <4> QED
        BY <1>3, <3>2, <4>1 DEF AppKeyNow, Key, TypeInv
    <3> QED
      BY <3>1, <3>2
  <2> QED
    BY <1>1, <1>3, <2>1, NamedLayers DEF StreamInv, BeforeHello, Over
<1>7. RetryInv'
  <2>1. \A i \in Holding(out, "HelloRetryRequest") \cup Holding(out, "ServerHello") :
          out'[i] = out[i]
    BY <1>3 DEF Holding
  <2>2. RetryIsHonoured'
    BY <1>3, <2>1 DEF RetryInv, RetryIsHonoured
  <2> QED
    BY <1>1, <2>2 DEF RetryInv, BeforeHello, Over
<1>8. CallsInv'
  <2>1. EarlyDataIsGuarded'
    BY <1>1, <1>3, GuardedStep DEF EndsWith, CallsInv, TypeInv
  <2> QED
    BY <1>1, <1>2, <2>1 DEF CallsInv, BeforeHello, Over
<1>9. AuthInv'
  BY <1>1, <1>2 DEF AuthInv, ClientAuthEnforced, Over
<1>10. SkipInv'
  BY <1>1, <1>2, NamedLayers DEF SkipInv, SkippingIsJustified, HellosSeen
<1>11. KeysInv'
  BY <1>1 DEF KeysInv, Over
<1> QED
  BY <1>4, <1>5, <1>6, <1>7, <1>8, <1>9, <1>10, <1>11

LEMMA ErrorKeepsInv ==
  ASSUME Inv, Live, NEW description, HandleError(description)
  PROVE  Inv'
<1>1. EndsWith(Alert(description))
  BY DEF HandleError, EndsWith, Over, Tell, hsVars
<1>2. Alert(description).type = "Alert"
  BY DEF Alert
<1> QED
  BY <1>1, <1>2, EndsKeepInv
-----------------------------------------------------------------------------
(* The hellos of a transcript.                                             *)

IsHelloOf(h, t) ==
  \/ \E k \in DOMAIN t : t[k].type = "ClientHello" /\ h = t[k]
  \/ \E k \in DOMAIN t : /\ t[k].type = "MessageHash"
                         /\ \E i \in DOMAIN t[k].of : h = t[k].of[i]

LEMMA HellosOf ==
  /\ \A h : h \in HellosSeen <=> IsHelloOf(h, transcript)
  /\ \A h : h \in HellosSeen' <=> IsHelloOf(h, transcript')
BY DEF HellosSeen, IsHelloOf

(* They stay when the transcript grows.                                    *)
LEMMA HellosStay ==
  ASSUME NEW t, NEW u, NEW h, IsSeq(t), IsSeq(u), IsHelloOf(h, t)
  PROVE  IsHelloOf(h, t \o u)
<1>1. \A k \in DOMAIN t : k \in DOMAIN (t \o u) /\ (t \o u)[k] = t[k]
  BY ConcatSeq, IsSeqDomain
<1> QED
  BY <1>1 DEF IsHelloOf

LEMMA HellosStayAppend ==
  ASSUME NEW t, NEW m, NEW h, IsSeq(t), IsHelloOf(h, t)
  PROVE  IsHelloOf(h, Append(t, m))
BY HellosStay, AppendAsConcat, TupleIsSeq

-----------------------------------------------------------------------------
(* A step that writes nothing, in the same state or past the ServerHello.  *)
WritesNothing ==
  /\ UNCHANGED <<ctx, write, neg, sched, out>>
  /\ \/ state' = state
     \/ /\ state \notin BeforeHello \cup Over
        /\ state' \notin BeforeHello \cup Over

LEMMA SameStream ==
  ASSUME Inv, WritesNothing
  PROVE  StreamInv' /\ RetryInv'
<1>1. StreamInv'
  BY DEF Inv, WritesNothing, StreamInv, AppKeyNow, Fresh, Unended, BeforeHello
<1>2. RetryInv'
  BY DEF Inv, WritesNothing, RetryInv, RetryIsHonoured
<1> QED
  BY <1>1, <1>2

LEMMA RecordWithoutEventKeepsInv ==
  ASSUME Inv, RecordWithoutEvent
  PROVE  Inv'
<1> USE DEF Inv
<1>1. /\ UNCHANGED <<ctx, state, write, hsRead, neg, transcript, sched, cert, chain,
                     out, calls>>
      /\ read' = ev.layer /\ state \in States \ Over
  BY DEF RecordWithoutEvent, hsVars, Live, Over, TypeInv
<1>2. StreamInv' /\ RetryInv'
  BY <1>1, SameStream DEF WritesNothing
<1>3. TypeInv'
  BY <1>1, EvLayer DEF TypeInv
<1>4. LayersInv'
  BY <1>1, EvLayer DEF LayersInv
<1>5. CallsInv'
  BY <1>1 DEF CallsInv, EarlyDataIsGuarded, EarlyAllowed
<1>6. AuthInv'
  BY <1>1 DEF AuthInv, ClientAuthEnforced, ClientTrusted
<1>7. SkipInv'
  BY <1>1, EvLayer DEF SkipInv, SkippingIsJustified, HellosSeen
<1>8. KeysInv'
  BY <1>1, EvLayer DEF KeysInv
<1> QED
  BY <1>2, <1>3, <1>4, <1>5, <1>6, <1>7, <1>8

LEMMA AppDataKeepsInv ==
  ASSUME Inv, HandleAppData
  PROVE  Inv'
<1> USE DEF Inv
<1>1. /\ UNCHANGED <<ctx, state, write, hsRead, neg, transcript, sched, cert, chain, out>>
      /\ read' = ev.layer /\ state \in {"AcceptingEarlyData", "AcceptingData"}
      /\ calls' = Append(calls, Call("Deliver", ev.msg.data))
  BY DEF HandleAppData, Event, hsVars
<1>2. StreamInv' /\ RetryInv'
  BY <1>1, SameStream DEF WritesNothing
<1>3. IsSeq(calls') /\ \A what : what # "Deliver" => (Told(calls', what) <=> Told(calls, what))
  BY <1>1, ToldStep DEF TypeInv
<1>4. TypeInv'
  BY <1>1, <1>3, EvLayer DEF TypeInv
<1>5. LayersInv'
  BY <1>1, <1>3, EvLayer DEF LayersInv
<1>6. CallsInv'
  <2>1. EarlyDataIsGuarded'
    <3>1. \/ Told(calls, "HandshakeSuccess")
          \/ Told(calls, "EarlyHandshakeSuccess") /\ EarlyAllowed
      BY <1>1 DEF CallsInv
    <3> QED
      BY <1>1, <3>1, GuardedStep DEF CallsInv, TypeInv
  <2> QED
    BY <1>1, <1>3, <2>1 DEF CallsInv, EarlyAllowed, BeforeHello
<1>7. AuthInv'
  BY <1>1, <1>3 DEF AuthInv, ClientAuthEnforced, ClientTrusted
<1>8. SkipInv'
  BY <1>1, <1>3, EvLayer DEF SkipInv, SkippingIsJustified, HellosSeen
<1>9. KeysInv'
  BY <1>1, EvLayer DEF KeysInv
<1> QED
  BY <1>2, <1>4, <1>5, <1>6, <1>7, <1>8, <1>9

LEMMA EndOfEarlyDataKeepsInv ==
  ASSUME Inv, HandleEndOfEarlyData
  PROVE  Inv'
<1> USE DEF Inv
<1>0. CASE HasUnparsed(ev.layer)
  BY <1>0, ErrorKeepsInv DEF HandleEndOfEarlyData, Event, Live
<1>1. CASE ~HasUnparsed(ev.layer)
  <2>1. /\ state = "AcceptingEarlyData" /\ state' = "ExpectingFinished"
        /\ transcript' = Append(transcript, Digest(ev.msg))
        /\ read' = hsRead /\ hsRead' = NoLayer
        /\ UNCHANGED <<ctx, write, neg, sched, cert, chain, out, calls>>
    BY <1>1 DEF HandleEndOfEarlyData, Event, AppendToTranscript
  <2>2. StreamInv' /\ RetryInv'
    BY <2>1, SameStream DEF WritesNothing, BeforeHello, Over
  <2>3. TypeInv'
    BY <2>1, AppendSeq, NamedLayers DEF TypeInv, States
  <2>4. LayersInv'
    BY <2>1 DEF LayersInv
  <2>5. CallsInv'
    BY <2>1 DEF CallsInv, EarlyDataIsGuarded, BeforeHello
  <2>6. AuthInv'
    BY <2>1 DEF AuthInv, ClientAuthEnforced, ClientTrusted, Over
  <2>7. SkipInv'
    BY <2>1, NamedLayers DEF SkipInv, SkippingIsJustified
  <2>8. KeysInv'
    BY <2>1 DEF KeysInv
  <2> QED
    BY <2>2, <2>3, <2>4, <2>5, <2>6, <2>7, <2>8
<1> QED
  BY <1>0, <1>1

(* A message of the client's authentication, taken into the transcript.    *)
LEMMA AuthMessageKeepsInv ==
  ASSUME Inv, state \in {"ExpectingCertificate", "ExpectingCertificateVerify"},
         state' \in {"ExpectingCertificateVerify", "ExpectingFinished"},
         transcript' = Append(transcript, Digest(ev.msg)),
         read' = ev.layer,
         UNCHANGED <<ctx, write, hsRead, neg, sched, out, calls>>,
         state' = "ExpectingFinished" => ~chain' /\ ClientTrusted'
  PROVE  Inv'
<1> USE DEF Inv
<1>1. StreamInv' /\ RetryInv'
  BY SameStream DEF WritesNothing, BeforeHello, Over
<1>2. TypeInv'
  BY AppendSeq, EvLayer DEF TypeInv, States
<1>3. LayersInv'
  BY EvLayer DEF LayersInv
<1>4. CallsInv'
  BY DEF CallsInv, EarlyDataIsGuarded, BeforeHello
<1>5. AuthInv'
  BY DEF AuthInv, ClientAuthEnforced, CallsInv, Over
<1>6. SkipInv'
  <2>1. \A h \in HellosSeen : h \in HellosSeen'
    BY HellosOf, HellosStayAppend DEF TypeInv
  <2> QED
    BY <2>1, EvLayer DEF SkipInv, SkippingIsJustified
<1>7. KeysInv'
  BY DEF KeysInv
<1> QED
  BY <1>1, <1>2, <1>3, <1>4, <1>5, <1>6, <1>7

LEMMA CertificateKeepsInv ==
  ASSUME Inv, HandleCertificate
  PROVE  Inv'
<1> DEFINE hit == FirstHit(CertificateChecks(ev.msg))
<1>0. state = "ExpectingCertificate"
  BY DEF HandleCertificate, Event
<1>1. CASE hit # "ok"
  BY <1>0, <1>1, ErrorKeepsInv DEF HandleCertificate, Live
<1>2. CASE hit = "ok"
  <2>1. ~(ev.msg.kind = "empty" /\ ctx.clientAuth # "Optional")
    <3> DEFINE checks == CertificateChecks(ev.msg)
    <3>1. IsSeq(checks) /\ DOMAIN checks = 1 .. 2
      BY TupleIsSeq DEF CertificateChecks
    <3>2. \A i \in DOMAIN checks : checks[i][2] # "ok"
      BY DEF CertificateChecks
    <3>3. Silent(checks)
      BY <1>2, <3>1, <3>2, FirstHitCases
    <3>4. ~checks[2][1]
      BY <3>1, <3>3 DEF Silent
    <3>5. checks[2][1] = (ev.msg.kind = "empty" /\ ctx.clientAuth # "Optional")
      BY DEF CertificateChecks
    <3> QED
      BY <3>4, <3>5
  <2>2. /\ transcript' = Append(transcript, Digest(ev.msg)) /\ read' = ev.layer
        /\ chain' = ~(ev.msg.kind = "empty")
        /\ state' = IF ev.msg.kind = "empty" THEN "ExpectingFinished"
                                             ELSE "ExpectingCertificateVerify"
        /\ UNCHANGED <<ctx, write, hsRead, neg, sched, cert, out, calls>>
    BY <1>2 DEF HandleCertificate, AppendToTranscript
  <2>3. state' = "ExpectingFinished" => ~chain' /\ ClientTrusted'
    BY <2>1, <2>2 DEF ClientTrusted
  <2> QED
    BY <1>0, <2>2, <2>3, AuthMessageKeepsInv
<1> QED
  BY <1>1, <1>2

LEMMA CertificateVerifyKeepsInv ==
  ASSUME Inv, NEW trusted, HandleCertificateVerify(trusted)
  PROVE  Inv'
<1> DEFINE hit == FirstHit(VerifyChecks(ev.msg, trusted))
<1>0. state = "ExpectingCertificateVerify"
  BY DEF HandleCertificateVerify, Event
<1>1. CASE hit # "ok"
  BY <1>0, <1>1, ErrorKeepsInv DEF HandleCertificateVerify, Live
<1>2. CASE hit = "ok"
  <2>1. /\ transcript' = Append(transcript, Digest(ev.msg)) /\ read' = ev.layer
        /\ chain' = FALSE /\ cert' = TRUE /\ state' = "ExpectingFinished"
        /\ UNCHANGED <<ctx, write, hsRead, neg, sched, out, calls>>
    BY <1>2 DEF HandleCertificateVerify, AppendToTranscript
  <2> QED
    BY <1>0, <2>1, AuthMessageKeepsInv DEF ClientTrusted
<1> QED
  BY <1>1, <1>2

-----------------------------------------------------------------------------
(* The layers of a generation of the application keys.                     *)
LEMMA AppLayers ==
  ASSUME NEW gen
  PROVE  /\ IsLayer(AppReadLayer(gen)) /\ HasLayer(AppReadLayer(gen))
         /\ AppReadLayer(gen).skip = FALSE /\ AppReadLayer(gen).key.level = "App"
         /\ IsLayer(AppWriteLayer(gen)) /\ HasLayer(AppWriteLayer(gen))
         /\ AppWriteLayer(gen).seq = 0
         /\ AppWriteLayer(gen).key = Key("App", "server", gen, sched.appCtx)
<1>1. \A side : Key("App", side, gen, sched.appCtx).level = "App"
  BY DEF Key
<1>2. /\ IsLayer(AppReadLayer(gen)) /\ AppReadLayer(gen).skip = FALSE
      /\ AppReadLayer(gen).key = Key("App", "client", gen, sched.appCtx)
  BY NewLayer DEF AppReadLayer
<1>3. /\ IsLayer(AppWriteLayer(gen)) /\ AppWriteLayer(gen).seq = 0
      /\ AppWriteLayer(gen).key = Key("App", "server", gen, sched.appCtx)
  BY NewLayer, ZenonT(60) DEF AppWriteLayer
<1> QED
  BY <1>1, <1>2, <1>3 DEF HasLayer

(* A record under the application key, and the layer after it: the same    *)
(* with its number one higher, or the next key.                            *)
SendsOne(m) ==
  /\ out' = Append(out, Seal(write, <<m>>))
  /\ \/ write' = Sealed(write) /\ sched'.serverGen = sched.serverGen
     \/ /\ write' = AppWriteLayer(sched.serverGen + 1)
        /\ sched'.serverGen = sched.serverGen + 1
  /\ sched'.appCtx = sched.appCtx

LEMMA SendKeepsStream ==
  ASSUME Inv, NEW m, SendsOne(m),
         m.type \notin {"Alert", "CloseNotify", "HelloRetryRequest", "ServerHello"},
         state \in {"AcceptingEarlyData", "ExpectingFinished", "AcceptingData"},
         state' \in {"AcceptingEarlyData", "ExpectingFinished", "AcceptingData"},
         UNCHANGED <<ctx, neg>>
  PROVE  /\ StreamInv' /\ RetryInv'
         /\ IsSeq(out') /\ IsLayer(write') /\ HasLayer(write')
         /\ Holding(out', "HelloRetryRequest") = Holding(out, "HelloRetryRequest")
         /\ sched'.serverGen \in Nat
<1> USE DEF Inv
<1>1. /\ HasLayer(write) /\ write.key = AppKeyNow /\ Unended(out)
      /\ sched.serverGen \in Nat
  BY DEF LayersInv, StreamInv, BeforeHello, Over, TypeInv
<1>2. /\ AppKeyNow.level = "App" /\ AppKeyNow.gen = sched.serverGen
      /\ AppKeyNow # PlainKey
  BY NamedLayers DEF AppKeyNow, Key
<1>3. Fresh(out, write) /\ Encrypts(write)
  BY <1>1, <1>2 DEF StreamInv, Encrypts
<1>4. IsSeq(out') /\ NoncesDiffer(out') /\ NothingAfterAlert(out') /\ Unended(out')
  BY <1>1, <1>3, SendRecord, SealFields DEF SendsOne, StreamInv, TypeInv
<1>5. \A type : m.type # type => Holding(out', type) = Holding(out, type)
  BY HoldingAppend, SealFields DEF SendsOne, TypeInv
<1>6. /\ DOMAIN out = 1 .. Len(out) /\ Len(out) \in Nat
      /\ DOMAIN out' = 1 .. Len(out) + 1
      /\ \A i \in 1 .. Len(out) : out'[i] = out[i]
      /\ out'[Len(out) + 1].key = AppKeyNow /\ out'[Len(out) + 1].seq = write.seq
  BY <1>1, AppendSeq, IsSeqDomain, SealFields DEF SendsOne, TypeInv
<1>7. \A i \in DOMAIN out' : out'[i].key.level = "App" =>
         out'[i].key.gen \in Nat /\ out'[i].key.gen <= sched.serverGen
  <2>1. \A i \in 1 .. Len(out) + 1 : i \in 1 .. Len(out) \/ i = Len(out) + 1
    BY <1>6
  <2> QED
    BY <1>1, <1>2, <1>6, <2>1 DEF StreamInv
<1>8. /\ write'.key = AppKeyNow' /\ Fresh(out', write')
      /\ IsLayer(write') /\ HasLayer(write')
      /\ sched'.serverGen \in Nat
      /\ sched'.serverGen >= sched.serverGen
  <2>1. CASE write' = Sealed(write) /\ sched'.serverGen = sched.serverGen
    <3>1. AppKeyNow' = AppKeyNow
      BY <2>1 DEF SendsOne, AppKeyNow
    <3>2. Fresh(out', write') /\ IsLayer(write') /\ write'.key = write.key
      BY <1>3, <2>1, StaysFresh, SealFields DEF SendsOne, TypeInv
    <3> QED
      BY <1>1, <1>2, <2>1, <3>1, <3>2 DEF HasLayer
  <2>2. CASE /\ write' = AppWriteLayer(sched.serverGen + 1)
             /\ sched'.serverGen = sched.serverGen + 1
    <3>0. /\ write'.key = Key("App", "server", sched.serverGen + 1, sched.appCtx)
          /\ IsLayer(write') /\ HasLayer(write') /\ write'.seq = 0
      BY <2>2, AppLayers
    <3>1. /\ write'.key = AppKeyNow' /\ write'.key.level = "App"
          /\ write'.key.gen = sched.serverGen + 1
      BY <2>2, <3>0 DEF SendsOne, AppKeyNow, Key
    <3>2. \A i \in DOMAIN out' : out'[i].key # write'.key
      BY <1>1, <1>7, <3>1
    <3> QED
      BY <1>1, <2>2, <3>0, <3>1, <3>2 DEF Fresh
  <2> QED
    BY <2>1, <2>2 DEF SendsOne
<1>9. StreamInv'
  <2>1. \A i \in DOMAIN out' : out'[i].key.level = "App" =>
          out'[i].key.gen \in Nat /\ out'[i].key.gen <= sched'.serverGen
    BY <1>1, <1>7, <1>8
  <2> QED
    BY <1>4, <1>8, <2>1 DEF StreamInv, BeforeHello
<1>10. RetryInv'
  <2>1. \A i \in Holding(out, "HelloRetryRequest") \cup Holding(out, "ServerHello") :
          out'[i] = out[i]
    BY <1>6 DEF Holding
  <2>2. RetryIsHonoured'
    BY <1>5, <2>1 DEF RetryInv, RetryIsHonoured
  <2> QED
    BY <2>2 DEF RetryInv, BeforeHello
<1> QED
  BY <1>4, <1>5, <1>8, <1>9, <1>10

(* Such a step of a machine that otherwise only goes on reading.           *)
LEMMA SendKeepsInv ==
  ASSUME Inv, NEW m, SendsOne(m),
         m.type \notin {"Alert", "CloseNotify", "HelloRetryRequest", "ServerHello"},
         state \in {"AcceptingEarlyData", "ExpectingFinished", "AcceptingData"},
         UNCHANGED <<ctx, state, hsRead, neg, transcript, cert, chain, calls>>,
         sched' = [appCtx |-> sched'.appCtx, clientGen |-> sched'.clientGen,
                   serverGen |-> sched'.serverGen],
         \/ read' = read
         \/ state = "AcceptingData" /\ \E gen : read' = AppReadLayer(gen)
  PROVE  Inv'
<1> USE DEF Inv
<1>1. /\ StreamInv' /\ RetryInv'
      /\ IsSeq(out') /\ IsLayer(write') /\ HasLayer(write')
      /\ Holding(out', "HelloRetryRequest") = Holding(out, "HelloRetryRequest")
      /\ sched'.serverGen \in Nat
  BY SendKeepsStream
<1>2. \A gen : /\ IsLayer(AppReadLayer(gen)) /\ HasLayer(AppReadLayer(gen))
               /\ ~AppReadLayer(gen).skip /\ AppReadLayer(gen).key.level = "App"
  BY AppLayers
<1>3. TypeInv'
  BY <1>1, <1>2 DEF TypeInv
<1>4. LayersInv'
  BY <1>1, <1>2 DEF LayersInv
<1>5. CallsInv'
  BY <1>1, GuardedStep DEF CallsInv, EarlyAllowed, BeforeHello, TypeInv
<1>6. AuthInv'
  BY DEF AuthInv, ClientAuthEnforced, ClientTrusted
<1>7. SkipInv'
  BY <1>2 DEF SkipInv, SkippingIsJustified, HellosSeen
<1>8. KeysInv'
  BY <1>2 DEF KeysInv
<1> QED
  BY <1>1, <1>3, <1>4, <1>5, <1>6, <1>7, <1>8
LEMMA FinishedKeepsInv ==
  ASSUME Inv, NEW result, HandleFinished(result)
  PROVE  Inv'
<1> USE DEF Inv
<1> DEFINE hit == FirstHit(FinishedChecks(ev.msg, result))
<1>0. state = "ExpectingFinished"
  BY DEF HandleFinished, Event
<1>1. CASE hit # "ok"
  BY <1>0, <1>1, ErrorKeepsInv DEF HandleFinished, Live
<1>2. CASE hit = "ok"
  <2>1. /\ transcript' = Append(transcript, Digest(ev.msg))
        /\ read' = AppReadLayer(sched.clientGen)
        /\ state' = "AcceptingData"
        /\ \/ SendsOne(NewSessionTicket(ctx.acceptEarly))
           \/ UNCHANGED <<out, write>>
        /\ calls' = Append(calls, Call("HandshakeSuccess", 0))
        /\ UNCHANGED <<ctx, hsRead, neg, sched, cert, chain>>
    BY <1>2 DEF HandleFinished, AppendToTranscript, Tell, WriteTicket, SendsOne
  <2>2. /\ StreamInv' /\ RetryInv'
        /\ IsSeq(out') /\ IsLayer(write') /\ HasLayer(write')
        /\ Holding(out', "HelloRetryRequest") = Holding(out, "HelloRetryRequest")
    <3>1. CASE SendsOne(NewSessionTicket(ctx.acceptEarly))
      BY <1>0, <2>1, <3>1, SendKeepsStream DEF NewSessionTicket
    <3>2. CASE UNCHANGED <<out, write>>
      BY <1>0, <2>1, <3>2, SameStream
         DEF WritesNothing, BeforeHello, Over, TypeInv, LayersInv
    <3> QED
      BY <2>1, <3>1, <3>2
  <2>3. /\ IsSeq(calls')
        /\ \A what : Told(calls', what) <=> Told(calls, what) \/ what = "HandshakeSuccess"
    BY <2>1, ToldStep DEF TypeInv
  <2>4. TypeInv'
    BY <2>1, <2>2, <2>3, AppendSeq, AppLayers DEF TypeInv, States
  <2>5. LayersInv'
    BY <1>0, <2>1, <2>2, <2>3, AppLayers DEF LayersInv
  <2>6. CallsInv'
    <3>1. EarlyDataIsGuarded'
      BY <2>1, <2>2, GuardedStep DEF CallsInv, TypeInv
    <3> QED
      BY <2>1, <2>3, <3>1 DEF CallsInv, BeforeHello
  <2>7. AuthInv'
    BY <1>0, <2>1, <2>3 DEF AuthInv, ClientAuthEnforced, ClientTrusted, Over
  <2>8. SkipInv'
    BY <2>1, AppLayers DEF SkipInv, SkippingIsJustified
  <2>9. KeysInv'
    BY <2>1, AppLayers DEF KeysInv
  <2> QED
    BY <2>2, <2>4, <2>5, <2>6, <2>7, <2>8, <2>9
<1> QED
  BY <1>1, <1>2

(* A step of the application that writes nothing changes nothing.          *)
LEMMA StutterKeepsInv ==
  ASSUME Inv, UNCHANGED <<ctx, state, read, write, hsRead, neg, transcript, sched,
                          cert, chain, out, calls>>
  PROVE  Inv'
<1> USE DEF Inv
<1>1. StreamInv' /\ RetryInv'
  BY SameStream DEF WritesNothing
<1>2. TypeInv' /\ LayersInv' /\ KeysInv'
  BY DEF TypeInv, LayersInv, KeysInv
<1>3. CallsInv' /\ AuthInv'
  BY DEF CallsInv, EarlyDataIsGuarded, EarlyAllowed, AuthInv, ClientAuthEnforced,
         ClientTrusted
<1>4. SkipInv'
  BY DEF SkipInv, SkippingIsJustified, HellosSeen
<1> QED
  BY <1>1, <1>2, <1>3, <1>4

LEMMA AppEventKeepsInv ==
  ASSUME Inv, AppEvent
  PROVE  Inv'
<1> USE DEF AppEvent
<1>0. /\ Live
      /\ sched = [appCtx |-> sched.appCtx, clientGen |-> sched.clientGen,
                  serverGen |-> sched.serverGen]
  BY DEF Inv, TypeInv
<1>1. ASSUME NEW result, WriteNewSessionTicket(result)
      PROVE  Inv'
  <2>1. CASE state # "AcceptingData"
    BY <1>0, <1>1, <2>1, ErrorKeepsInv DEF WriteNewSessionTicket, HandleInvalidEvent
  <2>2. CASE state = "AcceptingData" /\ result = "fails"
    BY <1>0, <1>1, <2>2, ErrorKeepsInv DEF WriteNewSessionTicket
  <2>3. CASE state = "AcceptingData" /\ result = "ticket"
    <3>1. SendsOne(NewSessionTicket(ctx.acceptEarly))
      BY <1>1, <2>3 DEF WriteNewSessionTicket, WriteTicket, SendsOne, hsVars
    <3> QED
      BY <1>0, <1>1, <2>3, <3>1, SendKeepsInv
         DEF WriteNewSessionTicket, NewSessionTicket, hsVars
  <2>4. CASE state = "AcceptingData" /\ result \notin {"fails", "ticket"}
    BY <1>1, <2>4, StutterKeepsInv DEF WriteNewSessionTicket, hsVars
  <2> QED
    BY <2>1, <2>2, <2>3, <2>4
<1>2. CASE AppWrite
  <2>1. CASE state \notin {"AcceptingEarlyData", "ExpectingFinished", "AcceptingData"}
    BY <1>0, <1>2, <2>1, ErrorKeepsInv DEF AppWrite, HandleInvalidEvent
  <2>2. CASE state \in {"AcceptingEarlyData", "ExpectingFinished", "AcceptingData"}
    <3>1. SendsOne(AppData(written + 1))
      BY <1>2, <2>2 DEF AppWrite, SendsOne, hsVars
    <3> QED
      BY <1>0, <1>2, <2>2, <3>1, SendKeepsInv DEF AppWrite, AppData, hsVars
  <2> QED
    BY <2>1, <2>2
<1>3. CASE EarlyAppWrite
  BY <1>0, <1>3, ErrorKeepsInv DEF EarlyAppWrite, HandleInvalidEvent
<1>4. ASSUME NEW requested, InitiateKeyUpdate(requested)
      PROVE  Inv'
  <2>1. CASE state # "AcceptingData"
    BY <1>0, <1>4, <2>1, ErrorKeepsInv DEF InitiateKeyUpdate, HandleInvalidEvent
  <2>2. CASE state = "AcceptingData" /\ HasUnparsed(read)
    BY <1>0, <1>4, <2>2, ErrorKeepsInv DEF InitiateKeyUpdate
  <2>3. CASE state = "AcceptingData" /\ ~HasUnparsed(read)
    <3>1. /\ out' = Append(out, Seal(write, <<KeyUpdate(requested)>>))
          /\ write' = AppWriteLayer(sched.serverGen + 1)
          /\ sched' = [sched EXCEPT !.serverGen = @ + 1]
          /\ UNCHANGED <<ctx, state, read, hsRead, neg, transcript, cert, chain, calls>>
      BY <1>4, <2>3 DEF InitiateKeyUpdate, RekeyWrite
    <3>2. /\ sched' = [appCtx |-> sched'.appCtx, clientGen |-> sched'.clientGen,
                       serverGen |-> sched'.serverGen]
          /\ sched'.appCtx = sched.appCtx
          /\ sched'.serverGen = sched.serverGen + 1
      BY <1>0, <3>1
    <3>3. SendsOne(KeyUpdate(requested))
      BY <3>1, <3>2 DEF SendsOne
    <3> QED
      BY <2>3, <3>1, <3>2, <3>3, SendKeepsInv DEF KeyUpdate
  <2> QED
    BY <2>1, <2>2, <2>3
<1>5. CASE AppClose \/ AppCloseImmediate
  <2>1. EndsWith(CloseNotify)
    BY <1>5 DEF AppClose, AppCloseImmediate, EndsWith, Over, hsVars
  <2> QED
    BY <1>0, <2>1, EndsKeepInv DEF CloseNotify
<1> QED
  BY <1>1, <1>2, <1>3, <1>4, <1>5

LEMMA KeyUpdateKeepsInv ==
  ASSUME Inv, HandleKeyUpdate
  PROVE  Inv'
<1>0. /\ state = "AcceptingData"
      /\ sched = [appCtx |-> sched.appCtx, clientGen |-> sched.clientGen,
                  serverGen |-> sched.serverGen]
  BY DEF Inv, TypeInv, HandleKeyUpdate, Event
<1>1. CASE HasUnparsed(ev.layer)
  BY <1>0, <1>1, ErrorKeepsInv DEF HandleKeyUpdate, Live
<1>2. CASE ~HasUnparsed(ev.layer) /\ ev.msg.requested
  <2>1. /\ out' = Append(out, Seal(write, <<KeyUpdate(FALSE)>>))
        /\ write' = AppWriteLayer(sched.serverGen + 1)
        /\ read' = AppReadLayer(sched.clientGen + 1)
        /\ sched' = [sched EXCEPT !.clientGen = @ + 1, !.serverGen = @ + 1]
        /\ UNCHANGED <<ctx, state, hsRead, neg, transcript, cert, chain, calls>>
    BY <1>2 DEF HandleKeyUpdate, RekeyWrite
  <2>2. /\ sched' = [appCtx |-> sched'.appCtx, clientGen |-> sched'.clientGen,
                     serverGen |-> sched'.serverGen]
        /\ sched'.appCtx = sched.appCtx
        /\ sched'.serverGen = sched.serverGen + 1
    BY <1>0, <2>1
  <2>3. SendsOne(KeyUpdate(FALSE))
    BY <2>1, <2>2 DEF SendsOne
  <2> QED
    BY <1>0, <2>1, <2>2, <2>3, SendKeepsInv DEF KeyUpdate
<1>3. CASE ~HasUnparsed(ev.layer) /\ ~ev.msg.requested
  <2> USE DEF Inv
  <2>1. /\ read' = AppReadLayer(sched.clientGen + 1)
        /\ sched' = [sched EXCEPT !.clientGen = @ + 1]
        /\ UNCHANGED <<ctx, state, write, hsRead, neg, transcript, cert, chain, out, calls>>
    BY <1>3 DEF HandleKeyUpdate
  <2>2. /\ sched' = [appCtx |-> sched'.appCtx, clientGen |-> sched'.clientGen,
                     serverGen |-> sched'.serverGen]
        /\ sched'.appCtx = sched.appCtx
        /\ sched'.serverGen = sched.serverGen
    BY <1>0, <2>1
  <2>3. StreamInv'
    <3>1. AppKeyNow' = AppKeyNow
      BY <2>2 DEF AppKeyNow
    <3> QED
      BY <2>1, <2>2, <3>1 DEF StreamInv, Fresh, Unended
  <2>4. RetryInv'
    BY <2>1 DEF RetryInv, RetryIsHonoured
  <2>5. TypeInv'
    BY <2>1, <2>2, AppLayers DEF TypeInv
  <2>6. LayersInv'
    BY <1>0, <2>1, AppLayers DEF LayersInv
  <2>7. CallsInv' /\ AuthInv'
    BY <2>1 DEF CallsInv, EarlyDataIsGuarded, EarlyAllowed, AuthInv,
                ClientAuthEnforced, ClientTrusted
  <2>8. SkipInv'
    BY <2>1, AppLayers DEF SkipInv, SkippingIsJustified
  <2>9. KeysInv'
    BY <1>0, <2>1, AppLayers DEF KeysInv
  <2> QED
    BY <2>3, <2>4, <2>5, <2>6, <2>7, <2>8, <2>9
<1> QED
  BY <1>1, <1>2, <1>3

LEMMA CloseNotifyKeepsInv ==
  ASSUME Inv, HandleCloseNotify
  PROVE  Inv'
<1>1. state \in {"AcceptingData", "ExpectingCloseNotify"}
  BY DEF HandleCloseNotify, Event
<1>2. state = "AcceptingData" => HasLayer(write)
  BY DEF Inv, LayersInv
<1>3. EndsWith(CloseNotify)
  BY <1>2 DEF HandleCloseNotify, EndsWith, Over, Tell
<1> QED
  BY <1>1, <1>3, EndsKeepInv DEF CloseNotify, Live

LEMMA AcceptKeepsInv ==
  ASSUME Inv, Accept
  PROVE  Inv'
<1> USE DEF Inv
<1>1. /\ state = "Uninitialized" /\ state' = "ExpectingClientHello"
      /\ read' = PlainLayer(FALSE) /\ write' = PlainLayer(FALSE)
      /\ UNCHANGED <<ctx, hsRead, neg, transcript, sched, cert, chain, out, calls>>
  BY DEF Accept, hsVars
<1>2. TypeInv'
  BY <1>1, NamedLayers DEF TypeInv, States
<1>3. LayersInv'
  BY <1>1, NamedLayers DEF LayersInv
<1>4. StreamInv'
  <2>1. Unended(out)
    BY <1>1 DEF StreamInv, Unended, Holding
  <2> QED
    BY <1>1, <2>1, NamedLayers DEF StreamInv, BeforeHello, Over, AppKeyNow, Unended
<1>5. RetryInv'
  BY <1>1 DEF RetryInv, RetryIsHonoured, BeforeHello
<1>6. CallsInv'
  BY <1>1 DEF CallsInv, EarlyDataIsGuarded, BeforeHello
<1>7. AuthInv'
  BY <1>1 DEF AuthInv, ClientAuthEnforced, Over
<1>8. SkipInv'
  BY <1>1, NamedLayers DEF SkipInv, SkippingIsJustified
<1>9. KeysInv'
  BY <1>1 DEF KeysInv
<1> QED
  BY <1>2, <1>3, <1>4, <1>5, <1>6, <1>7, <1>8, <1>9

LEMMA VersionFallbackKeepsInv ==
  ASSUME Inv, state = "ExpectingClientHello", VersionFallback
  PROVE  Inv'
<1> USE DEF Inv
<1>1. /\ state' = "Error" /\ read' = ev.layer
      /\ calls' = Append(calls, Call("AttemptVersionFallback", 0))
      /\ UNCHANGED <<ctx, write, hsRead, neg, transcript, sched, cert, chain, out>>
  BY DEF VersionFallback, Tell, hsVars
<1>2. /\ IsSeq(calls')
      /\ \A what : Told(calls', what) <=>
                     Told(calls, what) \/ what = "AttemptVersionFallback"
  BY <1>1, ToldStep DEF TypeInv
<1>3. TypeInv'
  BY <1>1, <1>2, EvLayer DEF TypeInv, States
<1>4. LayersInv'
  BY <1>1, <1>2, EvLayer DEF LayersInv
<1>5. StreamInv'
  BY <1>1 DEF StreamInv, BeforeHello, Over, AppKeyNow, Fresh, Unended
<1>6. RetryInv'
  BY <1>1 DEF RetryInv, RetryIsHonoured, BeforeHello
<1>7. CallsInv'
  <2>1. EarlyDataIsGuarded'
    BY <1>1, GuardedStep DEF CallsInv, TypeInv
  <2> QED
    BY <1>1, <1>2, <2>1 DEF CallsInv, BeforeHello
<1>8. AuthInv'
  BY <1>1, <1>2 DEF AuthInv, ClientAuthEnforced, Over
<1>9. SkipInv'
  BY <1>1, <1>2, EvLayer DEF SkipInv, SkippingIsJustified, HellosSeen
<1>10. KeysInv'
  BY <1>1 DEF KeysInv
<1> QED
  BY <1>3, <1>4, <1>5, <1>6, <1>7, <1>8, <1>9, <1>10
-----------------------------------------------------------------------------
(* What the checks of a ClientHello let pass.                              *)

VersionChecks(ch, n) ==
  << <<transcript # <<>> /\ HasCookie(ch), "illegal_parameter">>,
     <<HasUnparsed(ev.layer), "unexpected_message">>,
     <<Differs(neg.version, n.version), "illegal_parameter">>,
     <<n.version = None /\ ch.early, "protocol_version">>,
     <<n.version = None, IF ctx.fallback THEN "fallback" ELSE "protocol_version">>,
     <<ch.fault = "extensions", "illegal_parameter">>,
     <<n.cipher = None, "handshake_failure">>,
     <<Differs(neg.cipher, n.cipher), "illegal_parameter">> >>

TicketChecks(ch, svc, n) ==
  << <<ch.psk # NoPsk /\ ch.modes = {}, "missing_extension">>,
     <<svc.fails = "ticket" /\ n.awaited, "unexpected_message">> >>

KexChecks(svc, n) ==
  << <<n.kex # "None" /\ svc.fails = "kex", "unexpected_message">> >>

SignChecks(ch, svc, n) ==
  << <<~n.resumed /\ ch.fault = "schemes", "handshake_failure">>,
     <<~n.resumed /\ svc.fails = "sign", "unexpected_message">> >>

BeforeGroup(ch, svc, n) ==
  CookieChecks(ch) \o VersionChecks(ch, n) \o CookieStateChecks(ch, n)
    \o TicketChecks(ch, svc, n) \o BinderChecks(ch, n) \o AlpnChecks(ch, n)

LEMMA HelloChecksParts ==
  ASSUME NEW ch, NEW svc, NEW n
  PROVE  HelloChecks(ch, svc, n) =
           BeforeGroup(ch, svc, n) \o GroupChecks(ch, n) \o KexChecks(svc, n)
             \o SameGroupChecks(ch, n) \o SignChecks(ch, svc, n)
BY DEF HelloChecks, BeforeGroup, VersionChecks, TicketChecks, KexChecks, SignChecks

LEMMA ChecksAvoid ==
  ASSUME NEW ch, NEW svc, NEW n
  PROVE  /\ Avoids(CookieChecks(ch), {"ok", "retry"})
         /\ Avoids(VersionChecks(ch, n), {"ok", "retry"})
         /\ Avoids(CookieStateChecks(ch, n), {"ok", "retry"})
         /\ Avoids(TicketChecks(ch, svc, n), {"ok", "retry"})
         /\ Avoids(BinderChecks(ch, n), {"ok", "retry"})
         /\ Avoids(AlpnChecks(ch, n), {"ok", "retry"})
         /\ Avoids(GroupChecks(ch, n), {"ok"})
         /\ Avoids(KexChecks(svc, n), {"ok", "retry"})
         /\ Avoids(SameGroupChecks(ch, n), {"ok", "retry"})
         /\ Avoids(SignChecks(ch, svc, n), {"ok", "retry"})
<1> USE DEF Avoids
<1>1. /\ Avoids(CookieChecks(ch), {"ok", "retry"})
      /\ Avoids(CookieStateChecks(ch, n), {"ok", "retry"})
  BY TupleIsSeq DEF CookieChecks, CookieStateChecks
<1>2. /\ Avoids(TicketChecks(ch, svc, n), {"ok", "retry"})
      /\ Avoids(BinderChecks(ch, n), {"ok", "retry"})
  BY TupleIsSeq DEF TicketChecks, BinderChecks
<1>3. /\ Avoids(AlpnChecks(ch, n), {"ok", "retry"})
      /\ Avoids(KexChecks(svc, n), {"ok", "retry"})
  BY TupleIsSeq DEF AlpnChecks, KexChecks
<1>4. /\ Avoids(SameGroupChecks(ch, n), {"ok", "retry"})
      /\ Avoids(SignChecks(ch, svc, n), {"ok", "retry"})
  BY TupleIsSeq DEF SameGroupChecks, SignChecks
<1>5. Avoids(VersionChecks(ch, n), {"ok", "retry"})
  <2>1. \A a, b, c, d, e, f, g, h :
          <<a, b, c, d, e, f, g, h>> \in Seq({a, b, c, d, e, f, g, h})
    OBVIOUS
  <2>2. \A a, b, c, d, e, f, g, h : IsSeq(<<a, b, c, d, e, f, g, h>>)
    BY <2>1, SeqIsSeq
  <2> QED
    BY <2>2 DEF VersionChecks
<1>6. Avoids(GroupChecks(ch, n), {"ok"})
  <2>1. \A a, b, c, d, e : <<a, b, c, d, e>> \in Seq({a, b, c, d, e})
    OBVIOUS
  <2>2. \A a, b, c, d, e : IsSeq(<<a, b, c, d, e>>)
    BY <2>1, SeqIsSeq
  <2> QED
    BY <2>2 DEF GroupChecks
<1> QED
  BY <1>1, <1>2, <1>3, <1>4, <1>5, <1>6
(* A list that avoids more outcomes avoids fewer.                          *)
LEMMA AvoidsOk ==
  ASSUME NEW a, Avoids(a, {"ok", "retry"})
  PROVE  Avoids(a, {"ok"}) /\ Avoids(a, {"retry"}) /\ IsSeq(a)
BY DEF Avoids

LEMMA HelloPasses ==
  ASSUME NEW ch, NEW svc, NEW n, NEW hit, hit = FirstHit(HelloChecks(ch, svc, n)),
         hit \in {"ok", "retry"}
  PROVE  /\ Silent(VersionChecks(ch, n))
         /\ hit = "ok" => /\ Silent(GroupChecks(ch, n)) /\ Silent(SameGroupChecks(ch, n))
                          /\ Silent(BinderChecks(ch, n))
         /\ hit = "retry" => FirstHit(GroupChecks(ch, n)) = "retry"
<1> DEFINE c1 == CookieChecks(ch)
           c2 == c1 \o VersionChecks(ch, n)
           c3 == c2 \o CookieStateChecks(ch, n)
           c4 == c3 \o TicketChecks(ch, svc, n)
           c5 == c4 \o BinderChecks(ch, n)
           c6 == c5 \o AlpnChecks(ch, n)
           c7 == c6 \o GroupChecks(ch, n)
           c8 == c7 \o KexChecks(svc, n)
           c9 == c8 \o SameGroupChecks(ch, n)
           c10 == c9 \o SignChecks(ch, svc, n)
<1>0. hit = FirstHit(c10)
  BY HelloChecksParts DEF BeforeGroup
<1>1. Avoids(c1, {"ok", "retry"}) /\ Avoids(c2, {"ok", "retry"})
  BY ChecksAvoid, AvoidsConcat
<1> HIDE DEF c1
<1>2. Avoids(c3, {"ok", "retry"})
  BY <1>1, ChecksAvoid, AvoidsConcat
<1> HIDE DEF c2
<1>3. Avoids(c4, {"ok", "retry"})
  BY <1>2, ChecksAvoid, AvoidsConcat
<1> HIDE DEF c3
<1>4. Avoids(c5, {"ok", "retry"})
  BY <1>3, ChecksAvoid, AvoidsConcat
<1> HIDE DEF c4
<1>5. Avoids(c6, {"ok", "retry"})
  BY <1>4, ChecksAvoid, AvoidsConcat
<1> HIDE DEF c5
<1>6. Avoids(c6, {"ok"}) /\ Avoids(c7, {"ok"})
  BY <1>5, ChecksAvoid, AvoidsOk, AvoidsConcat
<1> HIDE DEF c6
<1>7. Avoids(c8, {"ok"})
  BY <1>6, ChecksAvoid, AvoidsOk, AvoidsConcat
<1> HIDE DEF c7
<1>8. Avoids(c9, {"ok"})
  BY <1>7, ChecksAvoid, AvoidsOk, AvoidsConcat
<1> HIDE DEF c8
<1>9. Avoids(c10, {"ok"})
  BY <1>8, ChecksAvoid, AvoidsOk, AvoidsConcat
<1> HIDE DEF c9, c10
<1>p. /\ IsSeq(c1) /\ IsSeq(c2) /\ IsSeq(c3) /\ IsSeq(c4) /\ IsSeq(c5) /\ IsSeq(c6)
      /\ IsSeq(c7) /\ IsSeq(c8) /\ IsSeq(c9)
  BY <1>1, <1>2, <1>3, <1>4, <1>5, <1>6, <1>7, <1>8 DEF Avoids
<1>q. /\ IsSeq(VersionChecks(ch, n)) /\ IsSeq(CookieStateChecks(ch, n))
      /\ IsSeq(TicketChecks(ch, svc, n)) /\ IsSeq(BinderChecks(ch, n))
      /\ IsSeq(AlpnChecks(ch, n)) /\ IsSeq(GroupChecks(ch, n))
      /\ IsSeq(KexChecks(svc, n)) /\ IsSeq(SameGroupChecks(ch, n))
      /\ IsSeq(SignChecks(ch, svc, n))
  BY ChecksAvoid DEF Avoids
<1>10. Silent(c6) => Silent(VersionChecks(ch, n)) /\ Silent(BinderChecks(ch, n))
  <2>1. Silent(c6) => Silent(c5)
    BY <1>p, <1>q, FirstHitConcat DEF c6
  <2>2. Silent(c5) => Silent(c4) /\ Silent(BinderChecks(ch, n))
    BY <1>p, <1>q, FirstHitConcat DEF c5
  <2>3. Silent(c4) => Silent(c3)
    BY <1>p, <1>q, FirstHitConcat DEF c4
  <2>4. Silent(c3) => Silent(c2)
    BY <1>p, <1>q, FirstHitConcat DEF c3
  <2>5. Silent(c2) => Silent(VersionChecks(ch, n))
    BY <1>p, <1>q, FirstHitConcat DEF c2
  <2> QED
    BY <2>1, <2>2, <2>3, <2>4, <2>5
<1>11. CASE hit = "ok"
  <2>1. Silent(c10)
    BY <1>0, <1>9, <1>11, FirstHitAvoids
  <2>2. Silent(c9)
    BY <1>p, <1>q, <2>1, FirstHitConcat DEF c10
  <2>3. Silent(c8) /\ Silent(SameGroupChecks(ch, n))
    BY <1>p, <1>q, <2>2, FirstHitConcat DEF c9
  <2>4. Silent(c7)
    BY <1>p, <1>q, <2>3, FirstHitConcat DEF c8
  <2>5. Silent(c6) /\ Silent(GroupChecks(ch, n))
    BY <1>p, <1>q, <2>4, FirstHitConcat DEF c7
  <2> QED
    BY <1>10, <1>11, <2>3, <2>5
<1>12. CASE hit = "retry"
  <2> DEFINE retry == {"retry"}
  <2>0. "ok" \notin retry /\ "retry" \in retry
    OBVIOUS
  <2>a. /\ Avoids(KexChecks(svc, n), retry) /\ Avoids(SameGroupChecks(ch, n), retry)
        /\ Avoids(SignChecks(ch, svc, n), retry) /\ Avoids(c6, retry)
    BY <1>5, ChecksAvoid, AvoidsOk
  <2> HIDE DEF retry
  <2>b. FirstHit(c10) = "retry"
    BY <1>0, <1>12
  <2>1. FirstHit(c9) = "retry"
    BY <1>p, <2>0, <2>a, <2>b, FirstHitAvoids DEF c10
  <2>2. FirstHit(c8) = "retry"
    BY <1>p, <2>0, <2>1, <2>a, FirstHitAvoids DEF c9
  <2>3. FirstHit(c7) = "retry"
    BY <1>p, <2>0, <2>2, <2>a, FirstHitAvoids DEF c8
  <2>4. Silent(c6) /\ FirstHit(GroupChecks(ch, n)) = "retry"
    BY <1>q, <2>0, <2>3, <2>a, FirstHitAvoids DEF c7
  <2> QED
    BY <1>10, <1>12, <2>4
<1> QED
  BY <1>11, <1>12

(* What follows of the negotiated parameters.                              *)
LEMMA HelloNegotiated ==
  ASSUME NEW ch, NEW svc, NEW n, NEW hit, hit = FirstHit(HelloChecks(ch, svc, n)),
         hit \in {"ok", "retry"}
  PROVE  /\ n.version # None /\ n.cipher # None
         /\ ~Differs(neg.version, n.version) /\ ~Differs(neg.cipher, n.cipher)
         /\ hit = "ok" => ~Differs(neg.group, n.group)
         /\ hit = "retry" => n.group # None /\ neg.group = None
<1>1. /\ Silent(VersionChecks(ch, n))
      /\ hit = "ok" => Silent(SameGroupChecks(ch, n))
      /\ hit = "retry" => FirstHit(GroupChecks(ch, n)) = "retry"
  BY HelloPasses
<1>2. /\ n.version # None /\ n.cipher # None
      /\ ~Differs(neg.version, n.version) /\ ~Differs(neg.cipher, n.cipher)
  <2> DEFINE checks == VersionChecks(ch, n)
  <2>1. DOMAIN checks = 1 .. 8
    BY DEF VersionChecks
  <2>2. /\ checks[3][1] = Differs(neg.version, n.version)
        /\ checks[5][1] = (n.version = None)
        /\ checks[7][1] = (n.cipher = None)
        /\ checks[8][1] = Differs(neg.cipher, n.cipher)
    BY DEF VersionChecks
  <2> HIDE DEF checks
  <2>3. ~checks[3][1] /\ ~checks[5][1] /\ ~checks[7][1] /\ ~checks[8][1]
    BY <1>1, <2>1 DEF Silent, checks
  <2> QED
    BY <2>2, <2>3
<1>3. ASSUME hit = "ok" PROVE ~Differs(neg.group, n.group)
  <2> DEFINE checks == SameGroupChecks(ch, n)
  <2>1. DOMAIN checks = 1 .. 2 /\ checks[1][1] = Differs(neg.group, n.group)
    BY DEF SameGroupChecks
  <2> HIDE DEF checks
  <2>2. ~checks[1][1]
    BY <1>1, <1>3, <2>1 DEF Silent, checks
  <2> QED
    BY <2>1, <2>2
<1>4. ASSUME hit = "retry" PROVE n.group # None /\ neg.group = None
  <2> DEFINE checks == GroupChecks(ch, n)
  <2>1. /\ DOMAIN checks = 1 .. 5
        /\ checks[1][2] # "retry" /\ checks[2][2] # "retry"
        /\ checks[3][2] # "retry" /\ checks[4][2] # "retry"
        /\ checks[2][1] = (n.kex # "None" /\ n.group = None)
        /\ checks[4][1] = (n.kex # "None" /\ n.group \notin ch.shares
                             /\ (neg.group # None \/ HasCookie(ch)))
        /\ checks[5][1] = (n.kex # "None" /\ n.group \notin ch.shares)
    BY DEF GroupChecks
  <2>2. IsSeq(checks) /\ FirstHit(checks) = "retry"
    BY <1>1, <1>4, ChecksAvoid DEF Avoids
  <2> HIDE DEF checks
  <2>3. PICK i \in DOMAIN checks :
          /\ checks[i][1] /\ checks[i][2] = "retry"
          /\ \A j \in DOMAIN checks : j < i => ~checks[j][1]
    BY <2>2, FirstHitCases
  <2>4. i = 5
    BY <2>1, <2>3
  <2>5. checks[5][1] /\ ~checks[2][1] /\ ~checks[4][1]
    BY <2>1, <2>3, <2>4
  <2> QED
    BY <2>1, <2>5
<1> QED
  BY <1>2, <1>3, <1>4
(* What a ClientHello negotiates.                                          *)
LEMMA NegotiateFacts ==
  ASSUME NEW ch, NEW svc, NEW n, n = Negotiate(ch, svc)
  PROVE  /\ n.early = "Accepted" =>
              /\ ctx.acceptEarly /\ n.resumed /\ n.replay = "NotReplay"
              /\ neg.kex # "HelloRetryRequest"
         /\ n.early \in {"Accepted", "Rejected"} => ch.early
         /\ n.early \in {"NotAttempted", "Accepted", "Rejected"}
         /\ n.resumed => n.pskType = "Resumption"
<1> DEFINE version == Prefer(ctx.versions, ch.versions)
           cipher == PreferTiered(ctx.ciphers, ch.ciphers)
           mode == Prefer(ctx.pskModes, ch.modes)
           offered == ch.psk # NoPsk
           decrypts == offered /\ ctx.ticketCipher /\ mode # None
           resumed == /\ decrypts /\ svc.ticketOk
                      /\ cipher # None
                      /\ ch.psk.version = version
                      /\ HashOf[ch.psk.cipher] = HashOf[cipher]
           checked == ctx.acceptEarly /\ ctx.replayCache /\ ch.early
           replay == IF checked THEN svc.replay ELSE "NotChecked"
           alpn == Prefer(ctx.alpns, ch.alpns)
<1>1. /\ n.resumed = resumed /\ n.replay = replay
      /\ n.early = EarlyDataType(ch, resumed, cipher, alpn, replay, svc.fresh)
      /\ n.pskType = CASE resumed -> "Resumption"
                       [] offered /\ ~resumed -> "Rejected"
                       [] ~offered /\ mode # None -> "NotAttempted"
                       [] ~offered /\ mode = None -> "NotSupported"
  BY DEF Negotiate
<1>2. resumed => offered
  OBVIOUS
<1>3. resumed \in BOOLEAN
  OBVIOUS
<1> HIDE DEF version, cipher, mode, offered, resumed, checked, replay, alpn
<1>4. n.resumed => n.pskType = "Resumption"
  BY <1>1, <1>2, <1>3
<1> QED
  BY <1>1, <1>3, <1>4 DEF EarlyDataType

(* Where the transcript of the ClientHello starts.                         *)
LEMMA HelloContextSeq ==
  ASSUME TypeInv, NEW ch
  PROVE  IsSeq(HelloContext(ch))
BY TupleIsSeq DEF HelloContext, TypeInv

(* The records before the encrypted ones: a hello, and perhaps a CCS.      *)
HelloRecords(m, session) ==
  out \o <<Seal(write, <<m>>)>> \o (IF session THEN <<CCS>> ELSE <<>>)

LEMMA HelloRecordsFacts ==
  ASSUME Inv, state = "ExpectingClientHello", NEW m, NEW session, NEW s,
         m.type \in {"HelloRetryRequest", "ServerHello"},
         s = HelloRecords(m, session)
  PROVE  /\ PlainStream(s)
         /\ Len(out) \in Nat /\ Len(out) + 1 \in DOMAIN s
         /\ \A i \in DOMAIN out : i \in DOMAIN s /\ s[i] = out[i]
         /\ s[Len(out) + 1].body[1] = m
         /\ Holding(s, m.type) = Holding(out, m.type) \cup {Len(out) + 1}
         /\ \A type : type # m.type => Holding(s, type) = Holding(out, type)
<1> USE DEF Inv
<1>1. /\ PlainStream(out) /\ IsSeq(out) /\ write.key = PlainKey
      /\ DOMAIN out = 1 .. Len(out) /\ Len(out) \in Nat
  BY IsSeqDomain DEF TypeInv, LayersInv, StreamInv, PlainStream, BeforeHello
<1> DEFINE r == Seal(write, <<m>>)
           a == Append(out, r)
<1>2. /\ r.key = PlainKey /\ r.body[1] = m
      /\ \A type : HasType(r, type) <=> m.type = type
  BY <1>1, SealFields
<1> HIDE DEF r
<1>3. /\ PlainStream(a)
      /\ \A type : type # m.type => Holding(a, type) = Holding(out, type)
      /\ Holding(a, m.type) = Holding(out, m.type) \cup {Len(out) + 1}
  BY <1>1, <1>2, PlainAppend, HoldingAppend
<1>4. /\ DOMAIN a = 1 .. Len(out) + 1 /\ Len(a) = Len(out) + 1 /\ IsSeq(a)
      /\ \A i \in 1 .. Len(out) : a[i] = out[i]
      /\ a[Len(out) + 1] = r
  BY <1>1, AppendSeq
<1>5. out \o <<r>> = a
  BY <1>1, AppendAsConcat
<1> HIDE DEF a
<1>6. CASE session
  <2> DEFINE b == Append(a, CCS)
  <2>1. HelloRecords(m, session) = b
    BY <1>4, <1>5, <1>6, AppendAsConcat DEF HelloRecords, r
  <2>2. CCS.key = PlainKey /\ \A type : ~HasType(CCS, type)
    BY DEF CCS, HasType
  <2>3. PlainStream(b) /\ \A type : Holding(b, type) = Holding(a, type)
    BY <1>3, <1>4, <2>2, PlainAppend, HoldingAppend
  <2>4. /\ DOMAIN b = 1 .. Len(out) + 2 /\ Len(b) = Len(out) + 2
        /\ \A i \in 1 .. Len(out) + 1 : b[i] = a[i]
    BY <1>1, <1>4, AppendSeq
  <2> HIDE DEF b
  <2> QED
    BY <1>1, <1>2, <1>3, <1>4, <2>1, <2>3, <2>4
<1>7. CASE ~session
  <2>1. HelloRecords(m, session) = a \o <<>>
    BY <1>5, <1>7 DEF HelloRecords, r
  <2>2. a \o <<>> = a
    <3>1. a \in Seq({a[i] : i \in DOMAIN a})
      BY <1>4 DEF IsSeq
    <3> QED
      BY <3>1, ConcatEmptySeq
  <2> QED
    BY <1>1, <1>2, <1>3, <1>4, <2>1, <2>2
<1> QED
  BY <1>6, <1>7
(* A ClientHello at the end of a transcript, or hashed into it, is seen.   *)
LEMMA HelloIsSeen ==
  ASSUME NEW t, NEW ch, IsSeq(t)
  PROVE  /\ \A m : IsHelloOf(ch, <<MessageHash(Append(t, ch)), m>>)
         /\ ch.type = "ClientHello" => IsHelloOf(ch, Append(t, ch))
<1>1. /\ Len(t) + 1 \in DOMAIN Append(t, ch) /\ Append(t, ch)[Len(t) + 1] = ch
  BY AppendSeq, IsSeqDomain
<1>2. ASSUME NEW m
      PROVE  IsHelloOf(ch, <<MessageHash(Append(t, ch)), m>>)
  <2> DEFINE u == <<MessageHash(Append(t, ch)), m>>
  <2>1. 1 \in DOMAIN u /\ u[1].type = "MessageHash" /\ u[1].of = Append(t, ch)
    BY DEF MessageHash
  <2> HIDE DEF u
  <2>2. IsHelloOf(ch, u)
    BY <1>1, <2>1 DEF IsHelloOf
  <2> QED
    BY <2>2 DEF u
<1>3. ch.type = "ClientHello" => IsHelloOf(ch, Append(t, ch))
  BY <1>1 DEF IsHelloOf
<1> QED
  BY <1>2, <1>3

LEMMA RetryKeepsInv ==
  ASSUME Inv, state = "ExpectingClientHello", NEW svc, NEW ch, NEW n,
         n = Negotiate(ch, svc),
         FirstHit(HelloChecks(ch, svc, n)) = "retry",
         Retry(ch, n)
  PROVE  Inv'
<1> DEFINE hrr == HelloRetryRequest(n.version, n.cipher, n.group, ch.session, NoCookie)
           early == IF n.early = "Accepted" THEN "Rejected" ELSE n.early
           all == HelloRecords(hrr, ch.session)
<1>1. /\ transcript' = <<MessageHash(Append(HelloContext(ch), ch)), hrr>>
      /\ neg' = [neg EXCEPT !.version = n.version, !.cipher = n.cipher,
                            !.group = n.group, !.kex = "HelloRetryRequest",
                            !.early = early, !.replay = n.replay]
      /\ read' = PlainLayer(early = "Rejected")
      /\ out' = all
      /\ UNCHANGED <<ctx, state, write, hsRead, sched, cert, chain, calls>>
  BY DEF Retry, HelloRecords
<1>2. /\ n.version # None /\ n.cipher # None /\ n.group # None /\ neg.group = None
  BY HelloNegotiated
<1>3. /\ hrr.type = "HelloRetryRequest"
      /\ hrr.version = n.version /\ hrr.cipher = n.cipher /\ hrr.group = n.group
  BY DEF HelloRetryRequest
<1>4. /\ DOMAIN neg' = NegFields
      /\ neg'.version = n.version /\ neg'.cipher = n.cipher /\ neg'.group = n.group
      /\ neg'.kex = "HelloRetryRequest" /\ neg'.early = early
  BY <1>1 DEF Inv, TypeInv, NegFields
<1>5. early # "Accepted" /\ (early = "Rejected" => ch.early)
  BY NegotiateFacts
<1>a. all = HelloRecords(hrr, ch.session)
  OBVIOUS
<1> HIDE DEF hrr, early, all
<1>6. /\ PlainStream(all) /\ Len(out) \in Nat
      /\ \A i \in DOMAIN out : i \in DOMAIN all /\ all[i] = out[i]
      /\ all[Len(out) + 1].body[1] = hrr
      /\ Holding(all, "HelloRetryRequest") =
           Holding(out, "HelloRetryRequest") \cup {Len(out) + 1}
      /\ \A type : type # "HelloRetryRequest" => Holding(all, type) = Holding(out, type)
  <2>1. /\ PlainStream(all) /\ Len(out) \in Nat
        /\ \A i \in DOMAIN out : i \in DOMAIN all /\ all[i] = out[i]
        /\ all[Len(out) + 1].body[1] = hrr
        /\ Holding(all, hrr.type) = Holding(out, hrr.type) \cup {Len(out) + 1}
        /\ \A type : type # hrr.type => Holding(all, type) = Holding(out, type)
    <3>1. hrr.type \in {"HelloRetryRequest", "ServerHello"}
      BY <1>3
    <3> QED
      BY <1>a, <3>1, HelloRecordsFacts, SMTT(60)
  <2> QED
    BY <1>3, <2>1
<1> USE DEF Inv
<1>7. Holding(out, "HelloRetryRequest") = {} /\ Holding(out, "ServerHello") = {}
  BY <1>2 DEF RetryInv, BeforeHello
<1>8. TypeInv'
  BY <1>1, <1>4, <1>6, TupleIsSeq, NamedLayers DEF TypeInv, PlainStream
<1>9. LayersInv'
  BY <1>1, NamedLayers DEF LayersInv
<1>10. StreamInv'
  <2>1. NoncesDiffer(out') /\ Unended(out')
    BY <1>1, <1>6, PlainNonces DEF PlainStream
  <2>2. NothingAfterAlert(out')
    BY <2>1 DEF NothingAfterAlert, Unended
  <2>3. write'.key = PlainKey
    BY <1>1 DEF StreamInv, LayersInv, BeforeHello
  <2>4. \A i \in DOMAIN out' : out'[i].key = PlainKey
    BY <1>1, <1>6 DEF PlainStream
  <2> QED
    BY <1>1, <2>1, <2>2, <2>3, <2>4, NamedLayers DEF StreamInv, BeforeHello
<1>11. RetryInv'
  <2>1. /\ Holding(out', "HelloRetryRequest") = {Len(out) + 1}
        /\ Holding(out', "ServerHello") = {}
        /\ out'[Len(out) + 1].body[1] = hrr
    BY <1>1, <1>6, <1>7
  <2> QED
    BY <1>1, <1>2, <1>3, <1>4, <1>5, <2>1 DEF RetryInv, RetryIsHonoured, BeforeHello
<1>12. calls' = <<>> /\ \A what : ~Told(calls', what)
  BY <1>1 DEF CallsInv, BeforeHello, Told
<1>13. CallsInv'
  BY <1>1, <1>12 DEF CallsInv, EarlyDataIsGuarded, BeforeHello
<1>14. AuthInv'
  BY <1>1, <1>12 DEF AuthInv, ClientAuthEnforced, Over
<1>15. SkipInv'
  <2>1. read'.skip => ch.early
    BY <1>1, <1>5, NamedLayers
  <2>2. ch \in HellosSeen'
    BY <1>1, HellosOf, HelloIsSeen, HelloContextSeq
  <2> QED
    BY <1>1, <1>12, <2>1, <2>2 DEF SkipInv, SkippingIsJustified
<1>16. KeysInv'
  BY <1>1 DEF KeysInv
<1> QED
  BY <1>8, <1>9, <1>10, <1>11, <1>13, <1>14, <1>15, <1>16
-----------------------------------------------------------------------------
(* The flight.                                                             *)

FlightTypes == {"EncryptedExtensions", "CertificateRequest", "Certificate",
                "CompressedCertificate", "CertificateVerify", "Finished",
                "Front", "Back"}

LEMMA AuthenticationTypes ==
  ASSUME NEW t, NEW ch, NEW n
  PROVE  AllTypes(ServerAuthentication(t, ch, n), FlightTypes)
<1> DEFINE ee == EncryptedExtensions(n.alpn, n.early = "Accepted")
           request == IF RequestsClientAuth(n) THEN <<CertificateRequest>> ELSE <<>>
           certificate == IF ctx.compress /\ ch.compress
                          THEN CompressedCertificate("chain") ELSE Certificate("chain")
           upToCert == <<ee>> \o request \o <<certificate>>
           verify == CertificateVerify(t \o upToCert, "supported")
<1>1. /\ ee.type \in FlightTypes /\ certificate.type \in FlightTypes
      /\ verify.type \in FlightTypes /\ CertificateRequest.type \in FlightTypes
  BY DEF FlightTypes, EncryptedExtensions, CertificateRequest, CompressedCertificate,
         Certificate, CertificateVerify
<1>2. ServerAuthentication(t, ch, n) = IF n.resumed THEN <<ee>> ELSE Append(upToCert, verify)
  BY DEF ServerAuthentication
<1>3. AllTypes(request, FlightTypes)
  BY <1>1, AllTypesTuple
<1> HIDE DEF ee, request, certificate, verify, FlightTypes
<1>4. AllTypes(<<ee>>, FlightTypes) /\ AllTypes(<<certificate>>, FlightTypes)
  BY <1>1, AllTypesTuple
<1>5. AllTypes(<<ee>> \o request, FlightTypes)
  BY <1>3, <1>4, AllTypesConcat
<1>6. AllTypes(upToCert, FlightTypes)
  BY <1>4, <1>5, AllTypesConcat
<1> HIDE DEF upToCert
<1>7. AllTypes(Append(upToCert, verify), FlightTypes)
  BY <1>1, <1>6, AllTypesAppend
<1> QED
  BY <1>2, <1>4, <1>7

(* One record, or two with the numbers of the layer in order.              *)
LEMMA FlightIsRecords ==
  ASSUME NEW l, NEW ms, NEW large, AllTypes(ms, FlightTypes)
  PROVE  \E first, second :
           /\ AllTypes(first, FlightTypes) /\ AllTypes(second, FlightTypes)
           /\ \/ FlightRecords(l, ms, large) = <<Seal(l, first)>>
              \/ FlightRecords(l, ms, large) =
                   <<Seal(l, first), Seal(Sealed(l), second)>>
<1> DEFINE chains == {i \in DOMAIN ms :
                        ms[i].type \in {"Certificate", "CompressedCertificate"}}
           cut == CHOOSE i \in chains : TRUE
           first == Append(SubSeq(ms, 1, cut - 1), Front(ms[cut]))
           second == <<Back>> \o SubSeq(ms, cut + 1, Len(ms))
<1>1. CASE large /\ chains # {}
  <2>1. cut \in chains
    BY <1>1
  <2>2. cut \in 1 .. Len(ms) /\ Len(ms) \in Nat
    BY <2>1, IsSeqDomain DEF AllTypes
  <2>3. FlightRecords(l, ms, large) = <<Seal(l, first), Seal(Sealed(l), second)>>
    BY <1>1 DEF FlightRecords
  <2> HIDE DEF cut
  <2>4. Front(ms[cut]).type \in FlightTypes /\ Back.type \in FlightTypes
    BY DEF Front, Back, FlightTypes
  <2>5. AllTypes(SubSeq(ms, 1, cut - 1), FlightTypes)
    <3>1. 1 \in 1 .. Len(ms) + 1 /\ cut - 1 \in 1 - 1 .. Len(ms)
      BY <2>2
    <3> QED
      BY <3>1, AllTypesSubSeq
  <2>6. AllTypes(first, FlightTypes)
    BY <2>4, <2>5, AllTypesAppend
  <2>7. AllTypes(SubSeq(ms, cut + 1, Len(ms)), FlightTypes)
    <3>1. cut + 1 \in 1 .. Len(ms) + 1 /\ Len(ms) \in (cut + 1) - 1 .. Len(ms)
      BY <2>2
    <3> QED
      BY <3>1, AllTypesSubSeq
  <2>8. AllTypes(second, FlightTypes)
    BY <2>4, <2>7, AllTypesTuple, AllTypesConcat
  <2> HIDE DEF first, second
  <2> QED
    BY <2>3, <2>6, <2>8
<1>2. CASE ~(large /\ chains # {})
  <2>1. FlightRecords(l, ms, large) = <<Seal(l, ms)>>
    BY <1>2 DEF FlightRecords
  <2> QED
    BY <2>1
<1> QED
  BY <1>1, <1>2
(* The stream with the flight at its end.                                  *)
WithFlight(s, l, ms, large) == s \o FlightRecords(l, ms, large)

(* What it takes of a stream for the handshake to go on with it.           *)
HelloSent(u, s) ==
  /\ IsSeq(u) /\ NoncesDiffer(u) /\ Unended(u)
  /\ \A i \in DOMAIN u : u[i].key.level # "App"
  /\ \A i \in DOMAIN s : i \in DOMAIN u /\ u[i] = s[i]
  /\ \A type : type \notin FlightTypes => Holding(u, type) = Holding(s, type)

LEMMA HelloSentAppend ==
  ASSUME NEW u, NEW s, NEW l, NEW ms, HelloSent(u, s), Fresh(u, l), IsLayer(l),
         l.key.level = "Hs", AllTypes(ms, FlightTypes)
  PROVE  /\ HelloSent(Append(u, Seal(l, ms)), s)
         /\ Fresh(Append(u, Seal(l, ms)), Sealed(l))
         /\ IsLayer(Sealed(l)) /\ Sealed(l).key.level = "Hs"
<1> DEFINE r == Seal(l, ms)
           a == Append(u, r)
<1>1. /\ r.key = l.key /\ r.seq = l.seq
      /\ \A type : type \notin FlightTypes => ~HasType(r, type)
  BY SealBody
<1>2. "Alert" \notin FlightTypes /\ "CloseNotify" \notin FlightTypes
  BY DEF FlightTypes
<1>3. IsSeq(u) /\ DOMAIN u = 1 .. Len(u) /\ Len(u) \in Nat
  BY IsSeqDomain DEF HelloSent
<1> HIDE DEF r
<1>4. IsSeq(a) /\ NoncesDiffer(a) /\ Unended(a)
  BY <1>1, <1>2, SendRecord DEF HelloSent
<1>5. /\ Fresh(a, Sealed(l)) /\ IsLayer(Sealed(l)) /\ Sealed(l).key = l.key
  <2>1. Encrypts(l)
    BY DEF Encrypts
  <2> QED
    BY <1>1, <1>3, <2>1, StaysFresh
<1>6. \A type : type \notin FlightTypes => Holding(a, type) = Holding(s, type)
  BY <1>1, <1>3, HoldingAppend DEF HelloSent
<1>7. /\ DOMAIN a = 1 .. Len(u) + 1
      /\ \A i \in 1 .. Len(u) : a[i] = u[i]
      /\ a[Len(u) + 1] = r
  BY <1>3, AppendSeq
<1> HIDE DEF a
<1>8. \A i \in DOMAIN a : a[i].key.level # "App"
  <2>1. \A i \in 1 .. Len(u) + 1 : i \in 1 .. Len(u) \/ i = Len(u) + 1
    BY <1>3
  <2> QED
    BY <1>1, <1>3, <1>7, <2>1 DEF HelloSent
<1>9. \A i \in DOMAIN s : i \in DOMAIN a /\ a[i] = s[i]
  <2>1. \A i \in 1 .. Len(u) : i \in 1 .. Len(u) + 1
    BY <1>3
  <2> QED
    BY <1>3, <1>7, <2>1 DEF HelloSent
<1>10. HelloSent(a, s)
  BY <1>4, <1>6, <1>8, <1>9 DEF HelloSent
<1> QED
  BY <1>5, <1>10 DEF a, r

LEMMA FlightStream ==
  ASSUME NEW s, NEW l, NEW ms, NEW large, NEW u, PlainStream(s),
         IsLayer(l), l.key.level = "Hs", l.seq = 0, AllTypes(ms, FlightTypes),
         u = WithFlight(s, l, ms, large)
  PROVE  HelloSent(u, s)
<1>1. PICK first, second :
        /\ AllTypes(first, FlightTypes) /\ AllTypes(second, FlightTypes)
        /\ \/ FlightRecords(l, ms, large) = <<Seal(l, first)>>
           \/ FlightRecords(l, ms, large) = <<Seal(l, first), Seal(Sealed(l), second)>>
  BY FlightIsRecords
<1>2. IsSeq(s) /\ \A i \in DOMAIN s : s[i].key = PlainKey
  BY DEF PlainStream
<1>3. PlainKey.level = "Plain"
  BY NamedLayers
<1>4. Fresh(s, l)
  BY <1>2, <1>3 DEF Fresh
<1>5. HelloSent(s, s)
  BY <1>2, <1>3, PlainNonces DEF HelloSent, PlainStream
<1> DEFINE a == Append(s, Seal(l, first))
           b == Append(a, Seal(Sealed(l), second))
<1>6. HelloSent(a, s) /\ Fresh(a, Sealed(l)) /\ IsLayer(Sealed(l)) /\ Sealed(l).key.level = "Hs"
  BY <1>1, <1>4, <1>5, HelloSentAppend
<1>7. HelloSent(b, s)
  <2> HIDE DEF a
  <2> QED
    BY <1>1, <1>6, HelloSentAppend
<1>8. u = a \/ u = b
  <2> DEFINE r == Seal(l, first)
             q == Seal(Sealed(l), second)
  <2>1. s \o <<r>> = Append(s, r) /\ s \o <<r, q>> = Append(Append(s, r), q)
    <3> HIDE DEF r, q
    <3> QED
      BY <1>2, AppendAsConcat, ConcatTwo
  <2>2. u = s \o <<r>> \/ u = s \o <<r, q>>
    BY <1>1 DEF WithFlight
  <2> QED
    BY <2>1, <2>2
<1> HIDE DEF a, b
<1> QED
  BY <1>6, <1>7, <1>8

LEMMA SendFlightKeepsInv ==
  ASSUME Inv, state = "ExpectingClientHello", NEW svc, NEW ch, NEW n, NEW large,
         n = Negotiate(ch, svc), ch.type = "ClientHello",
         FirstHit(HelloChecks(ch, svc, n)) = "ok",
         SendFlight(ch, n, large)
  PROVE  Inv'
<1> DEFINE upToChlo == Append(HelloContext(ch), ch)
           sh == ServerHello(n.version, n.cipher, n.group, n.resumed, ch.session)
           t == UpToServerHello(ch, n)
           auth == ServerAuthentication(t, ch, n)
           fin == Finished(Digests(t, auth))
           done == Append(Digests(t, auth), Digest(fin))
           hsWrite == Layer(Key("Hs", "server", 0, t), FALSE)
           hs == HandshakeReadLayer(n, t)
           earlyRead == Layer(Key("Early", "client", 0, upToChlo), FALSE)
           hello == HelloRecords(sh, ch.session)
           all == hello \o FlightRecords(hsWrite, Append(auth, fin), large)
<1>1. /\ transcript' = done
      /\ sched' = [NoSecrets EXCEPT !.appCtx = done]
      /\ neg' = [f \in DOMAIN neg |->
                   IF f = "early" /\ neg.early # None THEN neg.early ELSE n[f]]
      /\ write' = Layer(Key("App", "server", 0, done), FALSE)
      /\ IF n.early = "Accepted" /\ ~ctx.omitEarly
         THEN read' = earlyRead /\ hsRead' = hs
         ELSE read' = hs /\ UNCHANGED hsRead
      /\ state' = AfterFlight(n)
      /\ IF n.early = "Accepted"
         THEN calls' = Append(calls, Call("EarlyHandshakeSuccess", 0))
         ELSE calls' = calls
      /\ UNCHANGED <<ctx, chain>>
  BY DEF SendFlight, Tell
<1> HIDE DEF upToChlo, sh, t, auth, fin, done, hsWrite, hs, earlyRead, hello, all
<1>2. IsSeq(HelloContext(ch)) /\ IsSeq(upToChlo)
  BY HelloContextSeq, AppendSeq DEF Inv, upToChlo
<1>3. IsSeq(t) /\ t[Len(t)] = sh /\ IsHelloOf(ch, t)
  <2>1. t = Append(upToChlo, sh)
    BY <1>2, ConcatTwo DEF UpToServerHello, t, sh, upToChlo
  <2>2. IsSeq(t) /\ t[Len(t)] = sh
    BY <1>2, <2>1, AppendSeq
  <2>3. IsHelloOf(ch, upToChlo)
    BY <1>2, HelloIsSeen DEF upToChlo
  <2> QED
    BY <1>2, <2>1, <2>2, <2>3, HellosStayAppend
<1>4. out' = all
  <2>1. out' = out \o <<Seal(write, <<t[Len(t)]>>)>>
                   \o (IF ch.session THEN <<CCS>> ELSE <<>>)
                   \o FlightRecords(hsWrite, Append(auth, fin), large)
    BY DEF SendFlight, t, hsWrite, auth, fin
  <2>2. hello = out \o <<Seal(write, <<t[Len(t)]>>)>>
                    \o (IF ch.session THEN <<CCS>> ELSE <<>>)
    BY <1>3 DEF HelloRecords, hello
  <2> QED
    BY <2>1, <2>2 DEF all
<1>5. /\ sh.type = "ServerHello" /\ sh.version = n.version
      /\ sh.cipher = n.cipher /\ sh.group = n.group
  BY DEF ServerHello, sh
<1>6. AllTypes(auth, FlightTypes) /\ AllTypes(Append(auth, fin), FlightTypes)
  <2>1. fin.type \in FlightTypes
    BY DEF Finished, FlightTypes, fin
  <2>2. AllTypes(auth, FlightTypes)
    BY AuthenticationTypes DEF auth
  <2> QED
    BY <2>1, <2>2, AllTypesAppend
<1>7. IsSeq(done) /\ IsHelloOf(ch, done)
  <2>1. /\ IsSeq(Digests(t, auth))
        /\ \A i \in DOMAIN t : i \in DOMAIN Digests(t, auth) /\ Digests(t, auth)[i] = t[i]
    BY <1>3, <1>6, DigestsSeq DEF AllTypes
  <2>2. IsHelloOf(ch, Digests(t, auth))
    BY <1>3, <2>1 DEF IsHelloOf
  <2> QED
    BY <2>1, <2>2, AppendSeq, HellosStayAppend DEF done
<1>8. /\ IsLayer(hs) /\ HasLayer(hs) /\ hs.skip = (n.early = "Rejected")
      /\ IsLayer(earlyRead) /\ HasLayer(earlyRead) /\ earlyRead.skip = FALSE
      /\ earlyRead.key.level = "Early"
  <2>1. /\ Key("Hs", "client", 0, t).level = "Hs"
        /\ Key("Early", "client", 0, upToChlo).level = "Early"
    BY DEF Key
  <2>2. /\ IsLayer(hs) /\ hs.key = Key("Hs", "client", 0, t)
        /\ hs.skip = (n.early = "Rejected")
    BY NewLayer DEF HandshakeReadLayer, hs
  <2>3. /\ IsLayer(earlyRead) /\ earlyRead.key = Key("Early", "client", 0, upToChlo)
        /\ earlyRead.skip = FALSE
    BY NewLayer DEF earlyRead
  <2> QED
    BY <2>1, <2>2, <2>3 DEF HasLayer
<1>9. /\ Key("Hs", "server", 0, t).level = "Hs"
      /\ hsWrite = Layer(Key("Hs", "server", 0, t), FALSE)
  BY DEF Key, hsWrite
<1>a. hello = HelloRecords(sh, ch.session)
  BY DEF hello
<1>10. /\ PlainStream(hello) /\ Len(out) \in Nat
       /\ \A i \in DOMAIN out : i \in DOMAIN hello /\ hello[i] = out[i]
       /\ Len(out) + 1 \in DOMAIN hello
       /\ hello[Len(out) + 1].body[1] = sh
       /\ Holding(hello, "ServerHello") = Holding(out, "ServerHello") \cup {Len(out) + 1}
       /\ Holding(hello, "HelloRetryRequest") = Holding(out, "HelloRetryRequest")
  <2>1. sh.type \in {"HelloRetryRequest", "ServerHello"}
    BY <1>5
  <2>2. /\ PlainStream(hello) /\ Len(out) \in Nat
        /\ \A i \in DOMAIN out : i \in DOMAIN hello /\ hello[i] = out[i]
        /\ Len(out) + 1 \in DOMAIN hello
        /\ hello[Len(out) + 1].body[1] = sh
        /\ Holding(hello, sh.type) = Holding(out, sh.type) \cup {Len(out) + 1}
        /\ \A type : type # sh.type => Holding(hello, type) = Holding(out, type)
    BY <1>a, <2>1, HelloRecordsFacts
  <2> QED
    BY <1>5, <2>2
<1>11. /\ IsSeq(all) /\ NoncesDiffer(all) /\ Unended(all)
       /\ \A i \in DOMAIN all : all[i].key.level # "App"
       /\ \A i \in DOMAIN hello : i \in DOMAIN all /\ all[i] = hello[i]
       /\ \A type : type \notin FlightTypes => Holding(all, type) = Holding(hello, type)
  <2>1. all = WithFlight(hello, hsWrite, Append(auth, fin), large)
    BY DEF all, WithFlight
  <2>2. IsLayer(hsWrite) /\ hsWrite.seq = 0 /\ hsWrite.key.level = "Hs"
    BY <1>9 DEF Layer, IsLayer
  <2>3. HelloSent(all, hello)
    BY <1>6, <1>10, <2>1, <2>2, FlightStream
  <2> QED
    BY <2>3 DEF HelloSent
<1> USE DEF Inv
<1>12. /\ Holding(out', "HelloRetryRequest") = Holding(out, "HelloRetryRequest")
       /\ Holding(out', "ServerHello") = {Len(out) + 1}
       /\ out'[Len(out) + 1].body[1] = sh
       /\ \A i \in DOMAIN out : i \in DOMAIN out' /\ out'[i] = out[i]
  <2>1. "ServerHello" \notin FlightTypes /\ "HelloRetryRequest" \notin FlightTypes
    BY DEF FlightTypes
  <2> QED
    BY <1>4, <1>10, <1>11, <2>1 DEF RetryInv, BeforeHello
<1>13. /\ state' \in {"AcceptingEarlyData", "ExpectingCertificate", "ExpectingFinished"}
       /\ state' = "AcceptingEarlyData" <=> n.early = "Accepted" /\ ~ctx.omitEarly
       /\ state' = "ExpectingFinished" =>
            n.early = "Accepted" \/ ctx.clientAuth = "None" \/ n.resumed
  BY <1>1 DEF AfterFlight, RequestsClientAuth
<1>14. /\ IsSeq(calls')
       /\ \A what : Told(calls', what) <=> n.early = "Accepted" /\ what = "EarlyHandshakeSuccess"
  <2>1. calls = <<>> /\ \A what : ~Told(calls, what)
    BY DEF CallsInv, BeforeHello, Told
  <2> QED
    BY <1>1, <2>1, ToldStep DEF TypeInv
<1>15. /\ sched' = [appCtx |-> done, clientGen |-> 0, serverGen |-> 0]
  BY <1>1 DEF NoSecrets
<1>16. /\ IsLayer(write') /\ HasLayer(write') /\ write'.seq = 0
       /\ write'.key = AppKeyNow' /\ write'.key.level = "App"
  <2>1. AppKeyNow' = Key("App", "server", 0, done)
    BY <1>15 DEF AppKeyNow
  <2>2. IsLayer(write') /\ write'.seq = 0 /\ write'.key = Key("App", "server", 0, done)
    <3>1. write' = Layer(Key("App", "server", 0, done), FALSE)
      BY <1>1
    <3> QED
      BY <3>1 DEF Layer, IsLayer
  <2>3. Key("App", "server", 0, done).level = "App"
    BY DEF Key
  <2> QED
    BY <2>1, <2>2, <2>3 DEF HasLayer
<1>17. /\ n.early = "Accepted" =>
            /\ ctx.acceptEarly /\ n.resumed /\ n.replay = "NotReplay"
            /\ neg.kex # "HelloRetryRequest"
       /\ n.early = "Rejected" => ch.early
       /\ n.resumed => n.pskType = "Resumption"
  BY NegotiateFacts
<1>18. /\ DOMAIN neg' = NegFields /\ neg'.replay = n.replay /\ neg'.pskType = n.pskType
       /\ neg.early = None => neg'.early = n.early
  BY <1>1 DEF TypeInv, NegFields
<1>19. /\ ~Differs(neg.version, n.version) /\ ~Differs(neg.cipher, n.cipher)
       /\ ~Differs(neg.group, n.group)
  BY HelloNegotiated
<1>b. /\ IsLayer(read') /\ HasLayer(read') /\ IsLayer(hsRead')
      /\ state' = "AcceptingEarlyData" => HasLayer(hsRead')
  BY <1>1, <1>8, <1>13 DEF TypeInv
<1>20. TypeInv'
  <2>1. IsSeq(out') /\ IsSeq(transcript')
    BY <1>1, <1>4, <1>7, <1>11
  <2>2. /\ sched' = [appCtx |-> sched'.appCtx, clientGen |-> sched'.clientGen,
                     serverGen |-> sched'.serverGen]
        /\ sched'.serverGen \in Nat
    BY <1>15
  <2>3. state' \in States
    BY <1>13 DEF States
  <2> QED
    BY <1>14, <1>16, <1>18, <1>b, <2>1, <2>2, <2>3 DEF TypeInv
<1>21. LayersInv'
  BY <1>13, <1>14, <1>16, <1>b DEF LayersInv
<1>22. StreamInv'
  <2>1. NothingAfterAlert(out')
    BY <1>4, <1>11 DEF NothingAfterAlert, Unended
  <2>2. Fresh(out', write')
    BY <1>4, <1>11, <1>16 DEF Fresh
  <2> QED
    BY <1>4, <1>11, <1>13, <1>16, <2>1, <2>2 DEF StreamInv, BeforeHello
<1>23. RetryInv'
  <2>1. ASSUME NEW i \in Holding(out', "HelloRetryRequest")
        PROVE  /\ Holding(out', "HelloRetryRequest") = {i}
               /\ LET hrr == out'[i].body[1]
                  IN <<hrr.version, hrr.cipher, hrr.group>> =
                       <<n.version, n.cipher, n.group>>
    <3>1. i \in Holding(out, "HelloRetryRequest") /\ out'[i] = out[i]
      BY <1>12, <2>1 DEF Holding
    <3>2. /\ Holding(out, "HelloRetryRequest") = {i}
          /\ LET hrr == out[i].body[1]
             IN <<hrr.version, hrr.cipher, hrr.group>> =
                  <<neg.version, neg.cipher, neg.group>>
          /\ neg.group # None /\ neg.version # None /\ neg.cipher # None
      BY <3>1 DEF RetryInv, RetryIsHonoured, BeforeHello
    <3> QED
      BY <1>12, <1>19, <3>1, <3>2 DEF Differs
  <2>2. RetryIsHonoured'
    BY <1>5, <1>12, <2>1 DEF RetryIsHonoured
  <2> QED
    BY <1>13, <2>2 DEF RetryInv, BeforeHello
<1>24. CallsInv'
  <2>1. EarlyDataIsGuarded'
    <3>1. \A i \in DOMAIN calls' : calls'[i].type # "Deliver"
      BY <1>14 DEF Told
    <3> QED
      BY <3>1 DEF EarlyDataIsGuarded
  <2>2. n.early = "Accepted" => EarlyAllowed'
    BY <1>1, <1>12, <1>17, <1>18 DEF EarlyAllowed, RetryInv, BeforeHello
  <2> QED
    BY <1>13, <1>14, <2>1, <2>2 DEF CallsInv, BeforeHello
<1>25. AuthInv'
  BY <1>1, <1>13, <1>14, <1>17, <1>18
     DEF AuthInv, ClientAuthEnforced, ClientTrusted, Over
<1>26. SkipInv'
  <2>1. ch \in HellosSeen'
    BY <1>1, <1>7, HellosOf
  <2> QED
    BY <1>1, <1>8, <1>14, <1>17, <2>1 DEF SkipInv, SkippingIsJustified
<1>27. KeysInv'
  BY <1>1, <1>8, <1>13 DEF KeysInv
<1> QED
  BY <1>20, <1>21, <1>22, <1>23, <1>24, <1>25, <1>26, <1>27
LEMMA ClientHelloKeepsInv ==
  ASSUME Inv, NEW svc, HandleClientHello(svc)
  PROVE  Inv'
<1> DEFINE ch == ev.msg
           n == Negotiate(ch, svc)
           hit == FirstHit(HelloChecks(ch, svc, n))
<1>0. state = "ExpectingClientHello" /\ ch.type = "ClientHello"
  BY DEF HandleClientHello, Event
<1>1. /\ hit = "ok" => SendFlight(ch, n, svc.large)
      /\ hit = "retry" => Retry(ch, n)
      /\ hit = "fallback" => VersionFallback
      /\ hit \notin {"ok", "retry", "fallback"} => HandleError(hit)
  BY DEF HandleClientHello
<1>n. n = Negotiate(ch, svc) /\ hit = FirstHit(HelloChecks(ch, svc, n))
  OBVIOUS
<1> HIDE DEF ch, n, hit
<1>2. CASE hit = "ok"
  BY <1>0, <1>1, <1>2, <1>n, SendFlightKeepsInv
<1>3. CASE hit = "retry"
  BY <1>0, <1>1, <1>3, <1>n, RetryKeepsInv
<1>4. CASE hit = "fallback"
  BY <1>0, <1>1, <1>4, VersionFallbackKeepsInv
<1>5. CASE hit \notin {"ok", "retry", "fallback"}
  BY <1>0, <1>1, <1>5, ErrorKeepsInv DEF Live
<1> QED
  BY <1>2, <1>3, <1>4, <1>5

LEMMA StepKeepsInv ==
  ASSUME Inv, AnyStep
  PROVE  Inv'
<1>1. CASE Accept
  BY <1>1, AcceptKeepsInv
<1>2. CASE PeerEvent
  <2>1. CASE UnexpectedEvent
    BY <2>1, ErrorKeepsInv DEF UnexpectedEvent, HandleInvalidEvent
  <2>2. CASE BadRecord \/ NoRecordLayer
    BY <2>2, ErrorKeepsInv DEF BadRecord, NoRecordLayer
  <2>3. CASE RecordWithoutEvent
    BY <2>3, RecordWithoutEventKeepsInv
  <2>4. ASSUME NEW svc \in Services, HandleClientHello(svc) PROVE Inv'
    BY <2>4, ClientHelloKeepsInv
  <2>5. CASE HandleAppData
    BY <2>5, AppDataKeepsInv
  <2>6. CASE HandleEndOfEarlyData
    BY <2>6, EndOfEarlyDataKeepsInv
  <2>7. CASE HandleCertificate
    BY <2>7, CertificateKeepsInv
  <2>8. ASSUME NEW trusted \in Verdicts, HandleCertificateVerify(trusted) PROVE Inv'
    BY <2>8, CertificateVerifyKeepsInv
  <2>9. ASSUME NEW result \in TicketResults, HandleFinished(result) PROVE Inv'
    BY <2>9, FinishedKeepsInv
  <2>10. CASE HandleKeyUpdate
    BY <2>10, KeyUpdateKeepsInv
  <2>11. CASE HandleCloseNotify
    BY <2>11, CloseNotifyKeepsInv
  <2> QED
    BY <1>2, <2>1, <2>2, <2>3, <2>4, <2>5, <2>6, <2>7, <2>8, <2>9, <2>10, <2>11
       DEF PeerEvent
<1>3. CASE AppEvent
  BY <1>3, AppEventKeepsInv
<1>4. CASE UNCHANGED <<ctx, state, read, write, hsRead, neg, transcript, sched, cert,
                       chain, out, calls, written, asked>>
  BY <1>4, StutterKeepsInv
<1> QED
  BY <1>1, <1>2, <1>3, <1>4 DEF AnyStep
-----------------------------------------------------------------------------
(* A server with a peer and a network that do as they like.                *)
AnyPeer == Init /\ [][AnyStep]_vars

(***************************************************************************)
(* The peer of module ServerWithPeer, and the bounds on it, are a special  *)
(* case: what holds of a server whose unread input may change at any time  *)
(* holds of the one TLC runs.                                              *)
(***************************************************************************)
THEOREM PeerIsAny == Spec => AnyPeer
<1>1. [Next]_<<vars, sent>> => [AnyStep]_vars
  BY DEF Next, AnyStep, PeerSends, vars
<1> QED
  BY <1>1, PTL DEF Spec, AnyPeer

(***************************************************************************)
(* The inductive invariant holds in every state of every run of            *)
(* ServerProtocol::processSocketData and the application's requests.       *)
(***************************************************************************)
THEOREM InvHolds == AnyPeer => []Inv
<1>1. Init => Inv
  BY InitInv
<1>2. Inv /\ [AnyStep]_vars => Inv'
  BY StepKeepsInv, StutterKeepsInv DEF vars
<1> QED
  BY <1>1, <1>2, PTL DEF AnyPeer

(***************************************************************************)
(* No two records are sealed with one key and number, an alert is the last *)
(* thing a server sends, and a machine has exactly the record layers its   *)
(* state calls for: for every configuration, every ClientHello and every   *)
(* sequence of records, requests, tickets and key updates.                 *)
(***************************************************************************)
THEOREM ServerWritesAreSound == Spec => []WritesAreSound
<1>1. Inv => WritesAreSound
  BY DEF Inv, WritesAreSound, NoncesAreFresh, AlertIsLast, StreamInv, LayersInv
<1> QED
  BY <1>1, InvHolds, PeerIsAny, PTL

(***************************************************************************)
(* One HelloRetryRequest at most, and the ServerHello after it selects the *)
(* version, cipher suite and group that it announced.                      *)
(***************************************************************************)
THEOREM ServerHonoursRetry == Spec => []RetryIsHonoured
<1>1. Inv => RetryIsHonoured
  BY DEF Inv, RetryInv
<1> QED
  BY <1>1, InvHolds, PeerIsAny, PTL

(***************************************************************************)
(* No data reaches the application before the handshake is complete but    *)
(* early data that this server accepts, from a ticket that resumed the     *)
(* session, which the replay cache let pass and no retry preceded.         *)
(***************************************************************************)
THEOREM ServerGuardsEarlyData == Spec => []EarlyDataIsGuarded
<1>1. Inv => EarlyDataIsGuarded
  BY DEF Inv, CallsInv
<1> QED
  BY <1>1, InvHolds, PeerIsAny, PTL

(***************************************************************************)
(* A handshake that requires client authentication completes only with a   *)
(* verified certificate or a resumed session, none with an unverified one. *)
(***************************************************************************)
THEOREM ServerEnforcesClientAuth == Spec => []ClientAuthEnforced
<1>1. Inv => ClientAuthEnforced
  BY DEF Inv, AuthInv
<1> QED
  BY <1>1, InvHolds, PeerIsAny, PTL

(***************************************************************************)
(* Records that do not open are skipped only for a client that offered     *)
(* early data, which was not accepted, and while the handshake runs.       *)
(***************************************************************************)
THEOREM ServerSkippingIsJustified == Spec => []SkippingIsJustified
<1>1. Inv => SkippingIsJustified
  BY DEF Inv, SkipInv
<1> QED
  BY <1>1, InvHolds, PeerIsAny, PTL

(***************************************************************************)
(* What a step delivers to the application came from a record under the    *)
(* early key before the handshake is complete and under an application key *)
(* after it, for every step of the server.                                 *)
(***************************************************************************)
THEOREM ServerDataUnderDataKeys == Spec => DataUnderDataKeys
<1> DEFINE Delivers == calls' # calls /\ calls'[Len(calls')].type = "Deliver"
           UnderDataKey == read.key.level = IF Told(calls, "HandshakeSuccess")
                                            THEN "App" ELSE "Early"
<1>1. ASSUME Inv, [AnyStep]_vars, Delivers PROVE UnderDataKey
  <2>1. ASSUME NEW w, NEW d, calls' = Append(calls, Call(w, d)) PROVE w = "Deliver"
    <3>1. /\ Len(calls') = Len(calls) + 1 /\ calls'[Len(calls) + 1] = Call(w, d)
      BY <2>1, <1>1, AppendSeq DEF Inv, TypeInv
    <3> QED
      BY <1>1, <3>1 DEF Call
  <2>2. \A w : w # "Deliver" => ~Tell(w)
    BY <2>1 DEF Tell
  <2>3. \A description : ~HandleError(description)
    BY <2>2 DEF HandleError
  <2>4. HandleAppData
    <3>1. ~UNCHANGED calls
      BY <1>1
    <3>2. AnyStep
      BY <1>1, <3>1 DEF vars
    <3>3. ~Accept
      BY <3>1 DEF Accept
    <3>4. ~AppEvent
      BY <2>3, <3>1 DEF AppEvent, WriteNewSessionTicket, AppWrite, EarlyAppWrite,
           InitiateKeyUpdate, AppClose, AppCloseImmediate, HandleInvalidEvent
    <3>5. PeerEvent
      BY <3>1, <3>2, <3>3, <3>4 DEF AnyStep
    <3>6. ~UnexpectedEvent /\ ~BadRecord /\ ~NoRecordLayer /\ ~RecordWithoutEvent
      BY <2>3, <3>1 DEF UnexpectedEvent, BadRecord, NoRecordLayer, RecordWithoutEvent,
           HandleInvalidEvent
    <3>7. ASSUME NEW svc, HandleClientHello(svc) PROVE FALSE
      BY <2>2, <2>3, <3>1, <3>7 DEF HandleClientHello, SendFlight, Retry, VersionFallback
    <3>8. ~HandleEndOfEarlyData /\ ~HandleCertificate /\ ~HandleKeyUpdate
      BY <2>3, <3>1 DEF HandleEndOfEarlyData, HandleCertificate, HandleKeyUpdate
    <3>9. /\ \A trusted : ~HandleCertificateVerify(trusted)
          /\ \A result : ~HandleFinished(result)
          /\ ~HandleCloseNotify
      BY <2>2, <2>3, <3>1 DEF HandleCertificateVerify, HandleFinished, HandleCloseNotify
    <3> QED
      BY <3>5, <3>6, <3>7, <3>8, <3>9 DEF PeerEvent
  <2>5. state \in {"AcceptingEarlyData", "AcceptingData"}
    BY <2>4 DEF HandleAppData, Event
  <2> QED
    BY <1>1, <2>5 DEF Inv, KeysInv, CallsInv
<1>2. Inv /\ [AnyStep]_vars => [Delivers => UnderDataKey]_vars
  BY <1>1
<1> QED
  BY <1>2, InvHolds, PeerIsAny, PTL DEF AnyPeer, DataUnderDataKeys
=============================================================================
