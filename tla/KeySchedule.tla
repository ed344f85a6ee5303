---------------------------- MODULE KeySchedule ----------------------------
(***************************************************************************)
(* The key schedule (protocol/KeyScheduler.cpp, crypto/KeyDerivation.cpp,  *)
(* protocol/Exporter.cpp) as the two ends of one connection drive it, each *)
(* with a scheduler and a transcript of its own.  A server that answers    *)
(* without state gets its transcript back from the client's cookie.  A     *)
(* secret is the term that it was computed by; HKDF and the hash are taken *)
(* to have no collisions.                                                  *)
(***************************************************************************)
EXTENDS Cookies, FiniteSets

CONSTANTS
  KeySetups,        \* what the two ends offer and choose
  MaxKeyUpdates,    \* of either direction
  TicketNonces      \* of tickets; this server's is always empty

(* A handshake without a key share has a PSK; early data is accepted only  *)
(* when there was no retry.                                                *)
ASSUME KeySetupsAssumption ==
  /\ None \notin {"EarlySecret", "HandshakeSecret", "MasterSecret"}
  /\ \A s \in KeySetups :
       /\ s.accept \in BOOLEAN /\ s.ecdhe \in BOOLEAN /\ s.early \in BOOLEAN
       /\ s.earlyAccepted \in BOOLEAN /\ s.otherServer \in BOOLEAN
       /\ ~s.ecdhe => s.accept
       /\ s.earlyAccepted => s.retry = "none"

VARIABLE ks         \* the connection, or None

HashLength == 32
EchConfirmation == 8

(* Key derivation: a term for every extract and every expand.              *)
Extract(salt, ikm) ==
  [op |-> "extract", from |-> salt, label |-> "", ctx |-> ikm, len |-> HashLength]
ExpandLabel(secret, label, ctx, len) ==
  [op |-> "expand", from |-> secret, label |-> label, ctx |-> ctx, len |-> len]
Blank == <<"blank">>
DeriveSecret(secret, label, transcript) == ExpandLabel(secret, label, transcript, HashLength)

Zeros == <<"zeros">>
NewScheduler == [type |-> None, secret |-> None, app |-> None, err |-> None]
WithSecret(sch, type, secret) == [sch EXCEPT !.type = type, !.secret = secret]
Fails(sch, how) == [sch EXCEPT !.err = how]

-----------------------------------------------------------------------------
(* The scheduler.                                                          *)
DeriveEarlySecret(sch, psk) ==
  IF sch.type # None THEN Fails(sch, "throws")
  ELSE WithSecret(sch, "EarlySecret", Extract(None, psk))

Chained(secret, ikm) == Extract(DeriveSecret(secret, "derived", Blank), ikm)

(* *secret_->asEarlySecret() of anything else is not defined.              *)
DeriveHandshakeSecret(sch) ==
  IF sch.type # "EarlySecret" THEN Fails(sch, "undefined")
  ELSE WithSecret(sch, "HandshakeSecret", Chained(sch.secret, Zeros))

DeriveHandshakeSecretEcdhe(sch, ecdhe) ==
  IF sch.type \notin {None, "EarlySecret"} THEN Fails(sch, "throws")
  ELSE WithSecret(sch, "HandshakeSecret",
         Chained(IF sch.type = None THEN Extract(None, Zeros) ELSE sch.secret, ecdhe))

DeriveMasterSecret(sch) ==
  IF sch.type # "HandshakeSecret" THEN Fails(sch, "throws")
  ELSE WithSecret(sch, "MasterSecret", Chained(sch.secret, Zeros))

DeriveAppTrafficSecrets(sch, transcript) ==
  IF sch.type # "MasterSecret" THEN Fails(sch, "undefined")
  ELSE [sch EXCEPT !.app =
         [client |-> DeriveSecret(sch.secret, "c ap traffic", transcript), clientGeneration |-> 0,
          server |-> DeriveSecret(sch.secret, "s ap traffic", transcript), serverGeneration |-> 0]]

ClearMasterSecret(sch) ==
  IF sch.type # "MasterSecret" THEN Fails(sch, "throws") ELSE WithSecret(sch, None, None)

Updated(secret) == ExpandLabel(secret, "traffic upd", <<>>, HashLength)

ClientKeyUpdate(sch) ==
  [sch EXCEPT !.app.client = Updated(@), !.app.clientGeneration = @ + 1]

(* Mutant: the client's secret is where the server's starts from.          *)
ServerKeyUpdateMutant(sch) ==
  [sch EXCEPT !.app.server = Updated(sch.app.client), !.app.serverGeneration = @ + 1]

ServerKeyUpdate(sch) ==
  [sch EXCEPT !.app.server = Updated(@), !.app.serverGeneration = @ + 1]

(* None: the scheduler is not in the state that has this secret.           *)
EarlySecrets ==
  [ExternalPskBinder |-> "ext binder", ResumptionPskBinder |-> "res binder",
   ClientEarlyTraffic |-> "c e traffic", EarlyExporter |-> "e exp master",
   ECHAcceptConfirmation |-> "ech accept confirmation",
   HRRECHAcceptConfirmation |-> "hrr ech accept confirmation"]
GetEarlySecret(sch, s, transcript) ==
  IF sch.type # "EarlySecret" THEN None
  ELSE ExpandLabel(sch.secret, EarlySecrets[s], transcript,
         IF s \in {"ECHAcceptConfirmation", "HRRECHAcceptConfirmation"} THEN EchConfirmation ELSE HashLength)

HandshakeSecrets ==
  [ClientHandshakeTraffic |-> "c hs traffic", ServerHandshakeTraffic |-> "s hs traffic",
   ECHAcceptConfirmation |-> "ech accept confirmation"]
GetHandshakeSecret(sch, s, transcript) ==
  IF sch.type # "HandshakeSecret" THEN None
  ELSE ExpandLabel(sch.secret, HandshakeSecrets[s], transcript,
         IF s = "ECHAcceptConfirmation" THEN EchConfirmation ELSE HashLength)

MasterSecrets == [ExporterMaster |-> "exp master", ResumptionMaster |-> "res master"]
GetMasterSecret(sch, s, transcript) ==
  IF sch.type # "MasterSecret" THEN None
  ELSE DeriveSecret(sch.secret, MasterSecrets[s], transcript)

GetAppSecret(sch, side) == IF sch.app = None THEN None ELSE sch.app[side]
Generation(sch, side) ==
  IF side = "client" THEN sch.app.clientGeneration ELSE sch.app.serverGeneration

GetResumptionSecret(master, nonce) == ExpandLabel(master, "resumption", nonce, HashLength)

TrafficKey(secret) ==
  [key |-> ExpandLabel(secret, "key", <<>>, 16), iv |-> ExpandLabel(secret, "iv", <<>>, 12)]

GetExportedKeyingMaterial(master, label, context) ==
  IF master = None THEN None
  ELSE ExpandLabel(DeriveSecret(master, label, Blank), "exporter",
                   <<"hash">> \o (IF context = None THEN <<>> ELSE context), HashLength)

-----------------------------------------------------------------------------
(* The two ends.  got holds what an end has taken out of its schedulers:   *)
(* for what it is used, of which generation, and the secret.               *)
Holds(use, gen, secret) == [use |-> use, gen |-> gen, secret |-> secret]
NewEnd == [sch |-> NewScheduler, transcript |-> <<>>, got |-> {}]

TokenSecret(n) == [id |-> n, length |-> 32]
CookieContexts == <<"cookie">>

KeyScheduleInit ==
  \E setup \in KeySetups :
    ks = [setup |-> setup, at |-> "start", binder |-> None, hrr |-> None,
          secrets |-> <<TokenSecret(1)>>, client |-> NewEnd, server |-> NewEnd]

Sees(end, messages) == [end EXCEPT !.transcript = @ \o messages]
Got(end, holds) == [end EXCEPT !.got = @ \cup holds]
Runs(end, sch) == [end EXCEPT !.sch = sch]

(* The binder is over what precedes it: the transcript and the hello.      *)
BinderType(setup) ==
  IF setup.psk = "External" THEN "ExternalPskBinder" ELSE "ResumptionPskBinder"
PskBinder(setup, sch, end) ==
  [key |-> GetEarlySecret(sch, BinderType(setup), Blank), over |-> end.transcript \o <<"prefix">>]

(* encodeAndAddBinders; the scheduler it is given is dropped afterwards.   *)
EncodeWithBinders(setup, end, sch, hello, early) ==
  Got(Sees(end, <<hello>>),
    {Holds("binder", 0, PskBinder(setup, sch, end).key)} \cup
    IF ~early THEN {}
    ELSE {Holds("early", 0, GetEarlySecret(sch, "ClientEarlyTraffic", end.transcript \o <<hello>>)),
          Holds("early exporter", 0, GetEarlySecret(sch, "EarlyExporter", end.transcript \o <<hello>>))})

SentBinder(setup, end) == PskBinder(setup, DeriveEarlySecret(NewScheduler, <<"psk">>), end)

ClientSendsHello ==
  /\ ks.at = "start"
  /\ ks' = [ks EXCEPT !.at = "hello",
       !.binder = SentBinder(ks.setup, ks.client),
       !.client = IF ks.setup.psk = None THEN Sees(@, <<"ClientHello">>)
                  ELSE EncodeWithBinders(ks.setup, @, DeriveEarlySecret(NewScheduler, <<"psk">>),
                                           "ClientHello", ks.setup.early)]

(* What the first hello offers, and two servers of one name: the other one *)
(* prefers the other cipher.                                               *)
FirstHello(setup) ==
  [versions |-> {"tls_1_3"}, ciphers |-> {"c1", "c2"}, groups |-> {"g1", "g2"},
   shares |-> IF setup.share THEN {"g1"} ELSE {"g2"}]
ServerConfig(other) ==
  [versions |-> <<"tls_1_3">>, ciphers |-> IF other THEN <<"c2", "c1">> ELSE <<"c1", "c2">>,
   groups |-> <<"g1", "g2">>]

(* A retry replaces the first hello by its hash, in both transcripts.      *)
Retried(hello, hrr) == <<"message_hash", hello, hrr>>

StatefulRetry ==
  /\ ks.at = "hello" /\ ks.setup.retry = "stateful"
  /\ \E hrr \in {[version |-> "tls_1_3", cipher |-> "c1", group |-> "g1", cookie |-> None]} :
       ks' = [ks EXCEPT !.at = "retry", !.hrr = hrr,
                !.server.transcript = Retried(FirstHello(ks.setup), hrr)]

(* getStatelessResponse: all that is kept goes into the cookie.            *)
GetStatelessResponse(config, hello, secrets) ==
  LET state == CookieState(config, hello, <<"app token">>)
      cookie == TokenEncrypt(secrets, CookieContexts, EncodeCookie(state))
  IN IF CookieFails(config, hello) \/ cookie = None THEN None ELSE StatelessRetry(state, cookie)

AnswerWithoutState ==
  /\ ks.at = "hello" /\ ks.setup.retry = "stateless"
  /\ \E hrr \in {GetStatelessResponse(ServerConfig(FALSE), FirstHello(ks.setup), ks.secrets)} :
       hrr # None /\ ks' = [ks EXCEPT !.at = "retry", !.hrr = hrr]

(* The server's token secrets change while the client has the cookie; a    *)
(* secret that is too short is refused.                                    *)
RotateTokenSecrets ==
  \E secrets \in {<<TokenSecret(2), TokenSecret(1)>>, <<TokenSecret(2)>>, <<[id |-> 3, length |-> 16]>>} :
    /\ ks.at = "retry" /\ ks.setup.retry = "stateless"
    /\ ks.secrets = <<TokenSecret(1)>>
    /\ ks' = [ks EXCEPT !.secrets = SetSecrets(@, secrets)]

(* The client tries its PSK again when its hash is the new cipher's.       *)
SecondHello ==
  /\ ks.at = "retry"
  /\ \E transcript \in {Retried(FirstHello(ks.setup), ks.hrr)} :
       ks' = [ks EXCEPT !.at = "second hello",
         !.binder = SentBinder(ks.setup, [ks.client EXCEPT !.transcript = transcript]),
         !.client =
           LET end == [@ EXCEPT !.transcript = transcript]
           IN IF ks.setup.psk = None \/ ks.setup.otherHash THEN Sees(end, <<"ClientHello">>)
              ELSE EncodeWithBinders(ks.setup, end, DeriveEarlySecret(NewScheduler, <<"psk">>),
                                     "ClientHello", FALSE)]

(* getCookieState and verifyCookieState: a cookie that does not open, or   *)
(* that says otherwise than what is negotiated now, ends the handshake.    *)
GetCookieState(secrets, hrr) ==
  LET plaintext == TokenDecrypt(secrets, CookieContexts, hrr.cookie)
  IN IF plaintext = None THEN None ELSE DecodeCookie(plaintext)

VerifyCookieState(state, config, hello) ==
  /\ state.version = Negotiate(config.versions, hello.versions)
  /\ state.cipher = Negotiate(config.ciphers, hello.ciphers)
  /\ state.group \in {None, Negotiate(config.groups, hello.groups)}

CookieIsGood ==
  LET state == GetCookieState(ks.secrets, ks.hrr)
  IN state # None /\ VerifyCookieState(state, ServerConfig(ks.setup.otherServer), FirstHello(ks.setup))

CookieIsRefused ==
  /\ ks.at = "second hello" /\ ks.setup.retry = "stateless"
  /\ ~CookieIsGood
  /\ ks' = [ks EXCEPT !.at = "failed"]

(* The transcript that the second hello continues.                         *)
RestoredContext ==
  IF ks.setup.retry # "stateless" THEN ks.server
  ELSE LET state == GetCookieState(ks.secrets, ks.hrr)
       IN [ks.server EXCEPT !.transcript = Retried(state.chloHash, StatelessRetry(state, ks.hrr.cookie))]

(* setupSchedulerAndContext: the server checks the binder it expects.      *)
SetupSchedulerAndContext(setup, end, binder) ==
  IF ~setup.accept THEN Runs(Sees(end, <<"ClientHello">>), NewScheduler)
  ELSE IF binder # SentBinder(setup, end) THEN Runs(end, Fails(NewScheduler, "binder does not match"))
  ELSE Runs(EncodeWithBinders(setup, end, DeriveEarlySecret(NewScheduler, <<"psk">>),
                                "ClientHello", setup.earlyAccepted),
            DeriveEarlySecret(NewScheduler, <<"psk">>))

DeriveHandshake(setup, end) ==
  Runs(end, IF setup.ecdhe THEN DeriveHandshakeSecretEcdhe(end.sch, <<"dh">>)
            ELSE DeriveHandshakeSecret(end.sch))

HandshakeKeys(end) ==
  Got(end, {Holds("client handshake", 0, GetHandshakeSecret(end.sch, "ClientHandshakeTraffic", end.transcript)),
            Holds("server handshake", 0, GetHandshakeSecret(end.sch, "ServerHandshakeTraffic", end.transcript))})

ServerFlight(setup) ==
  <<"EncryptedExtensions">>
    \o (IF setup.clientAuth THEN <<"CertificateRequest">> ELSE <<>>)
    \o (IF setup.accept THEN <<>> ELSE <<"Certificate", "CertificateVerify">>)
    \o <<"Finished">>

(* With its Finished sent the server has the exporter and both             *)
(* application secrets; it uses its own at once.                           *)
ServerKeys(end) ==
  LET master == Runs(end, DeriveMasterSecret(end.sch))
      app == Runs(master, DeriveAppTrafficSecrets(master.sch, end.transcript))
  IN Got(app, {Holds("exporter", 0, GetMasterSecret(app.sch, "ExporterMaster", end.transcript)),
               Holds("server", 0, GetAppSecret(app.sch, "server"))})

ServerSendsFlight ==
  /\ ks.at = IF ks.setup.retry = "none" THEN "hello" ELSE "second hello"
  /\ ks.setup.retry = "stateless" => CookieIsGood
  /\ ks' = [ks EXCEPT !.at = "flight",
       !.server =
         LET hello == Sees(DeriveHandshake(ks.setup, SetupSchedulerAndContext(ks.setup, RestoredContext, ks.binder)),
                            <<"ServerHello">>)
         IN ServerKeys(Sees(HandshakeKeys(hello), ServerFlight(ks.setup)))]

ClientGetsServerHello ==
  /\ ks.at = "flight"
  /\ ks' = [ks EXCEPT !.at = "client handshake",
       !.client =
         LET sch == IF ks.setup.accept THEN DeriveEarlySecret(NewScheduler, <<"psk">>) ELSE NewScheduler
         IN HandshakeKeys(Sees(DeriveHandshake(ks.setup, Runs(@, sch)), <<"ServerHello">>))]

ClientAnswer(setup) ==
  (IF setup.earlyAccepted THEN <<"EndOfEarlyData">> ELSE <<>>)
    \o (IF setup.clientAuth THEN <<"ClientCertificate", "ClientCertificateVerify">> ELSE <<>>)

(* Exporter and traffic secrets are of the transcript up to the server's   *)
(* Finished, the resumption secret of the whole one.                       *)
ClientFinishes(setup, end) ==
  LET master == Runs(end, DeriveMasterSecret(end.sch))
      whole == Sees(master, ClientAnswer(setup) \o <<"ClientFinished">>)
      secrets == {Holds("exporter", 0, GetMasterSecret(master.sch, "ExporterMaster", end.transcript)),
                  Holds("resumption", 0, GetMasterSecret(master.sch, "ResumptionMaster", whole.transcript))}
      app == Runs(whole, ClearMasterSecret(DeriveAppTrafficSecrets(master.sch, end.transcript)))
  IN Got(app, secrets \cup {Holds("client", 0, GetAppSecret(app.sch, "client")),
                            Holds("server", 0, GetAppSecret(app.sch, "server"))})

ClientGetsFinished ==
  /\ ks.at = "client handshake"
  /\ ks' = [ks EXCEPT !.at = "client finished",
       !.client = ClientFinishes(ks.setup, Sees(@, ServerFlight(ks.setup)))]

ServerGetsFinished ==
  /\ ks.at = "client finished"
  /\ ks' = [ks EXCEPT !.at = "open",
       !.server =
         LET end == Sees(@, ClientAnswer(ks.setup) \o <<"ClientFinished">>)
         IN Got(Runs(end, ClearMasterSecret(end.sch)),
              {Holds("client", 0, GetAppSecret(end.sch, "client")),
               Holds("resumption", 0, GetMasterSecret(end.sch, "ResumptionMaster", end.transcript))})]

(* Either side moves its writing key on, and the other one follows when    *)
(* the message has arrived.                                                *)
Moves(end, side, sch) ==
  Got(Runs(end, sch), {Holds(side, Generation(sch, side), GetAppSecret(sch, side))})

KeyUpdateOf(side, sch) == IF side = "client" THEN ClientKeyUpdate(sch) ELSE ServerKeyUpdate(sch)

WriteKeyUpdate(side) ==
  /\ ks.at = "open" \/ (ks.at = "client finished" /\ side = "client")
  /\ Generation(ks[side].sch, side) < MaxKeyUpdates
  /\ ks' = [ks EXCEPT ![side] = Moves(@, side, KeyUpdateOf(side, @.sch))]

ReadKeyUpdate(side, other) ==
  /\ ks.at = "open"
  /\ Generation(ks[side].sch, other) < Generation(ks[other].sch, other)
  /\ ks' = [ks EXCEPT ![side] = Moves(@, other, KeyUpdateOf(other, @.sch))]

(* A ticket: both ends compute the secret of its nonce from theirs; this   *)
(* server's nonce is empty, a client takes any other server's.             *)
ResumptionMaster(end) == CHOOSE h \in end.got : h.use = "resumption"
Ticket(end, nonce) ==
  Got(end, {Holds("psk", nonce, GetResumptionSecret(ResumptionMaster(end).secret, <<"nonce", nonce>>))})

NewTicket(nonce) ==
  /\ ks.at = "open"
  /\ ks' = [ks EXCEPT !.server = Ticket(@, nonce), !.client = Ticket(@, nonce)]

KeyScheduleNext ==
  \/ ClientSendsHello
  \/ StatefulRetry
  \/ AnswerWithoutState
  \/ RotateTokenSecrets
  \/ SecondHello
  \/ CookieIsRefused
  \/ ServerSendsFlight
  \/ ClientGetsServerHello
  \/ ClientGetsFinished
  \/ ServerGetsFinished
  \/ \E side \in {"client", "server"} : WriteKeyUpdate(side)
  \/ \E side \in {"client", "server"} :
       ReadKeyUpdate(side, IF side = "client" THEN "server" ELSE "client")
  \/ \E nonce \in TicketNonces : NewTicket(nonce)

(* Of what the ends hold: the secrets records are protected with, and what *)
(* the exporter gives for two labels, without a context and with one.      *)
TrafficHeld(all) ==
  {h \in all : h.use \in {"early", "client handshake", "server handshake", "client", "server"}}
Exports(all) ==
  {GetExportedKeyingMaterial(h.secret, l, c) :
     h \in {x \in all : x.use = "exporter"}, l \in {"a", "b"}, c \in {None, <<"c">>}}

(* No scheduler is asked for what its state does not have; the two ends    *)
(* get the same secret for the same use, however far each has moved on;    *)
(* no secret, key or iv serves two uses or two generations; exporters      *)
(* agree on the same label and context and on nothing else; an open        *)
(* connection has forgotten its master secret; and a cookie is refused     *)
(* only when its secret is gone or another choice is made now              *)
(* (KeyScheduler, getCookieState).                                         *)
KeySchedulesAgree == ks # None =>
  LET all == ks.client.got \cup ks.server.got
      traffic == TrafficHeld(all)
  IN /\ ks.client.sch.err = None /\ ks.server.sch.err = None
     /\ \A h \in all : h.secret # None
     /\ \A g, h \in all : (g.secret = h.secret) <=> (g.use = h.use /\ g.gen = h.gen)
     /\ Cardinality(UNION {{TrafficKey(h.secret).key, TrafficKey(h.secret).iv} : h \in traffic})
          = 2 * Cardinality(traffic)
     /\ Cardinality(Exports(all)) = (IF \E h \in all : h.use = "exporter" THEN 4 ELSE 0)
     /\ ks.at = "failed" =>
          ks.setup.otherServer \/ \A i \in DOMAIN ks.secrets : ks.secrets[i] # TokenSecret(1)
     /\ ks.at = "open" => ks.client.sch.secret = None /\ ks.server.sch.secret = None
=============================================================================
