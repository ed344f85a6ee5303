--------------------------- MODULE ClientProtocol ---------------------------
(***************************************************************************)
(* The client's TLS 1.3 state machine: fizz/client/ClientProtocol.cpp.     *)
(*                                                                         *)
(* One action is one event: the handler of the event in the current state, *)
(* and the visit of every action it returns.  Every handler of the client  *)
(* is synchronous.  in and out are the byte streams from and to the        *)
(* server, as sequences of records.  Encrypted Client Hello and extensions *)
(* of the application (ClientExtensions) are left out.                     *)
(***************************************************************************)
EXTENDS Messages

CONSTANTS
  HashOf,          \* the hash function of each cipher suite
  Verdicts,        \* what the verifier of server certificates may say
  MaxRequests      \* bound on the requests of the application

ASSUME ClientBounds == MaxRequests \in Nat /\ Verdicts \subseteq BOOLEAN

VARIABLES
  ctx,         \* the FizzClientContext and the CachedPsk given to connect
  state,       \* state_
  read,        \* readRecordLayer_
  write,       \* writeRecordLayer_
  earlyWrite,  \* earlyWriteRecordLayer_
  offer,       \* what was offered: attemptedPsk_, keyExchangers_, ...
  neg,         \* what is negotiated: version_, cipher_, group_, ...
  transcript,  \* handshakeContext_ (<<>> for null)
  sched,       \* keyScheduler_, as the generations of its secrets
  auth,        \* clientAuthRequested_
  cert,        \* serverCert_ is set
  chain,       \* unverifiedCertChain_ is set
  sentCCS,     \* sentCCS_
  in, out,     \* what the server sent and is not read yet; what was sent
  calls,       \* history: what the application was told, in order
  written,     \* history: number of application writes put on the wire
  asked        \* history: number of requests of the application

vars == <<ctx, state, read, write, earlyWrite, offer, neg, transcript, sched,
          auth, cert, chain, sentCCS, in, out, calls, written, asked>>
hsVars == <<earlyWrite, offer, neg, transcript, sched, auth, cert, chain, sentCCS>>

States == {"Uninitialized", "ExpectingServerHello",
           "ExpectingEncryptedExtensions", "ExpectingCertificate",
           "ExpectingCertificateVerify", "ExpectingFinished", "Established",
           "ExpectingCloseNotify", "Closed", "Error"}

NothingOffered == [psk |-> NoPsk, params |-> NoPsk, shares |-> {}, hello |-> <<>>]

NothingNegotiated ==
  [version |-> None, cipher |-> None, group |-> None, kex |-> None,
   early |-> None, pskType |-> None, pskMode |-> None, alpn |-> None]

NoSecrets == [appCtx |-> <<>>, clientGen |-> 0, serverGen |-> 0]

InitClient ==
  /\ state = "Uninitialized"
  /\ read = NoLayer
  /\ write = NoLayer
  /\ earlyWrite = NoLayer
  /\ offer = NothingOffered
  /\ neg = NothingNegotiated
  /\ transcript = <<>>
  /\ sched = NoSecrets
  /\ auth = None
  /\ cert = FALSE
  /\ chain = FALSE
  /\ sentCCS = FALSE
  /\ calls = <<>>
  /\ written = 0
  /\ asked = 0

Live == state \notin {"Closed", "Error"}

(* The event the read layer has for the machine.                           *)
ev == ReadEvent(read, in)
Event(st, type) ==
  /\ state = st
  /\ CanRead(read, in)
  /\ ev.kind = "event"
  /\ ev.msg.type = type
  /\ in' = ev.in

Tell(what) == calls' = Append(calls, Call(what, 0))

-----------------------------------------------------------------------------
(* Errors.                                                                 *)

HandleError(description) ==
  /\ state' = "Error"
  /\ read' = NoLayer
  /\ write' = NoLayer
  /\ out' = IF description # None /\ HasLayer(write)
            THEN Append(out, Seal(write, <<Alert(description)>>)) ELSE out
  /\ Tell("Error")
  /\ UNCHANGED <<ctx, hsVars, written>>

(* An event that the state has no handler for.                             *)
HandleInvalidEvent(type) ==
  HandleError(IF type = "Alert" THEN None ELSE "unexpected_message")

(* The table of handlers, for events that come from the server.            *)
Handlers ==
  {<<"ExpectingServerHello", "HelloRetryRequest">>,
   <<"ExpectingServerHello", "ServerHello">>,
   <<"ExpectingEncryptedExtensions", "EncryptedExtensions">>,
   <<"ExpectingCertificate", "CertificateRequest">>,
   <<"ExpectingCertificate", "CompressedCertificate">>,
   <<"ExpectingCertificate", "Certificate">>,
   <<"ExpectingCertificateVerify", "CertificateVerify">>,
   <<"ExpectingFinished", "Finished">>,
   <<"Established", "NewSessionTicket">>,
   <<"Established", "AppData">>,
   <<"Established", "KeyUpdate">>,
   <<"Established", "CloseNotify">>,
   <<"ExpectingCloseNotify", "CloseNotify">>}

UnexpectedEvent ==
  /\ Live
  /\ CanRead(read, in)
  /\ ev.kind = "event"
  /\ <<state, ev.msg.type>> \notin Handlers
  /\ in' = ev.in
  /\ HandleInvalidEvent(ev.msg.type)

(* processSocketData: reading throws, or there is nothing to read with.    *)
BadRecord ==
  /\ Live
  /\ CanRead(read, in)
  /\ ev.kind = "bad"
  /\ in' = ev.in
  /\ HandleError("decode_error")

NoRecordLayer ==
  /\ Live
  /\ ~HasLayer(read)
  /\ in # <<>>
  /\ in' = in
  /\ HandleError(None)

(* A record that gives no event: a CCS, or the end of a message missing.   *)
RecordWithoutEvent ==
  /\ Live
  /\ CanRead(read, in)
  /\ ev.kind = "skip"
  /\ in' = ev.in
  /\ read' = ev.layer
  /\ UNCHANGED <<ctx, state, write, hsVars, out, calls, written>>

-----------------------------------------------------------------------------
(* Connect.                                                                *)

Elements(s) == {s[i] : i \in DOMAIN s}

(* getClientHello, and encodeAndAddBinders over what precedes it.          *)
ClientHello(shares, psk, early, cookie, context) ==
  [type |-> "ClientHello", versions |-> Elements(ctx.versions),
   ciphers |-> ctx.ciphers, groups |-> ctx.groups, shares |-> shares,
   psk |-> psk, binder |-> IF psk = NoPsk THEN <<>> ELSE context,
   modes |-> ctx.pskModes, early |-> early, alpns |-> ctx.alpns,
   session |-> ctx.compat, cookie |-> cookie, compress |-> ctx.decompress,
   fault |-> None]

(* validatePsk; current: neither expired, nor stale, nor from the future.   *)
ValidPsk ==
  LET t == ctx.cached.ticket
  IN IF /\ t # NoPsk /\ ctx.cached.current
        /\ t.version \in Elements(ctx.versions)
        /\ t.cipher \in Elements(ctx.ciphers)
     THEN t ELSE NoPsk

(* getEarlyDataParams: the ticket whose parameters early data would use.   *)
EarlyDataParams ==
  IF /\ ctx.sendEarly /\ ValidPsk # NoPsk /\ ctx.cached.maxEarly > 0
     /\ ValidPsk.alpn \in ctx.alpns \cup {None}
  THEN ValidPsk ELSE NoPsk

InitialShares ==
  CASE ValidPsk # NoPsk /\ ctx.cached.group \in ctx.groups -> {ctx.cached.group}
    [] /\ ValidPsk # NoPsk /\ ctx.cached.group = None
       /\ ctx.sendKeyShare = "WhenNecessary" -> {}
    [] OTHER -> ctx.defaultShares

Connect ==
  /\ state = "Uninitialized"
  /\ LET attempted == EarlyDataParams # NoPsk
         chlo == ClientHello(InitialShares, ValidPsk, attempted, NoCookie, <<>>)
     IN /\ offer' = [psk |-> ValidPsk, params |-> EarlyDataParams,
                     shares |-> InitialShares, hello |-> <<chlo>>]
        /\ neg' = [neg EXCEPT !.early = IF attempted THEN "Attempted"
                                                     ELSE "NotAttempted"]
        /\ earlyWrite' = IF attempted /\ ~ctx.omitEarly
                         THEN Layer(Key("Early", "client", 0, <<chlo>>), FALSE)
                         ELSE NoLayer
        /\ out' = Append(out, Seal(PlainLayer(FALSE), <<chlo>>))
        /\ IF attempted THEN Tell("EarlyHandshakeSuccess") ELSE UNCHANGED calls
  /\ read' = PlainLayer(FALSE)
  /\ write' = PlainLayer(FALSE)
  /\ state' = "ExpectingServerHello"
  /\ UNCHANGED <<ctx, transcript, sched, auth, cert, chain, sentCCS, in,
                 written, asked>>

-----------------------------------------------------------------------------
(* HelloRetryRequest and ServerHello.                                      *)

(* checkAllowedExtensions and getAndValidateVersionAndCipher.              *)
VersionChecks(m) ==
  << <<m.fault = "legacy_version", "protocol_version">>,
     <<m.fault = "compression", "illegal_parameter">>,
     <<m.version \notin Elements(ctx.versions), "protocol_version">>,
     <<m.cipher \notin Elements(ctx.ciphers), "handshake_failure">> >>

RetryChecks(m) ==
  << <<m.fault = "extensions", "illegal_parameter">>,
     <<neg.kex # None, "unexpected_message">> >>
  \o VersionChecks(m) \o
  << <<m.group # None /\ m.group \notin ctx.groups, "handshake_failure">>,
     <<m.group \in offer.shares, "illegal_parameter">> >>

(* The fake CCS that middleboxes want before the client's second flight.   *)
CCSOnce == IF ctx.compat /\ ~sentCCS THEN <<CCS>> ELSE <<>>

HandleHelloRetryRequest ==
  /\ Event("ExpectingServerHello", "HelloRetryRequest")
  /\ LET m == ev.msg
         hit == FirstHit(RetryChecks(m))
         psk == IF offer.psk # NoPsk /\ HashOf[offer.psk.cipher] # HashOf[m.cipher]
                THEN NoPsk ELSE offer.psk
         shares == IF m.group # None THEN {m.group} ELSE offer.shares
         context == <<MessageHash(offer.hello), m>>
         chlo == ClientHello(shares, psk, FALSE, m.cookie, context)
     IN IF hit # "ok" THEN HandleError(hit)
        ELSE /\ offer' = [offer EXCEPT !.psk = psk, !.shares = shares,
                                       !.hello = <<chlo>>]
             /\ neg' = [neg EXCEPT
                          !.version = m.version, !.cipher = m.cipher,
                          !.kex = "HelloRetryRequest",
                          !.early = IF @ = "Attempted" THEN "Rejected" ELSE @]
             /\ transcript' = Append(context, chlo)
             /\ earlyWrite' = NoLayer
             /\ out' = out \o CCSOnce \o <<Seal(write, <<chlo>>)>>
             /\ sentCCS' = (sentCCS \/ ctx.compat)
             /\ read' = ev.layer
             /\ UNCHANGED <<ctx, state, write, sched, auth, cert, chain, calls,
                            written>>

(* Mutant: what the HelloRetryRequest settled is forgotten.                *)
DiffersMutant(settled, now) == FALSE

(* validateNegotiationConsistency                                          *)
Differs(settled, now) == settled # None /\ now # settled

(* negotiatePsk                                                            *)
PskChecks(m) ==
  LET mode == IF m.group # None THEN "psk_dhe_ke" ELSE "psk_ke"
  IN << <<m.psk /\ (offer.psk = NoPsk \/ m.fault = "identity"), "illegal_parameter">>,
        <<m.psk /\ m.version # offer.psk.version, "handshake_failure">>,
        <<m.psk /\ offer.psk # NoPsk
            /\ HashOf[m.cipher] # HashOf[offer.psk.cipher], "handshake_failure">>,
        <<m.psk /\ mode \notin ctx.pskModes, "handshake_failure">> >>

ServerHelloChecks(m) ==
  << <<m.fault = "extensions", "illegal_parameter">> >>
  \o VersionChecks(m) \o
  << <<m.group # None /\ m.group \notin offer.shares, "handshake_failure">>,
     <<m.session # ctx.compat, "illegal_parameter">>,
     <<Differs(neg.version, m.version), "handshake_failure">>,
     <<Differs(neg.cipher, m.cipher), "handshake_failure">> >>
  \o PskChecks(m) \o
  << <<m.group = None /\ ~m.psk, "handshake_failure">>,
     <<HasUnparsed(ev.layer), "unexpected_message">> >>

HandleServerHello ==
  /\ Event("ExpectingServerHello", "ServerHello")
  /\ LET m == ev.msg
         hit == FirstHit(ServerHelloChecks(m))
         t == Append(IF transcript # <<>> THEN transcript ELSE offer.hello, m)
     IN IF hit # "ok" THEN HandleError(hit)
        ELSE /\ transcript' = t
             /\ read' = Layer(Key("Hs", "server", 0, t), FALSE)
             /\ write' = Layer(Key("Hs", "client", 0, t), FALSE)
             /\ neg' = [neg EXCEPT
                          !.version = m.version, !.cipher = m.cipher,
                          !.group = m.group,
                          !.kex = CASE m.group = None -> "None"
                                    [] m.group # None /\ @ # None -> @
                                    [] OTHER -> "OneRtt",
                          !.pskType = CASE m.psk -> "Resumption"
                                        [] ~m.psk /\ offer.psk # NoPsk -> "Rejected"
                                        [] OTHER -> IF ctx.pskModes # {}
                                                    THEN "NotAttempted"
                                                    ELSE "NotSupported",
                          !.pskMode = CASE ~m.psk -> None
                                        [] m.psk /\ m.group # None -> "psk_dhe_ke"
                                        [] OTHER -> "psk_ke"]
             /\ auth' = CASE ~m.psk -> None
                          [] m.psk /\ offer.psk.clientCert -> "Stored"
                          [] OTHER -> "NotRequested"
             /\ cert' = m.psk
             /\ offer' = [NothingOffered EXCEPT !.params = offer.params]
             /\ state' = "ExpectingEncryptedExtensions"
             /\ UNCHANGED <<ctx, earlyWrite, sched, chain, sentCCS, out, calls,
                            written>>

-----------------------------------------------------------------------------
(* The server's encrypted flight.                                          *)

(* validateAcceptedEarly, for a server that says it accepted early data.   *)
AcceptedEarlyChecks(m) ==
  << <<neg.early # "Attempted", "illegal_parameter">>,
     <<neg.pskType = "Rejected" \/ offer.params = NoPsk, "illegal_parameter">>,
     <<offer.params.cipher # neg.cipher, "illegal_parameter">>,
     <<offer.params.alpn # m.alpn, "illegal_parameter">>,
     <<~HasLayer(earlyWrite) /\ ~ctx.omitEarly, "illegal_parameter">> >>

(* Mutant: the parameters of accepted early data are not looked at.        *)
EncryptedExtensionsChecksMutant(m) ==
  << <<m.fault # None, "illegal_parameter">>,
     <<m.alpn # None /\ m.alpn \notin ctx.alpns, "illegal_parameter">>,
     <<m.alpn = None /\ ctx.requireAlpn, "no_application_protocol">> >>

EncryptedExtensionsChecks(m) ==
  << <<m.fault # None, "illegal_parameter">>,
     <<m.alpn # None /\ m.alpn \notin ctx.alpns, "illegal_parameter">>,
     <<m.alpn = None /\ ctx.requireAlpn, "no_application_protocol">> >>
  \o (IF m.early THEN AcceptedEarlyChecks(m) ELSE <<>>)

HandleEncryptedExtensions ==
  /\ Event("ExpectingEncryptedExtensions", "EncryptedExtensions")
  /\ LET hit == FirstHit(EncryptedExtensionsChecks(ev.msg))
     IN IF hit # "ok" THEN HandleError(hit)
        ELSE /\ transcript' = AppendToTranscript(transcript, ev.msg)
             /\ read' = ev.layer
             /\ neg' = [neg EXCEPT
                          !.alpn = ev.msg.alpn,
                          !.early = CASE ev.msg.early -> "Accepted"
                                      [] ~ev.msg.early /\ @ = "Attempted" -> "Rejected"
                                      [] OTHER -> @]
             /\ state' = IF neg.pskType = "Resumption" THEN "ExpectingFinished"
                                                       ELSE "ExpectingCertificate"
             /\ UNCHANGED <<ctx, write, earlyWrite, offer, sched, auth, cert,
                            chain, sentCCS, out, calls, written>>

HandleCertificateRequest ==
  /\ Event("ExpectingCertificate", "CertificateRequest")
  /\ LET hit == FirstHit(<< <<auth # None, "unexpected_message">>,
                            <<ev.msg.fault # None, "illegal_parameter">> >>)
     IN IF hit # "ok" THEN HandleError(hit)
        ELSE /\ transcript' = AppendToTranscript(transcript, ev.msg)
             /\ read' = ev.layer
             /\ auth' = IF ctx.clientCert THEN "Sent" ELSE "RequestedNoMatch"
             /\ UNCHANGED <<ctx, state, write, earlyWrite, offer, neg, sched,
                            cert, chain, sentCCS, out, calls, written>>

(* A compressed chain may be one the client cannot expand.                 *)
CertificateChecks(m) ==
  LET compressed == m.type = "CompressedCertificate"
  IN << <<compressed /\ ~ctx.decompress, "unexpected_message">>,
        <<compressed /\ m.kind = "unreadable", "bad_certificate">>,
        <<m.kind # "chain", "illegal_parameter">> >>

HandleCertificate ==
  /\ \/ Event("ExpectingCertificate", "Certificate")
     \/ Event("ExpectingCertificate", "CompressedCertificate")
  /\ LET hit == FirstHit(CertificateChecks(ev.msg))
     IN IF hit # "ok" THEN HandleError(hit)
        ELSE /\ transcript' = AppendToTranscript(transcript, ev.msg)
             /\ read' = ev.layer
             /\ chain' = TRUE
             /\ auth' = IF auth = None THEN "NotRequested" ELSE auth
             /\ state' = "ExpectingCertificateVerify"
             /\ UNCHANGED <<ctx, write, earlyWrite, offer, neg, sched, cert,
                            sentCCS, out, calls, written>>

(* Mutant: the signature is not checked against the transcript.            *)
VerifyChecksMutant(m, trusted) ==
  << <<m.scheme # "supported", "illegal_parameter">>,
     <<~trusted, "bad_certificate">> >>

(* trusted: the certificate verifier given to connect accepts the chain.   *)
VerifyChecks(m, trusted) ==
  << <<m.scheme # "supported", "illegal_parameter">>,
     <<m.over # transcript, "unexpected_message">>,
     <<~trusted, "bad_certificate">> >>

HandleCertificateVerify(trusted) ==
  /\ Event("ExpectingCertificateVerify", "CertificateVerify")
  /\ LET hit == FirstHit(VerifyChecks(ev.msg, trusted))
     IN IF hit # "ok" THEN HandleError(hit)
        ELSE /\ transcript' = AppendToTranscript(transcript, ev.msg)
             /\ read' = ev.layer
             /\ chain' = FALSE
             /\ cert' = TRUE
             /\ state' = "ExpectingFinished"
             /\ UNCHANGED <<ctx, write, earlyWrite, offer, neg, sched, auth,
                            sentCCS, out, calls, written>>

-----------------------------------------------------------------------------
(* Finished, and the client's second flight.                               *)

FinishedChecks(m) ==
  << <<HasUnparsed(ev.layer), "unexpected_message">>,
     <<m.verify # transcript, "bad_record_mac">> >>

EndsEarlyData == neg.early = "Accepted" /\ ~ctx.omitEarly

(* The messages before the client's Finished, given the transcript so far. *)
ClientAuthentication(t) ==
  CASE auth = "RequestedNoMatch" -> <<Certificate("empty")>>
    [] auth = "Sent" ->
         <<Certificate("chain"),
           CertificateVerify(Append(t, Certificate("chain")), "supported")>>
    [] OTHER -> <<>>

AppReadLayer(gen, t) == Layer(Key("App", "server", gen, t), FALSE)
AppWriteLayer(gen, t) == Layer(Key("App", "client", gen, t), FALSE)

(* Mutant: the EndOfEarlyData is hashed too.                                *)
AppContextMutant(t, ended) == ended

(* The application keys come from the transcript up to the server's        *)
(* Finished.                                                               *)
AppContext(t, ended) == t

HandleFinished ==
  /\ Event("ExpectingFinished", "Finished")
  /\ LET hit == FirstHit(FinishedChecks(ev.msg))
         t == AppendToTranscript(transcript, ev.msg)
         ended == IF EndsEarlyData THEN Append(t, EndOfEarlyData) ELSE t
         authentication == ClientAuthentication(ended)
         fin == Finished(Digests(ended, authentication))
     IN IF hit # "ok" THEN HandleError(hit)
        ELSE /\ transcript' = Digests(ended, Append(authentication, fin))
             /\ sched' = [NoSecrets EXCEPT !.appCtx = AppContext(t, ended)]
             /\ read' = AppReadLayer(0, AppContext(t, ended))
             /\ write' = AppWriteLayer(0, AppContext(t, ended))
             /\ earlyWrite' = NoLayer
             /\ out' = out \o CCSOnce
                           \o (IF EndsEarlyData
                               THEN <<Seal(earlyWrite, <<EndOfEarlyData>>)>>
                               ELSE <<>>)
                           \o <<Seal(write, Append(authentication, fin))>>
             /\ sentCCS' = (sentCCS \/ ctx.compat)
             /\ state' = "Established"
             /\ Tell("HandshakeSuccess")
             /\ UNCHANGED <<ctx, offer, neg, auth, cert, chain, written>>

-----------------------------------------------------------------------------
(* After the handshake.                                                    *)

HandleNewSessionTicket ==
  /\ Event("Established", "NewSessionTicket")
  /\ read' = ev.layer
  /\ Tell("NewCachedPsk")
  /\ UNCHANGED <<ctx, state, write, hsVars, out, written>>

HandleAppData ==
  /\ Event("Established", "AppData")
  /\ read' = ev.layer
  /\ calls' = Append(calls, Call("Deliver", ev.msg.data))
  /\ UNCHANGED <<ctx, state, write, hsVars, out, written>>

AppWrite ==
  IF state # "Established" THEN HandleInvalidEvent("AppWrite")
  ELSE /\ out' = Append(out, Seal(write, <<AppData(written + 1)>>))
       /\ write' = Sealed(write)
       /\ written' = written + 1
       /\ UNCHANGED <<ctx, state, read, hsVars, calls>>

(* A write that is given back once early data is rejected.                 *)
IgnoreEarlyAppWrite ==
  IF neg.early # "Rejected" THEN HandleError(None)
  ELSE /\ Tell("ReportEarlyWriteFailed")
       /\ UNCHANGED <<ctx, state, read, write, hsVars, out, written>>

WriteEarly ==
  /\ out' = out \o CCSOnce \o <<Seal(earlyWrite, <<AppData(written + 1)>>)>>
  /\ earlyWrite' = Sealed(earlyWrite)
  /\ sentCCS' = (sentCCS \/ ctx.compat)
  /\ written' = written + 1
  /\ UNCHANGED <<ctx, state, read, write, offer, neg, transcript, sched, auth,
                 cert, chain, calls>>

(* Mutant: early writes go out whether early data was rejected or not.      *)
HandleEarlyAppWriteMutant ==
  IF ctx.omitEarly \/ neg.early = "NotAttempted" THEN HandleError(None)
  ELSE WriteEarly

HandleEarlyAppWrite ==
  CASE ctx.omitEarly \/ neg.early = "NotAttempted" -> HandleError(None)
    [] ~ctx.omitEarly /\ neg.early = "Rejected" -> IgnoreEarlyAppWrite
    [] OTHER -> WriteEarly

(* The client has no handler for a request to issue a ticket.              *)
WriteNewSessionTicket == HandleInvalidEvent("WriteNewSessionTicket")

EarlyAppWrite ==
  CASE state \in {"ExpectingServerHello", "ExpectingEncryptedExtensions",
                  "ExpectingFinished"} -> HandleEarlyAppWrite
    [] state \in {"ExpectingCertificate", "ExpectingCertificateVerify"} ->
         IgnoreEarlyAppWrite
    [] state = "Established" ->
         IF neg.early = "Accepted" THEN AppWrite ELSE IgnoreEarlyAppWrite
    [] OTHER -> HandleInvalidEvent("EarlyAppWrite")

(* A KeyUpdate under the old key, then the next key from zero.             *)
RekeyWrite(requested) ==
  /\ out' = Append(out, Seal(write, <<KeyUpdate(requested)>>))
  /\ write' = AppWriteLayer(sched.clientGen + 1, sched.appCtx)

InitiateKeyUpdate(requested) ==
  CASE state # "Established" -> HandleInvalidEvent("KeyUpdateInitiation")
    [] state = "Established" /\ HasUnparsed(read) -> HandleError("unexpected_message")
    [] OTHER -> /\ RekeyWrite(requested)
                /\ sched' = [sched EXCEPT !.clientGen = @ + 1]
                /\ UNCHANGED <<ctx, state, read, earlyWrite, offer, neg,
                               transcript, auth, cert, chain, sentCCS, calls,
                               written>>

(* Mutant: the answer to a KeyUpdate does not take a new key.              *)
AnswerKeyUpdateMutant ==
  /\ out' = Append(out, Seal(write, <<KeyUpdate(FALSE)>>))
  /\ write' = AppWriteLayer(sched.clientGen, sched.appCtx)
  /\ sched' = [sched EXCEPT !.clientGen = @ + 1, !.serverGen = @ + 1]

AnswerKeyUpdate ==
  /\ RekeyWrite(FALSE)
  /\ sched' = [sched EXCEPT !.clientGen = @ + 1, !.serverGen = @ + 1]

HandleKeyUpdate ==
  /\ Event("Established", "KeyUpdate")
  /\ IF HasUnparsed(ev.layer) THEN HandleError("unexpected_message")
     ELSE /\ read' = AppReadLayer(sched.serverGen + 1, sched.appCtx)
          /\ IF ev.msg.requested THEN AnswerKeyUpdate
             ELSE /\ sched' = [sched EXCEPT !.serverGen = @ + 1]
                  /\ UNCHANGED <<out, write>>
          /\ UNCHANGED <<ctx, state, earlyWrite, offer, neg, transcript, auth,
                         cert, chain, sentCCS, calls, written>>

(* CloseNotify, which answers, and in ExpectingCloseNotify does not.       *)
HandleCloseNotify ==
  /\ \/ Event("Established", "CloseNotify")
     \/ Event("ExpectingCloseNotify", "CloseNotify")
  /\ state' = "Closed"
  /\ read' = NoLayer
  /\ write' = NoLayer
  /\ out' = IF state = "Established"
            THEN Append(out, Seal(write, <<CloseNotify>>)) ELSE out
  /\ Tell("EndOfData")
  /\ UNCHANGED <<ctx, hsVars, written>>

AppClose ==
  /\ state' = IF HasLayer(write) THEN "ExpectingCloseNotify" ELSE "Closed"
  /\ out' = IF HasLayer(write) THEN Append(out, Seal(write, <<CloseNotify>>))
                               ELSE out
  /\ read' = IF HasLayer(write) THEN read ELSE NoLayer
  /\ write' = NoLayer
  /\ UNCHANGED <<ctx, hsVars, calls, written>>

AppCloseImmediate ==
  /\ state' = "Closed"
  /\ out' = IF HasLayer(write) THEN Append(out, Seal(write, <<CloseNotify>>))
                               ELSE out
  /\ read' = NoLayer
  /\ write' = NoLayer
  /\ UNCHANGED <<ctx, hsVars, calls, written>>

-----------------------------------------------------------------------------
(* An event that comes from the server.                                    *)
PeerEvent ==
  /\ \/ UnexpectedEvent
     \/ BadRecord
     \/ NoRecordLayer
     \/ RecordWithoutEvent
     \/ HandleHelloRetryRequest
     \/ HandleServerHello
     \/ HandleEncryptedExtensions
     \/ HandleCertificateRequest
     \/ HandleCertificate
     \/ \E trusted \in Verdicts : HandleCertificateVerify(trusted)
     \/ HandleFinished
     \/ HandleNewSessionTicket
     \/ HandleAppData
     \/ HandleKeyUpdate
     \/ HandleCloseNotify
  /\ UNCHANGED asked

(* An event that the application asks for, possible as long as the machine *)
(* is not in a terminal state (FizzBase's loop).                           *)
AppEvent ==
  /\ Live
  /\ asked < MaxRequests
  /\ asked' = asked + 1
  /\ \/ AppWrite
     \/ EarlyAppWrite
     \/ WriteNewSessionTicket
     \/ \E requested \in BOOLEAN : InitiateKeyUpdate(requested)
     \/ AppClose
     \/ AppCloseImmediate
  /\ UNCHANGED in

-----------------------------------------------------------------------------
(* Properties of a client, whatever its peer does.                         *)

(***************************************************************************)
(* Nothing that a handler dereferences without looking is unset: the       *)
(* client's authentication type in ExpectingFinished, the chain whose      *)
(* presence CertificateVerify asserts, the encoded ClientHello, and the    *)
(* early write layer wherever an early write or an EndOfEarlyData would be *)
(* sealed with it.  A machine that is running has a read layer, one that   *)
(* may still write has a write layer, and a finished one has neither.      *)
(***************************************************************************)
OptionalsAreSet ==
  /\ HasLayer(read) <=> state \notin {"Uninitialized", "Closed", "Error"}
  /\ HasLayer(write) <=> state \notin {"Uninitialized", "ExpectingCloseNotify",
                                       "Closed", "Error"}
  /\ state = "ExpectingServerHello" => offer.hello # <<>>
  /\ state = "ExpectingFinished" => auth # None
  /\ state = "ExpectingCertificateVerify" => chain
  /\ (/\ neg.early \in {"Attempted", "Accepted"} /\ ~ctx.omitEarly
      /\ state \in {"ExpectingServerHello", "ExpectingEncryptedExtensions",
                    "ExpectingFinished"}) => HasLayer(earlyWrite)

(***************************************************************************)
(* A client follows at most one HelloRetryRequest: its second ClientHello  *)
(* has one share, of the group that was asked for if one was, and offers   *)
(* no early data; and what is negotiated in the end is what the            *)
(* HelloRetryRequest announced.                                            *)
(***************************************************************************)
RetryIsFollowed ==
  /\ Cardinality(Holding(out, "ClientHello")) <= 2
  /\ (Len(transcript) >= 2 /\ transcript[1].type = "MessageHash") =>
       LET hrr == transcript[2]
           chlo == transcript[3]
       IN /\ <<neg.version, neg.cipher>> = <<hrr.version, hrr.cipher>>
          /\ ~chlo.early /\ chlo.cookie = hrr.cookie
          /\ hrr.group # None =>
               /\ chlo.shares = {hrr.group}
               /\ transcript[1].of[1].shares \cap chlo.shares = {}
               /\ neg.group \in {None, hrr.group}

NewRecords == SubSeq(out', Len(out) + 1, Len(out'))

(***************************************************************************)
(* Early data is all or nothing.  No step seals a record with the early    *)
(* key, or with a layer that is gone, once early data was rejected or its  *)
(* end was sent; a write is handed back to the application only after a    *)
(* rejection; and the handshake completes with an EndOfEarlyData exactly   *)
(* if early data was accepted.                                             *)
(***************************************************************************)
EarlyDataAllOrNothing ==
  [][/\ (neg.early = "Rejected" \/ Holding(out, "EndOfEarlyData") # {}) =>
          \A i \in DOMAIN NewRecords :
            NewRecords[i].key.level \notin {"Early", "None"}
     /\ (Told(calls', "ReportEarlyWriteFailed") => neg.early = "Rejected")
     /\ (Told(calls', "HandshakeSuccess") =>
           (Holding(out', "EndOfEarlyData") # {} <=>
              neg.early = "Accepted" /\ ~ctx.omitEarly))]_vars

(***************************************************************************)
(* No two records are sealed with the same key and sequence number, across *)
(* early data, the handshake, the application's data and key updates.      *)
(***************************************************************************)
NoncesAreFresh == NoncesDiffer(out)

(***************************************************************************)
(* An alert is the last thing a client sends, also when early writes or    *)
(* errors follow the close_notify of a graceful close.                     *)
(***************************************************************************)
AlertIsLast == NothingAfterAlert(out)

(***************************************************************************)
(* What a client puts on the wire is sound, however it goes on after a     *)
(* retry, a key update, a close or an error.                               *)
(***************************************************************************)
WritesAreSound == NoncesAreFresh /\ AlertIsLast
=============================================================================
