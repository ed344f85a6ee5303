--------------------------- MODULE ServerProtocol ---------------------------
(***************************************************************************)
(* The server's TLS 1.3 state machine: fizz/server/ServerProtocol.cpp.     *)
(*                                                                         *)
(* One action is one event: the handler of the event in the current state, *)
(* and the visit of every action it returns.  A handler that waits for a   *)
(* future is one action too: while it waits the action guard is held, and  *)
(* module FizzBase shows that no other event is handled meanwhile.  What   *)
(* the awaited services answer is chosen nondeterministically.             *)
(*                                                                         *)
(* in and out are the byte streams from and to the peer, as sequences of   *)
(* records.  Encrypted Client Hello and extensions of the application      *)
(* (ServerExtensions) are left out.                                        *)
(***************************************************************************)
EXTENDS Messages

CONSTANTS
  HashOf,          \* the hash function of each cipher suite
  Services,        \* what the services a ClientHello needs may answer
  Verdicts,        \* what the verifier of client certificates may say
  TicketResults,   \* what the ticket cipher may give when asked to encrypt
  MaxRequests      \* bound on the requests of the application

(***************************************************************************)
(* What those services answer: which one fails, if the ticket can be       *)
(* decrypted, what the replay cache says, if the ticket's age and          *)
(* application token are acceptable, and if the flight is so large that it *)
(* is split over two records.                                              *)
(***************************************************************************)
ServiceAnswers ==
  [fails: {None, "ticket", "kex", "sign"}, ticketOk: BOOLEAN,
   replay: {"NotReplay", "MaybeReplay"}, fresh: BOOLEAN, large: BOOLEAN]

ASSUME ServicesAssumption ==
  /\ Services \subseteq ServiceAnswers
  /\ Verdicts \subseteq BOOLEAN
  /\ None \in TicketResults /\ TicketResults \subseteq {"ticket", None, "fails"}
ASSUME ServerBounds == MaxRequests \in Nat

VARIABLES
  ctx,         \* the FizzServerContext given to accept
  state,       \* state_
  read,        \* readRecordLayer_
  write,       \* writeRecordLayer_
  hsRead,      \* handshakeReadRecordLayer_
  neg,         \* what is negotiated: version_, cipher_, group_, ...
  transcript,  \* handshakeContext_ (<<>> for null)
  sched,       \* keyScheduler_, as the generations of its secrets
  cert,        \* clientCert_ is set
  chain,       \* unverifiedCertChain_ is set
  in, out,     \* what the peer sent and is not read yet; what was sent
  calls,       \* history: what the application was told, in order
  written,     \* history: number of application writes accepted
  asked        \* history: number of requests of the application

vars == <<ctx, state, read, write, hsRead, neg, transcript, sched, cert,
          chain, in, out, calls, written, asked>>
hsVars == <<hsRead, neg, transcript, sched, cert, chain>>

States == {"Uninitialized", "ExpectingClientHello", "ExpectingCertificate",
           "ExpectingCertificateVerify", "AcceptingEarlyData",
           "ExpectingFinished", "AcceptingData", "ExpectingCloseNotify",
           "Closed", "Error"}

NothingNegotiated ==
  [version |-> None, cipher |-> None, group |-> None, kex |-> None,
   early |-> None, replay |-> None, pskType |-> None, pskMode |-> None,
   alpn |-> None]

NoSecrets == [appCtx |-> <<>>, clientGen |-> 0, serverGen |-> 0]

InitServer ==
  /\ state = "Uninitialized"
  /\ read = NoLayer
  /\ write = NoLayer
  /\ hsRead = NoLayer
  /\ neg = NothingNegotiated
  /\ transcript = <<>>
  /\ sched = NoSecrets
  /\ cert = FALSE
  /\ chain = FALSE
  /\ calls = <<>>
  /\ written = 0
  /\ asked = 0

Live == state \notin {"Closed", "Error"}

(* The event the read layer has for the machine.                           *)
ev == ReadEvent(read, in)
Event(st, type) ==
  /\ state = st
  /\ CanRead(read, in)
  /\ ev.kind = "event"
  /\ ev.msg.type = type
  /\ in' = ev.in

Tell(what) == calls' = Append(calls, Call(what, 0))

-----------------------------------------------------------------------------
(* Errors.                                                                 *)

HandleError(description) ==
  /\ state' = "Error"
  /\ read' = NoLayer
  /\ write' = NoLayer
  /\ out' = IF description # None /\ HasLayer(write)
            THEN Append(out, Seal(write, <<Alert(description)>>)) ELSE out
  /\ Tell("Error")
  /\ UNCHANGED <<ctx, hsVars, written>>

(* An event that the state has no handler for.                             *)
HandleInvalidEvent(type) ==
  HandleError(IF type = "Alert" THEN None ELSE "unexpected_message")

(* The table of handlers, for events that come from the peer.              *)
Handlers ==
  {<<"ExpectingClientHello", "ClientHello">>,
   <<"AcceptingEarlyData", "AppData">>,
   <<"AcceptingEarlyData", "EndOfEarlyData">>,
   <<"ExpectingCertificate", "Certificate">>,
   <<"ExpectingCertificateVerify", "CertificateVerify">>,
   <<"ExpectingFinished", "Finished">>,
   <<"AcceptingData", "AppData">>,
   <<"AcceptingData", "KeyUpdate">>,
   <<"AcceptingData", "CloseNotify">>,
   <<"ExpectingCloseNotify", "CloseNotify">>}

UnexpectedEvent ==
  /\ Live
  /\ CanRead(read, in)
  /\ ev.kind = "event"
  /\ <<state, ev.msg.type>> \notin Handlers
  /\ in' = ev.in
  /\ HandleInvalidEvent(ev.msg.type)

(* processSocketData: reading throws, or there is nothing to read with.    *)
BadRecord ==
  /\ Live
  /\ CanRead(read, in)
  /\ ev.kind = "bad"
  /\ in' = ev.in
  /\ HandleError("decode_error")

NoRecordLayer ==
  /\ Live
  /\ ~HasLayer(read)
  /\ in # <<>>
  /\ in' = in
  /\ HandleError(None)

(* A record that gives no event: dropped, or the end of a message missing. *)
RecordWithoutEvent ==
  /\ Live
  /\ CanRead(read, in)
  /\ ev.kind = "skip"
  /\ in' = ev.in
  /\ read' = ev.layer
  /\ UNCHANGED <<ctx, state, write, hsVars, out, calls, written>>

-----------------------------------------------------------------------------
Accept ==
  /\ state = "Uninitialized"
  /\ state' = "ExpectingClientHello"
  /\ read' = PlainLayer(FALSE)
  /\ write' = PlainLayer(FALSE)
  /\ UNCHANGED <<ctx, hsVars, in, out, calls, written, asked>>

-----------------------------------------------------------------------------
(* ClientHello.                                                            *)

(* Mutant: early data that follows a HelloRetryRequest may be accepted.    *)
EarlyDataTypeMutant(ch, resumed, cipher, alpn, replay, fresh) ==
  CASE ~ch.early -> "NotAttempted"
    [] /\ ch.early /\ ctx.acceptEarly /\ resumed
       /\ ch.psk.cipher = cipher
       /\ ch.psk.alpn = alpn
       /\ ch.cookie.kind = None
       /\ replay = "NotReplay"
       /\ fresh -> "Accepted"
    [] OTHER -> "Rejected"

(* negotiateEarlyDataType                                                  *)
EarlyDataType(ch, resumed, cipher, alpn, replay, fresh) ==
  CASE ~ch.early -> "NotAttempted"
    [] /\ ch.early /\ ctx.acceptEarly /\ resumed
       /\ ch.psk.cipher = cipher
       /\ ch.psk.alpn = alpn
       /\ neg.kex # "HelloRetryRequest"
       /\ ch.cookie.kind = None
       /\ replay = "NotReplay"
       /\ fresh -> "Accepted"
    [] OTHER -> "Rejected"

(* What a ClientHello negotiates (before the group's share is looked for). *)
Negotiate(ch, svc) ==
  LET version == Prefer(ctx.versions, ch.versions)
      cipher == PreferTiered(ctx.ciphers, ch.ciphers)
      mode == Prefer(ctx.pskModes, ch.modes)
      offered == ch.psk # NoPsk
      decrypts == offered /\ ctx.ticketCipher /\ mode # None
      resumed == /\ decrypts /\ svc.ticketOk
                 /\ cipher # None
                 /\ ch.psk.version = version
                 /\ HashOf[ch.psk.cipher] = HashOf[cipher]
      checked == ctx.acceptEarly /\ ctx.replayCache /\ ch.early
      replay == IF checked THEN svc.replay ELSE "NotChecked"
      alpn == Prefer(ctx.alpns, ch.alpns)
      dhe == ~(resumed /\ mode = "psk_ke")
  IN [version |-> version,
      cipher |-> cipher,
      pskType |-> CASE resumed -> "Resumption"
                    [] offered /\ ~resumed -> "Rejected"
                    [] ~offered /\ mode # None -> "NotAttempted"
                    [] ~offered /\ mode = None -> "NotSupported",
      pskMode |-> IF resumed THEN mode ELSE None,
      replay |-> replay,
      alpn |-> alpn,
      group |-> IF dhe THEN Prefer(ctx.groups, ch.groups) ELSE None,
      kex |-> CASE ~dhe -> "None"
                [] dhe /\ neg.kex # None -> neg.kex
                [] OTHER -> "OneRtt",
      early |-> EarlyDataType(ch, resumed, cipher, alpn, replay, svc.fresh),
      \* not kept in State, but used below
      resumed |-> resumed,
      awaited |-> decrypts \/ checked]

(* The part of the transcript before this ClientHello.                     *)
HelloContext(ch) ==
  IF ch.cookie.kind = "good"
  THEN <<MessageHash(ch.cookie.chlo),
         HelloRetryRequest(ch.cookie.version, ch.cookie.cipher,
                           ch.cookie.group, FALSE, ch.cookie)>>
  ELSE transcript

(* Mutant: the second ClientHello may change what the first one settled.   *)
DiffersMutant(settled, now) == FALSE

(* The second ClientHello disagrees with what the first one settled.       *)
Differs(settled, now) == settled # None /\ now # settled

(***************************************************************************)
(* The checks of the handler, in the order of the code.  "fallback" and    *)
(* "retry" are the two early returns that are not errors.  ch.fault names  *)
(* a defect of the message that a check looks for.                         *)
(***************************************************************************)
HasCookie(ch) == ch.cookie.kind = "good"

(* getCookieState                                                          *)
CookieChecks(ch) ==
  << <<ch.cookie.kind # None /\ ~ctx.cookieCipher, "unsupported_extension">>,
     <<ch.cookie.kind = "bad", "decrypt_error">> >>

(* verifyCookieState                                                       *)
CookieStateChecks(ch, n) ==
  << <<HasCookie(ch) /\ ch.cookie.version # n.version, "protocol_version">>,
     <<HasCookie(ch) /\ ch.cookie.cipher # n.cipher, "handshake_failure">> >>

(* setupSchedulerAndContext verifies the binder of a ticket it resumes.    *)
BinderChecks(ch, n) ==
  << <<n.resumed /\ ch.fault = "binders", "illegal_parameter">>,
     <<n.resumed /\ ch.binder # HelloContext(ch), "bad_record_mac">> >>

(* negotiateAlpn                                                           *)
AlpnChecks(ch, n) ==
  << <<ch.alpns = {} /\ ctx.alpnMode = "Required", "no_application_protocol">>,
     <<ch.alpns # {} /\ n.alpn = None /\ ctx.alpnMode # "AllowMismatch",
       "no_application_protocol">> >>

(* negotiateGroup and validateGroups, then the search for a share.         *)
GroupChecks(ch, n) ==
  LET dhe == n.kex # "None"
  IN << <<dhe /\ ch.fault = "groups", "missing_extension">>,
        <<dhe /\ n.group = None, "handshake_failure">>,
        <<dhe /\ ch.fault = "shares", "illegal_parameter">>,
        <<dhe /\ n.group \notin ch.shares /\ (neg.group # None \/ HasCookie(ch)),
          "illegal_parameter">>,
        <<dhe /\ n.group \notin ch.shares, "retry">> >>

(* After the key exchange: the group is the one announced earlier.         *)
SameGroupChecks(ch, n) ==
  << <<Differs(neg.group, n.group), "illegal_parameter">>,
     <<HasCookie(ch) /\ ch.cookie.group # None /\ n.group # None
         /\ n.group # ch.cookie.group, "illegal_parameter">> >>

HelloChecks(ch, svc, n) ==
  CookieChecks(ch) \o
  << <<transcript # <<>> /\ HasCookie(ch), "illegal_parameter">>,
     <<HasUnparsed(ev.layer), "unexpected_message">>,
     <<Differs(neg.version, n.version), "illegal_parameter">>,
     <<n.version = None /\ ch.early, "protocol_version">>,
     <<n.version = None, IF ctx.fallback THEN "fallback" ELSE "protocol_version">>,
     <<ch.fault = "extensions", "illegal_parameter">>,
     <<n.cipher = None, "handshake_failure">>,
     <<Differs(neg.cipher, n.cipher), "illegal_parameter">> >>
  \o CookieStateChecks(ch, n) \o
  << <<ch.psk # NoPsk /\ ch.modes = {}, "missing_extension">>,
     <<svc.fails = "ticket" /\ n.awaited, "unexpected_message">> >>
  \o BinderChecks(ch, n) \o AlpnChecks(ch, n) \o GroupChecks(ch, n) \o
  << <<n.kex # "None" /\ svc.fails = "kex", "unexpected_message">> >>
  \o SameGroupChecks(ch, n) \o
  << <<~n.resumed /\ ch.fault = "schemes", "handshake_failure">>,
     <<~n.resumed /\ svc.fails = "sign", "unexpected_message">> >>

(* Mutant: the plaintext layer always drops what looks encrypted.          *)
RetryMutant(ch, n) ==
  LET hrr == HelloRetryRequest(n.version, n.cipher, n.group, ch.session, NoCookie)
      early == IF n.early = "Accepted" THEN "Rejected" ELSE n.early
  IN /\ transcript' = <<MessageHash(Append(HelloContext(ch), ch)), hrr>>
     /\ neg' = [neg EXCEPT !.version = n.version, !.cipher = n.cipher,
                           !.group = n.group, !.kex = "HelloRetryRequest",
                           !.early = early, !.replay = n.replay]
     /\ read' = PlainLayer(TRUE)
     /\ out' = out \o <<Seal(write, <<hrr>>)>>
                   \o (IF ch.session THEN <<CCS>> ELSE <<>>)
     /\ UNCHANGED <<ctx, state, write, hsRead, sched, cert, chain, calls,
                    written>>

(* No share for the group: send a HelloRetryRequest and stay.              *)
Retry(ch, n) ==
  LET hrr == HelloRetryRequest(n.version, n.cipher, n.group, ch.session, NoCookie)
      early == IF n.early = "Accepted" THEN "Rejected" ELSE n.early
  IN /\ transcript' = <<MessageHash(Append(HelloContext(ch), ch)), hrr>>
     /\ neg' = [neg EXCEPT !.version = n.version, !.cipher = n.cipher,
                           !.group = n.group, !.kex = "HelloRetryRequest",
                           !.early = early, !.replay = n.replay]
     /\ read' = PlainLayer(early = "Rejected")
     /\ out' = out \o <<Seal(write, <<hrr>>)>>
                   \o (IF ch.session THEN <<CCS>> ELSE <<>>)
     /\ UNCHANGED <<ctx, state, write, hsRead, sched, cert, chain, calls,
                    written>>

(***************************************************************************)
(* The flight: the messages after the ServerHello, each with the           *)
(* transcript up to it, and the records they are put in.                   *)
(***************************************************************************)
RequestsClientAuth(n) == ctx.clientAuth # "None" /\ ~n.resumed

UpToServerHello(ch, n) ==
  HelloContext(ch) \o
    <<ch, ServerHello(n.version, n.cipher, n.group, n.resumed, ch.session)>>

ServerAuthentication(t, ch, n) ==
  LET ee == EncryptedExtensions(n.alpn, n.early = "Accepted")
      request == IF RequestsClientAuth(n) THEN <<CertificateRequest>> ELSE <<>>
      certificate == IF ctx.compress /\ ch.compress
                     THEN CompressedCertificate("chain") ELSE Certificate("chain")
      upToCert == <<ee>> \o request \o <<certificate>>
  IN IF n.resumed THEN <<ee>>
     ELSE Append(upToCert, CertificateVerify(t \o upToCert, "supported"))

(* A large flight is cut somewhere: here, inside the Certificate.          *)
FlightRecords(layer, ms, large) ==
  LET chains == {i \in DOMAIN ms :
                   ms[i].type \in {"Certificate", "CompressedCertificate"}}
      cut == CHOOSE i \in chains : TRUE
      first == Append(SubSeq(ms, 1, cut - 1), Front(ms[cut]))
      second == <<Back>> \o SubSeq(ms, cut + 1, Len(ms))
  IN IF large /\ chains # {}
     THEN <<Seal(layer, first), Seal(Sealed(layer), second)>>
     ELSE <<Seal(layer, ms)>>

(* Mutant: the client's authentication is awaited only when required.      *)
AfterFlightMutant(n) ==
  CASE n.early = "Accepted" /\ ~ctx.omitEarly -> "AcceptingEarlyData"
    [] n.early # "Accepted" /\ RequestsClientAuth(n)
         /\ ctx.clientAuth = "Optional" -> "ExpectingCertificate"
    [] OTHER -> "ExpectingFinished"

(* Mutant: early data is awaited even if it was rejected.                   *)
AfterFlightEarlyMutant(n) ==
  CASE n.early # "NotAttempted" /\ ~ctx.omitEarly -> "AcceptingEarlyData"
    [] n.early = "NotAttempted" /\ RequestsClientAuth(n) -> "ExpectingCertificate"
    [] OTHER -> "ExpectingFinished"

AfterFlight(n) ==
  CASE n.early = "Accepted" /\ ~ctx.omitEarly -> "AcceptingEarlyData"
    [] n.early # "Accepted" /\ RequestsClientAuth(n) -> "ExpectingCertificate"
    [] OTHER -> "ExpectingFinished"

(* Mutant: the handshake layer is never told to skip rejected early data.  *)
HandshakeReadLayerMutant(n, t) == Layer(Key("Hs", "client", 0, t), FALSE)

HandshakeReadLayer(n, t) ==
  Layer(Key("Hs", "client", 0, t), n.early = "Rejected")

SendFlight(ch, n, large) ==
  LET upToChlo == Append(HelloContext(ch), ch)
      t == UpToServerHello(ch, n)
      auth == ServerAuthentication(t, ch, n)
      fin == Finished(Digests(t, auth))
      upToFinished == Append(Digests(t, auth), Digest(fin))
      hsWrite == Layer(Key("Hs", "server", 0, t), FALSE)
      hs == HandshakeReadLayer(n, t)
      accepted == n.early = "Accepted"
  IN /\ transcript' = upToFinished
     /\ sched' = [NoSecrets EXCEPT !.appCtx = upToFinished]
     /\ neg' = [f \in DOMAIN neg |->
                  IF f = "early" /\ neg.early # None THEN neg.early ELSE n[f]]
     /\ cert' = (n.resumed /\ ch.psk.clientCert)
     /\ write' = Layer(Key("App", "server", 0, upToFinished), FALSE)
     /\ IF accepted /\ ~ctx.omitEarly
        THEN /\ read' = Layer(Key("Early", "client", 0, upToChlo), FALSE)
             /\ hsRead' = hs
        ELSE read' = hs /\ UNCHANGED hsRead
     /\ out' = out \o <<Seal(write, <<t[Len(t)]>>)>>
                   \o (IF ch.session THEN <<CCS>> ELSE <<>>)
                   \o FlightRecords(hsWrite, Append(auth, fin), large)
     /\ state' = AfterFlight(n)
     /\ IF accepted THEN Tell("EarlyHandshakeSuccess") ELSE UNCHANGED calls
     /\ UNCHANGED <<ctx, chain, written>>

VersionFallback ==
  /\ state' = "Error"
  /\ Tell("AttemptVersionFallback")
  /\ read' = ev.layer
  /\ UNCHANGED <<ctx, write, hsVars, out, written>>

HandleClientHello(svc) ==
  /\ Event("ExpectingClientHello", "ClientHello")
  /\ LET ch == ev.msg
         n == Negotiate(ch, svc)
         hit == FirstHit(HelloChecks(ch, svc, n))
     IN CASE hit = "ok"       -> SendFlight(ch, n, svc.large)
          [] hit = "retry"    -> Retry(ch, n)
          [] hit = "fallback" -> VersionFallback
          [] OTHER            -> HandleError(hit)

-----------------------------------------------------------------------------
(* The rest of the handshake.                                              *)

(* Mutant: early data is read and not delivered.                            *)
HandleAppDataMutant ==
  /\ \/ Event("AcceptingEarlyData", "AppData")
     \/ Event("AcceptingData", "AppData")
  /\ read' = ev.layer
  /\ calls' = IF state = "AcceptingData"
              THEN Append(calls, Call("Deliver", ev.msg.data)) ELSE calls
  /\ UNCHANGED <<ctx, state, write, hsVars, out, written>>

HandleAppData ==
  /\ \/ Event("AcceptingEarlyData", "AppData")
     \/ Event("AcceptingData", "AppData")
  /\ read' = ev.layer
  /\ calls' = Append(calls, Call("Deliver", ev.msg.data))
  /\ UNCHANGED <<ctx, state, write, hsVars, out, written>>

HandleEndOfEarlyData ==
  /\ Event("AcceptingEarlyData", "EndOfEarlyData")
  /\ IF HasUnparsed(ev.layer) THEN HandleError("unexpected_message")
     ELSE /\ transcript' = AppendToTranscript(transcript, ev.msg)
          /\ read' = hsRead
          /\ hsRead' = NoLayer
          /\ state' = "ExpectingFinished"
          /\ UNCHANGED <<ctx, write, neg, sched, cert, chain, out, calls,
                         written>>

CertificateChecks(m) ==
  << <<m.kind = "malformed", "illegal_parameter">>,
     <<m.kind = "empty" /\ ctx.clientAuth # "Optional", "certificate_required">> >>

HandleCertificate ==
  /\ Event("ExpectingCertificate", "Certificate")
  /\ LET hit == FirstHit(CertificateChecks(ev.msg))
         empty == ev.msg.kind = "empty"
     IN IF hit # "ok" THEN HandleError(hit)
        ELSE /\ transcript' = AppendToTranscript(transcript, ev.msg)
             /\ read' = ev.layer
             /\ chain' = ~empty
             /\ state' = IF empty THEN "ExpectingFinished"
                                  ELSE "ExpectingCertificateVerify"
             /\ UNCHANGED <<ctx, write, hsRead, neg, sched, cert, out, calls,
                            written>>

(* trusted: the certificate verifier of the context accepts the chain.     *)
VerifyChecks(m, trusted) ==
  << <<m.scheme # "supported", "handshake_failure">>,
     <<m.over # transcript, "unexpected_message">>,
     <<~trusted, "bad_certificate">> >>

HandleCertificateVerify(trusted) ==
  /\ Event("ExpectingCertificateVerify", "CertificateVerify")
  /\ LET hit == FirstHit(VerifyChecks(ev.msg, trusted))
     IN IF hit # "ok" THEN HandleError(hit)
        ELSE /\ transcript' = AppendToTranscript(transcript, ev.msg)
             /\ read' = ev.layer
             /\ chain' = FALSE
             /\ cert' = TRUE
             /\ state' = "ExpectingFinished"
             /\ UNCHANGED <<ctx, write, hsRead, neg, sched, out, calls,
                            written>>

-----------------------------------------------------------------------------
(* Tickets.  result is what TicketCipher::encrypt gives.                   *)

(* generateTicket asks the ticket cipher at all.                           *)
MayIssueTicket == ctx.ticketCipher /\ neg.pskType # "NotSupported"

WriteTicket == out' = Append(out, Seal(write, <<NewSessionTicket(ctx.acceptEarly)>>))

FinishedChecks(m, result) ==
  << <<m.verify # transcript, None>>,
     <<HasUnparsed(ev.layer), None>>,
     <<result = "fails", "unexpected_message">> >>

AppReadLayer(gen) == Layer(Key("App", "client", gen, sched.appCtx), FALSE)
AppWriteLayer(gen) == Layer(Key("App", "server", gen, sched.appCtx), FALSE)

HandleFinished(result) ==
  /\ Event("ExpectingFinished", "Finished")
  /\ (ctx.sendTicket /\ MayIssueTicket) \/ result = None
  /\ LET hit == FirstHit(FinishedChecks(ev.msg, result))
     IN IF hit # "ok" THEN HandleError(hit)
        ELSE /\ transcript' = AppendToTranscript(transcript, ev.msg)
             /\ read' = AppReadLayer(sched.clientGen)
             /\ state' = "AcceptingData"
             /\ IF result = "ticket" THEN WriteTicket /\ write' = Sealed(write)
                                     ELSE UNCHANGED <<out, write>>
             /\ Tell("HandshakeSuccess")
             /\ UNCHANGED <<ctx, hsRead, neg, sched, cert, chain, written>>

(* The application asks for a ticket; any other state has no handler.      *)
WriteNewSessionTicket(result) ==
  /\ MayIssueTicket \/ result = None
  /\ IF state # "AcceptingData" THEN HandleInvalidEvent("WriteNewSessionTicket")
     ELSE IF result = "fails" THEN HandleError("unexpected_message")
     ELSE /\ IF result = "ticket" THEN WriteTicket /\ write' = Sealed(write)
                                  ELSE UNCHANGED <<out, write>>
          /\ UNCHANGED <<ctx, state, read, hsVars, calls, written>>

-----------------------------------------------------------------------------
(* The application's data, key updates, and the end.                       *)

AppWrite ==
  /\ IF state \notin {"AcceptingEarlyData", "ExpectingFinished", "AcceptingData"}
     THEN HandleInvalidEvent("AppWrite")
     ELSE /\ out' = Append(out, Seal(write, <<AppData(written + 1)>>))
          /\ write' = Sealed(write)
          /\ written' = written + 1
          /\ UNCHANGED <<ctx, state, read, hsVars, calls>>

(* The server has no handler for early writes at all.                      *)
EarlyAppWrite ==
  HandleInvalidEvent("EarlyAppWrite")

RekeyWrite(requested) ==
  /\ out' = Append(out, Seal(write, <<KeyUpdate(requested)>>))
  /\ write' = AppWriteLayer(sched.serverGen + 1)

InitiateKeyUpdate(requested) ==
  /\ CASE state # "AcceptingData" -> HandleInvalidEvent("KeyUpdateInitiation")
       [] state = "AcceptingData" /\ HasUnparsed(read) -> HandleError(None)
       [] OTHER ->
            /\ RekeyWrite(requested)
            /\ sched' = [sched EXCEPT !.serverGen = @ + 1]
            /\ UNCHANGED <<ctx, state, read, hsRead, neg, transcript, cert,
                           chain, calls, written>>

HandleKeyUpdate ==
  /\ Event("AcceptingData", "KeyUpdate")
  /\ IF HasUnparsed(ev.layer) THEN HandleError(None)
     ELSE /\ read' = AppReadLayer(sched.clientGen + 1)
          /\ IF ev.msg.requested
             THEN /\ RekeyWrite(FALSE)
                  /\ sched' = [sched EXCEPT !.clientGen = @ + 1,
                                            !.serverGen = @ + 1]
             ELSE /\ sched' = [sched EXCEPT !.clientGen = @ + 1]
                  /\ UNCHANGED <<out, write>>
          /\ UNCHANGED <<ctx, state, hsRead, neg, transcript, cert, chain,
                         calls, written>>

(* CloseNotify, which answers, and in ExpectingCloseNotify does not.       *)
HandleCloseNotify ==
  /\ \/ Event("AcceptingData", "CloseNotify")
     \/ Event("ExpectingCloseNotify", "CloseNotify")
  /\ state' = "Closed"
  /\ read' = NoLayer
  /\ write' = NoLayer
  /\ out' = IF state = "AcceptingData"
            THEN Append(out, Seal(write, <<CloseNotify>>)) ELSE out
  /\ Tell("EndOfData")
  /\ UNCHANGED <<ctx, hsVars, written>>

(* Mutant: the write layer survives the close_notify.                      *)
AppCloseMutant ==
  /\ state' = IF HasLayer(write) THEN "ExpectingCloseNotify" ELSE "Closed"
  /\ out' = IF HasLayer(write) THEN Append(out, Seal(write, <<CloseNotify>>))
                               ELSE out
  /\ write' = Sealed(write)
  /\ UNCHANGED <<ctx, read, hsVars, calls, written>>

AppClose ==
  /\ state' = IF HasLayer(write) THEN "ExpectingCloseNotify" ELSE "Closed"
  /\ out' = IF HasLayer(write) THEN Append(out, Seal(write, <<CloseNotify>>))
                               ELSE out
  /\ read' = IF HasLayer(write) THEN read ELSE NoLayer
  /\ write' = NoLayer
  /\ UNCHANGED <<ctx, hsVars, calls, written>>

AppCloseImmediate ==
  /\ state' = "Closed"
  /\ out' = IF HasLayer(write) THEN Append(out, Seal(write, <<CloseNotify>>))
                               ELSE out
  /\ read' = NoLayer
  /\ write' = NoLayer
  /\ UNCHANGED <<ctx, hsVars, calls, written>>

-----------------------------------------------------------------------------
(* An event that comes from the peer.                                      *)
PeerEvent ==
  /\ \/ UnexpectedEvent
     \/ BadRecord
     \/ NoRecordLayer
     \/ RecordWithoutEvent
     \/ \E svc \in Services : HandleClientHello(svc)
     \/ HandleAppData
     \/ HandleEndOfEarlyData
     \/ HandleCertificate
     \/ \E trusted \in Verdicts : HandleCertificateVerify(trusted)
     \/ \E result \in TicketResults : HandleFinished(result)
     \/ HandleKeyUpdate
     \/ HandleCloseNotify
  /\ UNCHANGED asked

(* An event that the application asks for, possible as long as the machine *)
(* is not in a terminal state (FizzBase's loop).                           *)
AppEvent ==
  /\ Live
  /\ asked < MaxRequests
  /\ asked' = asked + 1
  /\ \/ \E result \in TicketResults : WriteNewSessionTicket(result)
     \/ AppWrite
     \/ EarlyAppWrite
     \/ \E requested \in BOOLEAN : InitiateKeyUpdate(requested)
     \/ AppClose
     \/ AppCloseImmediate
  /\ UNCHANGED in

-----------------------------------------------------------------------------
(* Properties of a server, whatever its peer does.                         *)

(***************************************************************************)
(* A server asks for a retry at most once, and the ServerHello it sends    *)
(* after that selects what the retry announced, whatever the second        *)
(* ClientHello offers.                                                     *)
(***************************************************************************)
RetryIsHonoured ==
  \A i \in Holding(out, "HelloRetryRequest") :
    /\ Holding(out, "HelloRetryRequest") = {i}
    /\ \A j \in Holding(out, "ServerHello") :
         LET hrr == out[i].body[1]
             sh == out[j].body[1]
         IN <<sh.version, sh.cipher, sh.group>> =
              <<hrr.version, hrr.cipher, hrr.group>>

(***************************************************************************)
(* No two records are sealed with the same key and sequence number, across *)
(* flights, tickets, alerts and key updates: with an AEAD a repetition     *)
(* would be fatal.                                                         *)
(***************************************************************************)
NoncesAreFresh == NoncesDiffer(out)

(***************************************************************************)
(* An alert is the last thing a server sends: neither a write that the     *)
(* application issues while it waits for the peer's close_notify nor an    *)
(* error met meanwhile puts another record on the wire.  A machine that    *)
(* ended keeps no record layer it could go on with, one that runs has a    *)
(* read layer, and only a machine that waits for close_notify has none to  *)
(* write with.                                                             *)
(***************************************************************************)
AlertIsLast ==
  /\ NothingAfterAlert(out)
  /\ HasLayer(read) <=>
       \/ state \notin {"Uninitialized", "Closed", "Error"}
       \/ Told(calls, "AttemptVersionFallback")
  /\ state \notin {"Uninitialized", "ExpectingCloseNotify", "Closed", "Error"}
       => HasLayer(write)
  /\ state = "AcceptingEarlyData" => HasLayer(hsRead)

(***************************************************************************)
(* What a server puts on the wire is sound, however it goes on after a     *)
(* key update, a close or an error.                                        *)
(***************************************************************************)
WritesAreSound == NoncesAreFresh /\ AlertIsLast

(***************************************************************************)
(* Data reaches the application before the handshake is complete only if   *)
(* this server accepts early data, the ticket resumed the session, the     *)
(* replay cache vouched for the ClientHello, there was no retry, and the   *)
(* application was told that the handshake is in its early stage.          *)
(***************************************************************************)
EarlyDataIsGuarded ==
  \A i \in DOMAIN calls :
    (calls[i].type = "Deliver" /\ ~Told(SubSeq(calls, 1, i), "HandshakeSuccess"))
      => /\ Told(SubSeq(calls, 1, i), "EarlyHandshakeSuccess")
         /\ ctx.acceptEarly
         /\ neg.early = "Accepted"
         /\ neg.replay = "NotReplay"
         /\ neg.pskType = "Resumption"
         /\ Holding(out, "HelloRetryRequest") = {}

(***************************************************************************)
(* A server that requires client authentication completes a full handshake *)
(* only with a verified certificate, and no handshake completes with a     *)
(* chain that was received and not verified.                               *)
(***************************************************************************)
ClientAuthEnforced ==
  Told(calls, "HandshakeSuccess") =>
    /\ ~chain
    /\ ctx.clientAuth = "Required" => cert \/ neg.pskType = "Resumption"

HellosSeen ==
  {transcript[i] : i \in {k \in DOMAIN transcript :
                            transcript[k].type = "ClientHello"}}
    \cup UNION {{t[i] : i \in DOMAIN t} :
                 t \in {transcript[k].of : k \in {k \in DOMAIN transcript :
                                      transcript[k].type = "MessageHash"}}}

(***************************************************************************)
(* Records that do not open are tolerated only from a client that offered  *)
(* early data which was not accepted, and never once the handshake is      *)
(* complete.                                                               *)
(***************************************************************************)
SkippingIsJustified ==
  read.skip => /\ \E h \in HellosSeen : h.early
               /\ ~Told(calls, "EarlyHandshakeSuccess")
               /\ ~Told(calls, "HandshakeSuccess")

(***************************************************************************)
(* Application data is delivered from records under an early key before    *)
(* the handshake is complete and under an application key after it: never  *)
(* from plaintext, and never from the handshake keys.                      *)
(***************************************************************************)
DataUnderDataKeys ==
  [][(calls' # calls /\ calls'[Len(calls')].type = "Deliver") =>
       read.key.level = IF Told(calls, "HandshakeSuccess") THEN "App"
                                                           ELSE "Early"]_vars
=============================================================================
