--------------------------- MODULE ExportedAuth ---------------------------
(***************************************************************************)
(* Exported authenticators (extensions/exportedauth): after the handshake  *)
(* an end of a connection proves a further identity with a certificate, a  *)
(* signature and a MAC that are bound to the connection by its exporter.   *)
(* The application carries the messages, so they may turn up on another    *)
(* connection, at the end that made them, for another request, or mixed    *)
(* with each other.                                                        *)
(***************************************************************************)
EXTENDS KeySchedule, SequencesExt

CONSTANTS
  AuthConnections,   \* established connections
  AuthCerts,         \* [chain, schemes]: what an end can prove
  AuthRequests,      \* [context, schemes] that an application asks with
  AuthSupported,     \* the schemes of the contexts, in order
  MaxAuthenticators

(* The absent value is none of those that it stands for: not an empty list *)
(* of certificates, a chain, a scheme, nor the exporter secret of a        *)
(* connection.                                                             *)
ASSUME ExportedAuthAssumption ==
  /\ None # <<>> /\ \A cert \in AuthCerts : cert.chain # None
  /\ AuthSupported \in Seq({AuthSupported[i] : i \in DOMAIN AuthSupported} \ {None})
  /\ \A conn \in AuthConnections : ExpandLabel(None, "exp master", <<conn>>, HashLength) # None

VARIABLE ea

Directions == {"UPSTREAM", "DOWNSTREAM"}   \* of the client and of the server

Message(type) ==
  [type |-> type, context |-> None, certs |-> None, scheme |-> None, value |-> None]

(* A request needs a context that is not empty.                            *)
GetAuthenticatorRequest(context, schemes) ==
  IF context = <<>> THEN None
  ELSE [Message("CertificateRequest") EXCEPT !.context = context, !.certs = schemes]

Exported(conn, label) ==
  GetExportedKeyingMaterial(ExpandLabel(None, "exp master", <<conn>>, HashLength), label, None)
ClientKeying(conn) ==
  [handshakeContext |-> Exported(conn, "EXPORTER-client authenticator handshake context"),
   finishedMacKey |-> Exported(conn, "EXPORTER-client authenticator finished key")]
ServerKeying(conn) ==
  [handshakeContext |-> Exported(conn, "EXPORTER-server authenticator handshake context"),
   finishedMacKey |-> Exported(conn, "EXPORTER-server authenticator finished key")]

-----------------------------------------------------------------------------
DecodeAuthRequest(request) ==
  IF request = None THEN [context |-> <<>>, schemes |-> None]
  ELSE [context |-> request.context, schemes |-> request.certs]

(* hash and hmac are injective in what they are given.                     *)
ComputeTranscript(keying, request, certMsg) ==
  <<[Message("context") EXCEPT !.value = keying.handshakeContext]>>
    \o (IF request = None THEN <<>> ELSE <<request>>) \o <<certMsg>>
ComputeFinishedTranscript(transcript, certVerify) == Append(transcript, certVerify)
GetFinishedData(keying, transcript) == [mac |-> keying.finishedMacKey, over |-> transcript]

FirstOf(schemes, ok) ==
  IF \E i \in DOMAIN schemes : schemes[i] \in ok
  THEN schemes[CHOOSE i \in DOMAIN schemes :
         schemes[i] \in ok /\ \A j \in DOMAIN schemes : schemes[j] \in ok => i <= j]
  ELSE None

GetRequestedSchemes(schemes) == IF schemes = None THEN {} ELSE {schemes[i] : i \in DOMAIN schemes}

(* One that was asked for if there is one, else any that both ends have.   *)
GetSignatureScheme(cert, schemes) ==
  LET asked == FirstOf(AuthSupported, cert.schemes \cap GetRequestedSchemes(schemes))
  IN IF asked # None THEN asked ELSE FirstOf(AuthSupported, cert.schemes)

FinishedOf(keying, transcript) ==
  [Message("Finished") EXCEPT !.value = GetFinishedData(keying, transcript)]

GetEmptyAuthenticator(keying, request) ==
  LET certMsg == [Message("Certificate") EXCEPT
                    !.context = DecodeAuthRequest(request).context, !.certs = <<>>]
  IN <<FinishedOf(keying, ComputeTranscript(keying, request, certMsg))>>

Signature(cert, scheme, transcript) == [key |-> cert.chain[1], scheme |-> scheme, over |-> transcript]

MakeAuthenticator(keying, cert, request) ==
  LET asked == DecodeAuthRequest(request)
      scheme == GetSignatureScheme(cert, asked.schemes)
      certMsg == [Message("Certificate") EXCEPT !.context = asked.context, !.certs = cert.chain]
      transcript == ComputeTranscript(keying, request, certMsg)
      verify == [Message("CertificateVerify") EXCEPT !.scheme = scheme,
                   !.value = Signature(cert, scheme, transcript)]
  IN IF scheme = None THEN GetEmptyAuthenticator(keying, request)
     ELSE <<certMsg, verify, FinishedOf(keying, ComputeFinishedTranscript(transcript, verify))>>

GetAuthenticator(conn, dir, cert, request) ==
  MakeAuthenticator(IF dir = "UPSTREAM" THEN ClientKeying(conn) ELSE ServerKeying(conn),
                    cert, request)

(* None: it is not a certificate that comes first, an exception.           *)
GetAuthenticatorContext(auth) ==
  IF auth = <<>> THEN None ELSE IF auth[1].type # "Certificate" THEN None ELSE auth[1].context

PeerVerifies(certs, verify, transcript) ==
  verify.value = [key |-> certs[1], scheme |-> verify.scheme, over |-> transcript]

(* What follows the third message is not looked at.                        *)
Validate(keying, request, auth) ==
  IF auth = <<>> THEN None
  ELSE IF auth[1].type = "Finished"
  THEN IF GetEmptyAuthenticator(keying, request) = auth THEN <<>> ELSE None
  ELSE IF Len(auth) < 3 THEN None
  ELSE IF <<auth[1].type, auth[2].type, auth[3].type>>
            # <<"Certificate", "CertificateVerify", "Finished">> THEN None
  ELSE LET transcript == ComputeTranscript(keying, request, auth[1])
       IN IF /\ PeerVerifies(auth[1].certs, auth[2], transcript)
             /\ auth[3].value = GetFinishedData(keying, ComputeFinishedTranscript(transcript, auth[2]))
          THEN auth[1].certs ELSE None

(* Mutant: an end checks with the keys that it makes its own with.         *)
ValidateAuthenticatorMutant(conn, dir, request, auth) ==
  Validate(IF dir = "UPSTREAM" THEN ClientKeying(conn) ELSE ServerKeying(conn), request, auth)

ValidateAuthenticator(conn, dir, request, auth) ==
  Validate(IF dir = "UPSTREAM" THEN ServerKeying(conn) ELSE ClientKeying(conn), request, auth)

-----------------------------------------------------------------------------
ExportedAuthInit == ea = [requests |-> {None}, made |-> {}, got |-> None]

AskForAuthenticator ==
  \E r \in AuthRequests :
    /\ GetAuthenticatorRequest(r.context, r.schemes) \notin ea.requests
    /\ ea' = [ea EXCEPT !.requests = @ \cup {GetAuthenticatorRequest(r.context, r.schemes)}]

ProveIdentity ==
  \E conn \in AuthConnections, dir \in Directions, cert \in AuthCerts, request \in ea.requests :
    /\ ea.got = None /\ Cardinality(ea.made) < MaxAuthenticators
    /\ ea' = [ea EXCEPT !.made = @ \cup
         {[conn |-> conn, dir |-> dir, cert |-> cert, request |-> request,
           auth |-> GetAuthenticator(conn, dir, cert, request)]}]

(* What an application may hand over: whole, cut, joined or mixed.         *)
Cut(auth, n) == SubSeq(auth, 1, IF n <= Len(auth) THEN n ELSE Len(auth))
TwoTogether(l, m) == l.auth \o m.auth
PartsOfTwo(l, m, n) == Cut(l.auth, n) \o SubSeq(m.auth, n + 1, Len(m.auth))
Deliveries ==
  {m.auth : m \in ea.made}
    \cup {Cut(m.auth, n) : m \in ea.made, n \in 0 .. 2}
    \cup {TwoTogether(l, m) : l \in ea.made, m \in ea.made}
    \cup {PartsOfTwo(l, m, n) : l \in ea.made, m \in ea.made, n \in 1 .. 2}

CheckIdentity ==
  \E conn \in AuthConnections, dir \in Directions, request \in ea.requests, auth \in Deliveries :
    /\ ea.got = None
    /\ ea' = [ea EXCEPT !.got =
         [conn |-> conn, dir |-> dir, request |-> request, auth |-> auth,
          context |-> GetAuthenticatorContext(auth),
          certs |-> ValidateAuthenticator(conn, dir, request, auth)]]

ExportedAuthNext == AskForAuthenticator \/ ProveIdentity \/ CheckIdentity

(* What m proved is what was asked for here: by the other end of this      *)
(* connection, in answer to this request.                                  *)
Answers(m) == m.conn = ea.got.conn /\ m.dir # ea.got.dir /\ m.request = ea.got.request

(* A certificate chain is accepted exactly when the other end of the same  *)
(* connection made the authenticator with it, for the request it is        *)
(* checked against; an empty one only from an end that had nothing to      *)
(* prove, and no mixture of two is taken for either.  The context that is  *)
(* read from it is the one of the request                                  *)
(* (ExportedAuthenticator::getAuthenticator, validateAuthenticator).       *)
AuthenticatorsBind == (IF ea = None THEN FALSE ELSE ea.got # None) =>
  /\ ea.got.certs # None =>
       \E m \in ea.made :
         /\ Answers(m)
         /\ IsPrefix(m.auth, ea.got.auth)
         /\ ea.got.certs = (IF Len(m.auth) = 1 THEN <<>> ELSE m.cert.chain)
         /\ Len(m.auth) = 3 => ea.got.context = DecodeAuthRequest(m.request).context
         /\ Len(m.auth) = 1 => m.cert.schemes \cap {AuthSupported[i] : i \in DOMAIN AuthSupported} = {}
  /\ \A m \in ea.made : Answers(m) /\ m.auth = ea.got.auth => ea.got.certs # None
=============================================================================
