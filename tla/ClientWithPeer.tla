--------------------------- MODULE ClientWithPeer ---------------------------
(***************************************************************************)
(* A client connected to a peer that follows no protocol: it may send any  *)
(* message in any record, in any state of the client.  The peer is the     *)
(* genuine server, or an impostor that has neither the private key of a    *)
(* certificate the client trusts nor the secret of the client's ticket.    *)
(***************************************************************************)
EXTENDS ClientProtocol

CONSTANTS
  Scenarios,        \* by name: configurations of the client, the HelloRetryRequests,
                    \* ServerHellos and EncryptedExtensions the peer may send,
                    \* and a bound on the requests of the application
  MaxRecords        \* bound on the records the peer sends

ASSUME PeerBound == MaxRecords \in Nat

(* Versions and cipher suites are values, none of them the absent one.     *)
ASSUME ScenariosAssumption ==
  \A s \in DOMAIN Scenarios :
    /\ \A c \in Scenarios[s].contexts :
         None \notin Elements(c.versions) \cup Elements(c.ciphers)
    /\ \A m \in Scenarios[s].retries \cup Scenarios[s].hellos \cup Scenarios[s].extensions :
         m.type \in {"HelloRetryRequest", "ServerHello", "EncryptedExtensions"}

VARIABLES
  scenario,         \* the one this behaviour belongs to
  peer,             \* "genuine" or "impostor"
  sent              \* number of records the peer has sent

(* A signature or MAC that does not verify.                                *)
Wrong == <<NoMessage>>

Signatures ==
  {CertificateVerify(Wrong, "supported")} \cup
    IF peer = "genuine" THEN {CertificateVerify(transcript, "supported"),
                              CertificateVerify(transcript, "unsupported")}
    ELSE {}

HandshakeMessages ==
  LET requests == {[CertificateRequest EXCEPT !.fault = f] : f \in {None, "malformed"}}
  IN CASE state = "ExpectingServerHello" -> Scenarios[scenario].retries \cup Scenarios[scenario].hellos
       [] state = "ExpectingEncryptedExtensions" -> Scenarios[scenario].extensions \cup {CertificateRequest}
       [] state = "ExpectingCertificate" ->
            requests \cup {Certificate(k) : k \in {"chain", "empty"}}
              \cup {CompressedCertificate(k) : k \in {"chain", "unreadable"}}
       [] state = "ExpectingCertificateVerify" ->
            Signatures \cup {Finished(transcript)}
       [] OTHER -> {Finished(transcript), Finished(Wrong), NewSessionTicket(TRUE),
                    KeyUpdate(TRUE), KeyUpdate(FALSE)}

(* A message by itself; cut short, or completed; followed by another one.   *)
Bodies ==
  {<<m>> : m \in HandshakeMessages \cup {AppData(1), Alert("any"), CloseNotify}}
    \cup {<<Front(m)>> : m \in HandshakeMessages}
    \cup {<<Back>>}
    \cup {<<m, NewSessionTicket(TRUE)>> : m \in HandshakeMessages}

(* An impostor cannot derive keys that depend on the ticket's secret.      *)
HasKeys == peer = "genuine" \/ neg.pskType # "Resumption"

(* Records the client's read layer can open, and records it cannot.        *)
Records ==
  (IF HasKeys /\ HasLayer(read) THEN {Seal(read, b) : b \in Bodies} ELSE {})
    \cup {CCS, Seal(PlainLayer(FALSE), <<Alert("any")>>),
          Seal([read EXCEPT !.seq = @ + 1], <<CloseNotify>>)}

PeerSends ==
  /\ Live
  /\ in = <<>>
  /\ sent < MaxRecords
  /\ sent' = sent + 1
  /\ \E r \in Records : in' = <<r>>
  /\ UNCHANGED <<ctx, state, read, write, hsVars, out, calls, written, asked, peer, scenario>>

Init ==
  /\ scenario \in DOMAIN Scenarios
  /\ ctx \in Scenarios[scenario].contexts
  /\ peer \in {"genuine", "impostor"}
  /\ in = <<>>
  /\ out = <<>>
  /\ sent = 0
  /\ InitClient

(* A record that is not read yet does not matter to the application's      *)
(* requests, so these need not be interleaved with its arrival.            *)
Next ==
  \/ Connect /\ UNCHANGED <<peer, sent, scenario>>
  \/ PeerEvent /\ UNCHANGED <<peer, sent, scenario>>
  \/ in = <<>> /\ asked < Scenarios[scenario].requests /\ AppEvent /\ UNCHANGED <<peer, sent, scenario>>
  \/ PeerSends

Spec == Init /\ [][Next]_<<vars, peer, sent, scenario>>

-----------------------------------------------------------------------------
(***************************************************************************)
(* A client never completes a handshake with an impostor and never         *)
(* delivers an impostor's data, whatever it sends; and it never completes  *)
(* one with a chain that was received and not verified.                    *)
(***************************************************************************)
ServerAuthenticated ==
  /\ peer = "impostor" => ~Told(calls, "HandshakeSuccess") /\ ~Told(calls, "Deliver")
  /\ Told(calls, "HandshakeSuccess") => cert /\ ~chain
=============================================================================
