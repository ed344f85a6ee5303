------------------------------ MODULE Tickets ------------------------------
(***************************************************************************)
(* Session tickets: their codec, their validity and the ciphers that seal  *)
(* them.  Time is counted in ticks, Second of them to the second, so that  *)
(* the truncations of the codecs show.                                     *)
(***************************************************************************)
EXTENDS Integers, FiniteSets, TokenCipher

CONSTANTS Second,        \* ticks in a second
          AgeMod,        \* 2^32 milliseconds, in ticks
          Storage        \* how tickets keep client certificates

ASSUME TicketsAssumption ==
  /\ Second \in Nat \ {0} /\ AgeMod \in Nat \ {0}
  /\ Storage \in {"None", "X509", "IdentityOnly"}

NoCert == [id |-> None, x509 |-> FALSE]
IdentityOnlyCert(cert) == [cert EXCEPT !.x509 = FALSE]

(* duration_cast truncates towards zero.                                   *)
DurationCast(ticks) ==
  IF ticks >= 0 THEN ticks \div Second ELSE -((-ticks) \div Second)

-----------------------------------------------------------------------------
(* TicketCodec.  origin is no field of the ticket: it is when the full     *)
(* handshake behind it really took place.                                  *)

StoredCert(cert) ==
  IF cert = NoCert \/ Storage = "None" THEN NoCert
  ELSE IF Storage = "X509" THEN cert ELSE IdentityOnlyCert(cert)

EncodeTicket(res) ==
  [res EXCEPT !.clientCert = StoredCert(@),
              !.issueTime = @ \div Second,
              !.handshakeTime = @ \div Second]

(* A ticket of an earlier format ends before this field; EncodeTicket      *)
(* always writes it.                                                       *)
HandshakeTimeOf(fields) ==
  IF "handshakeTime" \in DOMAIN fields THEN fields.handshakeTime ELSE fields.issueTime

(* The server's own certificate is looked up by identity and may be gone.  *)
DecodeTicket(fields, certificates) ==
  [serverCert |-> IF fields.serverCert \in certificates THEN fields.serverCert ELSE None,
   clientCert |-> fields.clientCert, ageAdd |-> fields.ageAdd,
   issueTime |-> fields.issueTime * Second,
   handshakeTime |-> HandshakeTimeOf(fields) * Second,
   origin |-> fields.origin]

-----------------------------------------------------------------------------
(* TicketPolicy: policy.handshake and policy.ticket are in seconds.        *)

GetValidity(policy, res, now) ==
  DurationCast(res.handshakeTime + policy.handshake * Second - now)

RemainingValidity(policy, res, now) ==
  CHOOSE v \in {GetValidity(policy, res, now), policy.handshake, policy.ticket} :
    \A w \in {GetValidity(policy, res, now), policy.handshake, policy.ticket} :
      v <= w

(* Mutant: a ticket is good for the validity of its issue, not of the      *)
(* handshake that authenticated it.                                        *)
ShouldAcceptMutant(policy, res, now) ==
  DurationCast(res.issueTime + policy.handshake * Second - now) > 0

ShouldAccept(policy, res, now) == GetValidity(policy, res, now) > 0

-----------------------------------------------------------------------------
(* TicketCipherImpl and DualTicketCipher.  A cipher is its secrets, its    *)
(* context strings and its policy.                                         *)

TicketEncrypt(cipher, res, now) ==
  LET validity == RemainingValidity(cipher.policy, res, now)
      token == TokenEncrypt(cipher.secrets, cipher.contexts, EncodeTicket(res))
  IN IF validity <= 0 \/ token = None THEN None
     ELSE [ticket |-> token, lifetime |-> validity]

TicketDecrypt(cipher, certificates, token, now) ==
  LET plaintext == TokenDecrypt(cipher.secrets, cipher.contexts, token)
      res == DecodeTicket(plaintext, certificates)
  IN IF plaintext = None THEN None
     ELSE IF ShouldAccept(cipher.policy, res, now) THEN res ELSE None

DualDecrypt(cipher, fallback, certificates, token, now) ==
  LET res == TicketDecrypt(cipher, certificates, token, now)
  IN IF res = None THEN TicketDecrypt(fallback, certificates, token, now) ELSE res

=============================================================================
