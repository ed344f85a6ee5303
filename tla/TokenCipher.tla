---------------------------- MODULE TokenCipher ----------------------------
(***************************************************************************)
(* Aead128GCMTokenCipher, which seals what a server hands to clients and   *)
(* gets back later: session tickets and retry cookies.  Sealing is ideal:  *)
(* a token opens only under the secret and the context strings that sealed *)
(* it.                                                                     *)
(***************************************************************************)
EXTENDS Naturals, Sequences

CONSTANT None           \* the absent value of an optional

LongEnough(secret) == secret.length >= 32

(* The key that seals a token is extracted from a secret through every     *)
(* context string of the cipher.                                           *)
Extracted(secret, contexts) == <<secret, contexts>>

SetSecrets(old, new) ==
  IF \A i \in DOMAIN new : LongEnough(new[i]) THEN new ELSE old

TokenEncrypt(secrets, contexts, plaintext) ==
  IF secrets = <<>> THEN None
  ELSE [key |-> Extracted(Head(secrets), contexts), plaintext |-> plaintext]

TokenDecrypt(secrets, contexts, token) ==
  IF \E i \in DOMAIN secrets : token.key = Extracted(secrets[i], contexts)
  THEN token.plaintext ELSE None
=============================================================================
