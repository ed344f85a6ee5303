-------------------------------- MODULE Hpke --------------------------------
(***************************************************************************)
(* Hybrid public key encryption (crypto/hpke): the key encapsulation, the  *)
(* key schedule and the two contexts.  Hashing is injective: a derived     *)
(* value is the record of everything it was derived from.  A key pair is   *)
(* named by its public key.  None stands for an exception.                 *)
(***************************************************************************)
EXTENDS TokenCipher, Naturals, Sequences

CONSTANT SeqLimit      \* stands for UINT64_MAX

ASSUME HpkeAssumption == SeqLimit \in Nat \ {0}

VARIABLE hp            \* what both sides were set up with, and the traffic

Modes == {"Base", "Psk", "Auth", "AuthPsk"}

(* The groups, hashes and ciphers HPKE has an identifier for; the others   *)
(* make the conversions throw.                                             *)
KemGroups == {"secp256r1", "secp384r1", "secp521r1", "x25519"}
KdfHashes == {"Sha256", "Sha384", "Sha512"}
AeadSuites == {"AES_128_GCM_SHA256", "AES_256_GCM_SHA384", "CHACHA20_POLY1305_SHA256"}

HpkeSuiteId(group, hash, suite) == <<group, hash, suite>>

SuiteOk(suite) ==
  /\ suite[1] \in KemGroups
  /\ suite[2] \in KdfHashes
  /\ suite[3] \in AeadSuites

(* Either side of a key exchange computes the same secret.                 *)
DH(mine, theirs) == {mine, theirs}

(* The label and the suite are part of what is hashed.                     *)
LabeledExtract(kdf, salt, label, ikm, suite) ==
  [kdf |-> kdf, salt |-> salt, label |-> label, ikm |-> ikm, suite |-> suite]

LabeledExpand(kdf, prk, label, info, suite) ==
  [kdf |-> kdf, prk |-> prk, label |-> label, info |-> info, suite |-> suite]

ExtractAndExpand(dh, kemContext, suite) ==
  LabeledExpand(suite[2], LabeledExtract(suite[2], None, "eae_prk", dh, <<"KEM", suite[1]>>),
                "shared_secret", kemContext, <<"KEM", suite[1]>>)

Encap(eph, pkR, suite) ==
  ExtractAndExpand(<<DH(eph, pkR)>>, <<eph, pkR>>, suite)

AuthEncap(eph, pkS, pkR, suite) ==
  ExtractAndExpand(<<DH(eph, pkR), DH(pkS, pkR)>>, <<eph, pkR, pkS>>, suite)

Decap(enc, pkR, suite) ==
  ExtractAndExpand(<<DH(pkR, enc)>>, <<enc, pkR>>, suite)

AuthDecap(enc, pkR, pkS, suite) ==
  ExtractAndExpand(<<DH(pkR, enc), DH(pkR, pkS)>>, <<enc, pkR, pkS>>, suite)

DefaultPsk == [key |-> "", id |-> ""]

(* Inputs that are given are checked: the psk and its id come together,    *)
(* and exactly in the modes that use them.  None given is not checked.     *)
PskInputsOk(mode, psk) ==
  psk # None =>
    /\ (psk.key = "") = (psk.id = "")
    /\ (psk.key = "") = (mode \in {"Base", "Auth"})

PskOf(psk) == IF psk = None THEN DefaultPsk ELSE psk

KeyScheduleContext(mode, pskId, info, suite) ==
  [mode |-> mode,
   pskIdHash |-> LabeledExtract(suite[2], None, "psk_id_hash", pskId, suite),
   infoHash |-> LabeledExtract(suite[2], None, "info_hash", info, suite)]

Secrets(secret, context, suite) ==
  [key |-> LabeledExpand(suite[2], secret, "key", context, suite),
   nonce |-> LabeledExpand(suite[2], secret, "base_nonce", context, suite),
   exporter |-> LabeledExpand(suite[2], secret, "exp", context, suite)]

KeySchedule(mode, sharedSecret, info, psk, suite) ==
  Secrets(LabeledExtract(suite[2], sharedSecret, "secret", PskOf(psk).key, suite),
          KeyScheduleContext(mode, PskOf(psk).id, info, suite), suite)

HpkeContext(secrets, seq, role) ==
  [key |-> <<secrets.key, secrets.nonce>>, exporter |-> secrets.exporter,
   seq |-> seq, role |-> role]

SetupWithEncap(mode, eph, pkS, pkR, info, psk, suite, seq) ==
  HpkeContext(
    KeySchedule(mode,
                IF mode \in {"Auth", "AuthPsk"} THEN AuthEncap(eph, pkS, pkR, suite)
                                                ELSE Encap(eph, pkR, suite),
                info, psk, suite),
    seq, "Sender")

SetupWithDecap(mode, enc, pkS, pkR, info, psk, suite, seq) ==
  HpkeContext(
    KeySchedule(mode,
                IF mode \in {"Auth", "AuthPsk"} THEN AuthDecap(enc, pkR, pkS, suite)
                                                ELSE Decap(enc, pkR, suite),
                info, psk, suite),
    seq, "Receiver")

IncrementSeqFails(ctx) == ctx.seq >= SeqLimit - 1

(* Mutant: the number stays the same.                                      *)
IncrementSeqMutant(ctx) == ctx

IncrementSeq(ctx) == [ctx EXCEPT !.seq = @ + 1]

(* The number is checked after the cipher has run: the last ciphertext is  *)
(* lost with the exception.                                                *)
Seal(ctx, aad, pt) ==
  IF ctx.role # "Sender" \/ IncrementSeqFails(ctx) THEN None
  ELSE [key |-> ctx.key, seq |-> ctx.seq, aad |-> aad, pt |-> pt]

Open(ctx, aad, ct) ==
  IF \/ ctx.role # "Receiver" \/ IncrementSeqFails(ctx)
     \/ <<ct.key, ct.seq, ct.aad>> # <<ctx.key, ctx.seq, aad>>
  THEN None ELSE ct.pt

Export(ctx, exporterContext, length, maxLength) ==
  IF length > maxLength THEN None
  ELSE [prk |-> ctx.exporter, label |-> "sec", info |-> exporterContext, length |-> length]

-----------------------------------------------------------------------------
(* A sender and a receiver, set up from inputs that may differ, and a      *)
(* network that repeats and reorders.                                      *)
Psks == {None, DefaultPsk, [key |-> "k", id |-> "i"], [key |-> "k", id |-> ""]}
Suites == {HpkeSuiteId("x25519", "Sha256", "AES_128_GCM_SHA256"),
           HpkeSuiteId("x25519", "Sha384", "AES_128_GCM_SHA256"),
           HpkeSuiteId("ffdhe2048", "Sha256", "AES_128_GCM_SHA256")}
Inputs == {i \in [mode : Modes, pkS : {"s1", "s2"}, pkR : {"r1"}, info : {"a", "b"},
                  psk : Psks, suite : Suites] :
             /\ PskInputsOk(i.mode, i.psk)
             /\ SuiteOk(i.suite)
             /\ i.pkS = "s2" => i.info = "a"}

HpkeInit ==
  \E s, r \in Inputs :
    hp = [ins |-> s, inr |-> r, sealed |-> <<>>, opened |-> <<>>,
          snd |-> SetupWithEncap(s.mode, "e", s.pkS, s.pkR, s.info, s.psk, s.suite, 0),
          rcv |-> SetupWithDecap(r.mode, "e", r.pkS, r.pkR, r.info, r.psk, r.suite, 0)]

HpkeSeal ==
  LET ct == Seal(hp.snd, "aad", Len(hp.sealed) + 1)
  IN /\ ct # None
     /\ hp' = [hp EXCEPT !.sealed = Append(@, ct), !.snd = IncrementSeq(@)]

HpkeOpen ==
  \E i \in DOMAIN hp.sealed :
    LET pt == Open(hp.rcv, "aad", hp.sealed[i])
    IN /\ pt # None
       /\ hp' = [hp EXCEPT !.opened = Append(@, pt), !.rcv = IncrementSeq(@)]

HpkeNext == HpkeSeal \/ HpkeOpen

(* The inputs that reach the key: the sender's key only in the modes that  *)
(* authenticate it.                                                        *)
Bound(i) == [i EXCEPT !.pkS = IF i.mode \in {"Auth", "AuthPsk"} THEN @ ELSE "any",
                      !.psk = PskOf(@)]

(* Whatever the network repeats or reorders, the receiver's context opens  *)
(* the sealed messages in order and each once; no two of them share a key  *)
(* and a number; nothing opens unless both sides were set up alike, and    *)
(* then the next message in turn does and both export the same secrets     *)
(* (HpkeContextImpl::seal, open and exportSecret).                         *)
HpkeInOrder == hp # None =>
  /\ hp.opened = [i \in DOMAIN hp.opened |-> i]
  /\ \A i, j \in DOMAIN hp.sealed :
       hp.sealed[i].seq = hp.sealed[j].seq => i = j
  /\ hp.opened # <<>> => Bound(hp.ins) = Bound(hp.inr)
  /\ (/\ Bound(hp.ins) = Bound(hp.inr)
      /\ Len(hp.opened) < Len(hp.sealed))
       => Open(hp.rcv, "aad", hp.sealed[Len(hp.opened) + 1]) = Len(hp.opened) + 1
  /\ (Export(hp.snd, "ctx", 1, 255) = Export(hp.rcv, "ctx", 1, 255))
       <=> Bound(hp.ins) = Bound(hp.inr)
=============================================================================
