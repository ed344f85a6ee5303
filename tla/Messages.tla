------------------------------ MODULE Messages ------------------------------
(***************************************************************************)
(* The handshake messages of fizz/record/Types.h, up to what the two state *)
(* machines tell apart, the transcript they hash, and the checks both      *)
(* machines are made of.                                                   *)
(***************************************************************************)
EXTENDS RecordLayer, FiniteSets

None == "none"     \* folly::none

(* A ticket (ResumptionState / CachedPsk); NoPsk stands for folly::none.   *)
NoPsk == [id |-> None, version |-> None, cipher |-> None, alpn |-> None,
          clientCert |-> FALSE]

NoCookie == [kind |-> None, version |-> None, cipher |-> None,
             group |-> None, chlo |-> <<>>]

(***************************************************************************)
(* The transcript is the sequence of messages hashed so far.  The data of  *)
(* a Finished or CertificateVerify is a function of what precedes it, so   *)
(* only its presence is kept.                                              *)
(***************************************************************************)
Digest(m) ==
  IF m.type \in {"Finished", "CertificateVerify"} THEN [type |-> m.type] ELSE m

AppendToTranscript(t, m) == Append(t, Digest(m))
Digests(t, ms) == t \o [i \in DOMAIN ms |-> Digest(ms[i])]

MessageHash(t) == [type |-> "MessageHash", of |-> t]

(* fault names a defect that a check of the receiver looks for.            *)
HelloRetryRequest(version, cipher, group, session, cookie) ==
  [type |-> "HelloRetryRequest", version |-> version, cipher |-> cipher,
   group |-> group, session |-> session, cookie |-> cookie, fault |-> None]

ServerHello(version, cipher, group, psk, session) ==
  [type |-> "ServerHello", version |-> version, cipher |-> cipher,
   group |-> group, psk |-> psk, session |-> session, fault |-> None]

EncryptedExtensions(alpn, early) ==
  [type |-> "EncryptedExtensions", alpn |-> alpn, early |-> early, fault |-> None]

CertificateRequest == [type |-> "CertificateRequest", fault |-> None]
Certificate(kind) == [type |-> "Certificate", kind |-> kind]
CompressedCertificate(kind) == [type |-> "CompressedCertificate", kind |-> kind]
CertificateVerify(over, scheme) ==
  [type |-> "CertificateVerify", over |-> over, scheme |-> scheme]
Finished(verify) == [type |-> "Finished", verify |-> verify]
EndOfEarlyData == [type |-> "EndOfEarlyData"]
NewSessionTicket(early) == [type |-> "NewSessionTicket", early |-> early]
KeyUpdate(requested) == [type |-> "KeyUpdate", requested |-> requested]
AppData(d) == [type |-> "AppData", data |-> d]
Alert(description) == [type |-> "Alert", description |-> description]
CloseNotify == [type |-> "CloseNotify"]

(***************************************************************************)
(* A handler is a list of checks, each with what happens when it hits, in  *)
(* the order of the code; the first hit decides.                           *)
(***************************************************************************)
FirstHit(checks) ==
  LET hits == {i \in DOMAIN checks : checks[i][1]}
  IN IF hits = {} THEN "ok"
     ELSE checks[CHOOSE i \in hits : \A j \in hits : i <= j][2]

(* The first of a list of preferences that the other side offers.          *)
Prefer(prefs, offered) ==
  LET hits == {i \in DOMAIN prefs : prefs[i] \in offered}
  IN IF hits = {} THEN None
     ELSE prefs[CHOOSE i \in hits : \A j \in hits : i <= j]

(* The first tier that matches; within it the client's order decides.      *)
PreferTiered(tiers, clientOrder) ==
  LET Match(tier) == Prefer(clientOrder, tier)
  IN Prefer([i \in DOMAIN tiers |-> Match(tiers[i])],
            {clientOrder[j] : j \in DOMAIN clientOrder})

(* What the application is told.                                           *)
Call(what, data) == [type |-> what, data |-> data]
Told(calls, what) == \E i \in DOMAIN calls : calls[i].type = what

-----------------------------------------------------------------------------
(* What can be said of the records that one side has sent.                 *)

(* The records that hold a message of a type.                              *)
Holding(records, type) ==
  {i \in DOMAIN records :
     \E k \in DOMAIN records[i].body : records[i].body[k].type = type}

(* No two records are sealed with the same key and sequence number.        *)
NoncesDiffer(records) ==
  \A i, j \in DOMAIN records :
    (i < j /\ records[i].key # PlainKey /\ records[i].key = records[j].key)
      => records[i].seq < records[j].seq

(* An alert ends the stream.                                               *)
NothingAfterAlert(records) ==
  \A i \in Holding(records, "Alert") \cup Holding(records, "CloseNotify") :
    i = Len(records)
=============================================================================
