--------------------------- MODULE MCSubsystems ---------------------------
(* Small instances of the parts, chosen so that every branch is taken.      *)
EXTENDS Subsystems

(* Encrypted client hello.                                                 *)
SuiteA == [kdf |-> "Sha256", aead |-> "AES_128_GCM_SHA256"]
SuiteBad == [kdf |-> "Sha256", aead |-> "AES_256_GCM_SHA384"]
ConfigA == [version |-> "Draft15", id |-> 1, pk |-> "pa", kem |-> "x25519",
            suites |-> <<SuiteBad, SuiteA>>, extensions |-> {}, validName |-> TRUE,
            publicName |-> "public", maxLen |-> 8]
ConfigB == [ConfigA EXCEPT !.id = 2, !.pk = "pb"]
\* same id as A, another key
ConfigC == [ConfigA EXCEPT !.pk = "pc"]
Param(c) == [config |-> c, kex |-> c.pk]
Unusable == {[ConfigA EXCEPT !.extensions = {2^15 + 1}], [ConfigA EXCEPT !.validName = FALSE],
  [ConfigA EXCEPT !.kem = "secp521r1"], [ConfigA EXCEPT !.suites = <<SuiteBad>>],
  [ConfigA EXCEPT !.version = "other"]}
Lists == {<<ConfigA>>} \cup {<<u>> : u \in Unusable} \cup {<<u, ConfigA>> : u \in Unusable}
Servers == {None, <<Param(ConfigA)>>, <<Param(ConfigB)>>, <<Param(ConfigC)>>, <<Param(ConfigC), Param(ConfigA)>>}
C0 == [configs |-> <<ConfigA>>, params |-> <<Param(ConfigA)>>,
   ciphers |-> {"AES_128_GCM_SHA256", "AES_256_GCM_SHA384", "AEGIS"}, groups |-> {"x25519", "kyber"},
   sni |-> "secret", psk |-> FALSE, early |-> FALSE, otherHash |-> FALSE, ticket |-> TRUE,
   outerTypes |-> {"key_share"}, retry |-> "none",
   lengths |-> [secret |-> 6, s |-> 1, longer |-> 9, public |-> 6]]
Names == {"secret", "longer", None}
Retries == {"none", "stateful", "stateless"}
MCEchConfigurations ==
  {[C0 EXCEPT !.configs = l] : l \in Lists} \cup
  {[C0 EXCEPT !.params = p, !.psk = k, !.early = k, !.retry = r] :
     p \in Servers, k \in BOOLEAN, r \in Retries} \cup
  {[C0 EXCEPT !.psk = TRUE, !.sni = n, !.ticket = FALSE, !.outerTypes = o, !.retry = r] :
     n \in Names, o \in {{}, {"key_share", "supported_groups"}}, r \in Retries} \cup
  {[C0 EXCEPT !.psk = TRUE, !.otherHash = TRUE, !.retry = r] : r \in Retries}
(* A server with two configurations, the client knows the second.         *)
TwoConfigs == {[C0 EXCEPT !.params = <<Param(ConfigB), Param(ConfigA)>>]}

(* Batch signatures.                                                       *)
MCBatchSetups == {[local |-> l, threshold |-> t, schemes |-> s] : l \in BOOLEAN, t \in {1,2,3,5},
   s \in {<<"rsa_pss_sha256", "rsa_pss_sha384">>, <<"ecdsa_secp256r1_sha256">>}}

(* Kernel TLS.                                                             *)
KBase == [kind |-> "both", suite |-> "TLS_AES_128_GCM_SHA256", good |-> TRUE, tickets |-> TRUE,
          rseq |-> 1, wseq |-> 1, records |-> 4, writes |-> 1]
MCKTLSSetups ==
  {[KBase EXCEPT !.kind = k, !.tickets = t] : k \in {"both", "rx"}, t \in BOOLEAN} \cup
  {[KBase EXCEPT !.kind = k, !.rseq = 0, !.records = 1, !.writes = 3, !.suite = "TLS_AES_256_GCM_SHA384"] : k \in {"both", "rx"}} \cup
  {[KBase EXCEPT !.suite = "TLS_CHACHA20_POLY1305_SHA256", !.good = g, !.records = 2] : g \in BOOLEAN}
MCKTLSFaults == {None, "no socket", "no TLS_RX", "ulp", "rx", "tx"}
T1 == [type |-> "NewSessionTicket", ticket |-> "t1", nonce |-> 1, early |-> None]
T2 == [T1 EXCEPT !.ticket = "t2", !.nonce = 2, !.early = 100]
KU == [T1 EXCEPT !.type = "KeyUpdate"]
MCPeerRecords == {[type |-> "data", body |-> 0], [type |-> "handshake", body |-> <<T1, T1>>],
 [type |-> "handshake", body |-> <<T2>>], [type |-> "handshake", body |-> <<T1, T1, T2, T2>>],
 [type |-> "handshake", body |-> <<KU, KU>>], [type |-> "alert", body |-> "close_notify"],
 [type |-> "alert", body |-> "internal_error"], [type |-> "fin", body |-> 0], [type |-> "other", body |-> 0]}
MCKTLSWrites == {[size |-> 1, shared |-> TRUE], [size |-> 2, shared |-> TRUE], [size |-> 2, shared |-> FALSE]}

(* The key schedule: what the ends offer and choose.                       *)
MCKeySetups ==
  {s \in [psk : {None, "External", "Resumption"}, accept : BOOLEAN, ecdhe : BOOLEAN, early : BOOLEAN,
          earlyAccepted : BOOLEAN, otherHash : BOOLEAN, clientAuth : BOOLEAN,
          retry : {"none", "stateful", "stateless"}, share : BOOLEAN, otherServer : BOOLEAN] :
     /\ s.psk = None => ~s.accept /\ ~s.early /\ ~s.otherHash
     /\ s.otherHash => ~s.accept
     /\ ~s.ecdhe => s.accept
     /\ s.clientAuth => ~s.accept
     /\ s.earlyAccepted => s.early /\ s.accept /\ s.retry = "none"
     /\ s.retry # "stateless" => (s.share <=> s.retry = "none") /\ ~s.otherServer}

(* Exported authenticators.                                                *)
MCAuthCerts == {[chain |-> <<"leaf1", "ca">>, schemes |-> {"ecdsa", "rsa"}],
                [chain |-> <<"leaf2">>, schemes |-> {"ed25519"}]}
MCAuthRequests == {[context |-> <<1>>, schemes |-> None], [context |-> <<2>>, schemes |-> <<"rsa">>],
                   [context |-> <<>>, schemes |-> None]}
MCAuthSupported == <<"ecdsa", "rsa">>

(* Certificates and credentials: the second chain has no intermediate, the *)
(* third an identity that is not valid between two that are.               *)
MCCredKeys == {[id |-> 1, type |-> "P256"], [id |-> 2, type |-> "P256"], [id |-> 3, type |-> "RSA"]}
Leaf == [names |-> <<<<"a", "x">>, <<"*", "x">>>>, key |-> [id |-> 11, type |-> "P256"],
  delegation |-> TRUE, keyUsage |-> "digitalSignature", notBefore |-> -1,
  subject |-> "leaf", issuer |-> "sub", purposes |-> {"ssl_server", "ssl_client"}]
SubCA == [Leaf EXCEPT !.subject = "sub", !.issuer = "root"]
MCX509Chains ==
  {<<Leaf, SubCA>>,
   <<[Leaf EXCEPT !.key = [id |-> 12, type |-> "RSA"], !.names = <<<<"b", "x">>, <<"a", "x">>>>]>>,
   <<[Leaf EXCEPT !.key = [id |-> 13, type |-> "P256"], !.keyUsage = "other",
                  !.names = <<<<"*", "x">>, <<"b", "*">>, <<"A", "x">>>>], SubCA>>}
Ecdsa == "ecdsa_secp256r1_sha256"
Rsa == "rsa_pss_sha256"
MCCredPeers ==
  {[schemes |-> {Ecdsa, Rsa}, dcSchemes |-> {Ecdsa}, algos |-> {"zlib"}, roots |-> {"root"}],
   [schemes |-> {Ecdsa}, dcSchemes |-> {Ecdsa}, algos |-> {}, roots |-> {"root", "sub"}],
   [schemes |-> {Rsa}, dcSchemes |-> None, algos |-> {"zstd"}, roots |-> {"sub"}],
   [schemes |-> {Rsa, Ecdsa}, dcSchemes |-> {Rsa}, algos |-> {}, roots |-> {"sub"}]}
MCCredSupported == <<Ecdsa, Rsa>>
MCCompressionOrder == <<"zstd", "brotli", "zlib">>
MCCredSnis == {None, <<"a", "x">>, <<"A", "x">>, <<"b", "x">>, <<"x">>}
MCCredSkews == {-1, 0, 1}
=============================================================================
