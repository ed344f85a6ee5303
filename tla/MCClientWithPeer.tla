-------------------------- MODULE MCClientWithPeer --------------------------
(* A handful of client configurations, and server messages chosen so that  *)
(* every check of the handlers can hit and every outcome be reached.       *)
EXTENDS ClientWithPeer

MCHashOf == [c \in {"aes128", "chacha", "aes256"} |->
               IF c = "aes256" THEN "sha384" ELSE "sha256"]

Ticket == [id |-> "t1", version |-> "v13", cipher |-> "aes128",
           alpn |-> "h2", clientCert |-> TRUE]

NothingCached == [ticket |-> NoPsk, group |-> None, maxEarly |-> 0, current |-> FALSE]
Cached == [ticket |-> Ticket, group |-> "x25519", maxEarly |-> 1, current |-> TRUE]

Base == [versions |-> <<"v13", "v14">>, ciphers |-> <<"aes128", "chacha", "aes256">>,
         groups |-> {"x25519", "p256"}, defaultShares |-> {"x25519"},
         sendKeyShare |-> "Always", pskModes |-> {"psk_dhe_ke", "psk_ke"},
         alpns |-> {"h2", "h1"}, requireAlpn |-> FALSE, sendEarly |-> TRUE,
         omitEarly |-> FALSE, compat |-> TRUE, clientCert |-> FALSE,
         decompress |-> TRUE, cached |-> NothingCached]

MCContexts ==
  {Base,
   [Base EXCEPT !.cached = Cached],
   [Base EXCEPT !.cached = [Cached EXCEPT !.group = None, !.ticket.clientCert = FALSE],
                !.sendKeyShare = "WhenNecessary", !.compat = FALSE, !.requireAlpn = TRUE],
   [Base EXCEPT !.cached = Cached, !.omitEarly = TRUE, !.clientCert = TRUE,
                !.pskModes = {"psk_dhe_ke"}],
   [Base EXCEPT !.cached = [Cached EXCEPT !.current = FALSE], !.clientCert = TRUE,
                !.decompress = FALSE, !.pskModes = {}]}

Retry == HelloRetryRequest("v13", "aes128", "p256", TRUE, NoCookie)
Cookie == [kind |-> "good", version |-> "v13", cipher |-> "aes128",
           group |-> "p256", chlo |-> <<>>]
MCRetries ==
  {Retry,
   [Retry EXCEPT !.cookie = Cookie, !.group = None],
   [Retry EXCEPT !.group = "x25519"],
   [Retry EXCEPT !.group = "p384"],
   [Retry EXCEPT !.cipher = "aes256"],
   [Retry EXCEPT !.fault = "extensions"]}

Hello == ServerHello("v13", "aes128", "x25519", FALSE, TRUE)
MCServerHellos ==
  {Hello, [Hello EXCEPT !.psk = TRUE],
          [Hello EXCEPT !.group = "p256"],
          [Hello EXCEPT !.group = "p256", !.psk = TRUE],
          [Hello EXCEPT !.group = "p256", !.psk = TRUE, !.version = "v14"],
          [Hello EXCEPT !.group = None, !.psk = TRUE],
          [Hello EXCEPT !.group = None],
          [Hello EXCEPT !.cipher = "chacha", !.psk = TRUE],
          [Hello EXCEPT !.cipher = "aes256", !.psk = TRUE],
          [Hello EXCEPT !.cipher = "unknown"],
          [Hello EXCEPT !.version = None],
          [Hello EXCEPT !.session = FALSE],
          [Hello EXCEPT !.session = FALSE, !.group = None, !.psk = TRUE]}
         \cup {[Hello EXCEPT !.psk = TRUE, !.fault = f] :
                 f \in {"extensions", "legacy_version", "compression", "identity"}}

MCExtensions ==
  {EncryptedExtensions(a, e) : a \in {"h2", "h1", None}, e \in BOOLEAN}
    \cup {EncryptedExtensions("h3", FALSE),
          [EncryptedExtensions(None, FALSE) EXCEPT !.fault = "extensions"]}

(* For long sessions: fewer ways to begin one.                             *)
SessionContexts == {Base, [Base EXCEPT !.cached = Cached, !.clientCert = TRUE]}
SessionRetries == {Retry}
SessionServerHellos == {Hello, [Hello EXCEPT !.psk = TRUE],
                        [Hello EXCEPT !.group = "p256", !.psk = TRUE]}
SessionExtensions == {EncryptedExtensions("h2", e) : e \in BOOLEAN}

MCScenarios ==
  [hello |-> [contexts |-> MCContexts, retries |-> MCRetries, hellos |-> MCServerHellos,
    extensions |-> MCExtensions, requests |-> 1],
   session |-> [contexts |-> SessionContexts, retries |-> SessionRetries, hellos |-> SessionServerHellos,
    extensions |-> SessionExtensions, requests |-> 3]]
=============================================================================
