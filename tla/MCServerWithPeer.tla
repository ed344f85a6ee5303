-------------------------- MODULE MCServerWithPeer --------------------------
(* A handful of server configurations, and ClientHellos chosen so that     *)
(* every check of the handler can hit and every outcome be reached.        *)
EXTENDS ServerWithPeer

MCHashOf == [c \in {"aes128", "chacha", "aes256"} |->
               IF c = "aes256" THEN "sha384" ELSE "sha256"]

(* The services are all well, or one of them is not.                        *)
Well == [fails |-> None, ticketOk |-> TRUE, replay |-> "NotReplay",
         fresh |-> TRUE, large |-> FALSE]
MCServices ==
  {Well, [Well EXCEPT !.ticketOk = FALSE], [Well EXCEPT !.replay = "MaybeReplay"],
   [Well EXCEPT !.fresh = FALSE], [Well EXCEPT !.large = TRUE]}
    \cup {[Well EXCEPT !.fails = f] : f \in {"ticket", "kex", "sign"}}

Base == [versions |-> <<"v13">>, ciphers |-> <<{"aes128", "chacha"}>>,
         groups |-> <<"x25519", "p256">>, pskModes |-> <<"psk_dhe_ke">>,
         alpns |-> <<"h2">>, alpnMode |-> "AllowMismatch",
         acceptEarly |-> TRUE, omitEarly |-> FALSE, clientAuth |-> "None",
         sendTicket |-> TRUE, ticketCipher |-> TRUE, replayCache |-> TRUE,
         cookieCipher |-> TRUE, fallback |-> FALSE, compress |-> FALSE]

MCContexts ==
  {Base,
   [Base EXCEPT !.clientAuth = "Required", !.sendTicket = FALSE],
   [Base EXCEPT !.clientAuth = "Optional", !.alpnMode = "Required",
                !.fallback = TRUE, !.cookieCipher = FALSE],
   [Base EXCEPT !.omitEarly = TRUE, !.compress = TRUE,
                !.pskModes = <<"psk_ke", "psk_dhe_ke">>],
   [Base EXCEPT !.acceptEarly = FALSE, !.ticketCipher = FALSE]}

Ticket == [id |-> "t1", version |-> "v13", cipher |-> "aes128",
           alpn |-> "h2", clientCert |-> TRUE]

GoodHello ==
  [type |-> "ClientHello", versions |-> {"v13"}, ciphers |-> <<"aes128", "chacha">>,
   groups |-> {"x25519", "p256"}, shares |-> {"x25519"}, psk |-> NoPsk,
   binder |-> <<>>, modes |-> {"psk_dhe_ke"}, early |-> FALSE,
   alpns |-> {"h2"}, session |-> TRUE, cookie |-> NoCookie,
   compress |-> TRUE, fault |-> None]

PskHello == [GoodHello EXCEPT !.psk = Ticket, !.early = TRUE,
                              !.modes = {"psk_dhe_ke", "psk_ke"}]

Cookie == [kind |-> "good", version |-> "v13", cipher |-> "aes128",
           group |-> "x25519", chlo |-> <<>>]

MCHellos ==
  {GoodHello, PskHello,
   [GoodHello EXCEPT !.shares = {"p256"}],
   [GoodHello EXCEPT !.groups = {"p256"}, !.shares = {"p256"}],
   [GoodHello EXCEPT !.ciphers = <<"chacha", "aes128">>],
   [PskHello EXCEPT !.shares = {}],
   [PskHello EXCEPT !.shares = {}, !.early = FALSE, !.session = FALSE],
   [PskHello EXCEPT !.psk.cipher = "chacha"],
   [PskHello EXCEPT !.psk.cipher = "aes256", !.alpns = {}],
   [PskHello EXCEPT !.modes = {}],
   [GoodHello EXCEPT !.modes = {}],
   [GoodHello EXCEPT !.versions = {}],
   [GoodHello EXCEPT !.ciphers = <<"aes256">>],
   [PskHello EXCEPT !.versions = {}],
   [GoodHello EXCEPT !.cookie = Cookie],
   [GoodHello EXCEPT !.cookie = [Cookie EXCEPT !.kind = "bad"]],
   [GoodHello EXCEPT !.cookie = [Cookie EXCEPT !.version = "v14"]],
   [GoodHello EXCEPT !.cookie = [Cookie EXCEPT !.cipher = "chacha"]],
   [GoodHello EXCEPT !.cookie = [Cookie EXCEPT !.group = "p256"]],
   [GoodHello EXCEPT !.alpns = {"h3"}],
   [GoodHello EXCEPT !.groups = {}]}
  \cup {[GoodHello EXCEPT !.fault = f] :
          f \in {"extensions", "groups", "shares", "schemes"}}
  \cup {[PskHello EXCEPT !.fault = "binders"]}

(* Short sessions begin in any of these ways, longer ones in few: one goes *)
(* on after the client's flight, the other has room for a retry.           *)
Flight == [Base EXCEPT !.clientAuth = "Required", !.sendTicket = FALSE, !.cookieCipher = FALSE]
Retried == [Base EXCEPT !.clientAuth = "Optional"]
MCServerContexts == MCContexts \cup {Flight, Retried}
MCHellosTo ==
  [c \in MCServerContexts |->
     IF c \in MCContexts THEN MCHellos
     ELSE {GoodHello, PskHello}
            \cup IF c = Retried THEN {[PskHello EXCEPT !.shares = {}]} ELSE {}]
MCMaxRecords ==
  [c \in MCServerContexts |-> IF c = Flight THEN 5 ELSE IF c = Retried THEN 4 ELSE 3]
MCMaxAsked == [c \in MCServerContexts |-> IF c \in MCContexts THEN 1 ELSE 2]
=============================================================================
