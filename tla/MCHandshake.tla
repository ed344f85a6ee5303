---------------------------- MODULE MCHandshake ----------------------------
(* Pairs of configurations that fit each other, chosen so that a handshake *)
(* may be full or resumed, be retried, and carry early data that is        *)
(* accepted or rejected for every reason the server has.                   *)
EXTENDS Handshake

MCHashOf == [c \in {"aes128", "chacha", "aes256"} |->
               IF c = "aes256" THEN "sha384" ELSE "sha256"]

Well == [fails |-> None, ticketOk |-> TRUE, replay |-> "NotReplay",
         fresh |-> TRUE, large |-> FALSE]
MCServices == {Well, [Well EXCEPT !.ticketOk = FALSE, !.large = TRUE],
               [Well EXCEPT !.replay = "MaybeReplay"]}

Ticket == [id |-> "t1", version |-> "v13", cipher |-> "aes128",
           alpn |-> "h2", clientCert |-> TRUE]
NothingCached == [ticket |-> NoPsk, group |-> None, maxEarly |-> 0, current |-> FALSE]
Cached == [ticket |-> Ticket, group |-> "x25519", maxEarly |-> 1, current |-> TRUE]

Client == [versions |-> <<"v13">>, ciphers |-> <<"aes128", "chacha">>,
           groups |-> {"x25519", "p256"}, defaultShares |-> {"x25519"},
           sendKeyShare |-> "Always", pskModes |-> {"psk_dhe_ke", "psk_ke"},
           alpns |-> {"h2"}, requireAlpn |-> TRUE, sendEarly |-> TRUE,
           omitEarly |-> FALSE, compat |-> TRUE, clientCert |-> TRUE,
           decompress |-> TRUE, cached |-> NothingCached]

Server == [versions |-> <<"v13">>, ciphers |-> <<{"aes128", "chacha"}>>,
           groups |-> <<"x25519", "p256">>, pskModes |-> <<"psk_dhe_ke">>,
           alpns |-> <<"h2">>, alpnMode |-> "Required",
           acceptEarly |-> TRUE, omitEarly |-> FALSE, clientAuth |-> "Optional",
           sendTicket |-> TRUE, ticketCipher |-> TRUE, replayCache |-> TRUE,
           cookieCipher |-> FALSE, fallback |-> FALSE, compress |-> FALSE]

Resuming == [Client EXCEPT !.cached = Cached]
Retrying == [Server EXCEPT !.groups = <<"p256">>]

MCConfigurations ==
  {<<Client, Server>>,
   <<Client, Retrying>>,
   <<[Client EXCEPT !.clientCert = FALSE, !.compat = FALSE],
     [Server EXCEPT !.compress = TRUE]>>,
   <<Resuming, Server>>,
   <<Resuming, Retrying>>,
   <<[Resuming EXCEPT !.compat = FALSE], [Server EXCEPT !.clientAuth = "None"]>>,
   <<[Resuming EXCEPT !.cached.group = None],
     [Server EXCEPT !.pskModes = <<"psk_ke">>]>>,
   <<[Resuming EXCEPT !.cached.ticket.cipher = "chacha"],
     [Server EXCEPT !.ciphers = <<{"aes128"}, {"chacha"}>>]>>}

(* One configuration, for the close.                                       *)
PlainConfigurations == {<<Client, [Server EXCEPT !.sendTicket = FALSE]>>}
=============================================================================
