----------------------------- MODULE MCAsyncFizz -----------------------------
(* Small connections for AsyncFizz.                                        *)
EXTENDS AsyncFizz

Server == [role |-> "server", sendEarly |-> FALSE, policy |-> "Fatal", maxEarly |-> 0,
           timeout |-> FALSE, rekey |-> 0, maxBuf |-> 2, kinds |-> {<<1, FALSE>>, <<2, TRUE>>},
           maxWrites |-> 0, maxCalls |-> 0, maxRecords |-> 2, faults |-> FALSE]
Client == [Server EXCEPT !.role = "client"]

(* Many writes on a server; many callbacks changed on a server; writes      *)
(* during the handshake of a client; early data of a client, where a write  *)
(* does not fit and a smaller one follows, and where two large ones fit.   *)
SafetyConfigs ==
  {[Server EXCEPT !.maxWrites = 3, !.maxCalls = 1, !.maxRecords = 1, !.faults = TRUE,
                  !.kinds = {<<1, TRUE>>, <<2, TRUE>>}],
   [Server EXCEPT !.maxCalls = 3, !.maxRecords = 4],
   [Client EXCEPT !.timeout = TRUE, !.maxWrites = 2, !.maxCalls = 1, !.faults = TRUE,
                  !.kinds = {<<1, FALSE>>, <<1, TRUE>>, <<2, TRUE>>}],
   [Client EXCEPT !.timeout = TRUE, !.sendEarly = TRUE, !.policy = "Resend",
                  !.maxEarly = 1, !.rekey = 3, !.maxWrites = 2, !.maxCalls = 1],
   [Client EXCEPT !.sendEarly = TRUE, !.policy = "Resend", !.maxEarly = 4, !.rekey = 4,
                  !.maxWrites = 3, !.maxCalls = 1, !.kinds = {<<2, TRUE>>}]}

(* With and without a timeout of the handshake.                            *)
LiveConfigs ==
  UNION {{[Client EXCEPT !.timeout = t, !.maxWrites = 2, !.maxCalls = 1,
                         !.faults = TRUE],
          [Client EXCEPT !.timeout = t, !.sendEarly = TRUE, !.policy = "Resend",
                         !.maxEarly = 1, !.maxWrites = 2]} : t \in BOOLEAN}

(* A server that writes before the client's Finished has arrived.          *)
HalfOpenConfigs == {[Server EXCEPT !.rekey = 1, !.maxWrites = 1]}
=============================================================================
