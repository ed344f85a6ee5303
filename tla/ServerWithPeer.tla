--------------------------- MODULE ServerWithPeer ---------------------------
(***************************************************************************)
(* A server connected to a peer that follows no protocol: it may send any  *)
(* message in any record, in any state of the server, under any key that   *)
(* the server can open as well as under none.  Its signatures and MACs are *)
(* right or wrong.                                                         *)
(***************************************************************************)
EXTENDS ServerProtocol

CONSTANTS
  ServerContexts,   \* the configurations of the server
  Hellos,           \* the ClientHellos the peer may send to each
  MaxRecords,       \* bound on the records the peer sends to each
  MaxAsked          \* bound on the requests of the application of each

ASSUME PeerBound ==
  MaxRecords \in [ServerContexts -> Nat] /\ MaxAsked \in [ServerContexts -> Nat]

VARIABLE sent       \* number of records the peer has sent

(* A binder, signature or MAC that does not verify.                        *)
Wrong == <<NoMessage>>

ClientHellos ==
  IF state # "ExpectingClientHello" THEN {}
  ELSE {[h EXCEPT !.binder = HelloContext(h)] : h \in Hellos[ctx]}
         \cup {[h EXCEPT !.binder = Wrong] : h \in {g \in Hellos[ctx] : g.psk # NoPsk}}

OtherMessages ==
  {EndOfEarlyData, ServerHello(None, None, None, FALSE, FALSE)}
    \cup {Certificate(k) : k \in {"chain", "empty", "malformed"}}
    \cup {CertificateVerify(transcript, "supported"),
          CertificateVerify(transcript, "unsupported"),
          CertificateVerify(Wrong, "supported")}
    \cup {Finished(transcript), Finished(Wrong)}
    \cup {KeyUpdate(TRUE), KeyUpdate(FALSE)}

(* A message by itself; cut short, or completed; followed by another one.   *)
Bodies ==
  LET some == OtherMessages \cup {h \in ClientHellos : h.fault = "schemes"}
  IN {<<m>> : m \in ClientHellos \cup OtherMessages
                      \cup {AppData(1), Alert("any"), CloseNotify}}
       \cup {<<Front(m)>> : m \in some}
       \cup {<<Back>>}
       \cup {<<m, EndOfEarlyData>> : m \in some}

(* Records the server's read layer can open, and records it cannot.        *)
Records ==
  (IF HasLayer(read) THEN {Seal(read, b) : b \in Bodies} ELSE {})
    \cup {CCS, Seal(PlainLayer(FALSE), <<Alert("any")>>),
          Seal(PlainLayer(FALSE), <<Finished(transcript)>>),
          Seal(Layer(Key("Early", "client", 0, Wrong), FALSE), <<AppData(1)>>),
          Seal([read EXCEPT !.seq = @ + 1], <<CloseNotify>>)}
    \cup IF HasLayer(hsRead) THEN {Seal(hsRead, <<Finished(transcript)>>)} ELSE {}

PeerSends ==
  /\ Live
  /\ in = <<>>
  /\ sent < MaxRecords[ctx]
  /\ sent' = sent + 1
  /\ \E r \in Records : in' = <<r>>
  /\ UNCHANGED <<ctx, state, read, write, hsRead, neg, transcript, sched,
                 cert, chain, out, calls, written, asked>>

Init ==
  /\ ctx \in ServerContexts
  /\ in = <<>>
  /\ out = <<>>
  /\ sent = 0
  /\ InitServer

(* A record that is not read yet does not matter to the application's      *)
(* requests, so these need not be interleaved with its arrival.            *)
Next ==
  \/ Accept /\ UNCHANGED sent
  \/ PeerEvent /\ UNCHANGED sent
  \/ in = <<>> /\ asked < MaxAsked[ctx] /\ AppEvent /\ UNCHANGED sent
  \/ PeerSends

Spec == Init /\ [][Next]_<<vars, sent>>
=============================================================================
