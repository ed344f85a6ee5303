------------------------------ MODULE Handshake ------------------------------
(***************************************************************************)
(* A fizz client and a fizz server, connected by a reliable byte stream in *)
(* each direction.  What one machine writes is appended to what the other  *)
(* has not read yet; a machine reads at its own pace, so records of one    *)
(* side cross those of the other in every way.                             *)
(*                                                                         *)
(* The applications on top respect the protocol of the transports above    *)
(* the machines: they write once they were told that they may, and do not  *)
(* write after they closed.                                                *)
(***************************************************************************)
EXTENDS Messages

CONSTANTS
  HashOf, Services, Verdicts, TicketResults,   \* as for the two machines
  Configurations,   \* pairs of a client's and a server's context
  ClientRequests,   \* bound on the requests of the client's application
  ServerRequests,   \* bound on the requests of the server's application
  MayClose          \* the applications may close the connection

(* A server lists the modes of PskKeyExchangeMode that it supports, in its  *)
(* order of preference (FizzServerContext::setSupportedPskModes).           *)
ASSUME ConfigurationsAssumption ==
  \A pair \in Configurations :
    pair[2].pskModes \in Seq({"psk_ke", "psk_dhe_ke"})

VARIABLES
  cctx, cstate, cread, cwrite, cearly, coffer, cneg, ctrans, csched, cauth,
  ccert, cchain, cccs, cin, cout, ccalls, cwritten, casked,
  sctx, sstate, sread, swrite, shs, sneg, strans, ssched, scert, schain,
  sin, sout, scalls, swritten, sasked

C == INSTANCE ClientProtocol WITH
  MaxRequests <- ClientRequests,
  ctx <- cctx, state <- cstate, read <- cread, write <- cwrite,
  earlyWrite <- cearly, offer <- coffer, neg <- cneg, transcript <- ctrans,
  sched <- csched, auth <- cauth, cert <- ccert, chain <- cchain,
  sentCCS <- cccs, in <- cin, out <- cout, calls <- ccalls,
  written <- cwritten, asked <- casked

S == INSTANCE ServerProtocol WITH
  MaxRequests <- ServerRequests,
  ctx <- sctx, state <- sstate, read <- sread, write <- swrite,
  hsRead <- shs, neg <- sneg, transcript <- strans, sched <- ssched,
  cert <- scert, chain <- schain, in <- sin, out <- sout, calls <- scalls,
  written <- swritten, asked <- sasked

vars == <<C!vars, S!vars>>

-----------------------------------------------------------------------------
(* What a step has sent, which the other side can read from now on.        *)
Sent(old, new) == SubSeq(new, Len(old) + 1, Len(new))

ClientSends ==
  /\ sin' = sin \o Sent(cout, cout')
  /\ UNCHANGED <<sctx, sstate, sread, swrite, shs, sneg, strans, ssched, scert,
                 schain, sout, scalls, swritten, sasked>>

ServerSends ==
  /\ cin' = cin \o Sent(sout, sout')
  /\ UNCHANGED <<cctx, cstate, cread, cwrite, cearly, coffer, cneg, ctrans,
                 csched, cauth, ccert, cchain, cccs, cout, ccalls, cwritten,
                 casked>>

(* A transport reads from the socket once accept or connect was called.    *)
ClientConnects == C!Connect /\ ClientSends
ClientReads == cstate # "Uninitialized" /\ C!PeerEvent /\ ClientSends
ServerAccepts == S!Accept /\ ServerSends
ServerReads == sstate # "Uninitialized" /\ S!PeerEvent /\ ServerSends

ClientCloses ==
  /\ MayClose
  /\ Told(ccalls, "HandshakeSuccess")
  /\ C!AppClose \/ C!AppCloseImmediate

ClientAsks ==
  /\ C!Live /\ cstate # "ExpectingCloseNotify"
  /\ casked < ClientRequests
  /\ casked' = casked + 1
  /\ UNCHANGED cin
  /\ \/ Told(ccalls, "EarlyHandshakeSuccess") /\ C!EarlyAppWrite
     \/ Told(ccalls, "HandshakeSuccess") /\ C!AppWrite
     \/ /\ Told(ccalls, "HandshakeSuccess")
        /\ \E requested \in BOOLEAN : C!InitiateKeyUpdate(requested)
     \/ ClientCloses
  /\ ClientSends

ServerCloses ==
  /\ MayClose
  /\ Told(scalls, "HandshakeSuccess")
  /\ S!AppClose \/ S!AppCloseImmediate

ServerAsks ==
  /\ S!Live /\ sstate # "ExpectingCloseNotify"
  /\ sasked < ServerRequests
  /\ sasked' = sasked + 1
  /\ UNCHANGED sin
  /\ \/ /\ Told(scalls, "EarlyHandshakeSuccess") \/ Told(scalls, "HandshakeSuccess")
        /\ S!AppWrite
     \/ /\ Told(scalls, "HandshakeSuccess")
        /\ \/ \E result \in TicketResults : S!WriteNewSessionTicket(result)
           \/ \E requested \in BOOLEAN : S!InitiateKeyUpdate(requested)
     \/ ServerCloses
  /\ ServerSends

Init ==
  /\ \E pair \in Configurations : cctx = pair[1] /\ sctx = pair[2]
  /\ cin = <<>> /\ cout = <<>> /\ sin = <<>> /\ sout = <<>>
  /\ C!InitClient
  /\ S!InitServer

Next ==
  \/ ClientConnects \/ ClientReads \/ ClientAsks
  \/ ServerAccepts \/ ServerReads \/ ServerAsks

Spec == Init /\ [][Next]_vars

(***************************************************************************)
(* The event loop of each machine runs whenever there is data to read      *)
(* (FizzBase, EventsSettle); connect and accept are called.  Nothing is    *)
(* assumed of the applications' requests.                                  *)
(*                                                                         *)
(* Weak fairness of ClientReads and ServerReads is written out: ENABLED is *)
(* the guard of the loop, and a step of the loop takes a record out of the *)
(* buffer or changes the read layer.                                       *)
(***************************************************************************)
ClientCanRead == cstate # "Uninitialized" /\ C!Live /\ CanRead(cread, cin)
ServerCanRead == sstate # "Uninitialized" /\ S!Live /\ CanRead(sread, sin)

Fairness ==
  /\ WF_vars(ClientConnects)
  /\ WF_vars(ServerAccepts)
  /\ []<>~ClientCanRead \/ []<><<Len(cin') < Len(cin) \/ cread' # cread>>_vars
  /\ []<>~ServerCanRead \/ []<><<Len(sin') < Len(sin) \/ sread' # sread>>_vars

LiveSpec == Spec /\ Fairness

-----------------------------------------------------------------------------
ClientDone == Told(ccalls, "HandshakeSuccess")
ServerDone == Told(scalls, "HandshakeSuccess")

(***************************************************************************)
(* Agreement.  A client that completes the handshake agrees with the       *)
(* server on everything that was negotiated and on the secret the          *)
(* application keys come from, whatever retries, tickets and early data    *)
(* were involved; when the server completes it too, the client has, and    *)
(* the two agree on whether the client was authenticated.                  *)
(***************************************************************************)
Agreement ==
  /\ ClientDone =>
       /\ \A f \in {"version", "cipher", "group", "kex", "pskMode", "alpn"} :
            cneg[f] = sneg[f]
       /\ csched.appCtx = ssched.appCtx
       /\ cneg.pskType = "Resumption" <=> sneg.pskType = "Resumption"
       /\ cneg.early = "Accepted" <=> sneg.early = "Accepted"
  /\ ServerDone =>
       /\ ClientDone
       /\ scert <=> cauth \in {"Sent", "Stored"}

SomebodyCloses == Holding(cout, "CloseNotify") \cup Holding(sout, "CloseNotify") # {}

(***************************************************************************)
(* Two well-configured endpoints whose applications keep to the rules meet *)
(* no error: no early data in flight over a retry or a rejection, no       *)
(* crossing of key updates, tickets and data trips either machine, as long *)
(* as nobody closes the connection.                                        *)
(***************************************************************************)
NoSpuriousError == "Error" \in {cstate, sstate} => SomebodyCloses

Delivered(calls) ==
  LET delivers == SelectSeq(calls, LAMBDA c : c.type = "Deliver")
  IN [i \in DOMAIN delivers |-> delivers[i].data]

Written(records, levels) ==
  LET data == SelectSeq(records, LAMBDA r : /\ r.key.level \in levels
                                            /\ r.body[1].type = "AppData")
  IN [i \in DOMAIN data |-> data[i].body[1].data]

Decision ==
  CASE sneg.early = "Accepted" -> "accepted"
    [] sneg.early = "Rejected" -> "rejected"
    [] OTHER -> "open"

Channel == INSTANCE SecureChannel WITH
  early <- Written(cout, {"Early"}), app <- Written(cout, {"App"}),
  decision <- Decision, up <- Delivered(scalls),
  down <- Written(sout, {"App"}), back <- Delivered(ccalls)

(***************************************************************************)
(* The two machines implement the channel: every step of a handshake, a    *)
(* retry, a key update, a ticket, an error or a close is a step of the     *)
(* channel or none.  Nothing is lost, repeated or reordered, and the       *)
(* server decides on early data once, before it delivers any data, for all *)
(* of it: all comes first if it is accepted, none is received otherwise.   *)
(***************************************************************************)
IsSecureChannel == Channel!Spec

(***************************************************************************)
(* The handshake completes on both sides and whatever an application       *)
(* writes outside rejected early data is received in the end, unless       *)
(* somebody closes the connection.                                         *)
(***************************************************************************)
DataArrives ==
  <>[](\/ SomebodyCloses
       \/ /\ ClientDone /\ ServerDone
          /\ Delivered(ccalls) = Written(sout, {"App"})
          /\ Delivered(scalls) =
               Written(cout, IF cneg.early = "Accepted" THEN {"Early", "App"}
                                                        ELSE {"App"}))

(***************************************************************************)
(* tlsShutdown, as the transports describe it: a side that asks for a      *)
(* graceful close waits for the close_notify of the other side, and so     *)
(* does not end in an error when the other side respects the protocol.     *)
(***************************************************************************)
GracefulCloseWaits ==
  [][(cstate = "ExpectingCloseNotify" /\ cstate' # cstate) => cstate' = "Closed"]_vars
=============================================================================
