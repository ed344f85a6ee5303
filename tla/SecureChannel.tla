--------------------------- MODULE SecureChannel ---------------------------
(***************************************************************************)
(* What a connection promises to the two applications, with nothing said   *)
(* of handshakes, records and keys: two streams that arrive in order, and  *)
(* in front of the client's one its early data, which the server takes as  *)
(* a whole or not at all.                                                  *)
(***************************************************************************)
EXTENDS Naturals, Sequences

VARIABLES
  early,      \* written by the client before the handshake was complete
  app,        \* written by the client under the application keys
  decision,   \* of the server on early data: "open", "accepted", "rejected"
  up,         \* received by the server's application
  down,       \* written by the server
  back        \* received by the client's application

channelVars == <<early, app, decision, up, down, back>>

Appends(s, t) == Len(t) = Len(s) + 1 /\ SubSeq(t, 1, Len(s)) = s
Begins(s, t) == Len(s) <= Len(t) /\ s = SubSeq(t, 1, Len(s))

(* What the server's application may receive.                              *)
UpStream == IF decision = "accepted" THEN early \o app ELSE app

Init ==
  /\ early = <<>> /\ app = <<>> /\ decision = "open"
  /\ up = <<>> /\ down = <<>> /\ back = <<>>

(* Early data comes before all other data.                                 *)
WriteEarly ==
  /\ app = <<>> /\ Appends(early, early')
  /\ UNCHANGED <<app, decision, up, down, back>>

WriteApp ==
  /\ Appends(app, app')
  /\ UNCHANGED <<early, decision, up, down, back>>

(* Once, and before anything is received.                                  *)
Decide ==
  /\ decision = "open" /\ up = <<>>
  /\ decision' \in {"accepted", "rejected"}
  /\ UNCHANGED <<early, app, up, down, back>>

ReceiveUp ==
  /\ Appends(up, up') /\ Begins(up', UpStream)
  /\ UNCHANGED <<early, app, decision, down, back>>

WriteDown ==
  /\ Appends(down, down')
  /\ UNCHANGED <<early, app, decision, up, back>>

ReceiveDown ==
  /\ Appends(back, back') /\ Begins(back', down)
  /\ UNCHANGED <<early, app, decision, up, down>>

Next == WriteEarly \/ WriteApp \/ Decide \/ ReceiveUp \/ WriteDown \/ ReceiveDown

Spec == Init /\ [][Next]_channelVars
=============================================================================
