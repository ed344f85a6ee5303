---------------------------- MODULE Subsystems ----------------------------
(***************************************************************************)
(* The parts of fizz that do not share state with a connection's state     *)
(* machine, side by side: a behaviour is one of one part, and the          *)
(* variables of the others stay idle.                                      *)
(***************************************************************************)
EXTENDS ECH, BatchSignatures, KTLS, Wire, ExportedAuth, Credentials

CONSTANT Parts       \* the parts to check

VARIABLE part        \* the one this behaviour is about

subVars == <<part, hp, echVars, bt, kt, wi, ks, ea, cr>>

EchIdle == /\ ephase = None /\ cfg = None /\ cl = None /\ sv = None
           /\ flight = None /\ hellos = <<>>

Init ==
  /\ part \in Parts
  /\ IF part = "hpke" THEN HpkeInit ELSE hp = None
  /\ IF part = "ech" THEN EchInit ELSE EchIdle
  /\ IF part = "batch" THEN BatchInit ELSE bt = None
  /\ IF part = "ktls" THEN KTLSInit ELSE kt = None
  /\ IF part = "wire" THEN WireInit ELSE wi = None
  /\ IF part = "keys" THEN KeyScheduleInit ELSE ks = None
  /\ IF part = "auth" THEN ExportedAuthInit ELSE ea = None
  /\ IF part = "credentials" THEN CredentialsInit ELSE cr = None

Next ==
  \/ part = "hpke" /\ HpkeNext /\ UNCHANGED <<part, echVars, bt, kt, wi, ks, ea, cr>>
  \/ part = "ech" /\ EchNext /\ UNCHANGED <<part, hp, bt, kt, wi, ks, ea, cr>>
  \/ part = "batch" /\ BatchNext /\ UNCHANGED <<part, hp, echVars, kt, wi, ks, ea, cr>>
  \/ part = "ktls" /\ KTLSNext /\ UNCHANGED <<part, hp, echVars, bt, wi, ks, ea, cr>>
  \/ part = "wire" /\ WireNext /\ UNCHANGED <<part, hp, echVars, bt, kt, ks, ea, cr>>
  \/ part = "keys" /\ KeyScheduleNext /\ UNCHANGED <<part, hp, echVars, bt, kt, wi, ea, cr>>
  \/ part = "auth" /\ ExportedAuthNext /\ UNCHANGED <<part, hp, echVars, bt, kt, wi, ks, cr>>
  \/ part = "credentials" /\ CredentialsNext /\ UNCHANGED <<part, hp, echVars, bt, kt, wi, ks, ea>>

Spec == Init /\ [][Next]_subVars
=============================================================================
