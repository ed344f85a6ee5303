---------------------------- MODULE MCResumption ----------------------------
EXTENDS Resumption, TLC

S1 == [name |-> "s1", length |-> 32]
S2 == [name |-> "s2", length |-> 32]
Short == [name |-> "s3", length |-> 31]
MCFirstSecrets == <<S1>>
MCSecretLists == {<<S2>>, <<S2, Short>>}
MCOldSecrets == <<S2>>
MCPolicy == [handshake |-> 2, ticket |-> 2]
MCTolerance == [before |-> -1, after |-> 0]
(* Hellos that the network repeats, and a chain of renewed tickets.        *)
MCBounds ==
  {[time |-> 4, hellos |-> 1, arrivals |-> 3, conns |-> 2, restarts |-> 1,
    late |-> 0, answer |-> 1, offsets |-> {0, 3}],
   [time |-> 4, hellos |-> 2, arrivals |-> 2, conns |-> 1, restarts |-> 0,
    late |-> 0, answer |-> 0, offsets |-> {0}]}
MCCells == 1 .. 3
(* Any two hellos share a cell.                                            *)
MCCellsOf == [r \in 1 .. 3 |-> {r, (r % 3) + 1}]
Symmetry == Permutations(Conns) \union Permutations(Identities)
=============================================================================
