--------------------------- MODULE BatchSignatures ---------------------------
(***************************************************************************)
(* Batch signatures (experimental/batcher, crypto, server, client): the    *)
(* handshakes of several connections are collected in a Merkle tree whose  *)
(* root is signed once.  Hashing is injective: a node is <<0, message>> or *)
(* <<1, left, right>>.  The message of connection c is the number c, and   *)
(* the random leaf that follows it is -c.                                  *)
(***************************************************************************)
EXTENDS TokenCipher, Integers, Sequences, FiniteSets

CONSTANTS
  BatchSetups,     \* [local, threshold, schemes] of a batcher
  BatchThreads,    \* the threads that handshakes run on
  MaxSignatures    \* bound on the connections that ask for one

VARIABLE bt

-----------------------------------------------------------------------------
(* The schemes.                                                            *)
BatchSchemeOf == [ecdsa_secp256r1_sha256 |-> "ecdsa_secp256r1_sha256_batch",
                  rsa_pss_sha256 |-> "rsa_pss_sha256_batch"]

BaseSchemeOf == [ecdsa_secp256r1_sha256_batch |-> "ecdsa_secp256r1_sha256",
                 ecdsa_secp384r1_sha384_batch |-> "ecdsa_secp384r1_sha384",
                 ecdsa_secp521r1_sha512_batch |-> "ecdsa_secp521r1_sha512",
                 ed25519_batch |-> "ed25519", ed448_batch |-> "ed448",
                 rsa_pss_sha256_batch |-> "rsa_pss_sha256"]

(* The loop goes on after a match: the last scheme that matches is used.   *)
SchemeOfBatcher(schemes) ==
  LET matched == SelectSeq(schemes, LAMBDA s : s \in DOMAIN BatchSchemeOf)
  IN matched[Len(matched)]

-----------------------------------------------------------------------------
(* The Merkle tree.                                                        *)
ConstructLeafNode(msg) == <<0, msg>>
ConstructInternalNode(left, right) == <<1, left, right>>

NewTree(maxMessages) ==
  [nodes |-> <<>>, next |-> 0, rootHeight |-> 0, max |-> 2 * maxMessages]

At(height, offset) == <<height, offset>>

Put(tree, hash, height, offset) ==
  [tree EXCEPT !.nodes = [k \in DOMAIN @ \cup {At(height, offset)} |->
                            IF k = At(height, offset) THEN hash ELSE @[k]],
               !.rootHeight = IF height > @ THEN height ELSE @]

(* A node on the right completes its parent.                               *)
RECURSIVE AddNode(_, _, _, _)
AddNode(tree, hash, height, offset) ==
  IF offset % 2 = 0 THEN Put(tree, hash, height, offset)
  ELSE AddNode(Put(tree, hash, height, offset),
               ConstructInternalNode(tree.nodes[At(height, offset - 1)], hash),
               height + 1, offset \div 2)

TreeFull(tree) == tree.next >= tree.max

AppendLeaf(tree, msg) ==
  [AddNode(tree, ConstructLeafNode(msg), 0, tree.next) EXCEPT !.next = @ + 1]

AppendTranscript(tree, msg) == AppendLeaf(AppendLeaf(tree, msg), -msg)

CountMessages(tree) == tree.next \div 2

(* A layer with an odd number of nodes is completed with its leftmost one. *)
RECURSIVE Balance(_, _, _)
Balance(tree, height, rightmost) ==
  IF height >= tree.rootHeight THEN tree
  ELSE Balance(IF rightmost % 2 = 0
               THEN AddNode(tree, tree.nodes[At(height, 0)], height, rightmost + 1)
               ELSE tree,
               height + 1, rightmost \div 2)

(* Mutant: the layers are left as they are.                                *)
FinalizeTreeMutant(tree) == tree

FinalizeTree(tree) ==
  IF tree.next > 1 THEN Balance(tree, 0, tree.next - 1) ELSE tree

GetRootValue(tree) == tree.nodes[At(tree.rootHeight, 0)]

Sibling(offset) == IF offset % 2 = 0 THEN offset + 1 ELSE offset - 1

(* None when the tree is not balanced (an exception).                      *)
GetPath(tree, index) ==
  LET sibling(h) == At(h, Sibling(index \div 2^h))
  IN IF \A h \in 0 .. tree.rootHeight - 1 : sibling(h) \in DOMAIN tree.nodes
     THEN [index |-> index,
           path |-> [i \in 1 .. tree.rootHeight |-> tree.nodes[sibling(i - 1)]]]
     ELSE None

RECURSIVE RootFrom(_, _, _)
RootFrom(node, index, path) ==
  IF path = <<>> THEN node
  ELSE RootFrom(IF index % 2 = 0 THEN ConstructInternalNode(node, Head(path))
                                 ELSE ConstructInternalNode(Head(path), node),
                index \div 2, Tail(path))

ComputeRootFromPath(msg, index, path) == RootFrom(ConstructLeafNode(msg), index, path)

-----------------------------------------------------------------------------
(* Signing and verifying.                                                  *)
EncodeToBeSigned(root, scheme) == [context |-> "TLS batch signature", scheme |-> scheme,
                                   root |-> root]

(* External: a signature under the certificate's key.                      *)
BaseSignature(scheme, context, tbs) ==
  [scheme |-> scheme, context |-> context, tbs |-> tbs]

EncodeBatchSignature(path, signature) ==
  IF path = None THEN None ELSE <<path.index, path.path, signature>>

DecodeBatchSignature(sig) == [index |-> sig[1], path |-> sig[2], signature |-> sig[3]]

VerifyDecoded(scheme, context, msg, sig) ==
  /\ Len(sig.path) <= 32
  /\ sig.signature = BaseSignature(BaseSchemeOf[scheme], context,
       EncodeToBeSigned(ComputeRootFromPath(msg, sig.index, sig.path), scheme))

BatchSigVerify(scheme, context, msg, sig) ==
  sig # None /\ VerifyDecoded(scheme, context, msg, DecodeBatchSignature(sig))

(* BatchSignaturePeerCert::verify.                                         *)
PeerVerify(scheme, context, msg, sig) ==
  IF scheme \in DOMAIN BaseSchemeOf THEN BatchSigVerify(scheme, context, msg, sig)
  ELSE sig = BaseSignature(scheme, context, msg)

-----------------------------------------------------------------------------
(* The batcher, shared by all threads or one epoch for each of them.       *)
BaseScheme == SchemeOfBatcher(bt.setup.schemes)
BatchScheme == BatchSchemeOf[BaseScheme]

NewEpoch(threshold) == [tree |-> NewTree(threshold), members |-> <<>>]

Slots(setup) == IF setup.local THEN BatchThreads ELSE {"all"}
Slot(thread) == IF bt.setup.local THEN thread ELSE "all"

BatchInit ==
  \E setup \in BatchSetups :
    bt = [setup |-> setup, asked |-> 0, signing |-> {}, results |-> <<>>,
          epochs |-> [s \in Slots(setup) |-> NewEpoch(setup.threshold)]]

Result(scheme, sig) == [scheme |-> scheme, sig |-> sig]
Resolve(results, answers) ==
  [c \in DOMAIN results \cup DOMAIN answers |->
     IF c \in DOMAIN answers THEN answers[c] ELSE results[c]]

(* signFuture with the scheme of the certificate itself.                   *)
BatchSignDirectly ==
  /\ bt.asked < MaxSignatures
  /\ bt' = [bt EXCEPT !.asked = @ + 1,
       !.results = Resolve(@, [c \in {bt.asked + 1} |->
         Result(BaseScheme, BaseSignature(BaseScheme, "Server", c))])]

Joined(epoch, conn) ==
  [tree |-> AppendTranscript(epoch.tree, conn),
   members |-> Append(epoch.members, [conn |-> conn, index |-> epoch.tree.next])]

Complete(epoch) == CountMessages(epoch.tree) >= bt.setup.threshold

(* addMessageAndSign: under the lock the message is appended, and an epoch *)
(* that is complete is replaced by a new one and signed outside the lock.  *)
AddMessageAndSign(thread) ==
  /\ bt.asked < MaxSignatures
  /\ ~TreeFull(bt.epochs[Slot(thread)].tree)
  /\ \E epoch \in {Joined(bt.epochs[Slot(thread)], bt.asked + 1)} :
       bt' = [bt EXCEPT !.asked = @ + 1,
                !.epochs[Slot(thread)] =
                   IF Complete(epoch) THEN NewEpoch(bt.setup.threshold) ELSE epoch,
                !.signing = IF Complete(epoch) THEN @ \cup {epoch} ELSE @]

(* The tree is final before its root is signed, and every connection of    *)
(* the epoch takes its own path out of it.                                 *)
BatchAnswers(members, tree) ==
  [c \in {members[i].conn : i \in DOMAIN members} |->
     Result(BatchScheme,
       EncodeBatchSignature(
         GetPath(tree, (CHOOSE m \in {members[i] : i \in DOMAIN members} : m.conn = c).index),
         BaseSignature(BaseScheme, "Server",
                       EncodeToBeSigned(GetRootValue(tree), BatchScheme))))]

SignMerkleTree ==
  \E e \in bt.signing :
    \E tree \in {FinalizeTree(e.tree)} :
      bt' = [bt EXCEPT !.signing = @ \ {e},
                       !.results = Resolve(@, BatchAnswers(e.members, tree))]

(* The signer has no signature to give: the futures of the epoch fail.     *)
SignerFails ==
  \E e \in bt.signing :
    bt' = [bt EXCEPT !.signing = @ \ {e},
             !.results = Resolve(@, [c \in {e.members[i].conn : i \in DOMAIN e.members} |->
                                       None])]

BatchNext ==
  \/ BatchSignDirectly
  \/ \E t \in BatchThreads : AddMessageAndSign(t)
  \/ SignMerkleTree
  \/ SignerFails

-----------------------------------------------------------------------------
Waiting(c) ==
  \E e \in bt.signing \cup {bt.epochs[s] : s \in DOMAIN bt.epochs} :
    \E i \in DOMAIN e.members : e.members[i].conn = c

(* Every signature handed out verifies for the handshake it was asked for  *)
(* and for no other one, however the epochs of several threads are filled  *)
(* and signed; no handshake that asked for one is forgotten, and one waits *)
(* only while its epoch is not complete or is being signed                 *)
(* (addMessageAndSign, signMerkleTree, getPath, batchSigVerify).           *)
BatchSignaturesVerify == bt # None =>
  /\ \A c \in DOMAIN bt.results : bt.results[c] # None =>
       \A d \in 1 .. bt.asked :
         PeerVerify(bt.results[c].scheme, "Server", d, bt.results[c].sig) <=> c = d
  /\ \A c \in 1 .. bt.asked : Waiting(c) <=> c \notin DOMAIN bt.results
  /\ \A s \in DOMAIN bt.epochs : Len(bt.epochs[s].members) < bt.setup.threshold
=============================================================================
