----------------------------- MODULE OutputTree -----------------------------
(***************************************************************************)
(* The outputs Merkle tree (chain/outputtree.go) and the proofs against it *)
(* (chain/outputproof.go).                                                 *)
(*                                                                         *)
(* A hash is the term it is the hash of, so equal hashes have equal        *)
(* preimages: the empty tuple is the zero hash, <<o>> the leaf of output o *)
(* and <<l, r>> the hash of a pair.  A tree is its frontier: a count and,  *)
(* for every set bit of the count, the pending left-hand node.             *)
(***************************************************************************)
EXTENDS Integers, Sequences, SequencesExt

CONSTANT Height   \* OutputTreeHeight

ASSUME HeightAssumption == Height \in Nat \ {0}

ZeroHash == << >>

OutputLeaf(output) == <<output>>

HashPair(left, right) == <<left, right>>

zeroHashes[h \in 0..Height] ==
  IF h = 0 THEN ZeroHash ELSE HashPair(zeroHashes[h - 1], zeroHashes[h - 1])

Bit(n, h) == (n \div 2^h) % 2

NewOutputTree == [count |-> 0, branch |-> [h \in 0..(Height - 1) |-> ZeroHash]]

(* Wrong: the carried node goes to the left of the pending one. *)
InsertSwapped(t, leaf) ==
  LET level == CHOOSE h \in 0..(Height - 1) : Bit(t.count, h) = 0 /\ \A k \in 0..(h - 1) : Bit(t.count, k) = 1
      node[h \in 0..level] == IF h = 0 THEN leaf ELSE HashPair(node[h - 1], t.branch[h - 1])
  IN [count |-> t.count + 1, branch |-> [t.branch EXCEPT ![level] = node[level]]]

(* insert: the leaf is carried up past the full levels and parked at the    *)
(* first that is not.                                                       *)
Insert(t, leaf) ==
  LET level == CHOOSE h \in 0..(Height - 1) : Bit(t.count, h) = 0 /\ \A k \in 0..(h - 1) : Bit(t.count, k) = 1
      node[h \in 0..level] == IF h = 0 THEN leaf ELSE HashPair(t.branch[h - 1], node[h - 1])
  IN [count |-> t.count + 1, branch |-> [t.branch EXCEPT ![level] = node[level]]]

AppendLeaves(t, leaves) == FoldLeft(Insert, t, leaves)

Root(t) ==
  LET node[h \in 0..Height] ==
        CASE h = 0 -> ZeroHash
          [] h > 0 /\ Bit(t.count, h - 1) = 1 -> HashPair(t.branch[h - 1], node[h - 1])
          [] OTHER -> HashPair(node[h - 1], zeroHashes[h - 1])
  IN node[Height]

-----------------------------------------------------------------------------
(* Proofs.  Levels are sequences; positions in them count from zero.        *)

NodeAt(nodes, index, default) == IF index < Len(nodes) THEN nodes[index + 1] ELSE default

(* Wrong: an odd tail is paired with itself. *)
ParentLevelRepeatsTail(nodes, default) ==
  [i \in 1..((Len(nodes) + 1) \div 2) |->
     HashPair(nodes[2 * i - 1], NodeAt(nodes, 2 * i - 1, nodes[2 * i - 1]))]

ParentLevel(nodes, default) ==
  [i \in 1..((Len(nodes) + 1) \div 2) |->
     HashPair(nodes[2 * i - 1], NodeAt(nodes, 2 * i - 1, default))]

Sibling(index) == IF index % 2 = 0 THEN index + 1 ELSE index - 1

(* ProveOutput: the co-path of a leaf, leaf level first. *)
ProveOutput(leaves, index) ==
  LET level[h \in 0..Height] ==
        IF h = 0 THEN leaves ELSE ParentLevel(level[h - 1], zeroHashes[h - 1])
  IN [h \in 1..Height |->
        NodeAt(level[h - 1], Sibling(index \div 2^(h - 1)), zeroHashes[h - 1])]

(* What the L1 verifier folds a leaf and its siblings to. *)
RootAfterReplacement(siblings, index, leaf) ==
  LET node[h \in 0..Len(siblings)] ==
        CASE h = 0 -> leaf
          [] h > 0 /\ Bit(index, h - 1) = 0 -> HashPair(node[h - 1], siblings[h])
          [] OTHER -> HashPair(siblings[h], node[h - 1])
  IN node[Len(siblings)]

-----------------------------------------------------------------------------
(* The definition both are measured against: the full tree of 2^Height      *)
(* leaves, those beyond the outputs zero.                                   *)
ReferenceRoot(leaves) ==
  LET full[h \in 0..Height] ==
        IF h = 0
        THEN [i \in 0..(2^Height - 1) |-> IF i < Len(leaves) THEN leaves[i + 1] ELSE ZeroHash]
        ELSE [i \in 0..(2^(Height - h) - 1) |-> HashPair(full[h - 1][2 * i], full[h - 1][2 * i + 1])]
  IN full[Height][0]
=============================================================================
