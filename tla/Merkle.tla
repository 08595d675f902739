------------------------------- MODULE Merkle -------------------------------
(* The batch Merkle tree of sdk/go/audit: leaves and inner nodes are hashed  *)
(* in separate domains, an odd node is promoted unchanged.  A digest is the  *)
(* term that was hashed.                                                     *)
EXTENDS Integers, Sequences

LeafDigest(value) == <<"leaf", value>>

NodeDigest(left, right) == <<"node", left, right>>

Leaves(hashes) == [i \in 1..Len(hashes) |-> LeafDigest(hashes[i])]

NextLevel(level) ==
  [i \in 1..((Len(level) + 1) \div 2) |->
     IF 2 * i > Len(level) THEN level[2 * i - 1] ELSE NodeDigest(level[2 * i - 1], level[2 * i])]

\* Level k of the tree; a level of one node is its own next level.
Level(hashes) ==
  LET level[k \in 0..Len(hashes)] == IF k = 0 THEN Leaves(hashes) ELSE NextLevel(level[k - 1])
  IN  level

MerkleRoot(hashes) == Level(hashes)[Len(hashes)][1]

\* The sibling that position pos (from 0) of a level is hashed with, if any.
SiblingAt(level, pos) ==
  CASE pos % 2 = 1 -> <<[hash |-> level[pos], right |-> FALSE]>>
    [] pos % 2 = 0 /\ pos + 1 < Len(level) -> <<[hash |-> level[pos + 2], right |-> TRUE]>>
    [] OTHER -> <<>>

\* The way up from leaf index (from 0), with the siblings met so far.
Climb(hashes, index) ==
  LET climb[k \in 0..Len(hashes)] ==
        IF k = 0 THEN [pos |-> index, siblings |-> <<>>]
        ELSE [pos |-> climb[k - 1].pos \div 2,
              siblings |-> climb[k - 1].siblings \o SiblingAt(Level(hashes)[k - 1], climb[k - 1].pos)]
  IN  climb

\* The witness of a leaf: its siblings, leaf to root.
MerkleProof(hashes, index) == Climb(hashes, index)[Len(hashes)].siblings

Combine(hash, s) == IF s.right THEN NodeDigest(hash, s.hash) ELSE NodeDigest(s.hash, hash)

\* The root that a value and its witness amount to.
Running(value, witness) ==
  LET running[k \in 0..Len(witness)] ==
        IF k = 0 THEN LeafDigest(value) ELSE Combine(running[k - 1], witness[k])
  IN  running[Len(witness)]

VerifyMerkleProof(value, root, witness) == Running(value, witness) = root

\* For batches up to a size: each witness proves the inclusion of its own leaf
\* and of no other, and no two batches have the same root, of whatever length
\* (the odd tail "promoted unchanged" of MerkleRoot, the domain prefixes).
MerkleSound(size) ==
  LET Batches == UNION {[1..n -> 1..2] : n \in 1..size} IN
  /\ \A n \in 1..size : LET hashes == [i \in 1..n |-> i] IN
       \A i, j \in 1..n : VerifyMerkleProof(j, MerkleRoot(hashes), MerkleProof(hashes, i - 1)) <=> i = j
  /\ \A s, t \in Batches : MerkleRoot(s) = MerkleRoot(t) => s = t
=============================================================================
