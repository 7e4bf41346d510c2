------------------------------- MODULE Merkle -------------------------------
(***************************************************************************)
(* The tree behind a published root (merkle.ts) and the check the contract *)
(* makes of a proof.  A hash is what was hashed: equal exactly when that   *)
(* is, and a leaf is never a pair.  An entry is an account, numbered in    *)
(* the order of addresses, and its cumulative amount.                      *)
(*                                                                         *)
(* Definitions called Bug... are variants of the one that follows them, as *)
(* a plausible mistake in the code would make it; nothing here uses them.  *)
(***************************************************************************)
EXTENDS Naturals, FiniteSets, SequencesExt

CONSTANTS
  MaxEntries,  \* bound: accounts in a tree, 1..MaxEntries
  MaxOwed      \* bound: what an account is owed

ASSUME MerkleAssumption == MaxEntries \in Nat /\ MaxOwed \in Nat

LeafOf(entry) == <<"leaf", entry>>

\* Sorted before hashing: which of the two comes first makes no difference.
HashPair(a, b) == <<"pair", {a, b}>>

\* What buildTree throws on: no entries, an account twice, nothing owed.
Refused(entries) ==
  \/ entries = <<>>
  \/ \E i, j \in DOMAIN entries : i # j /\ entries[i].account = entries[j].account
  \/ \E i \in DOMAIN entries : entries[i].owed = 0

\* In the order of accounts: each entry stands behind those of smaller accounts.
Smaller(entries, e) == {f \in Range(entries) : f.account < e.account}
Sorted(entries) ==
  [i \in DOMAIN entries |->
     CHOOSE e \in Range(entries) : Cardinality(Smaller(entries, e)) = i - 1]

\* The level above: pairs from the left, an odd node is carried up unchanged.
BugAbove(level) ==
  [i \in 1..((Len(level) + 1) \div 2) |->
     HashPair(level[2 * i - 1], level[IF 2 * i <= Len(level) THEN 2 * i ELSE 2 * i - 1])]
Above(level) ==
  [i \in 1..((Len(level) + 1) \div 2) |->
     IF 2 * i <= Len(level) THEN HashPair(level[2 * i - 1], level[2 * i])
     ELSE level[2 * i - 1]]

\* Every level, leaves first, up to the one that has the root alone.
LevelsFrom(leaves) ==
  LET level[d \in 1..Len(leaves)] == IF d = 1 THEN leaves ELSE Above(level[d - 1])
      top == CHOOSE d \in 1..Len(leaves) :
               Len(level[d]) = 1 /\ \A e \in 1..(d - 1) : Len(level[e]) > 1
  IN [d \in 1..top |-> level[d]]

\* The siblings on the way up; a node carried up has none.  Positions from 0.
Sibling(i) == IF i % 2 = 0 THEN i + 1 ELSE i - 1
Up(nodes, at) ==
  [index |-> at.index \div 2,
   proof |-> IF Sibling(at.index) < Len(nodes)
             THEN Append(at.proof, nodes[Sibling(at.index) + 1]) ELSE at.proof]
Proof(levels, position) ==
  LET climb[d \in 1..Len(levels)] ==
        IF d = 1 THEN [index |-> position, proof |-> <<>>] ELSE Up(levels[d - 1], climb[d - 1])
  IN climb[Len(levels)].proof

\* (What follows <<>> \o is written out by TLC, once.)
Tree(entries) ==
  LET sorted == Sorted(entries)
      levels == LevelsFrom(<<>> \o [i \in DOMAIN sorted |-> LeafOf(sorted[i])])
  IN [root |-> Last(levels)[1], entries |-> sorted,
      proofs |-> [i \in DOMAIN sorted |-> Proof(levels, i - 1)]]

\* MerkleProof.processProof and verify, which claim calls.
ProcessProof(proof, leaf) ==
  LET node[i \in 0..Len(proof)] == IF i = 0 THEN leaf ELSE HashPair(node[i - 1], proof[i])
  IN node[Len(proof)]
Verifies(proof, root, entry) == ProcessProof(proof, LeafOf(entry)) = root

(***************************************************************************)
(* Properties, over every input within the bounds.                         *)
(***************************************************************************)
Book(B) == [account : B, owed : 1..MaxOwed]
Inputs == {entries \in UNION {[1..n -> Book(1..MaxEntries)] : n \in 1..MaxEntries} :
             ~Refused(entries)}

(***************************************************************************)
(* A root proves its entries and nothing else, and is a function of them   *)
(* alone: each entry's proof is accepted, with no other amount or account, *)
(* and the order the rows came in makes no difference (buildTree, claim).  *)
(***************************************************************************)
RootsProveTheirEntries == \A entries \in Inputs :
  LET tree == Tree(entries)
  IN /\ Tree(Reverse(entries)).root = tree.root
     /\ \A i \in DOMAIN entries :
          LET proof == tree.proofs[i]
          IN \A claimed \in Book(1..MaxEntries) :
               Verifies(proof, tree.root, claimed) <=> claimed = tree.entries[i]

=============================================================================
