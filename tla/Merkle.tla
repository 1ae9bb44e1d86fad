------------------------------- MODULE Merkle -------------------------------
(***************************************************************************)
(* The trees of RFC 6962 the repository hashes its records into:           *)
(*   internal/contracts/witness     the tree of the witness log: its root, *)
(*                                  and what verifies its proofs;          *)
(*   internal/genome/witness/log.go what makes those proofs;               *)
(*   internal/genome/componenttree  the tree of a genome's components,     *)
(*                                  with a prover and a verifier of its    *)
(*                                  own;                                   *)
(*   internal/contracts/probe_battery  the roots of probes and scores.     *)
(* SHA-256 is a constructor: two hashes are equal only when what was       *)
(* hashed is.  A leaf and an inner node differ by their tag.  Sizes and    *)
(* positions count from 0, sequences from 1.                               *)
(***************************************************************************)
EXTENDS Naturals, Sequences, SequencesExt

Zero == <<"zero">>
LeafHash(x) == <<"leaf", x>>
CombineNodes(l, r) == <<"node", l, r>>

Halves(n) == n \div 2
Odd(n) == n % 2 = 1

\* Mutant of Above: an odd last node is paired with itself.
AboveDuplicates(level) ==
    [i \in 1..(Len(level) + 1) \div 2 |->
        CombineNodes(level[2 * i - 1],
                     IF 2 * i <= Len(level) THEN level[2 * i]
                     ELSE level[2 * i - 1])]

\* The level above: pairs are combined, an odd last node moves up unchanged.
Above(level) ==
    [i \in 1..(Len(level) + 1) \div 2 |->
        IF 2 * i <= Len(level) THEN CombineNodes(level[2 * i - 1], level[2 * i])
        ELSE level[2 * i - 1]]

RECURSIVE Root(_)
Root(level) == IF Len(level) = 1 THEN level[1] ELSE Root(Above(level))

\* ComputeMerkleRoot, computeRoot and computeProbeRoot.
ComputeMerkleRoot(leaves) == IF leaves = <<>> THEN Zero ELSE Root(leaves)

\* buildInclusionPathInternal and proofPath: the siblings, from the leaf up;
\* a node that moves up unchanged has none.
RECURSIVE InclusionPath(_, _)
InclusionPath(level, index) ==
    IF Len(level) <= 1 THEN <<>>
    ELSE LET sibling == IF Odd(index) THEN index - 1 ELSE index + 1
         IN  (IF sibling < Len(level) THEN <<level[sibling + 1]>> ELSE <<>>)
                \o InclusionPath(Above(level), Halves(index))

\* largestPow2Less
LargestPow2Less(n) ==
    CHOOSE k \in {2 ^ e : e \in 0..n} : k < n /\ n <= 2 * k

\* subproofInternal: SUBPROOF(m, D, b) of RFC 6962, 2.1.2.
RECURSIVE SubProof(_, _, _)
SubProof(m, leaves, isFirst) ==
    LET n == Len(leaves)
        k == LargestPow2Less(n)
        left == SubSeq(leaves, 1, k)
        right == SubSeq(leaves, k + 1, n)
    IN  IF m = n THEN IF isFirst THEN <<>> ELSE <<ComputeMerkleRoot(leaves)>>
        ELSE IF m <= k
        THEN Append(SubProof(m, left, isFirst), ComputeMerkleRoot(right))
        ELSE Append(SubProof(m - k, right, FALSE), ComputeMerkleRoot(left))

\* ConsistencyProof of a log with these leaves, from its first m on.
ConsistencyPath(m, leaves) ==
    IF m = 0 \/ m = Len(leaves) THEN <<>> ELSE SubProof(m, leaves, TRUE)

-----------------------------------------------------------------------------
(* The verifiers.  Node and last walk up the tree together.                 *)

\* The right edge: levels at which the node has no sibling are skipped.
RECURSIVE SkipWhile(_, _, _)
SkipWhile(odd, node, last) ==
    IF (odd /\ Odd(node)) \/ (~odd /\ ~Odd(node) /\ node # 0)
    THEN SkipWhile(odd, Halves(node), Halves(last))
    ELSE <<node, last>>

Failed == [ok |-> FALSE, node |-> 0, last |-> 0, old |-> Zero, new |-> Zero]

\* One element of an audit path: on the left of what was computed so far, or
\* on the right of the new tree only.
Consume(s, p) ==
    IF ~s.ok \/ s.last = 0 THEN Failed
    ELSE IF Odd(s.node) \/ s.node = s.last
    THEN LET at == SkipWhile(FALSE, s.node, s.last)
         IN  [ok |-> TRUE, node |-> Halves(at[1]), last |-> Halves(at[2]),
              old |-> CombineNodes(p, s.old), new |-> CombineNodes(p, s.new)]
    ELSE [s EXCEPT !.node = Halves(@), !.last = Halves(@),
                   !.new = CombineNodes(@, p)]

\* witness.VerifyInclusion, with InclusionProof.Validate: the leaf's own tree
\* of one grows into the tree.
VerifyInclusion(leaf, index, size, path, root) ==
    /\ size > 0 /\ index < size
    /\ IF size = 1 THEN path = <<>> /\ leaf = root
       ELSE LET end == FoldLeft(Consume,
                                [ok |-> TRUE, node |-> index, last |-> size - 1,
                                 old |-> Zero, new |-> leaf], path)
            IN  path # <<>> /\ end.ok /\ end.last = 0 /\ end.new = root

\* witness.VerifyConsistency, with ConsistencyProof.Validate.
VerifyConsistency(oldRoot, newRoot, m, n, path) ==
    LET at == SkipWhile(TRUE, m - 1, n - 1)
        seeded == at[1] > 0
        seed == IF seeded THEN path[1] ELSE oldRoot
        end == FoldLeft(Consume,
                        [ok |-> TRUE, node |-> at[1], last |-> at[2],
                         old |-> seed, new |-> seed],
                        IF seeded THEN Tail(path) ELSE path)
    IN  /\ m <= n /\ (m = 0 \/ m = n => path = <<>>)
        /\ \/ m = 0
           \/ m = n /\ oldRoot = newRoot
           \/ /\ m \notin {0, n} /\ (seeded => path # <<>>)
              /\ end.ok /\ end.last = 0
              /\ end.old = oldRoot /\ end.new = newRoot

\* componenttree.VerifyInclusion: level by level, from the sizes.
RECURSIVE VerifyComponent(_, _, _, _, _)
VerifyComponent(h, index, size, path, root) ==
    IF size <= 1 THEN path = <<>> /\ h = root
    ELSE IF index = size - 1 /\ Odd(size)
    THEN VerifyComponent(h, Halves(index), Halves(size + 1), path, root)
    ELSE /\ path # <<>>
         /\ VerifyComponent(IF Odd(index) THEN CombineNodes(path[1], h)
                            ELSE CombineNodes(h, path[1]),
                            Halves(index), Halves(size + 1), Tail(path), root)

-----------------------------------------------------------------------------
(* What a proof about a tree can be made of.                                *)

\* The hashes a term is made of: what a proof about it can be made of.
RECURSIVE Subterms(_)
Subterms(t) ==
    {t} \cup IF t[1] = "node" THEN Subterms(t[2]) \cup Subterms(t[3]) ELSE {}

\* Every path of at most k of these hashes.
PathsOf(hashes, k) == UNION {[1..i -> hashes] : i \in 0..k}
=============================================================================
