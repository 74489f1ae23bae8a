----------------------------- MODULE HeaderTree -----------------------------
(***************************************************************************)
(* The tree of all blocks as their headers describe it: the yardstick for  *)
(* what the forest makes of the blocks it was given.                       *)
(***************************************************************************)
EXTENDS StoreOps

\* Each block with everything it builds on.
Past[b \in Block] == {b} \cup (IF Prev[b] \in Block THEN Past[Prev[b]] ELSE {})

Distance(ancestor, block) == Cardinality(Past[block]) - Cardinality(Past[ancestor])

\* The blocks of S that build on block through blocks of S alone.
Above(block, S) == {b \in S : block \in Past[b] /\ Past[b] \ Past[block] \subseteq S}

\* How many blocks the longest chain on top of block has, within S.
DepthIn(block, S) == Max({Distance(block, b) : b \in Above(block, S) \cup {block}})

\* The chain that ends in block, genesis first.
ChainTo(block) ==
    [n \in 1 .. Cardinality(Past[block]) |->
        CHOOSE b \in Past[block] : Cardinality(Past[b]) = n]
=============================================================================
