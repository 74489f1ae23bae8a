----------------------------- MODULE BlockForest -----------------------------
(***************************************************************************)
(* The forest of unstable blocks of the Bitcoin canister as a data type    *)
(* (canister/src/blockforest.rs).                                          *)
(*                                                                         *)
(* A block stands for its hash; Prev is the hash its header points back to.*)
(* A BlockTree is the function from its paths to its blocks: << >> is the  *)
(* path of the root and p \o <<k>> that of the k-th child of path p.  This *)
(* keeps what the nested Vecs keep: the order of the children and a block  *)
(* that occurs more than once.  A forest is the sequence of its trees.     *)
(***************************************************************************)
EXTENDS Integers, Sequences, FiniteSets, SequencesExt

CONSTANTS
    Block,       \* all blocks that may be delivered
    Prev,        \* header.prev_blockhash of each block
    NoBlock,     \* the hash the genesis block points back to
    Delta        \* BlockForest.delta

\* A hash cannot be in its own past.
ASSUME PrevAssumption ==
    /\ Prev \in [Block -> Block \cup {NoBlock}]
    /\ NoBlock \notin Block
    /\ \A B \in SUBSET Block : B # {} => \E b \in B : Prev[b] \notin B
ASSUME DeltaAssumption == Delta \in Nat

-----------------------------------------------------------------------------
(* BlockTree                                                               *)

Root(tree) == tree[<< >>]
Leaf(block) == [p \in {<< >>} |-> block]

Children(tree, path) == {p \in DOMAIN tree : p # << >> /\ Front(p) = path}
Tips(tree) == {p \in DOMAIN tree : Children(tree, p) = {}}

Depth(tree) == Max({Len(p) : p \in DOMAIN tree})

Occurrences(tree, block) == {p \in DOMAIN tree : tree[p] = block}
Holds(tree, block) == Occurrences(tree, block) # {}

\* The order in which find_mut visits the paths: a block before its children,
\* an earlier child with all its descendants before a later one.
Precedes(p, q) ==
    \/ \A i \in DOMAIN p : i \in DOMAIN q /\ p[i] = q[i]
    \/ \E i \in DOMAIN p \cap DOMAIN q :
         /\ \A j \in 1 .. i - 1 : p[j] = q[j]
         /\ p[i] < q[i]

\* Fault: the search ends at the root.
FindMutRoot(tree, block) == << >>

FindMut(tree, block) ==
    CHOOSE p \in Occurrences(tree, block) :
        \A q \in Occurrences(tree, block) : Precedes(p, q)

\* children.push(subtree) at the given path.
PushChild(tree, path, subtree) ==
    LET new == Append(path, Cardinality(Children(tree, path)) + 1)
        below == {new \o p : p \in DOMAIN subtree}
    IN  [p \in DOMAIN tree \cup below |->
            IF p \in below THEN subtree[SubSeq(p, Len(new) + 1, Len(p))] ELSE tree[p]]

\* BlockTree::extend: it fails, or adds the block unless it is there already.
CanExtend(tree, block) == Holds(tree, block) \/ Holds(tree, Prev[block])
Extend(tree, block) ==
    IF Holds(tree, block) THEN tree
    ELSE PushChild(tree, FindMut(tree, Prev[block]), Leaf(block))

\* BlockTree::pop: the children of the root, as trees.
Subtree(tree, k) ==
    [p \in {Tail(q) : q \in {r \in DOMAIN tree : r # << >> /\ Head(r) = k}} |->
        tree[<<k>> \o p]]
Subtrees(tree) == [k \in 1 .. Cardinality(Children(tree, << >>)) |-> Subtree(tree, k)]

\* BlockTree::blockchains: the blocks from the root to each tip.
Blockchains(tree) ==
    {[i \in 1 .. Len(tip) + 1 |-> tree[SubSeq(tip, 1, i - 1)]] : tip \in Tips(tree)}

-----------------------------------------------------------------------------
(* BlockForest                                                             *)

IsAttached(tree, anchor) == Prev[Root(tree)] = anchor

\* The elements seq has at the positions I, in the order before gives these:
\* the k-th is the one that k - 1 others are before.
Arranged(seq, I, before) ==
    [k \in 1 .. Cardinality(I) |->
        seq[CHOOSE i \in I : Cardinality({j \in I : <<j, i>> \in before}) = k - 1]]

\* The positions of the trees on the anchor, and the other trees as they come.
Attached(trees, anchor) == {i \in DOMAIN trees : IsAttached(trees[i], anchor)}
Detached(trees, anchor) ==
    LET I == DOMAIN trees \ Attached(trees, anchor)
    IN  Arranged(trees, I, {p \in I \X I : p[1] < p[2]})

\* sort_by depth, which keeps the order of trees of the same depth.
SortByDepth(trees, I) ==
    Arranged(trees, I,
             {p \in I \X I :
                 \/ Depth(trees[p[1]]) < Depth(trees[p[2]])
                 \/ Depth(trees[p[1]]) = Depth(trees[p[2]]) /\ p[1] < p[2]})

\* Fault: trees that are not on the anchor compete as well.
RankedAll(trees, anchor) == SortByDepth(trees, DOMAIN trees)

Ranked(trees, anchor) == SortByDepth(trees, Attached(trees, anchor))

\* Fault: the second deepest tree is not looked at.
HasStableUncontested(trees, anchor) ==
    LET ranked == Ranked(trees, anchor)
    IN  ranked # << >> /\ Depth(Last(ranked)) >= Delta

\* The deepest tree on the anchor is at least Delta deep, and at least Delta
\* deeper than the second deepest.
HasStable(trees, anchor) ==
    LET ranked == Ranked(trees, anchor)
        n == Len(ranked)
    IN  /\ n >= 1
        /\ Depth(ranked[n]) >= Delta
        /\ n >= 2 => Depth(ranked[n]) - Depth(ranked[n - 1]) >= Delta

\* Faults: the shallowest tree gives the stable block; the trees taken out
\* are not put back when there is no stable block; the popped block stays.
StableBlockShallowest(trees, anchor) == Root(Head(Ranked(trees, anchor)))
PopTreesForgetting(trees, anchor) ==
    IF HasStable(trees, anchor)
    THEN Detached(trees, anchor) \o Subtrees(Last(Ranked(trees, anchor)))
    ELSE Detached(trees, anchor)
PopTreesWhole(trees, anchor) ==
    IF HasStable(trees, anchor)
    THEN Append(Detached(trees, anchor), Last(Ranked(trees, anchor)))
    ELSE Ranked(trees, anchor) \o Detached(trees, anchor)

\* BlockForest::pop: the block it returns when there is a stable one, and the
\* trees it leaves.
StableBlock(trees, anchor) == Root(Last(Ranked(trees, anchor)))
PopTrees(trees, anchor) ==
    IF HasStable(trees, anchor)
    THEN Detached(trees, anchor) \o Subtrees(Last(Ranked(trees, anchor)))
    ELSE Ranked(trees, anchor) \o Detached(trees, anchor)

\* BlockForest::push: the first tree on top of the block is taken out, the
\* block goes to the first tree it extends or starts a new one, and the tree
\* taken out becomes a child of the block.
Push(trees, block) ==
    LET above == {i \in DOMAIN trees : Prev[Root(trees[i])] = block}
        rest == IF above = {} THEN trees ELSE RemoveAt(trees, Min(above))
        hosts == {i \in DOMAIN rest : CanExtend(rest[i], block)}
        Crowned(tree) ==
            IF above = {} THEN tree
            ELSE PushChild(tree, FindMut(tree, block), trees[Min(above)])
    IN  IF hosts = {}
        THEN Append(rest, Crowned(Leaf(block)))
        ELSE [rest EXCEPT ![Min(hosts)] = Crowned(Extend(@, block))]

\* BlockForest::get_blocks; a request lists them, so repetitions do not count.
GetBlocks(trees) == UNION {Range(trees[i]) : i \in DOMAIN trees}

\* The blocks of the trees on the anchor.
BlocksOn(trees, anchor) == UNION {Range(trees[i]) : i \in Attached(trees, anchor)}

\* BlockForest::get_current_chain: what all the longest chains on the anchor
\* begin with.
ChainsOn(trees, anchor) ==
    UNION {Blockchains(trees[i]) : i \in Attached(trees, anchor)}

LongestChainsOn(trees, anchor) ==
    {c \in ChainsOn(trees, anchor) : \A d \in ChainsOn(trees, anchor) : Len(d) <= Len(c)}

CurrentChain(trees, anchor) ==
    IF ChainsOn(trees, anchor) = {} THEN << >>
    ELSE LongestCommonPrefix(LongestChainsOn(trees, anchor))
=============================================================================
