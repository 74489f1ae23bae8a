---------------------------- MODULE StoreProofs ----------------------------
(***************************************************************************)
(* The store keeps a chain, a linked forest on it and the ledger of that   *)
(* chain, and answers what a replay of the chain answers, for all blocks   *)
(* and transactions, any delta and any order in which blocks come.  If     *)
(* they come as successors of known ones, the forest is the tree of their  *)
(* headers, and blocks become stable by the rule.                          *)
(***************************************************************************)
EXTENDS StoreProperties, StoreOpsProofs

\* The state is in order and agrees with the chain of stable blocks.
StoreInv ==
    /\ StateOK(state)
    /\ stable \in Seq(Block) /\ stable # << >>
    /\ FieldsAgree
    /\ trapped \in BOOLEAN
    /\ delivered \subseteq Block
    /\ repeated \in BOOLEAN

LEMMA InitInv == Init => StoreInv
<1> SUFFICES ASSUME Init PROVE StoreInv
  OBVIOUS
<1>1. /\ StateOK(state) /\ state.height = 1
      /\ state.latest_stable_block_hash = Genesis
  BY NewStateOK DEF Init
<1>2. stable = <<Genesis>> /\ Genesis \in Block
  BY GenesisAssumption DEF Init
<1>3. /\ stable \in Seq(Block) /\ stable # << >> /\ Len(stable) = 1
      /\ Last(stable) = Genesis
  BY <1>2 DEF Last
<1>4. FieldsAgree
  BY <1>1, <1>3 DEF FieldsAgree, Anchor
<1> QED  BY <1>1, <1>3, <1>4 DEF StoreInv, Init

\* insert_block when no block becomes stable.
LEMMA KeepUnstableInv ==
    ASSUME StoreInv, NEW block \in Block, KeepUnstable(block)
    PROVE  StoreInv' /\ UNCHANGED <<stable, trapped>> /\ state'.utxos = state.utxos
<1>1. ~ InsertPanics(state, block) /\ state' = InsertBlock(state, block)
  BY DEF KeepUnstable, InsertPanics
<1>2. /\ StateOK(state') /\ state'.height = state.height
      /\ state'.latest_stable_block_hash = state.latest_stable_block_hash
      /\ state'.utxos = state.utxos
  BY <1>1, InsertState DEF StoreInv, KeepUnstable
<1> QED  BY <1>2 DEF StoreInv, FieldsAgree, Anchor, KeepUnstable, Delivers

\* A chain with the successor of its last block at its end.
LEMMA ChainGrows ==
    ASSUME NEW chain \in Seq(Block), chain # << >>, NEW block \in Block,
           Prev[block] = Last(chain),
           \A i \in 2 .. Len(chain) : Prev[chain[i]] = chain[i - 1]
    PROVE  LET longer == Append(chain, block)
           IN  /\ longer \in Seq(Block) /\ longer # << >>
               /\ Len(longer) = Len(chain) + 1 /\ Last(longer) = block
               /\ \A i \in 2 .. Len(longer) : Prev[longer[i]] = longer[i - 1]
<1> DEFINE longer == Append(chain, block)
           n == Len(chain)
<1>1. n \in Nat \ {0} /\ Last(chain) = chain[n]
  BY EmptySeq, LenProperties DEF Last
<1>2. /\ longer \in Seq(Block) /\ longer # << >> /\ Len(longer) = n + 1
      /\ \A i \in 1 .. n : longer[i] = chain[i]
      /\ longer[n + 1] = block
  BY AppendProperties
<1> HIDE DEF longer, n
<1>3. Last(longer) = block
  BY <1>2 DEF Last
<1>4. ASSUME NEW i \in 2 .. n + 1
      PROVE  Prev[longer[i]] = longer[i - 1]
  <2>1. i - 1 \in 1 .. n
    BY <1>1
  <2>2. CASE i \in 2 .. n
    <3>1. i \in 1 .. n
      BY <1>1, <2>2
    <3> QED  BY <1>2, <2>1, <2>2, <3>1 DEF n
  <2>3. CASE i = n + 1
    <3>1. i - 1 = n
      BY <1>1, <2>3
    <3>2. longer[i] = block /\ longer[i - 1] = chain[n]
      BY <1>2, <2>1, <2>3, <3>1
    <3> QED  BY <1>1, <3>2
  <2> QED  BY <1>1, <2>2, <2>3
<1> QED  BY <1>2, <1>3, <1>4 DEF longer, n

\* insert_block when one does: that one is the successor of the last stable
\* block, and it spends what is there to be spent.
LEMMA StabiliseInv ==
    ASSUME StoreInv, NEW block \in Block, Stabilise(block)
    PROVE  /\ StoreInv'
           /\ \E b \in Block :
                /\ Prev[b] = Last(stable) /\ stable' = Append(stable, b)
                /\ L!Spendable(Pairs(state.utxos), TxData[b])
                /\ Pairs(state.utxos)' = L!After(Pairs(state.utxos), TxData[b])
<1> DEFINE b == Popped(state, block)
           Pairs1 == Pairs(state'.utxos)
<1>1. StateOK(state) /\ Stabilises(state, block) /\ ~ InsertPanics(state, block)
  BY DEF StoreInv, Stabilise
<1>2. state' = InsertBlock(state, block) /\ stable' = Append(stable, b)
  BY DEF Stabilise
<1>3. b \in Block
  BY <1>1, PoppedOK
<1>4. /\ StateOK(state') /\ state'.height = state.height + 1
      /\ state'.latest_stable_block_hash = b /\ Prev[b] = state.latest_stable_block_hash
      /\ Pairs1 = L!After(Pairs(state.utxos), TxData[b])
      /\ L!Spendable(Pairs(state.utxos), TxData[b])
  BY <1>1, <1>2, InsertState
<1> HIDE DEF b
<1>5. /\ stable \in Seq(Block) /\ stable # << >> /\ Prev[b] = Last(stable)
      /\ \A i \in 2 .. Len(stable) : Prev[stable[i]] = stable[i - 1]
      /\ state.height = Len(stable)
  BY <1>4 DEF StoreInv, FieldsAgree, Anchor
<1>6. /\ stable' \in Seq(Block) /\ stable' # << >>
      /\ Len(stable') = Len(stable) + 1 /\ Last(stable') = b
      /\ \A i \in 2 .. Len(stable') : Prev[stable'[i]] = stable'[i - 1]
  BY <1>2, <1>3, <1>5, ChainGrows
<1>7. StoreInv'
  BY <1>4, <1>5, <1>6 DEF StoreInv, FieldsAgree, Anchor, Stabilise, Delivers
<1> QED  BY <1>2, <1>3, <1>4, <1>5, <1>7

\* A save and a load in place of the state change nothing.
LEMMA SaveAndLoadSame ==
    ASSUME StoreInv, SaveAndLoad
    PROVE  UNCHANGED vars
BY ReloadState DEF StoreInv, SaveAndLoad, vars

LEMMA SameInv ==
    ASSUME StoreInv, UNCHANGED <<state, stable, delivered, repeated>>, trapped' \in BOOLEAN
    PROVE  StoreInv'
BY DEF StoreInv, FieldsAgree, Anchor

LEMMA NextInv == StoreInv /\ [NextAnyOrder]_vars => StoreInv'
<1> SUFFICES ASSUME StoreInv, [NextAnyOrder]_vars PROVE StoreInv'
  OBVIOUS
<1>1. ASSUME NEW block \in Block \ {Genesis}, Insert(block) PROVE StoreInv'
  <2>1. CASE KeepUnstable(block)
    BY <2>1, KeepUnstableInv
  <2>2. CASE Stabilise(block)
    BY <2>2, StabiliseInv
  <2>3. CASE Trap(block)
    BY <2>3, SameInv DEF Trap
  <2> QED  BY <1>1, <2>1, <2>2, <2>3 DEF Insert
<1>2. CASE UNCHANGED vars
  BY <1>2, SameInv DEF vars, StoreInv
<1>3. CASE SaveAndLoad
  BY <1>2, <1>3, SaveAndLoadSame, SameInv DEF vars, StoreInv
<1> QED  BY <1>1, <1>2, <1>3 DEF NextAnyOrder

LEMMA SpecInv == SpecAnyOrder => []StoreInv
BY InitInv, NextInv, PTL DEF SpecAnyOrder

\* Blocks that come in order are a case of blocks in any order.
LEMMA InOrderIsAnyOrder == SpecInOrder => SpecAnyOrder
<1>1. [NextInOrder]_vars => [NextAnyOrder]_vars
  BY DEF NextInOrder, NextAnyOrder, InsertSuccessor
<1> QED  BY <1>1, PTL DEF SpecInOrder, SpecAnyOrder

-----------------------------------------------------------------------------
\* Whatever blocks come, in whatever order and however often, whatever of them
\* panic and whenever the state is saved and loaded, the hash of the state is
\* the last stable block, its height counts the stable blocks, and each of
\* these is the successor of the one before.
THEOREM ChainFieldsAgree == SpecAnyOrder => []FieldsAgree
<1>1. StoreInv => FieldsAgree
  BY DEF StoreInv
<1> QED  BY <1>1, SpecInv, PTL

\* The index of the UTXO set always lists what the set holds, the set stays
\* strict, and the forest holds delivered blocks and no others.
THEOREM StoreTypeOK == SpecAnyOrder => []TypeOK
<1>1. StoreInv => TypeOK
  BY DEF StoreInv, TypeOK, StateOK, SetOK, Consistent
<1> QED  BY <1>1, SpecInv, PTL

\* Whatever push and pop have made of the forest, each child in it is the
\* successor of its parent.
THEOREM ForestAlwaysLinked == SpecAnyOrder => []ForestLinked
<1>1. ASSUME StoreInv, NEW i \in DOMAIN Trees, NEW p \in DOMAIN Trees[i] \ {<< >>}
      PROVE  Prev[Trees[i][p]] = Trees[i][Front(p)]
  <2> DEFINE tree == Trees[i]
  <2>1. TreeOK(tree)
    BY <1>1 DEF StoreInv, StateOK, ForestOK, Trees
  <2> HIDE DEF tree
  <2>2. Shape(DOMAIN tree) /\ Linked(tree) /\ p \in DOMAIN tree
    BY <2>1, <1>1 DEF TreeOK, tree
  <2>3. p \in Path /\ p # << >>
    BY <2>2 DEF Shape
  <2>4. PICK q \in Path, k \in Nat \ {0} : p = Child(q, k)
    BY <2>3, IsChild
  <2>5. Front(p) = q
    BY <2>4, ChildFacts
  <2> QED  BY <2>2, <2>4, <2>5 DEF Linked, tree
<1>2. StoreInv => ForestLinked
  BY <1>1 DEF ForestLinked
<1> QED  BY <1>2, SpecInv, PTL

-----------------------------------------------------------------------------
(* The ledger.                                                             *)

LEMMA InitIsLedger == Init => StableLedger!Init
<1> SUFFICES ASSUME Init PROVE StableLedger!Init
  OBVIOUS
<1>1. Pairs(state.utxos) = L!After({}, TxData[Genesis])
  BY NewStateOK DEF Init
<1> QED  BY <1>1 DEF Init, StableLedger!Init, Pairs, L!After, StableLedger!After,
              L!AfterTx, StableLedger!AfterTx, L!Outputs, StableLedger!Outputs

LEMMA StepIsLedger ==
    StoreInv /\ [NextAnyOrder]_vars
      => [StableLedger!Next]_<<stable, Pairs(state.utxos)>>
<1> SUFFICES ASSUME StoreInv, [NextAnyOrder]_vars
             PROVE  [StableLedger!Next]_<<stable, Pairs(state.utxos)>>
  OBVIOUS
<1>1. ASSUME NEW block \in Block, Stabilise(block) PROVE StableLedger!Next
  <2>1. PICK b \in Block :
          /\ Prev[b] = Last(stable) /\ stable' = Append(stable, b)
          /\ L!Spendable(Pairs(state.utxos), TxData[b])
          /\ Pairs(state.utxos)' = L!After(Pairs(state.utxos), TxData[b])
    BY <1>1, StabiliseInv
  <2>2. Prev[b] = stable[Len(stable)]
    BY <2>1 DEF Last
  <2>3. StableLedger!Extend(b)
    BY <2>1, <2>2
    DEF StableLedger!Extend, Pairs, L!After, StableLedger!After, L!AfterTx,
        StableLedger!AfterTx, L!Outputs, StableLedger!Outputs,
        L!Spendable, StableLedger!Spendable
  <2> QED  BY <2>3 DEF StableLedger!Next
<1>2. ASSUME NEW block \in Block, KeepUnstable(block)
      PROVE  UNCHANGED <<stable, Pairs(state.utxos)>>
  BY <1>2, KeepUnstableInv DEF Pairs
<1>3. ASSUME NEW block \in Block, Trap(block)
      PROVE  UNCHANGED <<stable, Pairs(state.utxos)>>
  BY <1>3 DEF Trap
<1>4. CASE UNCHANGED vars
  BY <1>4 DEF vars
<1>5. CASE SaveAndLoad
  BY <1>5, SaveAndLoadSame DEF vars
<1> QED  BY <1>1, <1>2, <1>3, <1>4, <1>5 DEF NextAnyOrder, Insert

\* The store implements the ledger, whatever blocks come: each insert_block,
\* save and load is a step of the ledger or none, and a stable block never
\* spends what the chain before it does not have.
THEOREM StoreImplementsLedger == SpecAnyOrder => ImplementsLedger
<1>1. <<stable, {<<u[1], u[2]>> : u \in IntoSet(state.utxos)}>>
        = <<stable, Pairs(state.utxos)>>
  BY DEF Pairs
<1>2. StoreInv /\ [NextAnyOrder]_vars
        => [StableLedger!Next]_<<stable, {<<u[1], u[2]>> : u \in IntoSet(state.utxos)}>>
  BY StepIsLedger DEF Pairs
<1> QED  BY <1>2, InitIsLedger, SpecInv, PTL
         DEF SpecAnyOrder, ImplementsLedger, StableLedger!Spec
-----------------------------------------------------------------------------
(* Places: where the trees of a forest go when they are arranged.          *)

\* place says where each element of I goes: each to a place of its own among
\* the first Cardinality(I), and an earlier one before a later one.
IsPlacing(place, I, R) ==
    /\ \A i \in I : place[i] \in 1 .. Cardinality(I)
    /\ \A i, j \in I : place[i] = place[j] => i = j
    /\ \A k \in 1 .. Cardinality(I) : \E i \in I : place[i] = k
    /\ \A i, j \in I : place[i] < place[j] => <<i, j>> \in R

LEMMA ArrangedPlaces ==
    ASSUME NEW seq, NEW I, IsFiniteSet(I), I \subseteq DOMAIN seq,
           NEW R, StrictOrder(I, R)
    PROVE  \E place : /\ IsPlacing(place, I, R)
                      /\ \A i \in I : Arranged(seq, I, R)[place[i]] = seq[i]
<1> DEFINE n == Cardinality(I)
           c(i) == Cardinality(Earlier(I, R, i))
           place == [i \in I |-> c(i) + 1]
<1>1. n \in Nat
  BY FS_CardinalityType
<1>2. /\ \A i \in I : c(i) \in 0 .. n - 1
      /\ \A i, j \in I : c(i) = c(j) => i = j
      /\ \A k \in 0 .. n - 1 : \E i \in I : c(i) = k
  BY RankFacts
<1>3. \A i \in I : Arranged(seq, I, R)[c(i) + 1] = seq[i]
  <2>1. LET r == Arranged(seq, I, R)
        IN  /\ r \in Seq({seq[i] : i \in I})
            /\ Len(r) = Cardinality(I)
            /\ Range(r) = {seq[i] : i \in I}
            /\ \A i \in I : r[Cardinality(Earlier(I, R, i)) + 1] = seq[i]
    BY ArrangedFacts
  <2> QED  BY <2>1
<1>4. ASSUME NEW i \in I, NEW j \in I, c(i) < c(j) PROVE <<i, j>> \in R
  <2>1. CASE i = j
    <3>1. c(i) \in Int
      BY <1>2
    <3> QED  BY <1>4, <2>1, <3>1
  <2>2. CASE <<j, i>> \in R
    <3>1. Earlier(I, R, j) \subseteq Earlier(I, R, i)
      BY <2>2 DEF Earlier, StrictOrder
    <3>2. IsFiniteSet(Earlier(I, R, i))
      BY FS_Subset DEF Earlier
    <3>3. c(j) <= c(i)
      BY <3>1, <3>2, FS_Subset
    <3>4. c(i) \in Int /\ c(j) \in Int
      BY <1>2
    <3> QED  BY <1>4, <3>3, <3>4
  <2> QED  BY <2>1, <2>2 DEF StrictOrder
<1> HIDE DEF c, n
<1>5. \A i \in I : place[i] = c(i) + 1 /\ c(i) \in Nat
  BY <1>1, <1>2
<1>6. IsPlacing(place, I, R)
  <2>1. \A i \in I : place[i] \in 1 .. n
    BY <1>1, <1>2, <1>5
  <2>2. \A i, j \in I : place[i] = place[j] => i = j
    BY <1>2, <1>5
  <2>3. ASSUME NEW k \in 1 .. n PROVE \E i \in I : place[i] = k
    <3>1. k - 1 \in 0 .. n - 1
      BY <1>1
    <3>2. PICK i \in I : c(i) = k - 1
      BY <1>2, <3>1
    <3> QED  BY <1>5, <3>2
  <2>4. \A i, j \in I : place[i] < place[j] => <<i, j>> \in R
    BY <1>4, <1>5
  <2> HIDE DEF place
  <2> QED  BY <2>1, <2>2, <2>3, <2>4 DEF IsPlacing, n
<1> QED  BY <1>3, <1>5, <1>6

\* The trees on the anchor go by their depths.
LEMMA RankedPlaces ==
    ASSUME NEW trees, ForestOK(trees), NEW anchor
    PROVE  LET I == Attached(trees, anchor)
               ranked == Ranked(trees, anchor)
           IN  \E place :
                 /\ \A i \in I : place[i] \in 1 .. Len(ranked) /\ ranked[place[i]] = trees[i]
                 /\ \A i, j \in I : place[i] = place[j] => i = j
                 /\ \A k \in 1 .. Len(ranked) : \E i \in I : place[i] = k
                 /\ \A i, j \in I :
                      place[i] < place[j] => Depth(trees[i]) <= Depth(trees[j])
<1> DEFINE I == Attached(trees, anchor)
           D(i) == Depth(trees[i])
           R == {p \in I \X I : \/ Depth(trees[p[1]]) < Depth(trees[p[2]])
                                \/ Depth(trees[p[1]]) = Depth(trees[p[2]]) /\ p[1] < p[2]}
<1>1. /\ I \in SUBSET DOMAIN trees /\ I \subseteq Nat /\ IsFiniteSet(I)
      /\ \A i \in I : D(i) \in Nat
  BY ForestIndices, DepthIsNat, FS_Subset DEF Attached, ForestOK
<1>2. \A i, j \in I : <<i, j>> \in R <=> (D(i) < D(j) \/ (D(i) = D(j) /\ i < j))
  OBVIOUS
<1>3. Ranked(trees, anchor) = Arranged(trees, I, R)
  BY DEF Ranked, SortByDepth
<1>4. Len(Ranked(trees, anchor)) = Cardinality(I)
  BY RankedFacts
<1> HIDE DEF I, R, D
<1>5. StrictOrder(I, R)
  <2> DEFINE Lt(i, j) == D(i) < D(j) \/ (D(i) = D(j) /\ i < j)
  <2>1. ASSUME NEW i \in I, NEW j \in I, NEW k \in I, Lt(i, j), Lt(j, k)
        PROVE  Lt(i, k)
    <3>1. i \in Nat /\ j \in Nat /\ k \in Nat /\ D(i) \in Nat /\ D(j) \in Nat /\ D(k) \in Nat
      BY <1>1
    <3> QED  BY <2>1, <3>1
  <2>2. ASSUME NEW i \in I, NEW j \in I PROVE i = j \/ Lt(i, j) \/ Lt(j, i)
    <3>1. i \in Nat /\ j \in Nat /\ D(i) \in Nat /\ D(j) \in Nat
      BY <1>1
    <3> QED  BY <3>1
  <2>3. ASSUME NEW i \in I PROVE ~ Lt(i, i)
    <3>1. i \in Nat /\ D(i) \in Nat
      BY <1>1
    <3> QED  BY <3>1
  <2>4. \A i, j \in I : <<i, j>> \in R <=> Lt(i, j)
    BY <1>2
  <2> HIDE DEF Lt
  <2> QED  BY <2>1, <2>2, <2>3, <2>4 DEF StrictOrder
<1>6. PICK place :
        /\ IsPlacing(place, I, R)
        /\ \A i \in I : Arranged(trees, I, R)[place[i]] = trees[i]
  BY <1>1, <1>5, ArrangedPlaces
<1>7. ASSUME NEW i \in I, NEW j \in I, <<i, j>> \in R PROVE D(i) <= D(j)
  BY <1>1, <1>2, <1>7
<1>8. /\ \A i \in I : place[i] \in 1 .. Cardinality(I) /\ Arranged(trees, I, R)[place[i]] = trees[i]
      /\ \A i, j \in I : place[i] = place[j] => i = j
      /\ \A k \in 1 .. Cardinality(I) : \E i \in I : place[i] = k
      /\ \A i, j \in I : place[i] < place[j] => D(i) <= D(j)
  BY <1>6, <1>7 DEF IsPlacing
<1> QED  BY <1>3, <1>4, <1>8 DEF I, D

-----------------------------------------------------------------------------
(* Each block at one place only.                                           *)

OnceIn(tree) == \A p, q \in DOMAIN tree : tree[p] = tree[q] => p = q

LEMMA OnceEachTree ==
    ASSUME NEW trees, Once(trees), NEW i \in DOMAIN trees
    PROVE  OnceIn(trees[i])
BY DEF Once, OnceIn

\* A block is in one tree of a forest only.
LEMMA OnceOneTree ==
    ASSUME NEW trees, Once(trees), NEW i \in DOMAIN trees, NEW j \in DOMAIN trees,
           NEW b, b \in Range(trees[i]), b \in Range(trees[j])
    PROVE  i = j
BY DEF Once, Range

\* A tree on a block of another.
LEMMA OncePushChild ==
    ASSUME NEW tree, TreeOK(tree), OnceIn(tree), NEW path \in DOMAIN tree,
           NEW sub, TreeOK(sub), OnceIn(sub), Range(sub) \cap Range(tree) = {}
    PROVE  OnceIn(PushChild(tree, path, sub))
<1> DEFINE r == PushChild(tree, path, sub)
<1>1. Shape(DOMAIN tree) /\ Shape(DOMAIN sub) /\ DOMAIN sub \subseteq Path
  BY DEF TreeOK, Shape
<1>2. PICK n \in Nat :
        LET new == Child(path, n + 1)
            pushed == PushChild(tree, path, sub)
        IN  /\ \A k \in Nat \ {0} : Child(path, k) \in DOMAIN tree <=> k <= n
            /\ new \in Path
            /\ DOMAIN pushed = DOMAIN tree \cup {Join(new, p) : p \in DOMAIN sub}
            /\ \A p \in DOMAIN tree : pushed[p] = tree[p]
            /\ \A p \in DOMAIN sub : pushed[Join(new, p)] = sub[p]
            /\ \A p \in Path : Join(new, p) \notin DOMAIN tree
  BY <1>1, PushChildFacts
<1> DEFINE new == Child(path, n + 1)
<1> HIDE DEF r, new
<1>3. /\ DOMAIN r = DOMAIN tree \cup {Join(new, p) : p \in DOMAIN sub}
      /\ \A p \in DOMAIN tree : r[p] = tree[p]
      /\ \A p \in DOMAIN sub : r[Join(new, p)] = sub[p]
  BY <1>2 DEF new, r
<1>4. \A p \in DOMAIN tree, q \in DOMAIN sub : tree[p] # sub[q]
  BY DEF Range
<1>5. ASSUME NEW p \in DOMAIN r, NEW q \in DOMAIN r, r[p] = r[q] PROVE p = q
  <2>1. CASE p \in DOMAIN tree /\ q \in DOMAIN tree
    BY <1>3, <1>5, <2>1 DEF OnceIn
  <2>2. ASSUME NEW p1 \in DOMAIN sub, p = Join(new, p1), q \in DOMAIN tree PROVE FALSE
    BY <1>3, <1>4, <1>5, <2>2
  <2>3. ASSUME NEW q1 \in DOMAIN sub, q = Join(new, q1), p \in DOMAIN tree PROVE FALSE
    BY <1>3, <1>4, <1>5, <2>3
  <2>4. ASSUME NEW p1 \in DOMAIN sub, NEW q1 \in DOMAIN sub,
               p = Join(new, p1), q = Join(new, q1)
        PROVE  p = q
    <3>1. sub[p1] = sub[q1]
      BY <1>3, <1>5, <2>4
    <3>2. p1 = q1
      BY <3>1 DEF OnceIn
    <3> QED  BY <2>4, <3>2
  <2> QED  BY <1>3, <2>1, <2>2, <2>3, <2>4
<1>6. OnceIn(r)
  BY <1>5 DEF OnceIn
<1> QED  BY <1>6 DEF r

\* The subtrees of a tree.
LEMMA OnceSubtrees ==
    ASSUME NEW tree, TreeOK(tree), OnceIn(tree)
    PROVE  Once(Subtrees(tree))
<1> DEFINE f == Subtrees(tree)
           D == DOMAIN tree
<1>0. Shape(D) /\ << >> \in D /\ D \subseteq Path
  BY DEF TreeOK, Shape
<1>1. PICK n \in Nat : \A k \in Nat \ {0} : Child(<< >>, k) \in D <=> k <= n
  BY <1>0 DEF Shape
<1>2. Cardinality(Children(tree, << >>)) = n
  BY <1>0, <1>1, ChildrenCounted
<1>3. \A k \in Nat \ {0} : <<k>> \in D <=> k <= n
  BY <1>0, <1>1, ChildFacts
<1>4. DOMAIN f = 1 .. n /\ \A k \in 1 .. n : f[k] = Subtree(tree, k)
  BY <1>2 DEF Subtrees
<1>5. ASSUME NEW k \in 1 .. n
      PROVE  k \in Nat \ {0} /\ <<k>> \in D
  <2>1. k \in Nat \ {0} /\ k <= n
    OBVIOUS
  <2> QED  BY <1>3, <2>1
<1> HIDE DEF f
<1>6. ASSUME NEW k \in 1 .. n, NEW p \in DOMAIN f[k]
      PROVE  /\ p \in Path /\ k \in Nat \ {0} /\ Join(<<k>>, p) \in D
             /\ f[k][p] = tree[Join(<<k>>, p)]
  <2>1. k \in Nat \ {0} /\ <<k>> \in DOMAIN tree /\ f[k] = Subtree(tree, k)
    BY <1>4, <1>5
  <2>2. /\ DOMAIN Subtree(tree, k) = {q \in Path : Join(<<k>>, q) \in DOMAIN tree}
        /\ \A q \in DOMAIN Subtree(tree, k) : Subtree(tree, k)[q] = tree[Join(<<k>>, q)]
    BY <2>1, SubtreeOK
  <2> QED  BY <1>6, <2>1, <2>2
<1>7. ASSUME NEW k \in 1 .. n, NEW l \in 1 .. n,
             NEW p \in DOMAIN f[k], NEW q \in DOMAIN f[l], f[k][p] = f[l][q]
      PROVE  k = l /\ p = q
  <2> DEFINE kp == <<k>>
             lq == <<l>>
  <2>1. Join(kp, p) = Join(lq, q)
    BY <1>6, <1>7 DEF OnceIn
  <2>2. kp \in Path /\ lq \in Path /\ p \in Path /\ q \in Path /\ Len(kp) = 1 /\ Len(lq) = 1
    BY <1>6, ChildFacts
  <2>3. k = l
    <3>1. Join(kp, p)[1] = kp[1] /\ Join(lq, q)[1] = lq[1]
      BY <2>2 DEF Join, Path
    <3>2. kp[1] = k /\ lq[1] = l
      OBVIOUS
    <3> QED  BY <2>1, <3>1, <3>2
  <2>4. kp = lq
    BY <2>3
  <2> HIDE DEF kp, lq
  <2>5. p = q
    BY <2>1, <2>2, <2>4, JoinCancel
  <2> QED  BY <2>3, <2>5
<1> QED  BY <1>4, <1>7 DEF Once, f

\* Trees arranged anew.
LEMMA OnceRanked ==
    ASSUME NEW trees, ForestOK(trees), NEW anchor, Once(trees)
    PROVE  Once(Ranked(trees, anchor))
<1> DEFINE I == Attached(trees, anchor)
           r == Ranked(trees, anchor)
<1>1. PICK place :
        /\ \A i \in I : place[i] \in 1 .. Len(r) /\ r[place[i]] = trees[i]
        /\ \A k \in 1 .. Len(r) : \E i \in I : place[i] = k
  BY RankedPlaces
<1>2. DOMAIN r = 1 .. Len(r) /\ I \subseteq DOMAIN trees
  BY RankedFacts, ForestIndices DEF Attached
<1> HIDE DEF I, r
<1>3. ASSUME NEW k \in DOMAIN r, NEW l \in DOMAIN r,
             NEW p \in DOMAIN r[k], NEW q \in DOMAIN r[l], r[k][p] = r[l][q]
      PROVE  k = l /\ p = q
  <2>1. PICK i \in I, j \in I : place[i] = k /\ place[j] = l
    BY <1>1, <1>2
  <2>2. r[k] = trees[i] /\ r[l] = trees[j]
    BY <1>1, <2>1
  <2>3. i = j /\ p = q
    BY <1>2, <1>3, <2>2 DEF Once
  <2> QED  BY <2>1, <2>3
<1> QED  BY <1>3 DEF Once, r

\* The other way round.
LEMMA OnceFromTrees ==
    ASSUME NEW trees,
           \A i \in DOMAIN trees : OnceIn(trees[i]),
           \A i, j \in DOMAIN trees : i # j => Range(trees[i]) \cap Range(trees[j]) = {}
    PROVE  Once(trees)
<1> SUFFICES ASSUME NEW i \in DOMAIN trees, NEW j \in DOMAIN trees,
                    NEW p \in DOMAIN trees[i], NEW q \in DOMAIN trees[j],
                    trees[i][p] = trees[j][q]
             PROVE  i = j /\ p = q
  BY DEF Once
<1>1. i = j
  BY DEF Range
<1> QED  BY <1>1 DEF OnceIn

\* A tree more at the end of a forest, or in place of one of its trees.
LEMMA OnceAppend ==
    ASSUME NEW S, NEW trees \in Seq(S), Once(trees), NEW tree, OnceIn(tree),
           \A i \in DOMAIN trees : Range(trees[i]) \cap Range(tree) = {}
    PROVE  Once(Append(trees, tree))
<1> DEFINE T == S \cup {tree}
           new == Append(trees, tree)
           n == Len(trees)
<1>1. trees \in Seq(T) /\ tree \in T
  OBVIOUS
<1>2. n \in Nat /\ DOMAIN trees = 1 .. n
  BY LenProperties
<1> HIDE DEF T
<1>3. /\ DOMAIN new = 1 .. n + 1 /\ new[n + 1] = tree
      /\ \A i \in 1 .. n : new[i] = trees[i]
  BY <1>1, <1>2, AppendProperties
<1> HIDE DEF new, n
<1>4. \A i \in DOMAIN new :
        (i \in DOMAIN trees /\ new[i] = trees[i]) \/ (i = n + 1 /\ new[i] = tree)
  BY <1>2, <1>3
<1>5. ASSUME NEW i \in DOMAIN new PROVE OnceIn(new[i])
  BY <1>4, OnceEachTree
<1>6. ASSUME NEW i \in DOMAIN new, NEW j \in DOMAIN new, i # j
      PROVE  Range(new[i]) \cap Range(new[j]) = {}
  <2>1. CASE i \in DOMAIN trees /\ j \in DOMAIN trees
    BY <1>2, <1>3, <1>6, <2>1, OnceOneTree
  <2> QED  BY <1>2, <1>4, <1>6, <2>1
<1> QED  BY <1>5, <1>6, OnceFromTrees DEF new

LEMMA OnceReplace ==
    ASSUME NEW trees, Once(trees), NEW m \in DOMAIN trees, NEW tree, OnceIn(tree),
           \A i \in DOMAIN trees \ {m} : Range(trees[i]) \cap Range(tree) = {}
    PROVE  Once([trees EXCEPT ![m] = tree])
<1> DEFINE new == [trees EXCEPT ![m] = tree]
<1>1. DOMAIN new = DOMAIN trees /\ new[m] = tree /\ \A i \in DOMAIN trees \ {m} : new[i] = trees[i]
  OBVIOUS
<1> HIDE DEF new
<1>2. ASSUME NEW i \in DOMAIN new PROVE OnceIn(new[i])
  BY <1>1, OnceEachTree
<1>3. ASSUME NEW i \in DOMAIN new, NEW j \in DOMAIN new, i # j
      PROVE  Range(new[i]) \cap Range(new[j]) = {}
  <2>1. CASE i # m /\ j # m
    BY <1>1, <1>3, <2>1, OnceOneTree
  <2> QED  BY <1>1, <1>3, <2>1
<1> QED  BY <1>2, <1>3, OnceFromTrees DEF new

\* push of a new block: the tree on top of it, if there is one, is hung under
\* it, wherever it goes.
LEMMA PushOnce ==
    ASSUME NEW trees, ForestOK(trees), Once(trees), NEW block, block \notin GetBlocks(trees)
    PROVE  Once(Push(trees, block))
<1> DEFINE above == {i \in DOMAIN trees : Prev[Root(trees[i])] = block}
           a == Min(above)
           rest == IF above = {} THEN trees ELSE RemoveAt(trees, a)
           hosts == {i \in DOMAIN rest : CanExtend(rest[i], block)}
           m == Min(hosts)
           Crowned(tree) ==
             IF above = {} THEN tree ELSE PushChild(tree, FindMut(tree, block), trees[a])
           Apart(tree) == above # {} => Range(trees[a]) \cap Range(tree) = {}
           Grows(t, tree) ==
             Range(t) \subseteq Range(tree) \cup {block} \cup (IF above = {} THEN {} ELSE Range(trees[a]))
<1>1. Push(trees, block) = IF hosts = {} THEN Append(rest, Crowned(Leaf(block)))
                           ELSE [rest EXCEPT ![m] = Crowned(Extend(@, block))]
  BY DEF Push
<1>2. PICK S : trees \in Seq(S)
  BY DEF ForestOK
<1>3. /\ DOMAIN trees = 1 .. Len(trees) /\ Len(trees) \in Nat
      /\ \A i \in DOMAIN trees : TreeOK(trees[i]) /\ OnceIn(trees[i]) /\ block \notin Range(trees[i])
  BY ForestIndices, OnceEachTree DEF ForestOK, GetBlocks
<1>4. above # {} => a \in DOMAIN trees /\ Prev[Root(trees[a])] = block
  <2>1. above \in SUBSET Nat
    BY <1>3
  <2>2. above # {} => a \in above
    <3> HIDE DEF above
    <3> QED  BY <2>1, MinExists
  <2> QED  BY <2>2
<1> HIDE DEF a, above
<1>5. \E place : /\ rest \in Seq(S)
                 /\ \A i \in DOMAIN rest :
                      /\ place[i] \in DOMAIN trees /\ rest[i] = trees[place[i]]
                      /\ above # {} => place[i] # a
                 /\ \A i, j \in DOMAIN rest : place[i] = place[j] => i = j
  <2>1. CASE above = {}
    <3> DEFINE place == [i \in DOMAIN trees |-> i]
    <3>1. /\ rest \in Seq(S)
          /\ \A i \in DOMAIN rest :
               /\ place[i] \in DOMAIN trees /\ rest[i] = trees[place[i]]
               /\ above # {} => place[i] # a
          /\ \A i, j \in DOMAIN rest : place[i] = place[j] => i = j
      BY <1>2, <2>1
    <3> QED  BY <3>1
  <2>2. CASE above # {}
    <3> DEFINE n == Len(trees)
               place == [i \in 1 .. n - 1 |-> IF i < a THEN i ELSE i + 1]
    <3>1. a \in 1 .. n /\ n \in Nat
      BY <1>3, <1>4, <2>2
    <3>2. /\ rest \in Seq(S) /\ Len(rest) = n - 1
          /\ \A i \in 1 .. n - 1 : rest[i] = trees[IF i < a THEN i ELSE i + 1]
      BY <1>2, <2>2, <3>1, RemoveAtFacts
    <3>3. DOMAIN rest = 1 .. n - 1
      BY <3>2, LenProperties
    <3>4. \A i \in 1 .. n - 1 : place[i] \in 1 .. n /\ place[i] # a
      BY <3>1
    <3>5. \A i, j \in 1 .. n - 1 : place[i] = place[j] => i = j
      BY <3>1
    <3>6. \A i \in 1 .. n - 1 : place[i] = IF i < a THEN i ELSE i + 1
      OBVIOUS
    <3> HIDE DEF place, rest, n
    <3>7. /\ rest \in Seq(S)
          /\ \A i \in DOMAIN rest :
               /\ place[i] \in DOMAIN trees /\ rest[i] = trees[place[i]]
               /\ above # {} => place[i] # a
          /\ \A i, j \in DOMAIN rest : place[i] = place[j] => i = j
      BY <1>3, <3>2, <3>3, <3>4, <3>5, <3>6 DEF n
    <3> QED  BY <3>7
  <2> QED  BY <2>1, <2>2
<1> HIDE DEF rest
<1>6. /\ rest \in Seq(S)
      /\ \A i \in DOMAIN rest :
           TreeOK(rest[i]) /\ OnceIn(rest[i]) /\ block \notin Range(rest[i]) /\ Apart(rest[i])
      /\ Once(rest)
  <2>1. PICK place :
          /\ rest \in Seq(S)
          /\ \A i \in DOMAIN rest :
               /\ place[i] \in DOMAIN trees /\ rest[i] = trees[place[i]]
               /\ above # {} => place[i] # a
          /\ \A i, j \in DOMAIN rest : place[i] = place[j] => i = j
    BY <1>5
  <2>2. ASSUME NEW i \in DOMAIN rest, above # {}
        PROVE  Range(trees[a]) \cap Range(rest[i]) = {}
    BY <1>4, <2>1, <2>2, OnceOneTree
  <2>3. Once(rest)
    BY <2>1 DEF Once
  <2> QED  BY <1>3, <2>1, <2>2, <2>3
<1>7. ASSUME NEW tree, TreeOK(tree), OnceIn(tree), Holds(tree, block), Apart(tree)
      PROVE  OnceIn(Crowned(tree)) /\ Grows(Crowned(tree), tree)
  <2>1. CASE above = {}
    BY <1>7, <2>1
  <2>2. CASE above # {}
    <3> DEFINE path == FindMut(tree, block)
               sub == trees[a]
    <3>1. path \in DOMAIN tree /\ tree[path] = block
      BY <1>7, FindMutInTree
    <3>2. TreeOK(sub) /\ OnceIn(sub) /\ Prev[Root(sub)] = block /\ Range(sub) \cap Range(tree) = {}
      BY <1>3, <1>4, <1>7, <2>2
    <3>3. Crowned(tree) = PushChild(tree, path, sub)
      BY <2>2
    <3>4. Grows(Crowned(tree), tree) <=> Range(Crowned(tree)) \subseteq Range(tree) \cup {block} \cup Range(sub)
      BY <2>2
    <3> HIDE DEF path, sub, Crowned, Grows
    <3>5. OnceIn(Crowned(tree))
      BY <1>7, <3>1, <3>2, <3>3, OncePushChild
    <3>6. Range(Crowned(tree)) = Range(tree) \cup Range(sub)
      BY <1>7, <3>1, <3>2, <3>3, PushChildOK
    <3> QED  BY <3>4, <3>5, <3>6
  <2> QED  BY <2>1, <2>2
<1> HIDE DEF Crowned
<1> DEFINE leaf == Leaf(block)
<1>8. TreeOK(leaf) /\ OnceIn(leaf) /\ Range(leaf) = {block} /\ Root(leaf) = block
  BY LeafOK DEF OnceIn, Leaf
<1>9. Holds(leaf, block) /\ Apart(leaf)
  BY <1>3, <1>4, <1>8, HoldsIsInRange
<1> HIDE DEF leaf
<1>10. CASE hosts = {}
  <2> DEFINE t == Crowned(leaf)
  <2>1. OnceIn(t) /\ Grows(t, leaf)
    BY <1>7, <1>8, <1>9
  <2>2. Push(trees, block) = Append(rest, t)
    BY <1>1, <1>10 DEF leaf
  <2> HIDE DEF t
  <2>3. \A i \in DOMAIN rest : Range(rest[i]) \cap Range(t) = {}
    BY <1>6, <1>8, <2>1
  <2>4. Once(Append(rest, t))
    BY <1>6, <2>1, <2>3, OnceAppend
  <2> QED  BY <2>2, <2>4
<1>11. CASE hosts # {}
  <2>1. m \in DOMAIN rest /\ CanExtend(rest[m], block)
    <3>1. hosts \in SUBSET Nat
      BY <1>6, LenProperties
    <3>2. m \in hosts
      <4> HIDE DEF hosts
      <4> QED  BY <1>11, <3>1, MinExists
    <3> QED  BY <3>2
  <2> HIDE DEF m, hosts
  <2> DEFINE old == rest[m]
             path == FindMut(old, Prev[block])
             e == Extend(old, block)
             t == Crowned(e)
  <2>2. TreeOK(old) /\ OnceIn(old) /\ block \notin Range(old) /\ Apart(old)
    BY <1>6, <2>1
  <2>3. TreeOK(e) /\ Range(e) = Range(old) \cup {block} /\ Holds(e, block)
    BY <2>1, <2>2, ExtendOK
  <2>4. OnceIn(e)
    <3>1. e = PushChild(old, path, leaf) /\ Holds(old, Prev[block])
      BY <2>1, <2>2, HoldsIsInRange DEF Extend, CanExtend, leaf
    <3>2. path \in DOMAIN old
      BY <2>2, <3>1, FindMutInTree
    <3>3. Range(leaf) \cap Range(old) = {}
      BY <1>8, <2>2
    <3> HIDE DEF e, path, old
    <3> QED  BY <1>8, <2>2, <3>1, <3>2, <3>3, OncePushChild
  <2>5. Apart(e)
    BY <1>3, <1>4, <2>2, <2>3
  <2>6. OnceIn(t) /\ Grows(t, e)
    <3> HIDE DEF e, Apart, Grows
    <3> QED  BY <1>7, <2>3, <2>4, <2>5
  <2>7. Push(trees, block) = [rest EXCEPT ![m] = t]
    BY <1>1, <1>11
  <2>8. ASSUME NEW i \in DOMAIN rest \ {m} PROVE Range(rest[i]) \cap Range(t) = {}
    <3>1. Range(rest[i]) \cap Range(old) = {}
      BY <1>6, <2>1, OnceOneTree
    <3>2. block \notin Range(rest[i]) /\ Apart(rest[i])
      BY <1>6
    <3> HIDE DEF t, e, old
    <3> QED  BY <2>3, <2>6, <3>1, <3>2
  <2> HIDE DEF t
  <2>9. Once([rest EXCEPT ![m] = t])
    BY <1>6, <2>1, <2>6, <2>8, OnceReplace
  <2> QED  BY <2>7, <2>9
<1> QED  BY <1>10, <1>11

-----------------------------------------------------------------------------
(* The forest is the tree of the blocks D on the anchor.                    *)

\* The blocks of D that build on the anchor.
Beyond(anchor, D) == {b \in D : anchor \in Past[b] /\ b # anchor}

Spans(trees, anchor, D) ==
    /\ \A i \in DOMAIN trees : IsAttached(trees[i], anchor)
    /\ Once(trees)
    /\ GetBlocks(trees) = Beyond(anchor, D)

\* The successor of a block is beyond it and all before it.
LEMMA SuccessorBeyond ==
    ASSUME NEW b \in Block, Prev[b] \in Block
    PROVE  /\ Past[b] = {b} \cup Past[Prev[b]]
           /\ b \notin Past[Prev[b]]
           /\ Prev[b] \in Past[b]
           /\ \A x \in Past[Prev[b]] : x \in Past[b] /\ x # b
<1>1. Past[b] = {b} \cup Past[Prev[b]]
  BY PastDef
<1>2. b \notin Past[Prev[b]]
  BY PastGrows
<1>3. Prev[b] \in Past[Prev[b]]
  BY PastFacts
<1> QED  BY <1>1, <1>2, <1>3

\* Blocks on the same parent are not in each other's past.
LEMMA SiblingsApart ==
    ASSUME NEW x \in Block, NEW y \in Block, Prev[x] \in Block, Prev[x] = Prev[y],
           x \in Past[y]
    PROVE  x = y
BY SuccessorBeyond

\* A tree of such a forest is what D has on its root.
LEMMA TreeOfRoot ==
    ASSUME NEW trees, ForestOK(trees), NEW anchor \in Block, NEW D \in SUBSET Block,
           Spans(trees, anchor, D), NEW i \in DOMAIN trees
    PROVE  LET root == Root(trees[i])
           IN  /\ root \in D /\ Prev[root] = anchor
               /\ Range(trees[i]) = {x \in D : root \in Past[x]}
<1> DEFINE root == Root(trees[i])
<1>1. /\ TreeOK(trees[i]) /\ Range(trees[i]) \subseteq Beyond(anchor, D)
      /\ Prev[root] = anchor
  BY DEF ForestOK, Spans, GetBlocks, IsAttached
<1>2. Range(trees[i]) \subseteq Block /\ Range(trees[i]) \subseteq D
  BY <1>1 DEF Beyond
<1>3. root \in Range(trees[i])
  BY <1>1 DEF TreeOK, Shape, Root, Range
<1>4. root \in D /\ root \in Block
  BY <1>2, <1>3
<1>5. \A x \in Range(trees[i]) : root \in Past[x]
  BY <1>1, <1>2, RootIsFirst
<1>6. ASSUME NEW x \in D, root \in Past[x] PROVE x \in Range(trees[i])
  <2>0. x \in Block
    OBVIOUS
  <2>1. anchor \in Past[root]
    BY <1>1, <1>4, SuccessorBeyond
  <2>2. anchor \in Past[x]
    BY <1>6, <2>0, <2>1, PastFacts
  <2>3. x # anchor
    <3>1. root \notin Past[anchor]
      BY <1>1, <1>4, SuccessorBeyond
    <3> QED  BY <1>6, <3>1
  <2>4. PICK j \in DOMAIN trees : x \in Range(trees[j])
    BY <2>2, <2>3 DEF Spans, Beyond, GetBlocks
  <2> DEFINE other == Root(trees[j])
  <2>5. /\ TreeOK(trees[j]) /\ Range(trees[j]) \subseteq Block
        /\ Prev[other] = anchor
    BY DEF ForestOK, Spans, GetBlocks, IsAttached, Beyond
  <2>6. other \in Range(trees[j]) /\ other \in Block
    BY <2>5 DEF TreeOK, Shape, Root, Range
  <2>7. other \in Past[x]
    BY <2>4, <2>5, RootIsFirst
  <2> HIDE DEF other, root
  <2>8. other \in Past[root] \/ root \in Past[other]
    BY <1>6, <2>0, <2>7, PastIsChain
  <2>9. other = root
    BY <1>1, <1>4, <2>5, <2>6, <2>8, SiblingsApart
  <2>10. i = j
    <3>1. Once(trees)
      BY DEF Spans
    <3> QED  BY <1>3, <2>6, <2>9, <3>1, OnceOneTree
  <2> QED  BY <2>4, <2>10
<1> QED  BY <1>1, <1>2, <1>4, <1>5, <1>6

\* push of the successor of a known block.
LEMMA PushSpans ==
    ASSUME NEW trees, ForestOK(trees), NEW anchor \in Block, NEW D \in SUBSET Block,
           Spans(trees, anchor, D),
           NEW block \in Block, Prev[block] \in GetBlocks(trees) \cup {anchor}
    PROVE  Spans(Push(trees, block), anchor, D \cup {block})
<1> DEFINE new == Push(trees, block)
           parent == Prev[block]
           hosts == {i \in DOMAIN trees : CanExtend(trees[i], block)}
           m == Min(hosts)
<1>1. /\ \A i \in DOMAIN trees :
           /\ TreeOK(trees[i]) /\ IsAttached(trees[i], anchor) /\ Prev[Root(trees[i])] = anchor
           /\ Range(trees[i]) \subseteq GetBlocks(trees)
      /\ Once(trees)
      /\ GetBlocks(trees) = Beyond(anchor, D)
      /\ anchor \notin GetBlocks(trees)
  BY DEF ForestOK, Spans, IsAttached, GetBlocks, Beyond
<1>2. parent \in Block /\ anchor \in Past[parent]
  BY <1>1, PastFacts DEF Beyond
<1>3. anchor \in Past[block] /\ block # anchor
  BY <1>2, SuccessorBeyond
<1>4. Beyond(anchor, D \cup {block}) = Beyond(anchor, D) \cup {block}
  BY <1>3 DEF Beyond
<1>5. /\ GetBlocks(new) = GetBlocks(trees) \cup {block}
      /\ \A i \in DOMAIN new :
           \/ \E j \in DOMAIN trees : Root(new[i]) = Root(trees[j])
           \/ /\ Root(new[i]) = block
              /\ \A j \in DOMAIN trees :
                   Prev[Root(trees[j])] # block => ~ CanExtend(trees[j], block)
  BY PushOK
<1>6. ASSUME NEW i \in DOMAIN new PROVE Prev[Root(new[i])] = anchor
  <2>1. ASSUME Root(new[i]) = block,
               \A j \in DOMAIN trees : ~ CanExtend(trees[j], block)
        PROVE  parent = anchor
    <3>1. ASSUME NEW j \in DOMAIN trees PROVE parent \notin Range(trees[j])
      BY <2>1, HoldsIsInRange DEF CanExtend
    <3>2. parent \notin GetBlocks(trees)
      BY <3>1 DEF GetBlocks
    <3> QED  BY <3>2
  <2> QED  BY <1>1, <1>3, <1>5, <2>1
<1>7. new = IF hosts = {} THEN Append(trees, Leaf(block))
            ELSE [trees EXCEPT ![m] = Extend(@, block)]
  <2>1. {i \in DOMAIN trees : Prev[Root(trees[i])] = block} = {}
    BY <1>1, <1>3
  <2> QED  BY <2>1 DEF Push
<1> HIDE DEF new
<1>8. CASE block \notin GetBlocks(trees)
  <2>1. Once(new)
    BY <1>1, <1>8, PushOnce DEF new
  <2> QED  BY <1>1, <1>4, <1>5, <1>6, <2>1 DEF Spans, IsAttached, new
<1>9. CASE block \in GetBlocks(trees)
  <2>1. PICK j \in DOMAIN trees : block \in Range(trees[j])
    BY <1>9 DEF GetBlocks
  <2>2. ASSUME NEW i \in hosts PROVE i = j
    <3>1. CASE block \in Range(trees[i])
      BY <1>1, <2>1, <3>1, OnceOneTree
    <3>2. CASE parent \in Range(trees[i])
      <4>1. parent # anchor
        BY <1>1, <3>2
      <4>2. block # Root(trees[j])
        BY <1>1, <4>1
      <4>3. parent \in Range(trees[j])
        BY <1>1, <2>1, <4>2, InnerBlock
      <4> QED  BY <1>1, <3>2, <4>3, OnceOneTree
    <3> QED  BY <3>1, <3>2, HoldsIsInRange DEF CanExtend
  <2>3. j \in hosts
    BY <2>1, HoldsIsInRange DEF CanExtend
  <2>4. m \in hosts
    <3>1. hosts \in SUBSET Nat /\ hosts # {}
      BY <2>3, ForestIndices
    <3> HIDE DEF hosts
    <3> QED  BY <3>1, MinExists
  <2> HIDE DEF hosts, m
  <2>5. m = j
    BY <2>2, <2>4
  <2>6. Extend(trees[j], block) = trees[j]
    BY <2>1, HoldsIsInRange DEF Extend
  <2>7. DOMAIN new = DOMAIN trees /\ \A i \in DOMAIN trees : new[i] = trees[i]
    BY <1>7, <2>3, <2>5, <2>6
  <2>8. Once(new)
    BY <1>1, <2>7 DEF Once
  <2> QED  BY <1>1, <1>4, <1>5, <1>6, <2>8 DEF Spans, IsAttached, new
<1> QED  BY <1>8, <1>9

\* The order of the trees does not matter for their blocks.
LEMMA SameTrees ==
    ASSUME NEW f, NEW h, Range(f) = Range(h)
    PROVE  GetBlocks(f) = GetBlocks(h)
<1>1. \A x : x \in GetBlocks(f) <=> \E t \in Range(f) : x \in Range(t)
  BY DEF GetBlocks, Range
<1>2. \A x : x \in GetBlocks(h) <=> \E t \in Range(h) : x \in Range(t)
  BY DEF GetBlocks, Range
<1> QED  BY <1>1, <1>2

\* pop, with and without a stable block.
LEMMA PopSpans ==
    ASSUME NEW trees, ForestOK(trees), NEW anchor \in Block, NEW D \in SUBSET Block,
           Spans(trees, anchor, D)
    PROVE  LET popped == PopTrees(trees, anchor)
           IN  /\ ~ HasStable(trees, anchor) => Spans(popped, anchor, D)
               /\ HasStable(trees, anchor) => Spans(popped, StableBlock(trees, anchor), D)
<1> DEFINE ranked == Ranked(trees, anchor)
           det == Detached(trees, anchor)
           popped == PopTrees(trees, anchor)
<1>1. /\ \A i \in DOMAIN trees : TreeOK(trees[i]) /\ IsAttached(trees[i], anchor)
      /\ Once(trees)
      /\ Attached(trees, anchor) = DOMAIN trees
  BY DEF ForestOK, Spans, Attached
<1>2. /\ ForestOK(ranked) /\ Range(ranked) = Range(trees) /\ Once(ranked)
      /\ \E S : ranked \in Seq(S)
  <2>1. ForestOK(ranked) /\ Range(ranked) = {trees[i] : i \in Attached(trees, anchor)}
    BY RankedFacts
  <2> QED  BY <1>1, <2>1, OnceRanked DEF Range, ForestOK
<1>3. det = << >>
  <2>1. ForestOK(det) /\ Range(det) = {}
    BY <1>1, DetachedFacts
  <2> HIDE DEF det
  <2>2. DOMAIN det = 1 .. Len(det) /\ Len(det) \in Nat /\ \E S : det \in Seq(S)
    BY <2>1, ForestIndices DEF ForestOK
  <2>3. Len(det) = 0
    <3>1. ASSUME Len(det) # 0 PROVE FALSE
      <4>1. 1 \in DOMAIN det
        BY <2>2, <3>1
      <4> QED  BY <2>1, <4>1 DEF Range
    <3> QED  BY <3>1
  <2> QED  BY <2>2, <2>3, EmptySeq
<1>4. CASE ~ HasStable(trees, anchor)
  <2>1. popped = ranked \o << >>
    BY <1>3, <1>4 DEF PopTrees
  <2> HIDE DEF ranked
  <2>2. popped = ranked
    BY <1>2, <2>1
  <2>3. \A i \in DOMAIN ranked : IsAttached(ranked[i], anchor)
    BY <1>1, <1>2 DEF Range
  <2>4. GetBlocks(ranked) = GetBlocks(trees)
    BY <1>2, SameTrees
  <2> HIDE DEF popped
  <2>5. Spans(popped, anchor, D)
    BY <1>2, <2>2, <2>3, <2>4 DEF Spans
  <2> QED  BY <1>4, <2>5 DEF popped
<1>5. CASE HasStable(trees, anchor)
  <2> DEFINE t == Last(ranked)
             f == Subtrees(t)
  <2>1. popped = << >> \o f /\ StableBlock(trees, anchor) = Root(t)
    BY <1>3, <1>5 DEF PopTrees, StableBlock
  <2>2. Len(ranked) >= 1
    BY <1>5 DEF HasStable
  <2> HIDE DEF ranked
  <2>3. t \in Range(ranked)
    <3>1. Len(ranked) \in DOMAIN ranked
      BY <1>2, <2>2, ForestIndices
    <3> QED  BY <3>1 DEF Last, Range
  <2>4. PICK i \in DOMAIN trees : t = trees[i]
    BY <1>2, <2>3 DEF Range
  <2> HIDE DEF t
  <2>5. TreeOK(t) /\ OnceIn(t)
    BY <1>1, <2>4, OnceEachTree
  <2>6. /\ Root(t) \in D /\ Range(t) = {x \in D : Root(t) \in Past[x]}
    BY <2>4, TreeOfRoot
  <2>7. /\ ForestOK(f) /\ Once(f)
        /\ \A k \in DOMAIN f : IsAttached(f[k], Root(t))
        /\ Range(t) = {Root(t)} \cup GetBlocks(f)
        /\ Root(t) \notin GetBlocks(f)
    <3>1. Range(t) \subseteq Block
      BY <2>6
    <3> QED  BY <2>5, <3>1, OnceSubtrees, SubtreesOK, RootNotBelow DEF IsAttached
  <2>8. GetBlocks(f) = Beyond(Root(t), D)
    BY <2>6, <2>7 DEF Beyond
  <2>9. popped = f
    <3>1. \E S : f \in Seq(S)
      BY <2>7 DEF ForestOK
    <3> HIDE DEF f
    <3> QED  BY <2>1, <3>1
  <2> HIDE DEF popped, f
  <2>10. Spans(popped, Root(t), D)
    BY <2>7, <2>8, <2>9 DEF Spans
  <2> QED  BY <1>5, <2>1, <2>10 DEF popped
<1> QED  BY <1>4, <1>5
-----------------------------------------------------------------------------
(* Blocks that come in order.                                              *)

\* Every block of D is the successor of one, or of genesis.
Grown(D) == \A b \in D : Prev[b] \in D \cup {Genesis}

LEMMA PastDelivered ==
    ASSUME NEW D \in SUBSET Block, Grown(D), NEW b \in D
    PROVE  Past[b] \subseteq D \cup {Genesis}
<1> DEFINE B == {x \in D : ~ (Past[x] \subseteq D \cup {Genesis})}
<1>1. ASSUME B # {} PROVE FALSE
  <2>1. PICK x \in B : Prev[x] \notin B
    BY <1>1, FirstBlock
  <2>2. x \in D /\ Prev[x] \in D \cup {Genesis} /\ Prev[x] \in Block
    BY GenesisAssumption DEF Grown
  <2>3. Past[x] = {x} \cup Past[Prev[x]]
    BY <2>2, SuccessorBeyond
  <2>4. Past[Genesis] = {Genesis}
    BY GenesisAssumption, PrevAssumption, PastDef
  <2>5. Past[Prev[x]] \subseteq D \cup {Genesis}
    BY <2>1, <2>2, <2>4
  <2> QED  BY <2>2, <2>3, <2>5
<1> QED  BY <1>1

LEMMA AboveIsAll ==
    ASSUME NEW D \in SUBSET Block, Grown(D), NEW b \in Block, Genesis \in Past[b]
    PROVE  Above(b, D) = {x \in D : b \in Past[x]}
BY PastDelivered DEF Above

\* The forest holds what was delivered on the anchor, and all of it stems from
\* genesis.
OrderInv ==
    /\ StoreInv
    /\ Spans(Trees, Anchor, delivered)
    /\ Genesis \in Past[Anchor]
    /\ Anchor \in delivered \cup {Genesis}
    /\ Grown(delivered)

LEMMA InitOrder == Init => OrderInv
<1> SUFFICES ASSUME Init PROVE OrderInv
  OBVIOUS
<1>1. StoreInv
  BY InitInv
<1>2. Trees = << >> /\ Anchor = Genesis /\ delivered = {}
  BY DEF Init, NewState, Trees, Anchor
<1>3. Genesis \in Past[Genesis]
  BY GenesisAssumption, PastFacts
<1>4. DOMAIN Trees = {} /\ Beyond(Anchor, delivered) = {}
  BY <1>2 DEF Beyond
<1>5. Spans(Trees, Anchor, delivered)
  BY <1>4 DEF Spans, Once, GetBlocks
<1> QED  BY <1>1, <1>2, <1>3, <1>5 DEF OrderInv, Grown

\* The forest after a push, and after a pop.
LEMMA InsertOrder ==
    ASSUME OrderInv, NEW block \in Block, Prev[block] \in Known(state),
           KeepUnstable(block) \/ Stabilise(block)
    PROVE  /\ OrderInv'
           /\ ForestOK(Pushed(state, block))
           /\ Spans(Pushed(state, block), Anchor, delivered')
<1> DEFINE pushed == Pushed(state, block)
           D == delivered \cup {block}
           popped == PopTrees(pushed, Anchor)
<1>1. /\ StateOK(state) /\ ForestOK(Trees) /\ Anchor \in Block /\ delivered \in SUBSET Block
      /\ Spans(Trees, Anchor, delivered) /\ Grown(delivered)
      /\ Genesis \in Past[Anchor] /\ Anchor \in delivered \cup {Genesis}
  BY DEF OrderInv, StoreInv, StateOK, Trees, Anchor
<1>2. /\ ~ InsertPanics(state, block) /\ state' = InsertBlock(state, block)
      /\ delivered' = D
  BY DEF KeepUnstable, Stabilise, InsertPanics, Delivers
<1>3. ForestOK(pushed) /\ GetBlocks(pushed) \subseteq Block
  BY <1>1, PoppedOK
<1>4. Prev[block] \in GetBlocks(Trees) \cup {Anchor}
  BY DEF Known, Trees, Anchor
<1>5. Spans(pushed, Anchor, D)
  BY <1>1, <1>4, PushSpans DEF Pushed, Trees
<1>6. Trees' = popped
  BY <1>1, <1>2, InsertState DEF Trees, Anchor
<1>7. Grown(D)
  <2>1. GetBlocks(Trees) \subseteq delivered
    BY <1>1 DEF Spans, Beyond
  <2> QED  BY <1>1, <1>4, <2>1 DEF Grown
<1>8. StoreInv'
  BY KeepUnstableInv, StabiliseInv DEF OrderInv
<1> HIDE DEF pushed, D, popped
<1>9. CASE ~ Stabilises(state, block)
  <2>1. Anchor' = Anchor
    BY <1>1, <1>2, <1>9, InsertState DEF Anchor
  <2>2. ~ HasStable(pushed, Anchor)
    BY <1>9 DEF Stabilises, pushed, Anchor
  <2>3. Spans(popped, Anchor, D)
    BY <1>1, <1>2, <1>3, <1>5, <2>2, PopSpans DEF D, popped
  <2>4. Spans(Trees, Anchor, delivered)'
    BY <1>2, <1>6, <2>1, <2>3
  <2> QED  BY <1>1, <1>2, <1>3, <1>5, <1>7, <1>8, <2>1, <2>4 DEF OrderInv, D, pushed
<1>10. CASE Stabilises(state, block)
  <2> DEFINE b == Popped(state, block)
  <2>1. Anchor' = b /\ Prev[b] = Anchor
    BY <1>1, <1>2, <1>10, InsertState DEF Anchor
  <2>2. b \in GetBlocks(pushed) /\ b \in Block
    BY <1>1, <1>10, PoppedOK DEF pushed
  <2>3. HasStable(pushed, Anchor) /\ b = StableBlock(pushed, Anchor)
    BY <1>10 DEF Stabilises, pushed, Anchor, Popped
  <2> HIDE DEF b
  <2>4. D \in SUBSET Block
    BY <1>1 DEF D
  <2>5. Spans(popped, b, D)
    BY <1>1, <1>3, <1>5, <2>3, <2>4, PopSpans DEF popped
  <2>6. Spans(Trees, Anchor, delivered)'
    BY <1>2, <1>6, <2>1, <2>5
  <2>7. b \in D
    BY <1>5, <2>2 DEF Spans, Beyond
  <2>8. Genesis \in Past[b]
    BY <1>1, <2>1, <2>2, SuccessorBeyond
  <2> QED  BY <1>1, <1>2, <1>3, <1>5, <1>7, <1>8, <2>1, <2>6, <2>7, <2>8
           DEF OrderInv, D, pushed
<1> QED  BY <1>9, <1>10

LEMMA SameOrder ==
    ASSUME OrderInv, UNCHANGED <<state, stable, delivered, repeated>>, trapped' \in BOOLEAN
    PROVE  OrderInv'
BY SameInv DEF OrderInv, Trees, Anchor

LEMMA NextOrder == OrderInv /\ [NextInOrder]_vars => OrderInv'
<1> SUFFICES ASSUME OrderInv, [NextInOrder]_vars PROVE OrderInv'
  OBVIOUS
<1>1. ASSUME NEW block \in Block \ {Genesis}, InsertSuccessor(block) PROVE OrderInv'
  <2>1. CASE KeepUnstable(block) \/ Stabilise(block)
    BY <1>1, <2>1, InsertOrder DEF InsertSuccessor
  <2>2. CASE Trap(block)
    BY <2>2, SameOrder DEF Trap
  <2> QED  BY <1>1, <2>1, <2>2 DEF InsertSuccessor, Insert
<1>2. CASE UNCHANGED vars
  BY <1>2, SameOrder DEF vars, OrderInv, StoreInv
<1>3. CASE SaveAndLoad
  BY <1>2, <1>3, SaveAndLoadSame DEF OrderInv
<1> QED  BY <1>1, <1>2, <1>3 DEF NextInOrder

LEMMA SpecOrder == SpecInOrder => []OrderInv
BY InitOrder, NextOrder, PTL DEF SpecInOrder

\* When every block comes after the one it builds on, push and pop keep the
\* forest the tree the headers of the delivered blocks span on the last stable
\* block, through all forks, repetitions and stable blocks: no block is lost,
\* none is kept twice, and none that competed with a stable block stays.
THEOREM ForestAlwaysComplete == SpecInOrder => []ForestComplete
<1>1. OrderInv => ForestComplete
  <2> SUFFICES ASSUME OrderInv PROVE ForestComplete
    OBVIOUS
  <2>1. delivered \in SUBSET Block /\ Anchor \in Block
    BY DEF OrderInv, StoreInv, StateOK, Anchor
  <2>2. Above(Anchor, delivered) \ {Anchor} = Beyond(Anchor, delivered)
    BY <2>1, AboveIsAll DEF OrderInv, Beyond
  <2> QED  BY <2>2 DEF OrderInv, Spans, ForestComplete
<1> QED  BY <1>1, SpecOrder, PTL

-----------------------------------------------------------------------------
(* The rule for stability.                                                 *)

\* The path of a block in a tree is as long as its distance from the root.
LEMMA PathLength ==
    ASSUME NEW tree, TreeOK(tree), Range(tree) \subseteq Block, NEW p \in DOMAIN tree
    PROVE  Distance(Root(tree), tree[p]) = Len(p)
<1> DEFINE size(b) == Cardinality(Past[b])
           T == {n \in Nat : \A q \in DOMAIN tree :
                               Len(q) = n => size(tree[q]) = size(Root(tree)) + n}
<1>1. Shape(DOMAIN tree) /\ DOMAIN tree \subseteq Path /\ Linked(tree)
  BY DEF TreeOK, Shape
<1>2. \A q \in DOMAIN tree : tree[q] \in Block /\ size(tree[q]) \in Nat
  BY PastGrows DEF Range
<1>3. Root(tree) \in Block /\ size(Root(tree)) \in Nat
  BY <1>1, <1>2 DEF Root, Shape
<1>4. 0 \in T
  <2>1. ASSUME NEW q \in DOMAIN tree, Len(q) = 0 PROVE tree[q] = Root(tree)
    <3>1. q = << >>
      BY <1>1, <2>1, EmptySeq DEF Path
    <3> QED  BY <3>1 DEF Root
  <2> QED  BY <1>3, <2>1
<1>5. ASSUME NEW n \in Nat, n \in T PROVE n + 1 \in T
  <2> SUFFICES ASSUME NEW q \in DOMAIN tree, Len(q) = n + 1
               PROVE  size(tree[q]) = size(Root(tree)) + (n + 1)
    OBVIOUS
  <2>1. q \in Path /\ q # << >>
    BY <1>1
  <2>2. PICK r \in Path, k \in Nat \ {0} : q = Child(r, k)
    BY <2>1, IsChild
  <2>3. r \in DOMAIN tree
    BY <1>1, <2>2, ParentInShape
  <2>4. Len(q) = Len(r) + 1 /\ Len(r) \in Nat
    BY <2>2, PathFacts DEF Child, Path
  <2>5. Prev[tree[q]] = tree[r]
    BY <1>1, <2>2 DEF Linked
  <2>6. size(tree[q]) = size(tree[r]) + 1
    BY <1>2, <2>3, <2>5, PastGrows
  <2>7. size(tree[r]) = size(Root(tree)) + n
    BY <1>5, <2>3, <2>4
  <2> HIDE DEF size
  <2> QED  BY <1>3, <2>6, <2>7
<1> HIDE DEF T
<1>6. Nat \subseteq T
  BY <1>4, <1>5, NatSetInduction
<1>7. Len(p) \in Nat
  BY <1>1, PathFacts
<1>8. size(tree[p]) = size(Root(tree)) + Len(p)
  BY <1>6, <1>7 DEF T
<1> HIDE DEF size
<1>9. size(tree[p]) - size(Root(tree)) = Len(p)
  BY <1>3, <1>7, <1>8
<1> QED  BY <1>9 DEF Distance, size

\* The depth of a tree is the depth of its root among the blocks delivered.
LEMMA DepthOfRoot ==
    ASSUME NEW trees, ForestOK(trees), NEW anchor \in Block, Genesis \in Past[anchor],
           NEW D \in SUBSET Block, Grown(D), Spans(trees, anchor, D),
           NEW i \in DOMAIN trees
    PROVE  DepthIn(Root(trees[i]), D) = Depth(trees[i])
<1> DEFINE tree == trees[i]
           root == Root(tree)
           S == {Distance(root, b) : b \in Above(root, D) \cup {root}}
<1>1. /\ TreeOK(tree) /\ root \in D /\ Prev[root] = anchor
      /\ Range(tree) = {x \in D : root \in Past[x]}
  BY TreeOfRoot DEF ForestOK
<1>2. Genesis \in Past[root] /\ root \in Past[root]
  BY <1>1, SuccessorBeyond, PastFacts
<1>3. Above(root, D) = Range(tree)
  BY <1>1, <1>2, AboveIsAll
<1>4. Above(root, D) \cup {root} = Range(tree)
  BY <1>1, <1>2, <1>3
<1>5. S = {Distance(root, b) : b \in Range(tree)}
  BY <1>4
<1> HIDE DEF tree
<1>6. Range(tree) \subseteq Block
  BY <1>1
<1>7. \A p \in DOMAIN tree : Distance(root, tree[p]) = Len(p)
  BY <1>1, <1>6, PathLength
<1>8. S = {Len(p) : p \in DOMAIN tree}
  <2> HIDE DEF root
  <2>1. \A x \in S : \E p \in DOMAIN tree : x = Len(p)
    BY <1>5, <1>7 DEF Range
  <2>2. \A p \in DOMAIN tree : Len(p) \in S
    BY <1>5, <1>7 DEF Range
  <2> QED  BY <2>1, <2>2
<1> QED  BY <1>8 DEF DepthIn, Depth, tree

\* The tree pop takes out is deeper than all others on the anchor.
LEMMA StableTree ==
    ASSUME NEW trees, ForestOK(trees), NEW anchor, HasStable(trees, anchor)
    PROVE  \E i \in Attached(trees, anchor) :
             /\ StableBlock(trees, anchor) = Root(trees[i])
             /\ Last(Ranked(trees, anchor)) = trees[i]
             /\ Depth(trees[i]) >= Delta
             /\ \A j \in Attached(trees, anchor) \ {i} :
                  Depth(trees[i]) - Depth(trees[j]) >= Delta
<1> DEFINE I == Attached(trees, anchor)
           ranked == Ranked(trees, anchor)
           n == Len(ranked)
<1>1. PICK place :
        /\ \A i \in I : place[i] \in 1 .. n /\ ranked[place[i]] = trees[i]
        /\ \A i, j \in I : place[i] = place[j] => i = j
        /\ \A k \in 1 .. n : \E i \in I : place[i] = k
        /\ \A i, j \in I : place[i] < place[j] => Depth(trees[i]) <= Depth(trees[j])
  BY RankedPlaces
<1>2. /\ n >= 1
      /\ Depth(ranked[n]) >= Delta
      /\ n >= 2 => Depth(ranked[n]) - Depth(ranked[n - 1]) >= Delta
  BY DEF HasStable
<1>3. n \in Nat
  BY RankedFacts, ForestIndices
<1>4. \A i \in I : Depth(trees[i]) \in Nat
  BY DepthIsNat DEF ForestOK, Attached
<1>5. Last(ranked) = ranked[n] /\ StableBlock(trees, anchor) = Root(Last(ranked))
  BY DEF Last, StableBlock
<1> HIDE DEF I, ranked, n
<1>6. PICK i \in I : place[i] = n
  BY <1>1, <1>2, <1>3
<1>7. ranked[n] = trees[i]
  BY <1>1, <1>6
<1>8. ASSUME NEW j \in I \ {i}
      PROVE  Depth(trees[i]) - Depth(trees[j]) >= Delta
  <2>1. place[j] \in 1 .. n /\ place[j] # n
    BY <1>1, <1>6
  <2>2. n >= 2 /\ n - 1 \in 1 .. n
    BY <1>3, <2>1
  <2>3. PICK k \in I : place[k] = n - 1
    BY <1>1, <2>2
  <2>4. ranked[n - 1] = trees[k]
    BY <1>1, <2>3
  <2>5. Depth(trees[j]) <= Depth(trees[k])
    <3>1. CASE place[j] = n - 1
      <4>1. j = k
        BY <1>1, <2>3, <3>1
      <4> QED  BY <1>4, <4>1
    <3>2. CASE place[j] < n - 1
      BY <1>1, <2>3, <3>2
    <3> QED  BY <1>3, <2>1, <3>1, <3>2
  <2>6. Depth(trees[i]) - Depth(trees[k]) >= Delta
    BY <1>2, <1>7, <2>2, <2>4
  <2>7. Depth(trees[i]) \in Nat /\ Depth(trees[j]) \in Nat /\ Depth(trees[k]) \in Nat
    BY <1>4
  <2> QED  BY <2>5, <2>6, <2>7, DeltaAssumption
<1> QED  BY <1>2, <1>5, <1>6, <1>7, <1>8 DEF I, ranked

\* A block that becomes stable is Delta deep among all the blocks delivered,
\* and Delta deeper than each other block on its parent, for every delta: what
\* pop finds in the forest is what the rule says of the headers.
THEOREM StableByTheRule == SpecInOrder => StableRule
<1> DEFINE Rule ==
             \A n \in DOMAIN stable' \ DOMAIN stable :
               LET b == stable'[n]
               IN  /\ DepthIn(b, delivered') >= Delta
                   /\ \A rival \in delivered' \ {b} :
                        Prev[rival] = Prev[b] =>
                          DepthIn(b, delivered') - DepthIn(rival, delivered') >= Delta
<1>1. ASSUME OrderInv, NEW block \in Block \ {Genesis}, InsertSuccessor(block), Stabilise(block)
      PROVE  Rule
  <2> DEFINE pushed == Pushed(state, block)
             b == Popped(state, block)
             D == delivered'
  <2>1. /\ OrderInv' /\ ForestOK(pushed) /\ Spans(pushed, Anchor, D)
    BY <1>1, InsertOrder DEF InsertSuccessor
  <2>2. /\ HasStable(pushed, Anchor) /\ b = StableBlock(pushed, Anchor)
        /\ stable' = Append(stable, b) /\ stable \in Seq(Block)
    BY <1>1 DEF Stabilise, Stabilises, Popped, Anchor, OrderInv, StoreInv
  <2>3. Anchor \in Block /\ Genesis \in Past[Anchor] /\ D \in SUBSET Block /\ Grown(D)
    BY <1>1, <2>1 DEF OrderInv, StoreInv, StateOK, Anchor
  <2> HIDE DEF pushed, b, D
  <2>4. PICK i \in Attached(pushed, Anchor) :
          /\ b = Root(pushed[i])
          /\ Depth(pushed[i]) >= Delta
          /\ \A j \in Attached(pushed, Anchor) \ {i} :
               Depth(pushed[i]) - Depth(pushed[j]) >= Delta
    BY <2>1, <2>2, StableTree
  <2>5. i \in DOMAIN pushed /\ Prev[b] = Anchor
    BY <2>4 DEF Attached, IsAttached
  <2>6. DepthIn(b, D) = Depth(pushed[i])
    BY <2>1, <2>3, <2>4, <2>5, DepthOfRoot
  <2>7. ASSUME NEW rival \in D \ {b}, Prev[rival] = Prev[b]
        PROVE  DepthIn(b, D) - DepthIn(rival, D) >= Delta
    <3>1. rival \in Block /\ Prev[rival] = Anchor /\ Anchor \in Past[rival] /\ rival # Anchor
      BY <2>3, <2>5, <2>7, SuccessorBeyond, PastFacts
    <3>2. rival \in GetBlocks(pushed)
      BY <2>1, <2>7, <3>1 DEF Spans, Beyond
    <3>3. PICK j \in DOMAIN pushed : rival \in Range(pushed[j])
      BY <3>2 DEF GetBlocks
    <3>4. TreeOK(pushed[j]) /\ IsAttached(pushed[j], Anchor)
      BY <2>1 DEF ForestOK, Spans
    <3>5. rival = Root(pushed[j])
      <4>1. Anchor \notin Range(pushed[j])
        BY <2>1 DEF Spans, GetBlocks, Beyond
      <4> QED  BY <3>1, <3>3, <3>4, <4>1, InnerBlock
    <3>6. j \in Attached(pushed, Anchor) \ {i}
      BY <2>4, <2>7, <3>4, <3>5 DEF Attached
    <3>7. DepthIn(rival, D) = Depth(pushed[j])
      BY <2>1, <2>3, <3>5, DepthOfRoot
    <3> QED  BY <2>4, <2>6, <3>6, <3>7
  <2>8. ASSUME NEW n \in DOMAIN stable' \ DOMAIN stable PROVE stable'[n] = b
    <3>1. b \in Block
      BY <2>3, <2>4, <2>5, <2>1, TreeOfRoot
    <3>2. /\ DOMAIN stable = 1 .. Len(stable) /\ Len(stable) \in Nat
          /\ DOMAIN stable' = 1 .. Len(stable) + 1
          /\ stable'[Len(stable) + 1] = b
      BY <2>2, <3>1, AppendProperties, LenProperties
    <3>3. n = Len(stable) + 1
      BY <2>8, <3>2
    <3> QED  BY <3>2, <3>3
  <2> QED  BY <2>4, <2>6, <2>7, <2>8 DEF D
<1>2. ASSUME stable' = stable PROVE Rule
  BY <1>2
<1>3. ASSUME OrderInv, [NextInOrder]_vars PROVE [Rule]_vars
  <2>1. ASSUME NEW block \in Block \ {Genesis}, InsertSuccessor(block) PROVE Rule
    <3>1. CASE Stabilise(block)
      BY <1>1, <1>3, <2>1, <3>1
    <3>2. CASE KeepUnstable(block) \/ Trap(block)
      <4>1. stable' = stable
        BY <3>2 DEF KeepUnstable, Trap
      <4> QED  BY <1>2, <4>1
    <3> QED  BY <2>1, <3>1, <3>2 DEF InsertSuccessor, Insert
  <2>2. CASE SaveAndLoad
    <3>1. stable' = stable
      BY <2>2 DEF SaveAndLoad
    <3> QED  BY <1>2, <3>1
  <2>3. CASE UNCHANGED vars
    BY <2>3
  <2> HIDE DEF Rule
  <2> QED  BY <1>3, <2>1, <2>2, <2>3 DEF NextInOrder
<1> QED  BY <1>3, SpecOrder, PTL DEF SpecInOrder, StableRule

-----------------------------------------------------------------------------
(* Blocks in any order, none of them twice.                                *)

LEMMA OnceDetached ==
    ASSUME NEW trees, ForestOK(trees), NEW anchor, Once(trees)
    PROVE  Once(Detached(trees, anchor))
<1> DEFINE I == DOMAIN trees \ Attached(trees, anchor)
           R == {p \in I \X I : p[1] < p[2]}
           r == Detached(trees, anchor)
<1>1. IsFiniteSet(I) /\ I \in SUBSET DOMAIN trees /\ I \subseteq Nat
  BY ForestIndices, FS_Subset
<1>2. r = Arranged(trees, I, R)
  BY DEF Detached
<1>3. \A i, j \in I : <<i, j>> \in R <=> i < j
  OBVIOUS
<1> HIDE DEF I, R, r
<1>4. StrictOrder(I, R)
  BY <1>1, <1>3 DEF StrictOrder
<1>5. PICK place :
        /\ IsPlacing(place, I, R)
        /\ \A i \in I : Arranged(trees, I, R)[place[i]] = trees[i]
  BY <1>1, <1>4, ArrangedPlaces
<1>6. ForestOK(r) /\ Len(r) = Cardinality(I)
  BY <1>1, <1>2, <1>4, ArrangedForest
<1>7. DOMAIN r = 1 .. Cardinality(I)
  BY <1>6, ForestIndices
<1>8. ASSUME NEW k \in DOMAIN r, NEW l \in DOMAIN r,
             NEW p \in DOMAIN r[k], NEW q \in DOMAIN r[l], r[k][p] = r[l][q]
      PROVE  k = l /\ p = q
  <2>1. PICK i \in I, j \in I : place[i] = k /\ place[j] = l
    BY <1>5, <1>7 DEF IsPlacing
  <2>2. r[k] = trees[i] /\ r[l] = trees[j]
    BY <1>2, <1>5, <2>1
  <2>3. i = j /\ p = q
    BY <1>1, <1>8, <2>2 DEF Once
  <2> QED  BY <2>1, <2>3
<1> QED  BY <1>8 DEF Once, r

\* Two forests that share no block, one after the other.
LEMMA OnceConcat ==
    ASSUME NEW f, ForestOK(f), Once(f), NEW h, ForestOK(h), Once(h),
           GetBlocks(f) \cap GetBlocks(h) = {}
    PROVE  Once(f \o h)
<1> DEFINE c == f \o h
           n == Len(f)
<1>1. /\ n \in Nat /\ DOMAIN f = 1 .. n
      /\ Len(h) \in Nat /\ DOMAIN h = 1 .. Len(h)
      /\ \E S : f \in Seq(S) /\ h \in Seq(S)
  <2>1. PICK S, T : f \in Seq(S) /\ h \in Seq(T)
    BY DEF ForestOK
  <2>2. f \in Seq(S \cup T) /\ h \in Seq(S \cup T)
    BY <2>1
  <2> QED  BY <2>2, ForestIndices
<1>2. /\ DOMAIN c = 1 .. n + Len(h)
      /\ \A i \in 1 .. n + Len(h) : c[i] = IF i <= n THEN f[i] ELSE h[i - n]
  BY <1>1
<1> HIDE DEF c, n
<1>3. ASSUME NEW i \in DOMAIN c
      PROVE  \/ i \in DOMAIN f /\ c[i] = f[i]
             \/ i - n \in DOMAIN h /\ i \notin DOMAIN f /\ c[i] = h[i - n]
  BY <1>1, <1>2
<1>4. ASSUME NEW i \in DOMAIN c PROVE OnceIn(c[i])
  BY <1>3, OnceEachTree
<1>5. ASSUME NEW i \in DOMAIN c, NEW j \in DOMAIN c, i # j
      PROVE  Range(c[i]) \cap Range(c[j]) = {}
  <2>1. CASE i \in DOMAIN f /\ j \in DOMAIN f
    <3>1. c[i] = f[i] /\ c[j] = f[j]
      BY <1>3, <2>1
    <3> QED  BY <1>5, <2>1, <3>1, OnceOneTree
  <2>2. CASE i \notin DOMAIN f /\ j \notin DOMAIN f
    <3>1. i - n \in DOMAIN h /\ c[i] = h[i - n] /\ j - n \in DOMAIN h /\ c[j] = h[j - n]
      BY <1>3, <2>2
    <3>2. i - n # j - n
      BY <1>1, <1>2, <1>5
    <3> QED  BY <3>1, <3>2, OnceOneTree
  <2>3. \A k \in DOMAIN c : Range(c[k]) \subseteq (IF k \in DOMAIN f THEN GetBlocks(f) ELSE GetBlocks(h))
    BY <1>3 DEF GetBlocks
  <2> QED  BY <2>1, <2>2, <2>3
<1> QED  BY <1>4, <1>5, OnceFromTrees DEF c

\* What pop does to each block: it keeps it, or it takes it out as the stable
\* block, or the block was on one that competed with the stable block.
LEMMA PopKeeps ==
    ASSUME NEW trees, ForestOK(trees), Once(trees), GetBlocks(trees) \subseteq Block,
           NEW anchor
    PROVE  LET popped == PopTrees(trees, anchor)
               stable1 == StableBlock(trees, anchor)
           IN  /\ Once(popped)
               /\ ~ HasStable(trees, anchor) => GetBlocks(popped) = GetBlocks(trees)
               /\ HasStable(trees, anchor) =>
                    \A b \in GetBlocks(trees) :
                      \/ b \in GetBlocks(popped)
                      \/ b = stable1
                      \/ \E rival \in Past[b] : Prev[rival] = anchor /\ rival # stable1
<1> DEFINE I == Attached(trees, anchor)
           ranked == Ranked(trees, anchor)
           det == Detached(trees, anchor)
           popped == PopTrees(trees, anchor)
           stable1 == StableBlock(trees, anchor)
<1>1. /\ ForestOK(ranked) /\ Range(ranked) = {trees[i] : i \in I} /\ Once(ranked)
      /\ ForestOK(det) /\ Range(det) = {trees[i] : i \in DOMAIN trees \ I} /\ Once(det)
      /\ I \subseteq DOMAIN trees
  BY RankedFacts, DetachedFacts, OnceRanked, OnceDetached DEF Attached
<1>2. \A b : b \in GetBlocks(det) <=> \E i \in DOMAIN trees \ I : b \in Range(trees[i])
  <2>1. \A b : b \in GetBlocks(det) <=> \E t \in Range(det) : b \in Range(t)
    BY DEF GetBlocks, Range
  <2> QED  BY <1>1, <2>1
<1>3. \A b : b \in GetBlocks(ranked) <=> \E i \in I : b \in Range(trees[i])
  <2>1. \A b : b \in GetBlocks(ranked) <=> \E t \in Range(ranked) : b \in Range(t)
    BY DEF GetBlocks, Range
  <2> QED  BY <1>1, <2>1
<1>4. CASE ~ HasStable(trees, anchor)
  <2>1. popped = ranked \o det
    BY <1>4 DEF PopTrees
  <2>2. GetBlocks(ranked) \cap GetBlocks(det) = {}
    BY <1>1, <1>2, <1>3, OnceOneTree
  <2>3. Once(popped)
    BY <1>1, <2>1, <2>2, OnceConcat
  <2>4. GetBlocks(popped) = GetBlocks(trees)
    BY <1>4, PopNothing, SameTrees
  <2> QED  BY <1>4, <2>3, <2>4
<1>5. CASE HasStable(trees, anchor)
  <2>1. PICK i \in I :
          /\ stable1 = Root(trees[i])
          /\ Last(ranked) = trees[i]
    BY <1>5, StableTree
  <2> DEFINE t == trees[i]
             f == Subtrees(t)
  <2>2. popped = det \o f
    BY <1>5, <2>1 DEF PopTrees
  <2>3. TreeOK(t) /\ OnceIn(t) /\ Range(t) \subseteq Block
    BY <1>1, OnceEachTree DEF ForestOK, GetBlocks
  <2>4. /\ ForestOK(f) /\ Once(f)
        /\ Range(t) = {stable1} \cup GetBlocks(f)
    BY <2>1, <2>3, OnceSubtrees, SubtreesOK
  <2>5. GetBlocks(det) \cap GetBlocks(f) = {}
    BY <1>1, <1>2, <2>4, OnceOneTree
  <2> HIDE DEF f, det, popped, I, ranked, stable1
  <2>6. Once(popped)
    BY <1>1, <2>2, <2>4, <2>5, OnceConcat
  <2>7. GetBlocks(popped) = GetBlocks(det) \cup GetBlocks(f)
    <3>1. Range(popped) = Range(det) \cup Range(f)
      BY <1>1, <2>2, <2>4, ForestConcat
    <3>2. \A b : b \in GetBlocks(popped) <=> \E x \in Range(popped) : b \in Range(x)
      BY DEF GetBlocks, Range
    <3>3. \A b : b \in GetBlocks(det) <=> \E x \in Range(det) : b \in Range(x)
      BY DEF GetBlocks, Range
    <3>4. \A b : b \in GetBlocks(f) <=> \E x \in Range(f) : b \in Range(x)
      BY DEF GetBlocks, Range
    <3> QED  BY <3>1, <3>2, <3>3, <3>4
  <2>8. ASSUME NEW b \in GetBlocks(trees)
        PROVE  \/ b \in GetBlocks(popped)
               \/ b = stable1
               \/ \E rival \in Past[b] : Prev[rival] = anchor /\ rival # stable1
    <3>1. PICK j \in DOMAIN trees : b \in Range(trees[j])
      BY DEF GetBlocks
    <3>2. CASE j \notin I
      BY <1>2, <2>7, <3>1, <3>2
    <3>3. CASE j = i
      BY <2>4, <2>7, <3>1, <3>3
    <3>4. CASE j \in I /\ j # i
      <4> DEFINE rival == Root(trees[j])
      <4>1. TreeOK(trees[j]) /\ Range(trees[j]) \subseteq Block
        BY DEF ForestOK, GetBlocks
      <4>2. rival \in Past[b]
        BY <3>1, <4>1, RootIsFirst
      <4>3. Prev[rival] = anchor
        BY <3>4 DEF I, Attached, IsAttached
      <4>4. rival \in Range(trees[j]) /\ stable1 \in Range(trees[i])
        BY <2>4, <4>1 DEF TreeOK, Shape, Root, Range
      <4>5. rival # stable1
        BY <1>1, <3>4, <4>4, OnceOneTree
      <4> QED  BY <4>2, <4>3, <4>5
    <3> QED  BY <3>2, <3>3, <3>4
  <2> QED  BY <1>5, <2>6, <2>8 DEF popped, stable1
<1> QED  BY <1>4, <1>5

\* Each stable block is as high as its place says.
StableSizes == \A i \in DOMAIN stable : Cardinality(Past[stable[i]]) = i

\* As long as no block comes twice, each block of the forest is at one place.
LostInv ==
    /\ StoreInv
    /\ StableSizes
    /\ GetBlocks(Trees) \subseteq delivered
    /\ ~ repeated => Once(Trees)
    /\ NothingLost

LEMMA InitLost == Init => LostInv
<1> SUFFICES ASSUME Init PROVE LostInv
  OBVIOUS
<1>1. StoreInv
  BY InitInv
<1>2. Trees = << >> /\ stable = <<Genesis>> /\ delivered = {}
  BY DEF Init, NewState, Trees
<1>3. Cardinality(Past[Genesis]) = 1
  BY GenesisAssumption, PrevAssumption, PastGrows
<1>4. StableSizes
  BY <1>2, <1>3 DEF StableSizes
<1>5. DOMAIN Trees = {} /\ GetBlocks(Trees) = {} /\ Once(Trees)
  BY <1>2 DEF GetBlocks, Once
<1> QED  BY <1>1, <1>2, <1>4, <1>5 DEF LostInv, NothingLost

LEMMA SameLost ==
    ASSUME LostInv, UNCHANGED <<state, stable, delivered, repeated>>, trapped' \in BOOLEAN
    PROVE  LostInv'
BY SameInv DEF LostInv, StableSizes, NothingLost, Trees

\* The chain of stable blocks with one more.
LEMMA RangeOfStable ==
    ASSUME NEW chain \in Seq(Block), NEW b \in Block
    PROVE  LET longer == Append(chain, b)
           IN  /\ Range(longer) = Range(chain) \cup {b}
               /\ Front(longer) = chain
               /\ Range(Front(chain)) \subseteq Range(chain)
<1> DEFINE longer == Append(chain, b)
           n == Len(chain)
<1>1. n \in Nat /\ DOMAIN chain = 1 .. n /\ chain \in Seq(Block)
  BY LenProperties
<1>2. /\ longer \in Seq(Block) /\ Len(longer) = n + 1 /\ DOMAIN longer = 1 .. n + 1
      /\ \A i \in 1 .. n : longer[i] = chain[i]
      /\ longer[n + 1] = b
  BY AppendProperties, LenProperties
<1>3. Front(longer) = chain
  BY <1>1, <1>2 DEF Front
<1>4. Front(chain) = SubSeq(chain, 1, n - 1)
  BY DEF Front
<1>5. \A i \in DOMAIN Front(chain) : i \in DOMAIN chain /\ Front(chain)[i] = chain[i]
  BY <1>1, <1>4
<1>6. Range(Front(chain)) \subseteq Range(chain)
  BY <1>5 DEF Range
<1> HIDE DEF longer, n
<1>7. Range(longer) = Range(chain) \cup {b}
  <2>1. ASSUME NEW i \in DOMAIN longer PROVE longer[i] \in Range(chain) \cup {b}
    <3>1. CASE i \in 1 .. n
      BY <1>1, <1>2, <3>1 DEF Range
    <3>2. CASE i = n + 1
      BY <1>2, <3>2
    <3> QED  BY <1>1, <1>2, <3>1, <3>2
  <2>2. ASSUME NEW i \in DOMAIN chain PROVE chain[i] \in Range(longer)
    <3>1. i \in DOMAIN longer /\ longer[i] = chain[i]
      BY <1>1, <1>2
    <3> QED  BY <3>1 DEF Range
  <2>3. b \in Range(longer)
    <3>1. n + 1 \in DOMAIN longer
      BY <1>1, <1>2
    <3> QED  BY <1>2, <3>1 DEF Range
  <2> QED  BY <2>1, <2>2, <2>3 DEF Range
<1> QED  BY <1>3, <1>6, <1>7 DEF longer

LEMMA InsertLost ==
    ASSUME LostInv, NEW block \in Block, KeepUnstable(block) \/ Stabilise(block)
    PROVE  LostInv'
<1> DEFINE pushed == Pushed(state, block)
           D == delivered \cup {block}
           e == Popped(state, block)
           size(b) == Cardinality(Past[b])
<1>1. /\ StateOK(state) /\ ForestOK(Trees) /\ Anchor \in Block /\ delivered \in SUBSET Block
      /\ stable \in Seq(Block) /\ stable # << >>
      /\ GetBlocks(Trees) \subseteq delivered /\ Anchor = Last(stable)
      /\ StableSizes /\ repeated \in BOOLEAN
  BY DEF LostInv, StoreInv, StateOK, Trees, Anchor, FieldsAgree
<1>2. /\ ~ InsertPanics(state, block) /\ state' = InsertBlock(state, block)
      /\ delivered' = D /\ (repeated' = (repeated \/ block \in delivered))
  BY DEF KeepUnstable, Stabilise, InsertPanics, Delivers
<1>3. /\ ForestOK(pushed) /\ GetBlocks(pushed) = GetBlocks(Trees) \cup {block}
      /\ GetBlocks(pushed) \subseteq Block
  BY <1>1, PoppedOK DEF Trees
<1>4. /\ Trees' = PopTrees(pushed, Anchor)
      /\ GetBlocks(Trees') \subseteq D
  <2>1. GetBlocks(state'.unstable_blocks) \subseteq GetBlocks(state.unstable_blocks) \cup {block}
    BY <1>1, <1>2, InsertState
  <2>2. state'.unstable_blocks = PopTrees(pushed, state.latest_stable_block_hash)
    BY <1>1, <1>2, InsertState
  <2> QED  BY <1>1, <2>1, <2>2 DEF Trees, Anchor
<1>5. StoreInv'
  BY KeepUnstableInv, StabiliseInv DEF LostInv
<1>6. /\ ~ repeated' => block \notin delivered /\ ~ repeated
      /\ ~ repeated' => Once(pushed)
  <2>1. ASSUME ~ repeated' PROVE block \notin delivered /\ ~ repeated
    BY <1>2, <2>1
  <2>2. ASSUME ~ repeated' PROVE Once(pushed)
    <3>1. Once(Trees) /\ block \notin GetBlocks(Trees)
      BY <1>1, <2>1, <2>2 DEF LostInv
    <3> QED  BY <1>1, <3>1, PushOnce DEF Pushed, Trees
  <2> QED  BY <2>1, <2>2
<1> HIDE DEF pushed, D, e
<1>7. ~ repeated' => Once(Trees')
  BY <1>3, <1>4, <1>6, PopKeeps
<1>8. CASE ~ Stabilises(state, block)
  <2>1. stable' = stable
    BY <1>8 DEF KeepUnstable, Stabilise
  <2>2. ~ HasStable(pushed, Anchor)
    BY <1>8 DEF Stabilises, pushed, Anchor
  <2>3. ~ repeated' => GetBlocks(Trees') = GetBlocks(Trees) \cup {block}
    BY <1>3, <1>4, <1>6, <2>2, PopKeeps
  <2>4. ASSUME ~ repeated', NEW b \in D
        PROVE  \/ b \in Range(stable) \/ b \in GetBlocks(Trees')
               \/ \E rival \in Past[b] \ Range(stable) : Prev[rival] \in Range(Front(stable))
    <3>1. CASE b = block
      BY <2>3, <2>4, <3>1
    <3>2. CASE b \in delivered
      BY <1>6, <2>3, <2>4, <3>2 DEF LostInv, NothingLost
    <3> QED  BY <3>1, <3>2 DEF D
  <2>5. NothingLost'
    BY <1>2, <2>1, <2>4 DEF NothingLost
  <2>6. StableSizes'
    BY <1>1, <2>1 DEF StableSizes
  <2> QED  BY <1>2, <1>4, <1>5, <1>7, <2>5, <2>6 DEF LostInv
<1>9. CASE Stabilises(state, block)
  <2> DEFINE n == Len(stable)
  <2>1. stable' = Append(stable, e) /\ HasStable(pushed, Anchor) /\ e = StableBlock(pushed, Anchor)
    BY <1>9 DEF KeepUnstable, Stabilise, Stabilises, Popped, pushed, Anchor, e
  <2>2. e \in Block /\ Prev[e] = Anchor
    BY <1>1, <1>9, PoppedOK DEF e, Anchor
  <2>3. /\ Range(stable') = Range(stable) \cup {e}
        /\ Front(stable') = stable
        /\ Range(Front(stable)) \subseteq Range(stable)
    BY <1>1, <2>1, <2>2, RangeOfStable
  <2>4. /\ n \in Nat \ {0} /\ DOMAIN stable = 1 .. n /\ Anchor = stable[n]
    BY <1>1, EmptySeq, LenProperties DEF Last
  <2>5. \A i \in 1 .. n : stable[i] \in Block /\ size(stable[i]) = i
    BY <1>1, <2>4 DEF StableSizes
  <2>6. size(e) = n + 1
    BY <2>2, <2>4, <2>5, PastGrows
  <2>7. StableSizes'
    <3>1. /\ DOMAIN stable' = 1 .. n + 1 /\ stable'[n + 1] = e
          /\ \A i \in 1 .. n : stable'[i] = stable[i]
      BY <1>1, <2>1, <2>2, AppendProperties, LenProperties
    <3> HIDE DEF n
    <3>2. ASSUME NEW i \in DOMAIN stable' PROVE size(stable'[i]) = i
      <4>1. CASE i \in 1 .. n
        BY <2>5, <3>1, <4>1
      <4>2. CASE i = n + 1
        BY <2>6, <3>1, <4>2
      <4> QED  BY <2>4, <3>1, <4>1, <4>2
    <3> QED  BY <3>2 DEF StableSizes
  <2> HIDE DEF n
  \* Whoever builds on a stable block that has a stable successor is as high
  \* as that successor.
  <2>8. ASSUME NEW rival \in Block, NEW i \in 1 .. n, Prev[rival] = stable[i]
        PROVE  size(rival) = i + 1
    <3>1. Prev[rival] \in Block /\ size(Prev[rival]) = i
      BY <2>5, <2>8
    <3> QED  BY <3>1, PastGrows
  <2> HIDE DEF size
  <2>9. ASSUME ~ repeated', NEW b \in D
        PROVE  \/ b \in Range(stable') \/ b \in GetBlocks(Trees')
               \/ \E rival \in Past[b] \ Range(stable') : Prev[rival] \in Range(Front(stable'))
    <3>0. b \in Block
      BY <1>1 DEF D
    <3>1. CASE b \in GetBlocks(pushed)
      <4>1. \/ b \in GetBlocks(Trees') \/ b = e
            \/ \E rival \in Past[b] : Prev[rival] = Anchor /\ rival # e
        BY <1>3, <1>4, <1>6, <2>1, <2>9, <3>1, PopKeeps
      <4>2. ASSUME NEW rival \in Past[b], Prev[rival] = Anchor, rival # e
            PROVE  rival \notin Range(stable') /\ Prev[rival] \in Range(Front(stable'))
        <5>1. rival \in Block
          BY <3>0, PastFacts
        <5>2. size(rival) = n + 1
          BY <2>4, <2>8, <4>2, <5>1
        <5>3. rival \notin Range(stable)
          BY <2>4, <2>5, <5>2 DEF Range
        <5>4. Anchor \in Range(stable)
          BY <2>4 DEF Range
        <5> QED  BY <2>3, <4>2, <5>3, <5>4
      <4> QED  BY <2>3, <4>1, <4>2
    <3>2. CASE b \notin GetBlocks(pushed)
      <4>1. b \in delivered /\ b \notin GetBlocks(Trees)
        BY <1>3, <3>2 DEF D
      <4>2. \/ b \in Range(stable)
            \/ \E rival \in Past[b] \ Range(stable) : Prev[rival] \in Range(Front(stable))
        BY <1>6, <2>9, <4>1 DEF LostInv, NothingLost
      <4>3. ASSUME NEW rival \in Past[b] \ Range(stable), Prev[rival] \in Range(Front(stable))
            PROVE  rival \notin Range(stable') /\ Prev[rival] \in Range(Front(stable'))
        <5>1. PICK i \in 1 .. n - 1 : Prev[rival] = stable[i]
          <6>1. Front(stable) = SubSeq(stable, 1, n - 1) /\ stable \in Seq(Block)
            BY <1>1 DEF Front, n
          <6>2. DOMAIN Front(stable) = 1 .. n - 1
                /\ \A k \in 1 .. n - 1 : Front(stable)[k] = stable[k]
            BY <2>4, <6>1 DEF n
          <6> QED  BY <4>3, <6>2 DEF Range
        <5>2. rival \in Block
          BY <3>0, PastFacts
        <5>3. size(rival) = i + 1
          BY <2>4, <2>8, <5>1, <5>2
        <5>4. rival # e
          BY <2>4, <2>6, <5>3
        <5> QED  BY <2>3, <4>3, <5>4
      <4> QED  BY <2>3, <4>2, <4>3
    <3> QED  BY <3>1, <3>2
  <2>10. NothingLost'
    BY <1>2, <2>9 DEF NothingLost
  <2> QED  BY <1>2, <1>4, <1>5, <1>7, <2>7, <2>10 DEF LostInv
<1> QED  BY <1>8, <1>9

LEMMA NextLost == LostInv /\ [NextAnyOrder]_vars => LostInv'
<1> SUFFICES ASSUME LostInv, [NextAnyOrder]_vars PROVE LostInv'
  OBVIOUS
<1>1. ASSUME NEW block \in Block \ {Genesis}, Insert(block) PROVE LostInv'
  <2>1. CASE KeepUnstable(block) \/ Stabilise(block)
    BY <1>1, <2>1, InsertLost
  <2>2. CASE Trap(block)
    BY <2>2, SameLost DEF Trap
  <2> QED  BY <1>1, <2>1, <2>2 DEF Insert
<1>2. CASE UNCHANGED vars
  BY <1>2, SameLost DEF vars, LostInv, StoreInv
<1>3. CASE SaveAndLoad
  BY <1>2, <1>3, SaveAndLoadSame DEF LostInv
<1> QED  BY <1>1, <1>2, <1>3 DEF NextAnyOrder

\* Blocks may come in any order, before those they build on, beside the chain
\* and late: as long as none comes twice, each of them becomes stable, is kept
\* in the forest, or builds on a block that lost its place in the chain to a
\* stable one.  push and pop drop no other.
THEOREM NothingEverLost == SpecAnyOrder => []NothingLost
<1>1. LostInv => NothingLost
  BY DEF LostInv
<1> QED  BY <1>1, InitLost, NextLost, PTL DEF SpecAnyOrder

-----------------------------------------------------------------------------
(* Blocks that may be applied.                                             *)

\* The entries of a set are of the transactions T, and the transactions txs are
\* none of these and none twice, but for the two duplicates.
Stems(set, T) == \A o \in DOMAIN set.utxos : o.txid \in T
NewTo(txs, T) ==
    \A n \in DOMAIN txs :
        txs[n] \notin DuplicateTxIds =>
            txs[n] \notin T /\ \A m \in 1 .. n - 1 : txs[m] # txs[n]

\* Transactions that are new to a set, and spend what is there if the set
\* asks for it, are taken; the entries they make carry their height.
LEMMA ApplyFresh ==
    ASSUME NEW set, SetOK(set), NEW txs \in Seq(TxId), NEW height, NEW T,
           Stems(set, T), NewTo(txs, T),
           set.strict => L!Spendable(Pairs(set), txs)
    PROVE  LET r == ApplyTxs(Start(set), txs, height)
           IN  /\ RunOK(r) /\ r.failure = "none" /\ r.set.strict = set.strict
               /\ Pairs(r.set) = L!After(Pairs(set), txs)
               /\ \A o \in DOMAIN r.set.utxos :
                    \/ o \in DOMAIN set.utxos /\ r.set.utxos[o] = set.utxos[o]
                    \/ o.txid \in Range(txs) /\ r.set.utxos[o].height = height
<1> DEFINE N == Len(txs)
           run == Start(set)
           Old(s, o) == o \in DOMAIN set.utxos /\ s.utxos[o] = set.utxos[o]
           New1(s, o, n) == /\ \E m \in 1 .. n : o.txid = txs[m]
                            /\ s.utxos[o].height = height
<1>0. N \in Nat /\ DOMAIN txs = 1 .. N /\ \A n \in 1 .. N : txs[n] \in TxId
  OBVIOUS
<1>1. RunOK(run) /\ run.failure = "none" /\ run.set = set
  BY StartOK
<1> HIDE DEF run
<1>2. PICK f : /\ f[0] = run
               /\ \A n \in 1 .. N : f[n] = ApplyTx(f[n - 1], txs[n], height)
               /\ ApplyTxs(run, txs, height) = f[N]
  BY ApplyTxsRun
<1>3. PICK g : /\ IsRunOf(g, Pairs(set), txs)
               /\ L!After(Pairs(set), txs) = g[N]
  BY AfterRun
<1> HIDE DEF N
<1> DEFINE P(n) == /\ RunOK(f[n]) /\ f[n].failure = "none" /\ f[n].set.strict = set.strict
                   /\ Pairs(f[n].set) = g[n]
                   /\ \A o \in DOMAIN f[n].set.utxos : Old(f[n].set, o) \/ New1(f[n].set, o, n)
           Q == {n \in Nat : n <= N => P(n)}
<1>4. 0 \in Q
  BY <1>1, <1>2, <1>3 DEF IsRunOf
<1>5. ASSUME NEW n \in Nat, n \in Q PROVE n + 1 \in Q
  <2> SUFFICES ASSUME n + 1 <= N PROVE P(n + 1)
    OBVIOUS
  <2> DEFINE before == f[n]
             s == before.set
             t == txs[n + 1]
             after == f[n + 1]
             part == SubSeq(txs, 1, n)
  <2>1. /\ n + 1 \in 1 .. N /\ n + 1 \in DOMAIN txs /\ n <= N /\ (n + 1) - 1 = n
    BY <1>0
  <2>2. P(n)
    BY <1>5, <2>1
  <2>3. RunOK(before) /\ before.failure = "none" /\ s.strict = set.strict /\ Pairs(s) = g[n]
    BY <2>2
  <2>4. \A o \in DOMAIN s.utxos : Old(s, o) \/ New1(s, o, n)
    BY <2>2
  <2>5. after = ApplyTx(before, t, height) /\ t \in TxId
    BY <1>0, <1>2, <2>1
  <2>6. part \in Seq(TxId) /\ Len(part) = n /\ \A k \in 1 .. n : part[k] = txs[k]
    BY <2>1 DEF N
  <2>7. SetOK(s) /\ Consistent(s)
    BY <2>3 DEF RunOK, SetOK
  <2>8. t \notin DuplicateTxIds => t \notin T /\ \A m \in 1 .. n : txs[m] # t
    BY <2>1 DEF NewTo
  <2>9. s.strict => Tx[t].inputs \subseteq DOMAIN s.utxos
    <3> SUFFICES ASSUME s.strict PROVE Tx[t].inputs \subseteq DOMAIN s.utxos
      OBVIOUS
    <3>1. Tx[t].inputs \subseteq {u[1] : u \in L!After(Pairs(set), part)}
      BY <2>1, <2>3 DEF L!Spendable
    <3>2. Len(part) <= Len(txs) /\ \A k \in 1 .. Len(part) : part[k] = txs[k]
      BY <2>1, <2>6 DEF N
    <3> HIDE DEF part
    <3>3. L!After(Pairs(set), part) = g[Len(part)]
      BY <1>3, <2>6, <3>2, AfterPart
    <3> QED  BY <2>3, <2>6, <3>1, <3>3, PairsKeys
  <2> HIDE DEF before, t, after, part, P, Q
  <2>10. ~ AlreadyInserted(s, t)
    <3> SUFFICES ASSUME t \notin DuplicateTxIds, NEW o \in Created(t), o \in DOMAIN s.utxos
                 PROVE  FALSE
      BY DEF AlreadyInserted
    <3>1. o.txid = t
      BY <2>5, CreatedFacts
    <3>2. CASE Old(s, o)
      BY <2>8, <3>1, <3>2 DEF Stems
    <3>3. CASE New1(s, o, n)
      BY <2>8, <3>1, <3>3
    <3> QED  BY <2>4, <3>2, <3>3
  <2>11. ~ IndexBroken(s, t) /\ ~ InputMissing(s, t)
    BY <2>5, <2>7, <2>9, ConsistentNotBroken DEF InputMissing
  <2>12. InsertFailure(s, t) = "none"
    BY <2>10, <2>11, NoFailureCases
  <2>13. RunOK(after) /\ after.set.strict = set.strict
    BY <2>3, <2>5, ApplyTxOK
  <2>14. after.set = InsertTx(s, t, height) /\ after.failure = "none"
    BY <2>3, <2>5, <2>12, ApplyTxCases
  <2> DEFINE r == InsertTx(s, t, height)
  <2>15. Pairs(r) = g[n + 1]
    <3>1. g[n + 1] = L!AfterTx(g[n], t)
      BY <1>3, <2>1 DEF IsRunOf, N, t
    <3> QED  BY <2>3, <2>5, <3>1, InsertIsStep
  <2>16. EntriesAfter(s, t, height, r)
    BY <2>5, InsertEntries
  <2> HIDE DEF r
  <2>17. ASSUME NEW o \in DOMAIN r.utxos PROVE Old(r, o) \/ New1(r, o, n + 1)
    <3>1. CASE o \in Created(t)
      <4>1. o.txid = t
        BY <2>5, <3>1, CreatedFacts
      <4>2. r.utxos[o].height = height
        <5> DEFINE out == Tx[t].outputs[o.vout + 1]
        <5>1. r.utxos[o] = [txout |-> out, height |-> height]
          BY <2>16, <3>1 DEF EntriesAfter
        <5> HIDE DEF out
        <5> QED  BY <5>1
      <4>3. n + 1 \in 1 .. n + 1 /\ o.txid = txs[n + 1]
        BY <4>1 DEF t
      <4> QED  BY <4>2, <4>3
    <3>2. CASE o \notin Created(t)
      <4>1. o \in DOMAIN s.utxos /\ r.utxos[o] = s.utxos[o]
        BY <2>16, <2>17, <3>2 DEF EntriesAfter
      <4>2. Old(s, o) => Old(r, o)
        BY <4>1
      <4>3. New1(s, o, n) => New1(r, o, n + 1)
        BY <4>1
      <4> QED  BY <2>4, <4>1, <4>2, <4>3
    <3> QED  BY <3>1, <3>2
  <2>18. P(n + 1)
    BY <2>13, <2>14, <2>15, <2>17 DEF P, after, r
  <2> QED  BY <2>18
<1> HIDE DEF Q
<1>6. N \in Q
  BY <1>0, <1>4, <1>5, NatSetInduction
<1>7. P(N)
  BY <1>0, <1>6 DEF Q
<1>8. \A o : (\E m \in 1 .. N : o.txid = txs[m]) => o.txid \in Range(txs)
  BY <1>0 DEF Range
<1> QED  BY <1>2, <1>3, <1>7, <1>8 DEF run

\* Chains of blocks, each the successor of the one before.
LinkedChain(chain) ==
    chain \in Seq(Block) /\ \A i \in 2 .. Len(chain) : Prev[chain[i]] = chain[i - 1]

LEMMA ChainPast ==
    ASSUME NEW chain, LinkedChain(chain), NEW j \in 1 .. Len(chain), NEW i \in 1 .. j
    PROVE  /\ chain[i] \in Past[chain[j]]
           /\ i # j => chain[i] # chain[j]
<1> DEFINE n == Len(chain)
           P(k) == /\ chain[i] \in Past[chain[k]]
                   /\ i # k => chain[i] # chain[k]
           Q == {d \in Nat : i + d <= n => P(i + d)}
<1>0. n \in Nat /\ \A k \in 1 .. n : chain[k] \in Block
  BY DEF LinkedChain
<1>1. 0 \in Q
  <2>1. i + 0 = i /\ i \in 1 .. n
    BY <1>0
  <2> QED  BY <1>0, <2>1, PastFacts
<1>2. ASSUME NEW d \in Nat, d \in Q PROVE d + 1 \in Q
  <2> SUFFICES ASSUME i + (d + 1) <= n PROVE P(i + (d + 1))
    OBVIOUS
  <2> DEFINE k == i + d
  <2>1. k \in 1 .. n /\ k + 1 \in 2 .. n /\ k + 1 \in 1 .. n /\ i + (d + 1) = k + 1 /\ (k + 1) - 1 = k /\ k <= n
    BY <1>0
  <2>2. P(k)
    BY <1>2, <2>1
  <2> HIDE DEF k
  <2>3. chain[k + 1] \in Block /\ chain[k] \in Block /\ Prev[chain[k + 1]] = chain[k]
    BY <1>0, <2>1 DEF LinkedChain
  <2>4. /\ chain[i] \in Past[chain[k + 1]]
        /\ chain[i] # chain[k + 1]
    BY <2>2, <2>3, SuccessorBeyond
  <2> QED  BY <2>1, <2>4
<1>3. j - i \in Nat /\ i + (j - i) = j /\ j <= n
  BY <1>0
<1> HIDE DEF Q, P
<1>4. j - i \in Q
  BY <1>1, <1>2, <1>3, NatSetInduction
<1>5. P(j)
  BY <1>3, <1>4 DEF Q
<1> QED  BY <1>5 DEF P

\* A block of a chain has no transaction twice, and none of those before it.
LEMMA BlockIsFresh ==
    ASSUME NEW chain, LinkedChain(chain), NEW n \in Nat, n + 1 <= Len(chain)
    PROVE  LET txs == TxData[chain[n + 1]]
               T == UNION {Range(TxData[chain[i]]) : i \in 1 .. n}
           IN  NewTo(txs, T)
<1> DEFINE b == chain[n + 1]
           txs == TxData[b]
           T == UNION {Range(TxData[chain[i]]) : i \in 1 .. n}
<1>0. n + 1 \in 1 .. Len(chain) /\ \A i \in 1 .. n : i \in 1 .. n + 1 /\ i # n + 1
  BY DEF LinkedChain
<1>1. b \in Block /\ txs \in Seq(TxId)
  BY <1>0, TxDataAssumption DEF LinkedChain
<1>2. b \in Past[b]
  BY <1>1, PastFacts
<1>3. \A i \in 1 .. n : chain[i] \in Past[b] /\ chain[i] # b
  BY <1>0, ChainPast
<1> HIDE DEF b
<1>4. ASSUME NEW k \in DOMAIN txs, txs[k] \notin DuplicateTxIds
      PROVE  txs[k] \notin T /\ \A m \in 1 .. k - 1 : txs[m] # txs[k]
  <2>1. ASSUME NEW i \in 1 .. n, txs[k] \in Range(TxData[chain[i]]) PROVE FALSE
    <3>1. PICK j \in DOMAIN TxData[chain[i]] : txs[k] = TxData[chain[i]][j]
      BY <2>1 DEF Range
    <3> QED  BY <1>1, <1>3, <1>4, <3>1, TxsOnceAssumption
  <2>2. ASSUME NEW m \in 1 .. k - 1, txs[m] = txs[k] PROVE FALSE
    <3>1. m \in DOMAIN txs /\ m # k
      BY <1>1
    <3> QED  BY <1>1, <1>2, <1>4, <2>2, <3>1, TxsOnceAssumption
  <2> QED  BY <2>1, <2>2
<1> QED  BY <1>4 DEF b, NewTo

\* Each entry of a set is of one of the first n blocks of a chain, and has the
\* height of that block, or of the one before.
Placed(set, chain, n) ==
    \A o \in DOMAIN set.utxos :
        \E i \in 1 .. n : /\ o.txid \in Range(TxData[chain[i]])
                          /\ set.utxos[o].height \in {i - 1, i}

LEMMA ApplyPlaced ==
    ASSUME NEW chain, LinkedChain(chain), NEW n \in Nat, n + 1 <= Len(chain),
           NEW set, SetOK(set), Placed(set, chain, n), NEW height \in {n, n + 1},
           set.strict => L!Spendable(Pairs(set), TxData[chain[n + 1]])
    PROVE  LET r == ApplyBlock(Start(set), chain[n + 1], height)
           IN  /\ RunOK(r) /\ r.failure = "none" /\ r.set.strict = set.strict
               /\ Pairs(r.set) = L!After(Pairs(set), TxData[chain[n + 1]])
               /\ Placed(r.set, chain, n + 1)
<1> DEFINE b == chain[n + 1]
           txs == TxData[b]
           T == UNION {Range(TxData[chain[i]]) : i \in 1 .. n}
           r == ApplyTxs(Start(set), txs, height)
<1>1. b \in Block /\ txs \in Seq(TxId)
  <2>1. n + 1 \in 1 .. Len(chain)
    BY DEF LinkedChain
  <2> QED  BY <2>1, TxDataAssumption DEF LinkedChain
<1>2. NewTo(txs, T)
  BY BlockIsFresh
<1>3. Stems(set, T)
  BY DEF Placed, Stems
<1>4. ApplyBlock(Start(set), chain[n + 1], height) = r
  BY DEF ApplyBlock
<1>5. SetOK(set) /\ (set.strict => L!Spendable(Pairs(set), txs))
  OBVIOUS
<1> HIDE DEF txs, T
<1>6. /\ RunOK(r) /\ r.failure = "none" /\ r.set.strict = set.strict
      /\ Pairs(r.set) = L!After(Pairs(set), txs)
      /\ \A o \in DOMAIN r.set.utxos :
           \/ o \in DOMAIN set.utxos /\ r.set.utxos[o] = set.utxos[o]
           \/ o.txid \in Range(txs) /\ r.set.utxos[o].height = height
  BY <1>1, <1>2, <1>3, <1>5, ApplyFresh
<1> HIDE DEF r
<1>7. ASSUME NEW o \in DOMAIN r.set.utxos
      PROVE  \E i \in 1 .. n + 1 : /\ o.txid \in Range(TxData[chain[i]])
                                   /\ r.set.utxos[o].height \in {i - 1, i}
  <2>1. CASE o \in DOMAIN set.utxos /\ r.set.utxos[o] = set.utxos[o]
    <3>1. PICK i \in 1 .. n : /\ o.txid \in Range(TxData[chain[i]])
                              /\ set.utxos[o].height \in {i - 1, i}
      BY <2>1 DEF Placed
    <3> QED  BY <2>1, <3>1
  <2>2. CASE o.txid \in Range(txs) /\ r.set.utxos[o].height = height
    <3>1. n + 1 \in 1 .. n + 1 /\ height \in {(n + 1) - 1, n + 1}
      OBVIOUS
    <3> QED  BY <2>2, <3>1 DEF txs
  <2> QED  BY <1>6, <2>1, <2>2
<1> QED  BY <1>4, <1>6, <1>7 DEF Placed, txs

-----------------------------------------------------------------------------
(* The set a query builds.                                                 *)

\* The run of ApplyBlocks, one block at a time.
LEMMA ApplyBlocksRun ==
    ASSUME NEW set, NEW blocks \in Seq(Block), NEW height
    PROVE  \E f : /\ f[0] = Start(set)
                  /\ \A n \in 1 .. Len(blocks) :
                       f[n] = ApplyBlock(f[n - 1], blocks[n], height + n)
                  /\ ApplyBlocks(set, blocks, height) = f[Len(blocks)]
<1> DEFINE N == Len(blocks)
           Is(f, m) == f = [n \in 0 .. m |->
                              IF n = 0 THEN Start(set)
                              ELSE ApplyBlock(f[n - 1], blocks[n], height + n)]
           T == {m \in Nat : \E f : Is(f, m)}
<1>1. 0 \in T
  <2> DEFINE f == [n \in 0 .. 0 |-> Start(set)]
  <2>1. Is(f, 0)
    OBVIOUS
  <2> QED  BY <2>1
<1>2. ASSUME NEW m \in Nat, m \in T PROVE m + 1 \in T
  <2>1. PICK f : Is(f, m)
    BY <1>2
  <2> DEFINE last == ApplyBlock(f[m], blocks[m + 1], height + (m + 1))
             g == [n \in 0 .. m + 1 |-> IF n <= m THEN f[n] ELSE last]
  <2>2. \A n \in 0 .. m + 1 : n # 0 => n - 1 \in 0 .. m /\ g[n - 1] = f[n - 1]
    OBVIOUS
  <2>3. \A n \in 0 .. m : f[n] = IF n = 0 THEN Start(set)
                                 ELSE ApplyBlock(f[n - 1], blocks[n], height + n)
    BY <2>1
  <2> HIDE DEF Is, last
  <2>4. ASSUME NEW n \in 0 .. m + 1
        PROVE  g[n] = IF n = 0 THEN Start(set)
                      ELSE ApplyBlock(g[n - 1], blocks[n], height + n)
    <3>1. CASE n = 0
      BY <2>3, <3>1
    <3>2. CASE n # 0 /\ n <= m
      <4>1. n \in 0 .. m /\ g[n] = f[n] /\ g[n - 1] = f[n - 1]
        BY <2>2, <3>2
      <4> HIDE DEF g
      <4> QED  BY <2>3, <3>2, <4>1
    <3>3. CASE n = m + 1
      <4>1. n # 0 /\ n - 1 = m /\ g[n] = last /\ g[n - 1] = f[m]
        BY <2>2, <3>3
      <4> HIDE DEF g
      <4> QED  BY <3>3, <4>1 DEF last
    <3> QED  BY <3>1, <3>2, <3>3
  <2>5. DOMAIN g = 0 .. m + 1 /\ g = [n \in 0 .. m + 1 |-> g[n]]
    OBVIOUS
  <2> HIDE DEF g
  <2>6. g = [n \in 0 .. m + 1 |-> IF n = 0 THEN Start(set)
                                  ELSE ApplyBlock(g[n - 1], blocks[n], height + n)]
    BY <2>4, <2>5
  <2>7. Is(g, m + 1)
    BY <2>6 DEF Is
  <2> QED  BY <2>7
<1>3. N \in Nat
  OBVIOUS
<1> HIDE DEF T
<1>4. N \in T
  BY <1>1, <1>2, <1>3, NatSetInduction
<1> DEFINE f == CHOOSE f : Is(f, N)
<1>5. Is(f, N)
  BY <1>4 DEF T
<1>6. ApplyBlocks(set, blocks, height) = f[N]
  BY DEF ApplyBlocks
<1> HIDE DEF f
<1>7. f[0] = Start(set)
  BY <1>3, <1>5
<1>8. ASSUME NEW n \in 1 .. N PROVE f[n] = ApplyBlock(f[n - 1], blocks[n], height + n)
  <2>1. n \in 0 .. N /\ n # 0
    BY <1>3
  <2> QED  BY <1>5, <2>1
<1> QED  BY <1>6, <1>7, <1>8

\* A part of the outputs that has all those of an address stays one when the
\* same transactions are applied to both.
PartOf(part, all, a) == part \subseteq all /\ OfAddress(all, a) \subseteq part

LEMMA PartStep ==
    ASSUME NEW part, NEW all, NEW a, PartOf(part, all, a), NEW t
    PROVE  PartOf(L!AfterTx(part, t), L!AfterTx(all, t), a)
BY DEF PartOf, OfAddress, L!AfterTx

LEMMA PartAfter ==
    ASSUME NEW part, NEW all, NEW a, PartOf(part, all, a), NEW txs \in Seq(TxId)
    PROVE  PartOf(L!After(part, txs), L!After(all, txs), a)
<1> DEFINE N == Len(txs)
<1>1. PICK f : IsRunOf(f, part, txs) /\ L!After(part, txs) = f[N]
  BY AfterRun
<1>2. PICK g : IsRunOf(g, all, txs) /\ L!After(all, txs) = g[N]
  BY AfterRun
<1> DEFINE Q == {n \in Nat : n <= N => PartOf(f[n], g[n], a)}
<1>3. 0 \in Q
  BY <1>1, <1>2 DEF IsRunOf
<1>4. ASSUME NEW n \in Nat, n \in Q PROVE n + 1 \in Q
  <2> SUFFICES ASSUME n + 1 <= N PROVE PartOf(f[n + 1], g[n + 1], a)
    OBVIOUS
  <2>1. n + 1 \in 1 .. N /\ n <= N /\ (n + 1) - 1 = n
    OBVIOUS
  <2>2. PartOf(f[n], g[n], a)
    BY <1>4, <2>1
  <2>3. f[n + 1] = L!AfterTx(f[n], txs[n + 1]) /\ g[n + 1] = L!AfterTx(g[n], txs[n + 1])
    BY <1>1, <1>2, <2>1 DEF IsRunOf
  <2> QED  BY <2>2, <2>3, PartStep
<1> HIDE DEF Q
<1>5. N \in Nat
  OBVIOUS
<1>6. N \in Q
  BY <1>3, <1>4, <1>5, NatSetInduction
<1> QED  BY <1>1, <1>2, <1>6 DEF Q

\* Blocks applied to such a part of what the first blocks of a chain leave.
LEMMA QueryRun ==
    ASSUME NEW chain, LinkedChain(chain), NEW g, IsReplay(g, chain),
           NEW height \in Nat, NEW blocks \in Seq(Block), height + Len(blocks) = Len(chain),
           \A n \in 1 .. Len(blocks) : blocks[n] = chain[height + n],
           NEW set, SetOK(set), set.strict = FALSE, Placed(set, chain, height),
           NEW a, PartOf(Pairs(set), g[height], a)
    PROVE  LET r == ApplyBlocks(set, blocks, height)
           IN  /\ RunOK(r) /\ r.failure = "none"
               /\ Placed(r.set, chain, Len(chain))
               /\ PartOf(Pairs(r.set), g[Len(chain)], a)
<1> DEFINE N == Len(blocks)
<1>0. N \in Nat /\ Len(chain) \in Nat
  BY DEF LinkedChain
<1>1. PICK f : /\ f[0] = Start(set)
               /\ \A n \in 1 .. N : f[n] = ApplyBlock(f[n - 1], blocks[n], height + n)
               /\ ApplyBlocks(set, blocks, height) = f[N]
  BY ApplyBlocksRun
<1> DEFINE P(n) == /\ RunOK(f[n]) /\ f[n].failure = "none" /\ f[n].set.strict = FALSE
                   /\ Placed(f[n].set, chain, height + n)
                   /\ PartOf(Pairs(f[n].set), g[height + n], a)
           Q == {n \in Nat : n <= N => P(n)}
<1>2. 0 \in Q
  <2>1. height + 0 = height
    OBVIOUS
  <2>2. RunOK(f[0]) /\ f[0].failure = "none" /\ f[0].set = set
    BY <1>1, StartOK
  <2> QED  BY <2>1, <2>2
<1>3. ASSUME NEW n \in Nat, n \in Q PROVE n + 1 \in Q
  <2>0. n + 1 \in Nat
    OBVIOUS
  <2>a. n <= N => P(n)
    BY <1>3
  <2> HIDE DEF P
  <2> SUFFICES ASSUME n + 1 <= N PROVE P(n + 1)
    BY <2>0
  <2> DEFINE h == height + n
             before == f[n]
             s == before.set
             b == chain[h + 1]
  <2>1. /\ n + 1 \in 1 .. N /\ n <= N /\ (n + 1) - 1 = n
        /\ h \in Nat /\ h + 1 \in 1 .. Len(chain) /\ h + 1 <= Len(chain) /\ (h + 1) - 1 = h
        /\ height + (n + 1) = h + 1
    BY <1>0
  <2>2. P(n)
    BY <2>a, <2>1
  <2>3. /\ before = Start(s) /\ SetOK(s) /\ s.strict = FALSE
        /\ Placed(s, chain, h) /\ PartOf(Pairs(s), g[h], a)
    BY <2>2 DEF P, RunOK, Start
  <2>4. f[n + 1] = ApplyBlock(before, b, h + 1)
    BY <1>1, <2>1
  <2>5. b \in Block /\ TxData[b] \in Seq(TxId)
    BY <2>1, TxDataAssumption DEF LinkedChain
  <2>6. g[h + 1] = L!After(g[h], TxData[b])
    BY <2>1 DEF IsReplay
  <2>7. h + 1 \in {h, h + 1}
    OBVIOUS
  <2> HIDE DEF h, before, s
  <2> DEFINE r == ApplyBlock(Start(s), chain[h + 1], h + 1)
  <2>8. /\ RunOK(r) /\ r.failure = "none" /\ r.set.strict = s.strict
        /\ Pairs(r.set) = L!After(Pairs(s), TxData[chain[h + 1]])
        /\ Placed(r.set, chain, h + 1)
    BY <2>1, <2>3, <2>7, ApplyPlaced
  <2>9. f[n + 1] = r
    BY <2>3, <2>4
  <2> HIDE DEF r
  <2>10. PartOf(Pairs(r.set), g[h + 1], a)
    BY <2>3, <2>5, <2>6, <2>8, PartAfter
  <2> QED  BY <2>1, <2>3, <2>8, <2>9, <2>10 DEF P
<1> HIDE DEF Q
<1>4. N \in Q
  BY <1>0, <1>2, <1>3, NatSetInduction
<1>5. P(N)
  BY <1>0, <1>4 DEF Q
<1> QED  BY <1>1, <1>5

-----------------------------------------------------------------------------
(* The chain the queries see.                                              *)

LEMMA BlockchainOK ==
    ASSUME NEW tree, TreeOK(tree), NEW c \in Blockchains(tree)
    PROVE  /\ c \in Seq(Range(tree)) /\ Len(c) \in 1 .. Depth(tree) + 1
           /\ c[1] = Root(tree)
           /\ \A i \in 2 .. Len(c) : Prev[c[i]] = c[i - 1]
<1>1. PICK tip \in Tips(tree) :
        c = [i \in 1 .. Len(tip) + 1 |-> tree[SubSeq(tip, 1, i - 1)]]
  BY DEF Blockchains
<1> DEFINE D == DOMAIN tree
           part(i) == SubSeq(tip, 1, i - 1)
           n == Len(tip)
<1>2. /\ Shape(D) /\ Linked(tree) /\ tip \in D /\ tip \in Path /\ n \in Nat
      /\ n <= Depth(tree) /\ Depth(tree) \in Nat
  BY PathFacts, DepthIsNat DEF TreeOK, Shape, Tips
<1>3. \A i \in 1 .. n + 1 : part(i) \in Path /\ Len(part(i)) = i - 1
  <2> SUFFICES ASSUME NEW i \in 1 .. n + 1 PROVE part(i) \in Path /\ Len(part(i)) = i - 1
    OBVIOUS
  <2>1. tip \in Seq(Nat \ {0}) /\ i - 1 \in 0 .. n
    BY <1>2 DEF Path
  <2> QED  BY <2>1 DEF Path
<1>4. ASSUME NEW i \in 1 .. n
      PROVE  tip[i] \in Nat \ {0} /\ part(i + 1) = Child(part(i), tip[i])
  <2>1. tip \in Seq(Nat \ {0}) /\ i - 1 \in 0 .. n /\ i \in 1 .. n
    BY <1>2 DEF Path
  <2>2. tip[i] \in Nat \ {0}
    BY <2>1
  <2>3. SubSeq(tip, 1, i) = Append(SubSeq(tip, 1, i - 1), tip[i])
    BY <2>1
  <2>4. (i + 1) - 1 = i
    OBVIOUS
  <2>5. Child(part(i), tip[i]) = Append(part(i), tip[i])
    BY DEF Child
  <2> QED  BY <2>2, <2>3, <2>4, <2>5
<1>5. part(n + 1) = tip /\ part(1) = << >>
  <2>1. tip \in Seq(Nat \ {0}) /\ (n + 1) - 1 = n /\ 1 - 1 = 0
    BY <1>2 DEF Path
  <2>2. SubSeq(tip, 1, n) = tip
    BY <2>1
  <2>3. SubSeq(tip, 1, 0) = << >>
    BY <2>1
  <2> QED  BY <2>1, <2>2, <2>3
<1> HIDE DEF part
<1>6. \A i \in 1 .. n + 1 : part(i) \in D
  <2> DEFINE Q == {k \in Nat : k <= n => part(n + 1 - k) \in D}
  <2>1. 0 \in Q
    BY <1>2, <1>5
  <2>2. ASSUME NEW k \in Nat, k \in Q PROVE k + 1 \in Q
    <3> SUFFICES ASSUME k + 1 <= n PROVE part(n + 1 - (k + 1)) \in D
      OBVIOUS
    <3> DEFINE i == n + 1 - (k + 1)
    <3>1. i \in 1 .. n /\ i \in 1 .. n + 1 /\ i + 1 = n + 1 - k /\ k <= n
      BY <1>2
    <3>2. part(n + 1 - k) \in D
      BY <2>2, <3>1
    <3> HIDE DEF i
    <3>3. Child(part(i), tip[i]) \in D /\ part(i) \in Path /\ tip[i] \in Nat \ {0}
      BY <1>3, <1>4, <3>1, <3>2
    <3>4. part(i) \in D
      BY <1>2, <3>3, ParentInShape
    <3> QED  BY <3>4 DEF i
  <2> HIDE DEF Q
  <2>3. Nat \subseteq Q
    BY <2>1, <2>2, NatSetInduction
  <2>4. ASSUME NEW i \in 1 .. n + 1 PROVE part(i) \in D
    <3> DEFINE k == n + 1 - i
    <3>1. k \in Nat /\ k <= n /\ n + 1 - k = i
      BY <1>2
    <3> HIDE DEF k
    <3>2. k \in Q
      BY <2>3, <3>1
    <3> QED  BY <3>1, <3>2 DEF Q
  <2> QED  BY <2>4
<1>7. c = [i \in 1 .. n + 1 |-> tree[part(i)]]
  BY <1>1 DEF part
<1>8. c \in Seq(Range(tree)) /\ Len(c) = n + 1 /\ \A i \in 1 .. n + 1 : c[i] = tree[part(i)]
  <2>1. \A i \in 1 .. n + 1 : tree[part(i)] \in Range(tree)
    BY <1>6 DEF Range
  <2>2. n + 1 \in Nat
    BY <1>2
  <2> HIDE DEF n
  <2> QED  BY <1>7, <2>1, <2>2
<1>9. ASSUME NEW i \in 2 .. n + 1 PROVE Prev[c[i]] = c[i - 1]
  <2>1. i - 1 \in 1 .. n /\ i \in 1 .. n + 1 /\ i - 1 \in 1 .. n + 1 /\ (i - 1) + 1 = i
    BY <1>2
  <2>2. /\ part(i) = Child(part(i - 1), tip[i - 1]) /\ tip[i - 1] \in Nat \ {0}
        /\ part(i - 1) \in Path /\ part(i) \in D
    BY <1>3, <1>4, <1>6, <2>1
  <2>3. Prev[tree[part(i)]] = tree[part(i - 1)]
    BY <1>2, <2>2 DEF Linked
  <2> QED  BY <1>8, <2>1, <2>3
<1>10. c[1] = Root(tree)
  BY <1>2, <1>5, <1>8 DEF Root
<1> QED  BY <1>2, <1>8, <1>9, <1>10

LEMMA BoundExists ==
    ASSUME NEW n \in Nat, NEW f, \A i \in 1 .. n : f[i] \in Nat
    PROVE  \E m \in Nat : \A i \in 1 .. n : f[i] <= m
<1> DEFINE P(k) == \E m \in Nat : \A i \in 1 .. k : f[i] <= m
           Q == {k \in Nat : k <= n => P(k)}
<1>1. 0 \in Q
  OBVIOUS
<1>2. ASSUME NEW k \in Nat, k \in Q, k + 1 <= n PROVE P(k + 1)
  <2>1. k <= n
    BY <1>2
  <2>2. PICK m \in Nat : \A i \in 1 .. k : f[i] <= m
    BY <1>2, <2>1
  <2> DEFINE x == f[k + 1]
             top == IF x <= m THEN m ELSE x
  <2>3. x \in Nat
    BY <1>2
  <2>4. top \in Nat /\ m <= top /\ x <= top
    BY <2>3
  <2> HIDE DEF top, x
  <2>5. ASSUME NEW i \in 1 .. k + 1 PROVE f[i] <= top
    <3>1. CASE i \in 1 .. k
      <4>1. f[i] <= m /\ f[i] \in Nat
        BY <1>2, <2>2, <3>1
      <4> QED  BY <2>4, <4>1
    <3>2. CASE i = k + 1
      BY <2>4, <3>2 DEF x
    <3> QED  BY <3>1, <3>2
  <2> QED  BY <2>4, <2>5
<1> HIDE DEF P
<1>3. ASSUME NEW k \in Nat, k \in Q PROVE k + 1 \in Q
  BY <1>2, <1>3
<1> HIDE DEF Q
<1>4. n \in Q
  BY <1>1, <1>3, NatSetInduction
<1> QED  BY <1>4 DEF P, Q

\* What sequences have in common is where one of them begins, and nothing
\* longer is.
LEMMA CommonPart ==
    ASSUME NEW S, NEW C \in SUBSET Seq(S), C # {}
    PROVE  /\ \E c \in C : \E l \in 0 .. Len(c) : LongestCommonPrefix(C) = SubSeq(c, 1, l)
           /\ LongestCommonPrefix(C) \in CommonPrefixes(C)
           /\ \A other \in CommonPrefixes(C) : Len(other) <= Len(LongestCommonPrefix(C))
<1> DEFINE P == CommonPrefixes(C)
           lengths == {Len(p) : p \in P}
<1>1. PICK c0 \in C : TRUE
  OBVIOUS
<1>2. ASSUME NEW p \in P PROVE \E c \in C : \E l \in 0 .. Len(c) : p = SubSeq(c, 1, l)
  BY <1>2 DEF CommonPrefixes, Prefixes
<1>3. ASSUME NEW p \in P PROVE Len(p) \in Nat /\ Len(p) <= Len(c0)
  <2>1. PICK c \in C : \E l \in 0 .. Len(c) : p = SubSeq(c, 1, l)
    BY <1>2
  <2>2. PICK l \in 0 .. Len(c) : p = SubSeq(c, 1, l)
    BY <2>1
  <2>3. c \in Seq(S) /\ l \in Nat
    OBVIOUS
  <2>4. Len(SubSeq(c, 1, l)) = l
    BY <2>3
  <2>5. IsPrefix(p, c0)
    BY DEF CommonPrefixes
  <2> QED  BY <2>2, <2>3, <2>4, <2>5 DEF IsPrefix
<1>4. << >> \in P
  <2>1. c0 \in Seq(S) /\ 0 \in 0 .. Len(c0)
    OBVIOUS
  <2>2. SubSeq(c0, 1, 0) = << >>
    BY <2>1
  <2>3. << >> \in Prefixes(c0)
    BY <2>1, <2>2 DEF Prefixes
  <2>4. ASSUME NEW t \in C PROVE IsPrefix(<< >>, t)
    <3>1. t \in Seq(S) /\ Len(t) \in Nat /\ Len(<< >>) = 0
      OBVIOUS
    <3>2. SubSeq(t, 1, 0) = << >> /\ SubSeq(<< >>, 1, 0) = << >>
      BY <3>1
    <3> QED  BY <3>1, <3>2 DEF IsPrefix
  <2> QED  BY <2>3, <2>4 DEF CommonPrefixes
<1> HIDE DEF P
<1>5. lengths \in SUBSET Nat /\ lengths # {} /\ Len(c0) \in Nat /\ \A n \in lengths : n <= Len(c0)
  <2>1. c0 \in Seq(S)
    OBVIOUS
  <2>2. Len(c0) \in Nat
    BY <2>1
  <2> QED  BY <1>3, <1>4, <2>2
<1>6. IsFiniteSet(lengths)
  <2> HIDE DEF lengths
  <2>1. lengths \in SUBSET Nat /\ Len(c0) \in Nat /\ \A n \in lengths : n <= Len(c0)
    BY <1>5
  <2> DEFINE top == Len(c0)
  <2> HIDE DEF top
  <2>2. lengths \in SUBSET Nat /\ top \in Nat /\ \A n \in lengths : n <= top
    BY <2>1 DEF top
  <2> QED  BY <2>2, FS_BoundedSetOfNaturals
<1>7. Max(lengths) \in lengths /\ \A n \in lengths : n <= Max(lengths)
  <2> HIDE DEF lengths
  <2> QED  BY <1>5, <1>6, MaxExists
<1>8. PICK longest \in P : Len(longest) = Max(lengths)
  BY <1>7
<1>9. \A other \in P : Len(other) <= Len(longest)
  BY <1>7, <1>8
<1>10. /\ LongestCommonPrefix(C) \in P
       /\ \A other \in P : Len(other) <= Len(LongestCommonPrefix(C))
  BY <1>9 DEF LongestCommonPrefix, P
<1> QED  BY <1>2, <1>10 DEF P

\* A chain of blocks that begins on top of a block.
ChainFrom(c, anchor) ==
    /\ LinkedChain(c)
    /\ Len(c) >= 1 => Prev[c[1]] = anchor

LEMMA ChainFromPart ==
    ASSUME NEW c, NEW anchor, ChainFrom(c, anchor), NEW l \in 0 .. Len(c)
    PROVE  /\ ChainFrom(SubSeq(c, 1, l), anchor) /\ Len(SubSeq(c, 1, l)) = l
           /\ \A i \in 1 .. l : SubSeq(c, 1, l)[i] = c[i]
<1> DEFINE d == SubSeq(c, 1, l)
<1>1. c \in Seq(Block) /\ Len(c) \in Nat
  BY DEF ChainFrom, LinkedChain
<1>2. d \in Seq(Block) /\ Len(d) = l /\ \A i \in 1 .. l : d[i] = c[i]
  BY <1>1
<1> HIDE DEF d
<1>3. \A i \in 2 .. l : i \in 1 .. l /\ i - 1 \in 1 .. l /\ i \in 2 .. Len(c)
  BY <1>1
<1>4. l >= 1 => 1 \in 1 .. l /\ Len(c) >= 1
  BY <1>1
<1> QED  BY <1>2, <1>3, <1>4 DEF ChainFrom, LinkedChain, d

\* The chain the queries see goes on from the last stable block.
LEMMA CurrentChainOK ==
    ASSUME NEW s, StateOK(s)
    PROVE  ChainFrom(Chain(s), s.latest_stable_block_hash)
<1> DEFINE trees == s.unstable_blocks
           anchor == s.latest_stable_block_hash
           I == Attached(trees, anchor)
           all == ChainsOn(trees, anchor)
<1>1. /\ ForestOK(trees) /\ GetBlocks(trees) \subseteq Block
      /\ Len(trees) \in Nat /\ DOMAIN trees = 1 .. Len(trees)
  BY ForestIndices DEF StateOK
<1>2. \A i \in 1 .. Len(trees) : /\ TreeOK(trees[i]) /\ Range(trees[i]) \subseteq Block
                                 /\ Depth(trees[i]) + 1 \in Nat
  BY <1>1, DepthIsNat DEF ForestOK, GetBlocks
<1>3. PICK m \in Nat : \A i \in 1 .. Len(trees) : Depth(trees[i]) + 1 <= m
  <2> DEFINE f == [i \in 1 .. Len(trees) |-> Depth(trees[i]) + 1]
             n == Len(trees)
  <2>1. n \in Nat /\ \A i \in 1 .. n : f[i] \in Nat /\ f[i] = Depth(trees[i]) + 1
    BY <1>1, <1>2
  <2> HIDE DEF f, n
  <2>2. \E m \in Nat : \A i \in 1 .. n : f[i] <= m
    BY <2>1, BoundExists
  <2> QED  BY <2>1, <2>2 DEF n
<1>4. ASSUME NEW c \in all PROVE ChainFrom(c, anchor) /\ Len(c) \in Nat /\ Len(c) <= m
  <2>1. PICK i \in I : c \in Blockchains(trees[i])
    BY DEF ChainsOn
  <2> DEFINE tree == trees[i]
  <2>2. i \in 1 .. Len(trees) /\ Prev[Root(tree)] = anchor
    BY <1>1 DEF Attached, IsAttached
  <2>3. TreeOK(tree) /\ Range(tree) \subseteq Block /\ Depth(tree) + 1 \in Nat /\ Depth(tree) + 1 <= m
    BY <1>2, <1>3, <2>2
  <2> HIDE DEF tree
  <2>4. /\ c \in Seq(Range(tree)) /\ Len(c) \in 1 .. Depth(tree) + 1
        /\ c[1] = Root(tree)
        /\ \A j \in 2 .. Len(c) : Prev[c[j]] = c[j - 1]
    BY <2>1, <2>3, BlockchainOK DEF tree
  <2>5. c \in Seq(Block)
    BY <2>3, <2>4
  <2>6. Len(c) \in Nat /\ Len(c) <= m
    BY <2>3, <2>4
  <2>7. Prev[c[1]] = anchor
    BY <2>2, <2>4 DEF tree
  <2> QED  BY <2>4, <2>5, <2>6, <2>7 DEF ChainFrom, LinkedChain
<1>5. CASE all = {}
  <2>1. Chain(s) = << >>
    BY <1>5 DEF Chain, CurrentChain
  <2>2. << >> \in Seq(Block) /\ Len(<< >>) = 0
    OBVIOUS
  <2> QED  BY <2>1, <2>2 DEF ChainFrom, LinkedChain
<1>6. CASE all # {}
  <2> DEFINE longest == LongestChainsOn(trees, anchor)
             lengths == {Len(c) : c \in all}
  <2>1. lengths \in SUBSET Nat /\ lengths # {} /\ \A n \in lengths : n <= m
    BY <1>4, <1>6
  <2>2. Max(lengths) \in lengths /\ \A n \in lengths : n <= Max(lengths)
    <3> HIDE DEF lengths
    <3>1. IsFiniteSet(lengths)
      BY <2>1, FS_BoundedSetOfNaturals
    <3> QED  BY <2>1, <3>1, MaxExists
  <2>3. longest # {}
    <3>1. PICK c \in all : Len(c) = Max(lengths)
      BY <2>2
    <3>2. \A d \in all : Len(d) <= Len(c)
      BY <2>2, <3>1
    <3> QED  BY <3>2 DEF LongestChainsOn
  <2>4. longest \in SUBSET Seq(Block) /\ \A c \in longest : ChainFrom(c, anchor)
    BY <1>4 DEF LongestChainsOn, ChainFrom, LinkedChain
  <2>5. Chain(s) = LongestCommonPrefix(longest)
    BY <1>6 DEF Chain, CurrentChain
  <2> HIDE DEF longest
  <2>6. PICK c \in longest : \E l \in 0 .. Len(c) : LongestCommonPrefix(longest) = SubSeq(c, 1, l)
    BY <2>3, <2>4, CommonPart
  <2>7. PICK l \in 0 .. Len(c) : LongestCommonPrefix(longest) = SubSeq(c, 1, l)
    BY <2>6
  <2>8. ChainFrom(c, anchor)
    BY <2>4
  <2> HIDE DEF anchor
  <2>9. ChainFrom(SubSeq(c, 1, l), anchor)
    BY <2>8, ChainFromPart
  <2> QED  BY <2>5, <2>7, <2>9 DEF anchor
<1> QED  BY <1>5, <1>6

\* The blocks a query applies are where that chain begins, and those it leaves
\* out have too few confirmations.
LEMMA ConfirmedOK ==
    ASSUME NEW s, StateOK(s), NEW m \in Nat
    PROVE  \E k \in 0 .. Len(Chain(s)) :
             /\ Confirmed(s, m) = SubSeq(Chain(s), 1, k)
             /\ Len(Chain(s)) \in Nat
             /\ k >= 1 /\ m >= 1 => Len(Chain(s)) - k + 1 >= m
             /\ k = 0 \/ m = 0 \/ Len(Chain(s)) - k + 1 = m
<1> DEFINE c == Chain(s)
           h == s.height
           main == MainChainHeight(s)
           S == {i \in DOMAIN c : main - (h + i) + 1 >= m}
           n == Len(c)
<1>1. n \in Nat /\ DOMAIN c = 1 .. n /\ h \in Nat /\ main = n + h
  <2>1. ChainFrom(c, s.latest_stable_block_hash) /\ h \in Nat
    BY CurrentChainOK DEF StateOK
  <2> QED  BY <2>1 DEF ChainFrom, LinkedChain, MainChainHeight
<1>2. Confirmed(s, m) = SubSeq(c, 1, Cardinality(S))
  BY DEF Confirmed
<1> HIDE DEF c, h, main, n
<1> DEFINE k == IF m = 0 THEN n ELSE IF m >= n + 1 THEN 0 ELSE n - m + 1
<1>3. k \in 0 .. n
  BY <1>1
<1>4. S = 1 .. k
  <2>1. ASSUME NEW i \in S PROVE i \in 1 .. k
    BY <1>1
  <2>2. ASSUME NEW i \in 1 .. k PROVE i \in S
    BY <1>1
  <2> HIDE DEF S, k
  <2> QED  BY <2>1, <2>2
<1> HIDE DEF S
<1>5. Cardinality(S) = k
  <2>1. k \in Nat /\ (1 > k => k = 0) /\ k - 1 + 1 = k
    BY <1>1, <1>3
  <2> HIDE DEF k
  <2>2. Cardinality(1 .. k) = IF 1 > k THEN 0 ELSE k - 1 + 1
    BY <2>1, FS_Interval
  <2> QED  BY <1>4, <2>1, <2>2
<1>6. /\ k >= 1 /\ m >= 1 => n - k + 1 >= m
      /\ k = 0 \/ m = 0 \/ n - k + 1 = m
  BY <1>1
<1> HIDE DEF k
<1> QED  BY <1>1, <1>2, <1>3, <1>5, <1>6 DEF c, n

-----------------------------------------------------------------------------
(* The state and the chain it stands for.                                  *)

\* The UTXO set holds what the stable chain leaves unspent, each output with
\* the height of its block, or of the one before.
QueryInv ==
    /\ StoreInv
    /\ stable[1] = Genesis
    /\ Pairs(state.utxos) = Replay(stable)
    /\ Placed(state.utxos, stable, Len(stable))

LEMMA InitQuery == Init => QueryInv
<1> SUFFICES ASSUME Init PROVE QueryInv
  OBVIOUS
<1> DEFINE new == New(TRUE)
           chain == stable
<1>1. stable = <<Genesis>> /\ state = NewState /\ Genesis \in Block
  BY GenesisAssumption DEF Init
<1>2. stable \in Seq(Block) /\ Len(stable) = 1 /\ stable[1] = Genesis
  BY <1>1
<1>3. LinkedChain(stable)
  BY <1>2 DEF LinkedChain
<1>4. SetOK(new) /\ new.strict = TRUE /\ DOMAIN new.utxos = {}
  BY NewOK
<1>5. Placed(new, stable, 0)
  BY <1>4 DEF Placed
<1>6. state.utxos = ApplyBlock(Start(new), Genesis, 1).set
  BY <1>1 DEF NewState
<1>7. ApplyBlock(Start(new), Genesis, 1).failure = "none"
  BY NewAssumption
<1> HIDE DEF new
<1>8. L!Spendable(Pairs(new), TxData[Genesis])
  BY <1>1, <1>4, <1>7, BlockIsAfter
<1>9. Placed(state.utxos, stable, 1)
  <2> DEFINE n == 0
             height == 1
             r == ApplyBlock(Start(new), chain[n + 1], height)
  <2>1. n \in Nat /\ n + 1 <= Len(chain) /\ height \in {n, n + 1} /\ n + 1 = 1
    BY <1>2
  <2>2. new.strict => L!Spendable(Pairs(new), TxData[chain[n + 1]])
    BY <1>2, <1>8
  <2>3. Placed(new, chain, n) /\ LinkedChain(chain)
    BY <1>3, <1>5
  <2>4. r.set = state.utxos
    BY <1>2, <1>6
  <2> HIDE DEF n, height, chain
  <2>5. Placed(r.set, chain, n + 1)
    BY <1>4, <2>1, <2>2, <2>3, ApplyPlaced
  <2> HIDE DEF r
  <2> QED  BY <2>1, <2>4, <2>5 DEF chain
<1>10. Pairs(state.utxos) = Replay(stable)
  <2>1. Pairs(state.utxos) = L!After({}, TxData[Genesis])
    BY <1>1, NewStateOK
  <2>2. PICK f : IsReplay(f, stable) /\ Replay(stable) = f[Len(stable)]
    BY <1>2, ReplayRun
  <2>3. 1 \in 1 .. Len(stable) /\ 1 - 1 = 0
    BY <1>2
  <2>4. f[1] = L!After(f[0], TxData[stable[1]]) /\ f[0] = {}
    BY <2>2, <2>3 DEF IsReplay
  <2> QED  BY <1>2, <2>1, <2>2, <2>4
<1>11. StoreInv
  BY InitInv
<1> QED  BY <1>2, <1>9, <1>10, <1>11 DEF QueryInv

\* The block that is popped goes into the set if it spends what is there.
LEMMA ProcessedOK ==
    ASSUME QueryInv, NEW block \in Block, Stabilises(state, block),
           L!Spendable(Pairs(state.utxos), TxData[Popped(state, block)])
    PROVE  LET longer == Append(stable, Popped(state, block))
           IN  /\ Prev[Popped(state, block)] = Anchor
               /\ Processed(state, block).failure = "none"
               /\ Placed(Processed(state, block).set, longer, Len(longer))
<1> DEFINE b == Popped(state, block)
           chain == Append(stable, b)
           n == Len(stable)
           set == state.utxos
           height == state.height
<1>1. StateOK(state) /\ stable \in Seq(Block) /\ stable # << >> /\ FieldsAgree
  BY DEF QueryInv, StoreInv
<1>2. b \in Block /\ Prev[b] = Anchor
  BY <1>1, PoppedOK DEF Anchor
<1>3. /\ Prev[b] = Last(stable) /\ height = n
      /\ \A i \in 2 .. Len(stable) : Prev[stable[i]] = stable[i - 1]
  BY <1>1, <1>2 DEF FieldsAgree
<1>4. SetOK(set) /\ L!Spendable(Pairs(set), TxData[b]) /\ Placed(set, stable, n) /\ n \in Nat
  BY <1>1 DEF StateOK, QueryInv
<1>5. Processed(state, block) = ApplyBlock(Start(set), b, height)
  BY DEF Processed
<1> HIDE DEF b, set, height
<1>6. /\ chain \in Seq(Block) /\ Len(chain) = n + 1 /\ chain[n + 1] = b
      /\ \A i \in 1 .. n : chain[i] = stable[i]
  BY <1>1, <1>2
<1>7. LinkedChain(chain)
  BY <1>1, <1>2, <1>3, ChainGrows DEF LinkedChain
<1> HIDE DEF chain
<1>8. Placed(set, chain, n)
  BY <1>4, <1>6 DEF Placed
<1>9. n + 1 <= Len(chain) /\ height \in {n, n + 1}
  BY <1>3, <1>6
<1>10. set.strict => L!Spendable(Pairs(set), TxData[chain[n + 1]])
  BY <1>4, <1>6
<1> HIDE DEF n
<1> DEFINE r == ApplyBlock(Start(set), chain[n + 1], height)
<1>11. r.failure = "none" /\ Placed(r.set, chain, n + 1)
  BY <1>4, <1>7, <1>8, <1>9, <1>10, ApplyPlaced
<1>12. r = Processed(state, block)
  BY <1>5, <1>6
<1> HIDE DEF r
<1> QED  BY <1>2, <1>6, <1>11, <1>12 DEF chain, b

LEMMA SameQuery ==
    ASSUME QueryInv, UNCHANGED <<state, stable, delivered, repeated>>, trapped' \in BOOLEAN
    PROVE  QueryInv'
BY SameInv DEF QueryInv, Placed, Pairs

LEMMA InsertQuery ==
    ASSUME QueryInv, NEW block \in Block, KeepUnstable(block) \/ Stabilise(block)
    PROVE  QueryInv'
<1>1. StoreInv
  BY DEF QueryInv
<1>2. CASE KeepUnstable(block)
  <2>1. StoreInv' /\ stable' = stable /\ state'.utxos = state.utxos
    BY <1>1, <1>2, KeepUnstableInv
  <2> QED  BY <2>1 DEF QueryInv, Placed, Pairs
<1>3. CASE Stabilise(block)
  <2> DEFINE c == Popped(state, block)
  <2>1. PICK b \in Block :
          /\ Prev[b] = Last(stable) /\ stable' = Append(stable, b)
          /\ L!Spendable(Pairs(state.utxos), TxData[b])
          /\ Pairs(state.utxos)' = L!After(Pairs(state.utxos), TxData[b])
    BY <1>1, <1>3, StabiliseInv
  <2>2. StoreInv' /\ stable' = Append(stable, c)
    BY <1>1, <1>3, StabiliseInv DEF Stabilise
  <2>3. stable \in Seq(Block) /\ stable # << >> /\ stable' \in Seq(Block) /\ Len(stable) \in Nat \ {0}
    BY <1>1, <2>2, EmptySeq, LenProperties DEF StoreInv
  <2>40. c \in Block
    BY <1>1, <1>3, PoppedOK DEF Stabilise, StoreInv
  <2> HIDE DEF c
  <2> DEFINE x == stable
             y == stable'
  <2>41. x \in Seq(Block) /\ y = Append(x, b) /\ y = Append(x, c) /\ b \in Block
    BY <2>1, <2>2, <2>3
  <2> HIDE DEF x, y
  <2>42. Len(y) = Len(x) + 1 /\ y[Len(y)] = b /\ y[Len(y)] = c /\ \A i \in 1 .. Len(x) : y[i] = x[i]
    <3>1. Len(Append(x, b)) = Len(x) + 1 /\ Append(x, b)[Len(x) + 1] = b
          /\ \A i \in 1 .. Len(x) : Append(x, b)[i] = x[i]
      BY <2>41, AppendProperties
    <3>2. Append(x, c)[Len(x) + 1] = c
      BY <2>40, <2>41, AppendProperties
    <3>3. y[Len(x) + 1] = c
      BY <2>41, <3>2
    <3>4. /\ Len(y) = Len(x) + 1 /\ y[Len(x) + 1] = b
          /\ \A i \in 1 .. Len(x) : y[i] = x[i]
      BY <2>41, <3>1
    <3> QED  BY <3>3, <3>4
  <2>4. /\ Len(stable') = Len(stable) + 1 /\ stable'[Len(stable')] = b /\ stable'[Len(stable')] = c
        /\ \A i \in 1 .. Len(stable) : stable'[i] = stable[i]
    BY <2>42 DEF x, y
  <2>5. Replay(stable') = L!After(Replay(stable), TxData[b])
    BY <2>3, <2>4, ReplayStep
  <2>6. Pairs(state'.utxos) = Replay(stable')
    BY <2>1, <2>5 DEF QueryInv, Pairs
  <2>7. stable'[1] = Genesis
    BY <2>3, <2>4 DEF QueryInv
  <2>8. state'.utxos = Processed(state, block).set
    BY <1>3 DEF Stabilise, InsertBlock
  <2>9. Placed(Processed(state, block).set, Append(stable, c), Len(Append(stable, c)))
    <3>1. L!Spendable(Pairs(state.utxos), TxData[Popped(state, block)])
      BY <2>1, <2>4 DEF c
    <3>2. Stabilises(state, block)
      BY <1>3 DEF Stabilise
    <3> QED  BY <3>1, <3>2, ProcessedOK DEF c
  <2>10. Placed(state'.utxos, stable', Len(stable'))
    BY <2>2, <2>8, <2>9
  <2> QED  BY <2>2, <2>6, <2>7, <2>10 DEF QueryInv, Placed, Pairs
<1> QED  BY <1>2, <1>3

LEMMA NextQuery == QueryInv /\ [NextAnyOrder]_vars => QueryInv'
<1> SUFFICES ASSUME QueryInv, [NextAnyOrder]_vars PROVE QueryInv'
  OBVIOUS
<1>1. ASSUME NEW block \in Block \ {Genesis}, Insert(block) PROVE QueryInv'
  <2>1. CASE KeepUnstable(block) \/ Stabilise(block)
    BY <2>1, InsertQuery
  <2>2. CASE Trap(block)
    BY <2>2, SameQuery DEF Trap
  <2> QED  BY <1>1, <2>1, <2>2 DEF Insert
<1>2. CASE UNCHANGED vars
  BY <1>2, SameQuery DEF vars, QueryInv, StoreInv
<1>3. CASE SaveAndLoad
  BY <1>2, <1>3, SaveAndLoadSame, SameQuery DEF vars, QueryInv, StoreInv
<1> QED  BY <1>1, <1>2, <1>3 DEF NextAnyOrder

LEMMA SpecQuery == SpecAnyOrder => []QueryInv
BY InitQuery, NextQuery, PTL DEF SpecAnyOrder

-----------------------------------------------------------------------------
(* What the queries build.                                                 *)

\* What the first blocks of a chain leave.
LEMMA ReplayPart ==
    ASSUME NEW long \in Seq(Block), NEW f, IsReplay(f, long),
           NEW short \in Seq(Block), Len(short) <= Len(long),
           \A n \in 1 .. Len(short) : short[n] = long[n]
    PROVE  Replay(short) = f[Len(short)]
<1> DEFINE M == Len(short)
<1>0. M \in Nat
  OBVIOUS
<1>1. PICK g : IsReplay(g, short) /\ Replay(short) = g[M]
  BY ReplayRun
<1> DEFINE T == {n \in Nat : n <= M => g[n] = f[n]}
<1>2. 0 \in T
  BY <1>1 DEF IsReplay
<1>3. ASSUME NEW n \in Nat, n \in T PROVE n + 1 \in T
  <2> SUFFICES ASSUME n + 1 <= M PROVE g[n + 1] = f[n + 1]
    OBVIOUS
  <2>1. n + 1 \in 1 .. M /\ n + 1 \in 1 .. Len(long) /\ n <= M /\ (n + 1) - 1 = n
    BY <1>0
  <2>2. g[n] = f[n] /\ short[n + 1] = long[n + 1]
    BY <1>3, <2>1
  <2>3. g[n + 1] = L!After(g[n], TxData[short[n + 1]])
    BY <1>1, <2>1 DEF IsReplay
  <2>4. f[n + 1] = L!After(f[n], TxData[long[n + 1]])
    BY <2>1 DEF IsReplay
  <2> QED  BY <2>1, <2>2, <2>3, <2>4
<1> HIDE DEF T
<1>4. M \in T
  BY <1>0, <1>2, <1>3, NatSetInduction
<1> QED  BY <1>0, <1>1, <1>4 DEF T

\* A chain with one on top of its last block.
LEMMA LinkedConcat ==
    ASSUME NEW c, LinkedChain(c), c # << >>, NEW d, ChainFrom(d, Last(c))
    PROVE  /\ LinkedChain(c \o d) /\ Len(c \o d) = Len(c) + Len(d)
           /\ \A i \in 1 .. Len(c) : (c \o d)[i] = c[i]
           /\ \A i \in 1 .. Len(d) : (c \o d)[Len(c) + i] = d[i]
<1> DEFINE n == Len(c)
           m == Len(d)
           e == c \o d
<1>1. /\ c \in Seq(Block) /\ d \in Seq(Block) /\ n \in Nat \ {0} /\ m \in Nat
      /\ Last(c) = c[n]
  <2>1. c \in Seq(Block) /\ d \in Seq(Block)
    BY DEF ChainFrom, LinkedChain
  <2> QED  BY <2>1, EmptySeq, LenProperties DEF Last
<1>2. /\ e \in Seq(Block) /\ Len(e) = n + m
      /\ \A i \in 1 .. n : e[i] = c[i]
      /\ \A i \in 1 .. m : e[n + i] = d[i]
  BY <1>1
<1> HIDE DEF e
<1>3. ASSUME NEW i \in 2 .. n + m PROVE Prev[e[i]] = e[i - 1]
  <2>1. CASE i <= n
    <3>1. i \in 2 .. Len(c) /\ i \in 1 .. n /\ i - 1 \in 1 .. n
      BY <1>1, <2>1
    <3> QED  BY <1>2, <3>1 DEF LinkedChain
  <2>2. CASE i = n + 1
    <3>1. i - 1 = n /\ n \in 1 .. n /\ 1 \in 1 .. m /\ Len(d) >= 1
      BY <1>1, <2>2
    <3>2. e[i] = d[1] /\ e[i - 1] = c[n]
      BY <1>2, <2>2, <3>1
    <3> QED  BY <1>1, <3>1, <3>2 DEF ChainFrom
  <2>3. CASE i > n + 1
    <3> DEFINE k == i - n
    <3>1. /\ k \in 2 .. m /\ k \in 1 .. m /\ k - 1 \in 1 .. m
          /\ i = n + k /\ i - 1 = n + (k - 1)
      BY <1>1, <2>3
    <3> HIDE DEF k
    <3>2. e[i] = d[k] /\ e[i - 1] = d[k - 1]
      BY <1>2, <3>1
    <3>3. Prev[d[k]] = d[k - 1]
      BY <3>1 DEF ChainFrom, LinkedChain
    <3> QED  BY <3>2, <3>3
  <2> QED  BY <1>1, <2>1, <2>2, <2>3
<1> QED  BY <1>2, <1>3 DEF LinkedChain, e

\* The part of a set that belongs to an address, as a set of its own.
LEMMA AnswerOK ==
    ASSUME NEW s, SetOK(s), NEW a \in Address
    PROVE  LET part == GetUtxos(s, a)
           IN  /\ SetOK(part) /\ part.strict = FALSE
               /\ DOMAIN part.utxos \subseteq DOMAIN s.utxos
               /\ \A o \in DOMAIN part.utxos : part.utxos[o] = s.utxos[o]
               /\ PartOf(Pairs(part), Pairs(s), a)
<1> DEFINE part == GetUtxos(s, a)
           O == OutpointsOf(s.utxos, a)
<1>1. SetOK(s) /\ Consistent(s)
  BY DEF SetOK
<1>2. DOMAIN part.utxos = O /\ \A o \in O : part.utxos[o] = s.utxos[o]
  BY <1>1, AnswerIsOfAddress
<1>3. O \subseteq DOMAIN s.utxos /\ \A o \in DOMAIN s.utxos : o \in O <=> s.utxos[o].txout.address = a
  BY DEF OutpointsOf
<1>4. IsSet(part) /\ Consistent(part) /\ part.strict = FALSE
  BY DEF IsSet, Consistent, GetUtxos, SetOf
<1> HIDE DEF part, O
<1>5. Authentic(part.utxos) /\ DOMAIN part.utxos \subseteq OutPoint
  BY <1>1, <1>2, <1>3 DEF SetOK, Authentic
<1>6. /\ Pairs(part) = {<<o, part.utxos[o].txout>> : o \in DOMAIN part.utxos}
      /\ Pairs(s) = {<<o, s.utxos[o].txout>> : o \in DOMAIN s.utxos}
  BY PairsFacts
<1>7. Pairs(part) \subseteq Pairs(s)
  BY <1>2, <1>3, <1>6
<1>8. ASSUME NEW u \in Pairs(s), u[2].address = a PROVE u \in Pairs(part)
  <2>1. PICK o \in DOMAIN s.utxos : u = <<o, s.utxos[o].txout>>
    BY <1>6
  <2>2. o \in O
    BY <1>3, <1>8, <2>1
  <2> QED  BY <1>2, <1>6, <2>1, <2>2
<1>9. PartOf(Pairs(part), Pairs(s), a)
  BY <1>7, <1>8 DEF PartOf, OfAddress
<1> QED  BY <1>2, <1>3, <1>4, <1>5, <1>9 DEF SetOK, part

\* The blocks a query applies, on those that are stable.
QueryChain(m) == stable \o Confirmed(state, m)

\* A query builds a set that has, for its address, what the chain leaves.
LEMMA QueryBuilds ==
    ASSUME QueryInv, NEW a \in Address, NEW m \in Nat
    PROVE  LET r == AppliedTo(state, a, m)
               chain == QueryChain(m)
           IN  /\ RunOK(r) /\ r.failure = "none"
               /\ Placed(r.set, chain, Len(chain))
               /\ PartOf(Pairs(r.set), Replay(chain), a)
<1> DEFINE c == Chain(state)
           d == Confirmed(state, m)
           chain == stable \o d
           n == Len(stable)
           set == GetUtxos(state.utxos, a)
<1>1. StateOK(state) /\ stable \in Seq(Block) /\ stable # << >> /\ FieldsAgree
  BY DEF QueryInv, StoreInv
<1>2. SetOK(state.utxos) /\ state.height = n /\ n \in Nat /\ Anchor = Last(stable)
  BY <1>1 DEF StateOK, FieldsAgree
<1>3. ChainFrom(c, Last(stable))
  BY <1>1, <1>2, CurrentChainOK DEF Anchor
<1>4. PICK k \in 0 .. Len(c) : d = SubSeq(c, 1, k)
  BY <1>1, ConfirmedOK
<1>5. ChainFrom(d, Last(stable))
  <2> HIDE DEF c, d
  <2> DEFINE anchor == Last(stable)
  <2> HIDE DEF anchor
  <2>1. ChainFrom(c, anchor)
    BY <1>3 DEF anchor
  <2>2. ChainFrom(SubSeq(c, 1, k), anchor)
    BY <2>1, ChainFromPart
  <2> QED  BY <1>4, <2>2 DEF anchor
<1>6. LinkedChain(stable)
  BY <1>1 DEF FieldsAgree, LinkedChain
<1> HIDE DEF c, d
<1>7. /\ LinkedChain(chain) /\ Len(chain) = n + Len(d)
      /\ \A i \in 1 .. n : chain[i] = stable[i]
      /\ \A i \in 1 .. Len(d) : chain[n + i] = d[i]
  BY <1>1, <1>5, <1>6, LinkedConcat
<1> HIDE DEF chain
<1>8. d \in Seq(Block) /\ chain \in Seq(Block) /\ Len(d) \in Nat
  BY <1>5, <1>7 DEF ChainFrom, LinkedChain
<1>9. PICK g : IsReplay(g, chain) /\ Replay(chain) = g[Len(chain)]
  BY <1>8, ReplayRun
<1>10. Replay(stable) = g[n]
  <2>1. Len(stable) <= Len(chain)
    BY <1>2, <1>7, <1>8
  <2> QED  BY <1>1, <1>7, <1>8, <1>9, <2>1, ReplayPart
<1>11. /\ SetOK(set) /\ set.strict = FALSE /\ Placed(set, chain, n)
       /\ PartOf(Pairs(set), g[n], a)
  <2> DEFINE s == state.utxos
  <2>1. Placed(s, stable, n) /\ Pairs(s) = g[n] /\ SetOK(s)
    BY <1>2, <1>10 DEF QueryInv
  <2> HIDE DEF s
  <2>2. /\ SetOK(GetUtxos(s, a)) /\ GetUtxos(s, a).strict = FALSE
        /\ DOMAIN GetUtxos(s, a).utxos \subseteq DOMAIN s.utxos
        /\ \A o \in DOMAIN GetUtxos(s, a).utxos : GetUtxos(s, a).utxos[o] = s.utxos[o]
        /\ PartOf(Pairs(GetUtxos(s, a)), Pairs(s), a)
    BY <2>1, AnswerOK
  <2>3. set = GetUtxos(s, a)
    BY DEF s
  <2> HIDE DEF set
  <2>4. Placed(set, chain, n)
    BY <1>7, <2>1, <2>2, <2>3 DEF Placed
  <2> QED  BY <2>1, <2>2, <2>3, <2>4
<1> DEFINE r == ApplyBlocks(set, d, n)
<1>12. AppliedTo(state, a, m) = r
  BY <1>2 DEF AppliedTo, d
<1> HIDE DEF set
<1>13. /\ RunOK(r) /\ r.failure = "none"
       /\ Placed(r.set, chain, Len(chain))
       /\ PartOf(Pairs(r.set), g[Len(chain)], a)
  <2>1. /\ n \in Nat /\ d \in Seq(Block) /\ n + Len(d) = Len(chain)
        /\ \A i \in 1 .. Len(d) : d[i] = chain[n + i]
    BY <1>2, <1>7, <1>8
  <2> HIDE DEF n, r
  <2>2. /\ RunOK(ApplyBlocks(set, d, n)) /\ ApplyBlocks(set, d, n).failure = "none"
        /\ Placed(ApplyBlocks(set, d, n).set, chain, Len(chain))
        /\ PartOf(Pairs(ApplyBlocks(set, d, n).set), g[Len(chain)], a)
    BY <2>1, <1>7, <1>9, <1>11, QueryRun
  <2> QED  BY <2>2 DEF r
<1> HIDE DEF r
<1> QED  BY <1>9, <1>12, <1>13 DEF QueryChain, chain, d

LEMMA NoQueryPanics ==
    ASSUME QueryInv, NEW a \in Address, NEW m \in Nat
    PROVE  ~ QueryPanics(state, a, m)
<1> DEFINE r == AppliedTo(state, a, m)
<1>1. RunOK(r) /\ r.failure = "none"
  BY QueryBuilds
<1>2. Consistent(r.set)
  BY <1>1 DEF RunOK, SetOK
<1>3. Consistent(state.utxos)
  BY DEF QueryInv, StoreInv, StateOK, SetOK
<1> HIDE DEF r
<1>4. ~ GetUtxosFails(r.set, a) /\ ~ GetUtxosFails(state.utxos, a)
  BY <1>2, <1>3, ConsistentAnswers
<1> QED  BY <1>1, <1>4 DEF QueryPanics, r

LEMMA HeightIsNat ==
    ASSUME QueryInv
    PROVE  MainChainHeight(state) + 1 \in Nat
<1>1. StateOK(state)
  BY DEF QueryInv, StoreInv
<1>2. Chain(state) \in Seq(Block) /\ state.height \in Nat
  BY <1>1, CurrentChainOK DEF ChainFrom, LinkedChain, StateOK
<1> QED  BY <1>2 DEF MainChainHeight

\* Whatever blocks come, in whatever order and however often, the only
\* insert_block that panics is one that makes a block stable which spends
\* what the stable chain does not have, and no query ever panics.
THEOREM TrapsAlwaysInvalid == SpecAnyOrder => []TrapsOnlyInvalid
<1>1. ASSUME QueryInv, NEW block \in Block, InsertPanics(state, block)
      PROVE  /\ Prev[Popped(state, block)] = Anchor
             /\ ~ L!Spendable(Pairs(state.utxos), TxData[Popped(state, block)])
  <2>1. StateOK(state) /\ Stabilises(state, block)
    BY <1>1 DEF QueryInv, StoreInv, InsertPanics
  <2>2. Prev[Popped(state, block)] = Anchor
    BY <2>1, PoppedOK DEF Anchor
  <2>3. Processed(state, block).failure # "none"
    BY <1>1, <2>2 DEF InsertPanics, Anchor
  <2> QED  BY <1>1, <2>1, <2>2, <2>3, ProcessedOK
<1>2. ASSUME QueryInv, NEW a \in Address, NEW m \in 0 .. MainChainHeight(state) + 1
      PROVE  ~ QueryPanics(state, a, m)
  <2>1. m \in Nat
    BY <1>2, HeightIsNat
  <2> QED  BY <1>2, <2>1, NoQueryPanics
<1>3. ASSUME QueryInv PROVE TrapsOnlyInvalid
  <2>1. \A b \in Block \ {Genesis} :
          InsertPanics(state, b) =>
            /\ Prev[Popped(state, b)] = Anchor
            /\ ~ L!Spendable({<<u[1], u[2]>> : u \in IntoSet(state.utxos)},
                             TxData[Popped(state, b)])
    BY <1>1, <1>3 DEF Pairs
  <2> QED  BY <1>2, <1>3, <2>1 DEF TrapsOnlyInvalid
<1> QED  BY <1>3, SpecQuery, PTL

\* Every block spends only what the chain before it leaves.
AllSpendable ==
    \A b \in Block :
        Prev[b] \in Block => L!Spendable(UnspentAfter(Prev[b]), TxData[b])

LEMMA ReplayIsUnspent ==
    ASSUME QueryInv
    PROVE  Replay(stable) = UnspentAfter(Last(stable))
<1> DEFINE c == stable
           P(n) == Cardinality(Past[c[n]]) = n
           T == {n \in Nat : n + 1 <= Len(c) => P(n + 1)}
<1>1. /\ c \in Seq(Block) /\ c # << >> /\ c[1] = Genesis /\ LinkedChain(c)
      /\ Len(c) \in Nat \ {0} /\ Last(c) = c[Len(c)]
  <2>1. /\ stable \in Seq(Block) /\ stable # << >> /\ stable[1] = Genesis
        /\ \A i \in 2 .. Len(stable) : Prev[stable[i]] = stable[i - 1]
    BY DEF QueryInv, StoreInv, FieldsAgree
  <2> QED  BY <2>1, EmptySeq, LenProperties DEF Last, LinkedChain
<1> HIDE DEF c
<1>2. 0 \in T
  <2>1. Cardinality(Past[Genesis]) = 1
    BY GenesisAssumption, PrevAssumption, PastGrows
  <2> QED  BY <1>1, <2>1
<1>3. ASSUME NEW n \in Nat, n \in T PROVE n + 1 \in T
  <2> SUFFICES ASSUME (n + 1) + 1 <= Len(c) PROVE P((n + 1) + 1)
    OBVIOUS
  <2> DEFINE k == n + 1
  <2>1. k + 1 \in 2 .. Len(c) /\ k + 1 \in 1 .. Len(c) /\ k \in 1 .. Len(c) /\ (k + 1) - 1 = k /\ n + 1 <= Len(c)
    BY <1>1
  <2>2. P(k)
    BY <1>3, <2>1
  <2> HIDE DEF k
  <2>3. Prev[c[k + 1]] = c[k] /\ c[k] \in Block /\ c[k + 1] \in Block
    BY <1>1, <2>1 DEF LinkedChain
  <2>4. Cardinality(Past[c[k + 1]]) = Cardinality(Past[c[k]]) + 1
    BY <2>3, PastGrows
  <2> QED  BY <2>2, <2>4 DEF k
<1> HIDE DEF T
<1>4. ASSUME NEW n \in 1 .. Len(c) PROVE P(n)
  <2>1. n - 1 \in Nat /\ (n - 1) + 1 = n /\ n <= Len(c)
    BY <1>1
  <2>2. n - 1 \in T
    BY <1>2, <1>3, <2>1, NatSetInduction
  <2> QED  BY <2>1, <2>2 DEF T
<1> DEFINE b == Last(c)
           e == ChainTo(b)
           N == Len(c)
<1>5. b \in Block /\ N \in 1 .. N /\ Cardinality(Past[b]) = N
  BY <1>1, <1>4
<1>6. \A n \in 1 .. N : c[n] \in Past[b]
  BY <1>1, <1>5, ChainPast
<1>7. /\ e \in Seq(Block) /\ Len(e) = N
      /\ \A n \in 1 .. N : e[n] \in Past[b] /\ Cardinality(Past[e[n]]) = n
  <2> HIDE DEF b
  <2> QED  BY <1>5, ChainToFacts
<1> HIDE DEF b, e
<1>8. ASSUME NEW n \in 1 .. N PROVE e[n] = c[n]
  <2>1. c[n] \in Past[b] /\ Cardinality(Past[c[n]]) = n
    BY <1>4, <1>6
  <2>2. n \in 1 .. Cardinality(Past[b])
    BY <1>5
  <2> QED  BY <1>5, <1>7, <2>1, <2>2, PastSizes
<1>9. e = c
  BY <1>1, <1>7, <1>8
<1> QED  BY <1>9 DEF UnspentAfter, b, c, e

\* If every block spends only what the chain before it leaves, nothing ever
\* panics: neither an insert_block nor a query, whatever blocks come, in
\* whatever order and however often.
THEOREM NothingEverTraps == AllSpendable => (SpecAnyOrder => []NeverTraps)
<1> DEFINE TrapInv == QueryInv /\ ~ trapped
<1>1. ASSUME AllSpendable, QueryInv, NEW block \in Block PROVE ~ InsertPanics(state, block)
  <2> SUFFICES ASSUME InsertPanics(state, block) PROVE FALSE
    OBVIOUS
  <2> DEFINE b == Popped(state, block)
  <2>1. /\ StateOK(state) /\ Stabilises(state, block)
        /\ Last(stable) = Anchor /\ Anchor \in Block
    BY <1>1 DEF QueryInv, StoreInv, FieldsAgree, InsertPanics, StateOK, Anchor
  <2>2. b \in Block /\ Prev[b] = Anchor
    BY <2>1, PoppedOK DEF Anchor
  <2>3. Processed(state, block).failure # "none"
    BY <2>2 DEF InsertPanics, Anchor
  <2>4. Pairs(state.utxos) = UnspentAfter(Anchor)
    BY <1>1, <2>1, ReplayIsUnspent DEF QueryInv
  <2>5. L!Spendable(Pairs(state.utxos), TxData[b])
    <3> HIDE DEF b
    <3> QED  BY <1>1, <2>1, <2>2, <2>4 DEF AllSpendable
  <2> QED  BY <1>1, <2>1, <2>3, <2>5, ProcessedOK
<1>2. Init => TrapInv
  BY InitQuery DEF Init
<1>3. ASSUME AllSpendable, TrapInv, [NextAnyOrder]_vars PROVE TrapInv'
  <2>1. QueryInv'
    BY <1>3, NextQuery
  <2>2. ~ trapped'
    BY <1>1, <1>3 DEF NextAnyOrder, Insert, KeepUnstable, Stabilise, Trap, SaveAndLoad, vars
  <2> QED  BY <2>1, <2>2
<1>4. TrapInv => NeverTraps
  BY NoQueryPanics, HeightIsNat DEF NeverTraps
<1> SUFFICES ASSUME AllSpendable PROVE SpecAnyOrder => []NeverTraps
  OBVIOUS
<1> HIDE DEF TrapInv
<1>5. TrapInv /\ [NextAnyOrder]_vars => TrapInv'
  BY <1>3
<1> QED  BY <1>2, <1>4, <1>5, PTL DEF SpecAnyOrder

-----------------------------------------------------------------------------
(* Sums of values.                                                         *)

LEMMA ImageFinite ==
    ASSUME NEW S, IsFiniteSet(S), NEW f
    PROVE  IsFiniteSet({f[x] : x \in S})
<1> DEFINE T == {f[x] : x \in S}
           h == [x \in S |-> f[x]]
<1>1. h \in [S -> T] /\ \A y \in T : \E x \in S : h[x] = y
  OBVIOUS
<1> HIDE DEF h, T
<1>2. h \in Surjection(S, T)
  BY <1>1 DEF Surjection
<1> QED  BY <1>2, FS_Surjection DEF T

\* A transaction has finitely many outputs, and a chain leaves finitely many.
LEMMA OutputsFinite ==
    ASSUME NEW t \in TxId
    PROVE  IsFiniteSet(L!Outputs(t))
<1> DEFINE out == Tx[t].outputs
           D == DOMAIN out
           f == [i \in D |-> <<[txid |-> t, vout |-> i - 1], out[i]>>]
<1>1. out \in Seq(TxOut)
  BY TxAssumption
<1>2. IsFiniteSet(D)
  <2>1. D = 1 .. Len(out) /\ Len(out) \in Int /\ 1 \in Int
    BY <1>1
  <2> DEFINE n == Len(out)
  <2> HIDE DEF n, D
  <2>2. IsFiniteSet(1 .. n)
    BY <2>1, FS_Interval DEF n
  <2> QED  BY <2>1, <2>2 DEF n
<1>3. L!Outputs(t) = {f[i] : i \in D}
  BY DEF L!Outputs
<1> HIDE DEF D, f
<1> QED  BY <1>2, <1>3, ImageFinite

LEMMA AfterFinite ==
    ASSUME NEW outputs, IsFiniteSet(outputs), NEW txs \in Seq(TxId)
    PROVE  IsFiniteSet(L!After(outputs, txs))
<1> DEFINE N == Len(txs)
<1>1. PICK f : IsRunOf(f, outputs, txs) /\ L!After(outputs, txs) = f[N]
  BY AfterRun
<1> DEFINE Q == {n \in Nat : n <= N => IsFiniteSet(f[n])}
<1>2. 0 \in Q
  BY <1>1 DEF IsRunOf
<1>3. ASSUME NEW n \in Nat, n \in Q PROVE n + 1 \in Q
  <2> SUFFICES ASSUME n + 1 <= N PROVE IsFiniteSet(f[n + 1])
    OBVIOUS
  <2> DEFINE t == txs[n + 1]
             kept == {u \in f[n] : u[1] \notin Tx[t].inputs \cup {w[1] : w \in L!Outputs(t)}}
  <2>1. n + 1 \in 1 .. N /\ n <= N /\ (n + 1) - 1 = n /\ t \in TxId
    OBVIOUS
  <2>2. IsFiniteSet(f[n])
    BY <1>3, <2>1
  <2>3. f[n + 1] = L!AfterTx(f[n], t)
    BY <1>1, <2>1 DEF IsRunOf
  <2>4. f[n + 1] = kept \cup L!Outputs(t)
    BY <2>3 DEF L!AfterTx
  <2>5. kept \in SUBSET f[n]
    OBVIOUS
  <2> HIDE DEF kept, t
  <2>6. IsFiniteSet(kept)
    BY <2>2, <2>5, FS_Subset
  <2>7. IsFiniteSet(L!Outputs(t))
    BY <2>1, OutputsFinite
  <2> QED  BY <2>4, <2>6, <2>7, FS_Union
<1> HIDE DEF Q
<1>4. N \in Nat
  OBVIOUS
<1>5. N \in Q
  BY <1>2, <1>3, <1>4, NatSetInduction
<1> QED  BY <1>1, <1>5 DEF Q

LEMMA ReplayFinite ==
    ASSUME NEW chain \in Seq(Block)
    PROVE  IsFiniteSet(Replay(chain))
<1> DEFINE N == Len(chain)
<1>1. PICK f : IsReplay(f, chain) /\ Replay(chain) = f[N]
  BY ReplayRun
<1> DEFINE Q == {n \in Nat : n <= N => IsFiniteSet(f[n])}
<1>2. 0 \in Q
  BY <1>1, FS_EmptySet DEF IsReplay
<1>3. ASSUME NEW n \in Nat, n \in Q PROVE n + 1 \in Q
  <2> SUFFICES ASSUME n + 1 <= N PROVE IsFiniteSet(f[n + 1])
    OBVIOUS
  <2>1. n + 1 \in 1 .. N /\ n <= N /\ (n + 1) - 1 = n /\ chain[n + 1] \in Block
    OBVIOUS
  <2>2. IsFiniteSet(f[n]) /\ TxData[chain[n + 1]] \in Seq(TxId)
    BY <1>3, <2>1, TxDataAssumption
  <2>3. f[n + 1] = L!After(f[n], TxData[chain[n + 1]])
    BY <1>1, <2>1 DEF IsReplay
  <2> QED  BY <2>2, <2>3, AfterFinite
<1> HIDE DEF Q
<1>4. N \in Nat
  OBVIOUS
<1>5. N \in Q
  BY <1>2, <1>3, <1>4, NatSetInduction
<1> QED  BY <1>1, <1>5 DEF Q

\* The sum of the values of outputs, taken one by one.
ValueSum(S) == MapThenSumSet(LAMBDA u : u[2].value, S)
Taken(s) == CHOOSE x \in s : TRUE
IsSum(f, S) ==
    f = [s \in SUBSET S |-> IF s = {} THEN 0 ELSE Taken(s)[2].value + f[s \ {Taken(s)}]]

LEMMA SumDef ==
    ASSUME NEW S
    PROVE  ValueSum(S) = (CHOOSE f : IsSum(f, S))[S]
BY DEF ValueSum, MapThenSumSet, MapThenFoldSet, IsSum, Taken

LEMMA SumExists ==
    ASSUME NEW S, IsFiniteSet(S)
    PROVE  \E f : IsSum(f, S) /\ ValueSum(S) = f[S]
<1> DEFINE D(n) == {s \in SUBSET S : Cardinality(s) <= n}
           Rest(s) == s \ {Taken(s)}
           Value(s) == Taken(s)[2].value
           Is(f, n) == f = [s \in D(n) |-> IF s = {} THEN 0 ELSE Value(s) + f[Rest(s)]]
           T == {n \in Nat : \E f : Is(f, n)}
           N == Cardinality(S)
<1>1. \A s \in SUBSET S : IsFiniteSet(s) /\ Cardinality(s) \in Nat /\ Cardinality(s) <= N
  BY FS_Subset, FS_CardinalityType
<1>2. \A s \in SUBSET S : s # {} => Taken(s) \in s
  BY DEF Taken
<1>3. \A s \in SUBSET S : s # {} => Rest(s) \in SUBSET S /\ Cardinality(Rest(s)) = Cardinality(s) - 1
  <2> SUFFICES ASSUME NEW s \in SUBSET S, s # {}
               PROVE  Rest(s) \in SUBSET S /\ Cardinality(Rest(s)) = Cardinality(s) - 1
    OBVIOUS
  <2> DEFINE x == Taken(s)
  <2>1. x \in s /\ IsFiniteSet(s)
    BY <1>1, <1>2
  <2> HIDE DEF x
  <2>2. Cardinality(s \ {x}) = Cardinality(s) - 1
    BY <2>1, FS_RemoveElement
  <2> QED  BY <2>2 DEF x
<1> HIDE DEF Rest, Value
<1>4. 0 \in T
  <2> DEFINE f == [s \in D(0) |-> 0]
  <2>1. \A s \in D(0) : s = {}
    <3> SUFFICES ASSUME NEW s \in D(0) PROVE s = {}
      OBVIOUS
    <3>1. IsFiniteSet(s) /\ Cardinality(s) = 0
      BY <1>1
    <3> QED  BY <3>1, FS_EmptySet
  <2>2. f = [s \in D(0) |-> IF s = {} THEN 0 ELSE Value(s) + f[Rest(s)]]
    BY <2>1
  <2> QED  BY <2>2
<1>5. ASSUME NEW n \in Nat, n \in T PROVE n + 1 \in T
  <2>1. PICK f : Is(f, n)
    BY <1>5
  <2> DEFINE g == [s \in D(n + 1) |-> IF s \in D(n) THEN f[s] ELSE Value(s) + f[Rest(s)]]
  <2>2. \A s \in D(n) : f[s] = IF s = {} THEN 0 ELSE Value(s) + f[Rest(s)]
    BY <2>1
  <2>3. \A s \in D(n + 1) : s # {} => Rest(s) \in D(n)
    BY <1>1, <1>3
  <2>4. \A s \in D(n) : s \in D(n + 1) /\ g[s] = f[s]
    BY <1>1
  <2>5. {} \in D(n)
    BY FS_EmptySet
  <2> HIDE DEF Is
  <2>6. ASSUME NEW s \in D(n + 1)
        PROVE  g[s] = IF s = {} THEN 0 ELSE Value(s) + g[Rest(s)]
    <3>1. s # {} => g[Rest(s)] = f[Rest(s)]
      BY <2>3, <2>4
    <3>2. CASE s \in D(n)
      <4> HIDE DEF g, D
      <4> QED  BY <2>2, <2>4, <3>1, <3>2
    <3>3. CASE s \notin D(n)
      <4>1. s # {} /\ g[s] = Value(s) + f[Rest(s)]
        BY <2>5, <3>3
      <4> HIDE DEF g, D
      <4> QED  BY <3>1, <4>1
    <3> QED  BY <3>2, <3>3
  <2>7. g = [s \in D(n + 1) |-> g[s]]
    OBVIOUS
  <2> HIDE DEF g, D
  <2>8. g = [s \in D(n + 1) |-> IF s = {} THEN 0 ELSE Value(s) + g[Rest(s)]]
    BY <2>6, <2>7
  <2> QED  BY <2>8 DEF Is
<1>6. N \in Nat
  BY FS_CardinalityType
<1>7. D(N) = SUBSET S
  BY <1>1
<1> HIDE DEF T, N, D
<1>8. N \in T
  BY <1>4, <1>5, <1>6, NatSetInduction
<1>9. PICK f : Is(f, N)
  BY <1>8 DEF T
<1>10. IsSum(f, S)
  BY <1>7, <1>9 DEF IsSum, Rest, Value
<1>11. IsSum(CHOOSE h : IsSum(h, S), S)
  BY <1>10
<1> QED  BY <1>11, SumDef

\* It does not matter which one is taken first.
LEMMA SumStep ==
    ASSUME NEW S, IsFiniteSet(S), \A u \in S : u[2].value \in Nat,
           NEW f, IsSum(f, S)
    PROVE  /\ f[{}] = 0
           /\ \A s \in SUBSET S : f[s] \in Nat
           /\ \A s \in SUBSET S : \A x \in s : f[s] = x[2].value + f[s \ {x}]
<1> DEFINE P(s) == f[s] \in Nat /\ \A x \in s : f[s] = x[2].value + f[s \ {x}]
           T == {n \in Nat : \A s \in SUBSET S : Cardinality(s) <= n => P(s)}
<1>1. \A s \in SUBSET S : f[s] = IF s = {} THEN 0 ELSE Taken(s)[2].value + f[s \ {Taken(s)}]
  BY DEF IsSum
<1>2. \A s \in SUBSET S : IsFiniteSet(s) /\ Cardinality(s) \in Nat
  BY FS_Subset, FS_CardinalityType
<1>3. \A s \in SUBSET S : s # {} => Taken(s) \in s
  BY DEF Taken
<1>4. f[{}] = 0
  BY <1>1
<1>5. ASSUME NEW s \in SUBSET S, NEW x \in s
      PROVE  s \ {x} \in SUBSET S /\ Cardinality(s \ {x}) = Cardinality(s) - 1
  BY <1>2, FS_RemoveElement
<1>6. 0 \in T
  <2> SUFFICES ASSUME NEW s \in SUBSET S, Cardinality(s) <= 0 PROVE P(s)
    OBVIOUS
  <2>1. s = {}
    BY <1>2, FS_EmptySet
  <2> QED  BY <1>4, <2>1
<1>7. ASSUME NEW n \in Nat, n \in T PROVE n + 1 \in T
  <2>1. \A s \in SUBSET S : Cardinality(s) <= n => P(s)
    BY <1>7
  <2> HIDE DEF T
  <2>2. ASSUME NEW s \in SUBSET S, Cardinality(s) <= n + 1, s # {} PROVE P(s)
    <3> DEFINE c == Taken(s)
    <3>1. s # {}
      BY <2>2
    <3>2. c \in s /\ c \in S /\ f[s] = c[2].value + f[s \ {c}] /\ c[2].value \in Nat
      BY <1>1, <1>3, <3>1
    <3> HIDE DEF c
    <3>3. \A x \in s : P(s \ {x}) /\ s \ {x} \in SUBSET S
      <4> SUFFICES ASSUME NEW x \in s PROVE P(s \ {x}) /\ s \ {x} \in SUBSET S
        OBVIOUS
      <4>1. s \ {x} \in SUBSET S /\ Cardinality(s \ {x}) <= n
        BY <1>2, <1>5, <2>2
      <4> QED  BY <2>1, <4>1
    <3>4. f[s] \in Nat
      <4> DEFINE y == f[s \ {c}]
                 z == c[2].value
      <4>1. y \in Nat
        BY <3>2, <3>3
      <4>2. f[s] = z + y /\ z \in Nat
        BY <3>2
      <4> HIDE DEF y, z, P
      <4> QED  BY <4>1, <4>2
    <3>5. ASSUME NEW x \in s PROVE f[s] = x[2].value + f[s \ {x}]
      <4>1. CASE x = c
        BY <3>2, <4>1
      <4>2. CASE x # c
        <5> DEFINE both == f[(s \ {c}) \ {x}]
                   vx == x[2].value
                   vc == c[2].value
        <5>1. x \in s \ {c} /\ c \in s \ {x} /\ (s \ {c}) \ {x} = (s \ {x}) \ {c}
          BY <3>2, <4>2
        <5>2. f[s \ {c}] = vx + both
          BY <3>2, <3>3, <5>1
        <5>3. f[s \ {x}] = vc + both
          BY <3>3, <5>1
        <5>4. vx \in Nat /\ vc \in Nat
          BY <3>2
        <5>5. both \in Nat
          <6> DEFINE w == (s \ {c}) \ {x}
          <6>1. s \ {c} \in SUBSET S /\ x \in s \ {c} /\ w \in SUBSET S
            BY <5>1
          <6>2. /\ Cardinality(s \ {c}) = Cardinality(s) - 1
                /\ Cardinality(w) = Cardinality(s \ {c}) - 1
                /\ Cardinality(w) \in Nat /\ Cardinality(s) \in Nat
            BY <1>2, <1>5, <3>2, <6>1
          <6>3. P(w)
            <7>1. Cardinality(w) <= n
              BY <2>2, <6>2
            <7> HIDE DEF P, w
            <7> QED  BY <2>1, <6>1, <7>1
          <6> QED  BY <6>3
        <5> HIDE DEF both, vx, vc
        <5>6. f[s] = vc + (vx + both) /\ vc + (vx + both) = vx + (vc + both)
          BY <3>2, <5>2, <5>4, <5>5 DEF vc
        <5> QED  BY <5>3, <5>6 DEF vx
      <4> QED  BY <4>1, <4>2
    <3> QED  BY <3>4, <3>5
  <2>3. P({})
    BY <1>4
  <2>4. \A s \in SUBSET S : Cardinality(s) <= n + 1 => P(s)
    BY <2>2, <2>3
  <2> HIDE DEF P
  <2> QED  BY <2>4 DEF T
<1>8. ASSUME NEW s \in SUBSET S PROVE P(s)
  <2>1. Cardinality(s) \in T /\ Cardinality(s) \in Nat
    <3> HIDE DEF T
    <3> QED  BY <1>2, <1>6, <1>7, NatSetInduction
  <2> HIDE DEF P
  <2> QED  BY <2>1
<1> QED  BY <1>4, <1>8

\* The same outputs, written in two ways, have the same sum.
LEMMA SameSum ==
    ASSUME NEW O, IsFiniteSet(O), NEW p, NEW q,
           \A o \in O : p[o][2].value \in Nat /\ p[o][2].value = q[o][2].value,
           \A o, w \in O : p[o] = p[w] => o = w,
           \A o, w \in O : q[o] = q[w] => o = w
    PROVE  ValueSum({p[o] : o \in O}) = ValueSum({q[o] : o \in O})
<1> DEFINE A(s) == {p[o] : o \in s}
           B(s) == {q[o] : o \in s}
<1>1. IsFiniteSet(A(O)) /\ IsFiniteSet(B(O))
  BY ImageFinite
<1>2. PICK f : IsSum(f, A(O)) /\ ValueSum(A(O)) = f[A(O)]
  <2> DEFINE S == A(O)
  <2>1. IsFiniteSet(S)
    BY <1>1
  <2> HIDE DEF S
  <2>2. \E h : IsSum(h, S) /\ ValueSum(S) = h[S]
    BY <2>1, SumExists
  <2> QED  BY <2>2 DEF S
<1>3. PICK g : IsSum(g, B(O)) /\ ValueSum(B(O)) = g[B(O)]
  <2> DEFINE S == B(O)
  <2>1. IsFiniteSet(S)
    BY <1>1
  <2> HIDE DEF S
  <2>2. \E h : IsSum(h, S) /\ ValueSum(S) = h[S]
    BY <2>1, SumExists
  <2> QED  BY <2>2 DEF S
<1>4. /\ f[{}] = 0
      /\ \A s \in SUBSET A(O) : \A x \in s : f[s] = x[2].value + f[s \ {x}]
  <2> DEFINE S == A(O)
  <2>1. IsFiniteSet(S) /\ IsSum(f, S) /\ \A u \in S : u[2].value \in Nat
    BY <1>1, <1>2
  <2> HIDE DEF S
  <2>2. f[{}] = 0 /\ \A s \in SUBSET S : \A x \in s : f[s] = x[2].value + f[s \ {x}]
    BY <2>1, SumStep
  <2> QED  BY <2>2 DEF S
<1>5. /\ g[{}] = 0
      /\ \A s \in SUBSET B(O) : \A x \in s : g[s] = x[2].value + g[s \ {x}]
  <2> DEFINE S == B(O)
  <2>0. \A u \in S : u[2].value \in Nat
    <3> SUFFICES ASSUME NEW u \in S PROVE u[2].value \in Nat
      OBVIOUS
    <3>1. PICK o \in O : u = q[o]
      OBVIOUS
    <3>2. p[o][2].value \in Nat /\ p[o][2].value = q[o][2].value
      OBVIOUS
    <3> HIDE DEF S
    <3> QED  BY <3>1, <3>2
  <2>1. IsFiniteSet(S) /\ IsSum(g, S)
    BY <1>1, <1>3
  <2> HIDE DEF S
  <2>2. g[{}] = 0 /\ \A s \in SUBSET S : \A x \in s : g[s] = x[2].value + g[s \ {x}]
    BY <2>0, <2>1, SumStep
  <2> QED  BY <2>2 DEF S
<1> DEFINE P(s) == f[A(s)] = g[B(s)]
           T == {n \in Nat : \A s \in SUBSET O : Cardinality(s) = n => P(s)}
<1>6. \A s \in SUBSET O : IsFiniteSet(s) /\ Cardinality(s) \in Nat
  BY FS_Subset, FS_CardinalityType
<1>7. 0 \in T
  <2> SUFFICES ASSUME NEW s \in SUBSET O, Cardinality(s) = 0 PROVE P(s)
    OBVIOUS
  <2>1. s = {}
    BY <1>6, FS_EmptySet
  <2>2. A(s) = {} /\ B(s) = {}
    BY <2>1
  <2> HIDE DEF A, B
  <2> QED  BY <1>4, <1>5, <2>2
<1>8. ASSUME NEW n \in Nat, n \in T PROVE n + 1 \in T
  <2>1. \A s \in SUBSET O : Cardinality(s) = n => P(s)
    BY <1>8
  <2>2. ASSUME NEW s \in SUBSET O, Cardinality(s) = n + 1 PROVE P(s)
    <3>1. PICK o \in s : TRUE
      <4>1. Cardinality({}) = 0 /\ n + 1 # 0
        BY FS_EmptySet
      <4>2. s # {}
        <5> HIDE DEF P, T
        <5> QED  BY <2>2, <4>1
      <4> QED  BY <4>2
    <3> DEFINE r == s \ {o}
    <3>2. r \in SUBSET O /\ Cardinality(r) = n
      BY <1>6, <2>2, FS_RemoveElement
    <3>3. P(r)
      BY <2>1, <3>2
    <3>4. /\ A(s) \in SUBSET A(O) /\ p[o] \in A(s) /\ A(s) \ {p[o]} = A(r)
          /\ B(s) \in SUBSET B(O) /\ q[o] \in B(s) /\ B(s) \ {q[o]} = B(r)
      <4>1. \A w \in s : w # o => p[w] # p[o] /\ q[w] # q[o]
        OBVIOUS
      <4> QED  BY <4>1
    <3>5. p[o][2].value = q[o][2].value
      OBVIOUS
    <3> HIDE DEF A, B, r
    <3>6. f[A(s)] = p[o][2].value + f[A(r)]
      BY <1>4, <3>4
    <3>7. g[B(s)] = q[o][2].value + g[B(r)]
      <4> DEFINE x == q[o]
      <4> HIDE DEF x, P, T
      <4>1. B(s) \in SUBSET B(O) /\ x \in B(s) /\ B(s) \ {x} = B(r)
        BY <3>4 DEF x
      <4>2. g[B(s)] = x[2].value + g[B(r)]
        BY <1>5, <4>1
      <4> QED  BY <4>2 DEF x
    <3> QED  BY <3>3, <3>5, <3>6, <3>7
  <2> HIDE DEF P
  <2> QED  BY <2>2 DEF T
<1>9. P(O)
  <2>1. Cardinality(O) \in Nat
    BY <1>6
  <2> HIDE DEF T
  <2>2. Cardinality(O) \in T
    BY <1>7, <1>8, <2>1, NatSetInduction
  <2> HIDE DEF P
  <2> QED  BY <2>2 DEF T
<1> QED  BY <1>2, <1>3, <1>9

-----------------------------------------------------------------------------
(* What the queries answer.                                                *)

\* The entries of an address: outpoint, output and height.
EntryOf(set, o) == <<o, set.utxos[o].txout, set.utxos[o].height>>

\* An entry of an address is of one block of the chain the queries see, and
\* its height is that of this block, or of the one before.
LEMMA EntryPlace ==
    ASSUME QueryInv, NEW a \in Address, NEW m \in 0 .. Len(Chain(state)) + 1,
           NEW o, o \in OutpointsOf(AppliedTo(state, a, m).set.utxos, a)
    PROVE  LET height == AppliedTo(state, a, m).set.utxos[o].height
               main == MainChainHeight(state)
           IN  /\ main - height + 1 >= m
               /\ (main - height + 1) - ConfirmationsOf(o.txid) \in {0, 1}
<1> DEFINE r == AppliedTo(state, a, m)
           c == Chain(state)
           d == Confirmed(state, m)
           full == stable \o c
           n == Len(stable)
           height == r.set.utxos[o].height
           main == MainChainHeight(state)
           chain == QueryChain(m)
           t == o.txid
<1>1. StateOK(state) /\ stable \in Seq(Block) /\ stable # << >> /\ FieldsAgree
  BY DEF QueryInv, StoreInv
<1>2. /\ state.height = n /\ n \in Nat \ {0} /\ Anchor = Last(stable)
      /\ ChainFrom(c, Last(stable)) /\ LinkedChain(stable)
  <2>1. state.height = n /\ Anchor = Last(stable) /\ n \in Nat \ {0}
    BY <1>1, EmptySeq, LenProperties DEF FieldsAgree
  <2>2. ChainFrom(c, Last(stable))
    BY <1>1, <2>1, CurrentChainOK DEF Anchor
  <2> QED  BY <1>1, <2>1, <2>2 DEF FieldsAgree, LinkedChain
<1>3. Len(c) \in Nat /\ m \in Nat /\ m <= Len(c) + 1 /\ main = n + Len(c)
  <2>1. c \in Seq(Block)
    BY <1>2 DEF ChainFrom, LinkedChain
  <2>2. Len(c) \in Nat
    BY <2>1
  <2>3. main = Len(c) + state.height
    BY DEF MainChainHeight
  <2> HIDE DEF c, main
  <2>4. m \in 0 .. Len(c) + 1
    BY DEF c
  <2> QED  BY <1>2, <2>2, <2>3, <2>4
<1>4. PICK k \in 0 .. Len(c) :
        /\ d = SubSeq(c, 1, k)
        /\ k >= 1 /\ m >= 1 => Len(c) - k + 1 >= m
        /\ k = 0 \/ m = 0 \/ Len(c) - k + 1 = m
  BY <1>1, <1>3, ConfirmedOK
<1>5. ChainFrom(d, Last(stable)) /\ Len(d) = k /\ \A i \in 1 .. k : d[i] = c[i]
  <2> HIDE DEF c, d
  <2> DEFINE anchor == Last(stable)
  <2> HIDE DEF anchor
  <2>1. ChainFrom(c, anchor)
    BY <1>2 DEF anchor
  <2>2. /\ ChainFrom(SubSeq(c, 1, k), anchor) /\ Len(SubSeq(c, 1, k)) = k
        /\ \A i \in 1 .. k : SubSeq(c, 1, k)[i] = c[i]
    BY <2>1, ChainFromPart
  <2> QED  BY <1>4, <2>2 DEF anchor
<1>6. RunOK(r) /\ Placed(r.set, chain, Len(chain))
  BY <1>3, QueryBuilds
<1>7. chain = stable \o d
  BY DEF QueryChain
<1>8. o \in DOMAIN r.set.utxos /\ r.set.utxos[o].txout.address = a
  BY DEF OutpointsOf
<1> HIDE DEF c, d, chain, r, main
<1>9. /\ Len(chain) = n + k
      /\ \A i \in 1 .. n : chain[i] = stable[i]
      /\ \A i \in 1 .. k : chain[n + i] = d[i]
  <2>1. /\ Len(stable \o d) = Len(stable) + Len(d)
        /\ \A i \in 1 .. Len(stable) : (stable \o d)[i] = stable[i]
        /\ \A i \in 1 .. Len(d) : (stable \o d)[Len(stable) + i] = d[i]
    <3>1. LinkedChain(stable) /\ stable # << >> /\ ChainFrom(d, Last(stable))
      BY <1>1, <1>2, <1>5
    <3> HIDE DEF full, n, height, t
    <3> QED  BY <3>1, LinkedConcat
  <2> QED  BY <1>5, <1>7, <2>1
<1>10. /\ LinkedChain(full) /\ Len(full) = n + Len(c)
       /\ \A i \in 1 .. n : full[i] = stable[i]
       /\ \A i \in 1 .. Len(c) : full[n + i] = c[i]
  BY <1>1, <1>2, LinkedConcat
<1> HIDE DEF full
<1>11. PICK i \in 1 .. n + k : t \in Range(TxData[chain[i]]) /\ height \in {i - 1, i}
  BY <1>6, <1>8, <1>9 DEF Placed
<1>12. i \in 1 .. Len(full) /\ full[i] = chain[i] /\ i \in Nat
  <2>1. i \in 1 .. Len(full) /\ i \in Nat
    BY <1>2, <1>3, <1>10
  <2>2. CASE i <= n
    <3>1. i \in 1 .. n
      BY <2>1, <2>2
    <3> QED  BY <1>9, <1>10, <2>1, <3>1
  <2>3. CASE i > n
    <3> DEFINE j == i - n
    <3>1. j \in 1 .. k /\ j \in 1 .. Len(c) /\ i = n + j
      BY <1>2, <1>3, <2>1, <2>3
    <3> HIDE DEF j
    <3>2. chain[n + j] = d[j] /\ full[n + j] = c[j] /\ d[j] = c[j]
      BY <1>5, <1>9, <1>10, <3>1
    <3> QED  BY <2>1, <3>1, <3>2
  <2> QED  BY <1>2, <2>1, <2>2, <2>3
<1>13. t \notin DuplicateTxIds
  <2> SUFFICES ASSUME t \in DuplicateTxIds PROVE FALSE
    OBVIOUS
  <2>1. /\ o.vout + 1 \in DOMAIN Tx[o.txid].outputs
        /\ r.set.utxos[o].txout = Tx[o.txid].outputs[o.vout + 1]
    BY <1>6, <1>8 DEF RunOK, SetOK, Authentic
  <2>2. Tx[t].outputs[o.vout + 1].address = NoAddress
    BY <2>1, DuplicateAssumption
  <2> QED  BY <1>8, <2>1, <2>2, TxAssumption
<1> DEFINE S == {j \in DOMAIN full : t \in Range(TxData[full[j]])}
<1>14. S = {i}
  <2>1. full \in Seq(Block) /\ DOMAIN full = 1 .. Len(full)
    BY <1>10 DEF LinkedChain
  <2>2. i \in S
    BY <1>11, <1>12, <2>1
  <2>3. ASSUME NEW j \in 1 .. Len(full), NEW l \in 1 .. j, l # j,
               t \in Range(TxData[full[j]]), t \in Range(TxData[full[l]])
        PROVE  FALSE
    <3>1. full[l] \in Past[full[j]] /\ full[l] # full[j] /\ full[j] \in Block
      <4>1. full[j] \in Block
        BY <2>1
      <4>2. full[l] \in Past[full[j]] /\ (l # j => full[l] # full[j])
        BY <1>10, ChainPast
      <4> QED  BY <2>3, <4>1, <4>2
    <3>2. PICK x \in DOMAIN TxData[full[j]] : TxData[full[j]][x] = t
      BY <2>3 DEF Range
    <3>3. PICK y \in DOMAIN TxData[full[l]] : TxData[full[l]][y] = t
      BY <2>3 DEF Range
    <3> QED  BY <1>13, <3>1, <3>2, <3>3, TxsOnceAssumption
  <2>4. ASSUME NEW j \in S PROVE j = i
    <3>1. j \in 1 .. Len(full) /\ t \in Range(TxData[full[j]])
      BY <2>1
    <3>2. t \in Range(TxData[full[i]])
      BY <1>11, <1>12
    <3>3. i \in 1 .. j \/ j \in 1 .. i
      BY <1>12, <3>1
    <3> QED  BY <1>12, <2>3, <3>1, <3>2, <3>3
  <2> HIDE DEF S
  <2> QED  BY <2>2, <2>4
<1>15. Min(S) = i
  <2> HIDE DEF S
  <2>1. S \in SUBSET Nat /\ S # {}
    BY <1>12, <1>14
  <2>2. Min(S) \in S
    BY <2>1, MinExists
  <2> QED  BY <1>14, <2>2
<1>16. ConfirmationsOf(t) = Len(full) - i + 1
  BY <1>15 DEF ConfirmationsOf, full, c
<1> HIDE DEF S, height, t
<1>17. main - height + 1 >= m
  <2>1. height <= i /\ height \in Int /\ i <= n + k
    BY <1>11, <1>12
  <2>2. k = 0 \/ Len(c) - k + 1 >= m
    BY <1>3, <1>4
  <2> QED  BY <1>2, <1>3, <2>1, <2>2
<1>18. (main - height + 1) - ConfirmationsOf(t) \in {0, 1}
  <2> DEFINE held == ConfirmationsOf(t)
             all == n + Len(c)
  <2>1. held = (all - i) + 1 /\ main = all /\ all \in Nat /\ i \in Nat
    BY <1>2, <1>3, <1>10, <1>12, <1>16
  <2>2. height = i \/ height = i - 1
    BY <1>11
  <2> HIDE DEF held, all
  <2>3. (main - height + 1) - held \in {0, 1}
    BY <2>1, <2>2
  <2> QED  BY <2>3 DEF held
<1> QED  BY <1>17, <1>18 DEF height, main, r, t

\* A query returns all entries of its address: the filter on confirmations
\* removes none.
LEMMA QueryReturns ==
    ASSUME QueryInv, NEW a \in Address, NEW m \in 0 .. Len(Chain(state)) + 1
    PROVE  LET set == AppliedTo(state, a, m).set
           IN  AddressUtxos(state, a, m) = {EntryOf(set, o) : o \in OutpointsOf(set.utxos, a)}
<1> DEFINE r == AppliedTo(state, a, m)
           set == r.set
           part == GetUtxos(set, a)
           main == MainChainHeight(state)
           O == OutpointsOf(set.utxos, a)
           E(o) == <<o, set.utxos[o].txout, set.utxos[o].height>>
<1>1. m \in Nat
  <2>1. StateOK(state)
    BY DEF QueryInv, StoreInv
  <2>2. Chain(state) \in Seq(Block)
    BY <2>1, CurrentChainOK DEF ChainFrom, LinkedChain
  <2>3. Len(Chain(state)) + 1 \in Nat
    BY <2>2
  <2> QED  BY <2>3
<1>2. Consistent(set)
  BY <1>1, QueryBuilds DEF RunOK, SetOK
<1>3. \A o \in O : main - set.utxos[o].height + 1 >= m
  BY EntryPlace
<1>4. AddressUtxos(state, a, m) = {u \in IntoSet(part) : main - u[3] + 1 >= m}
  BY DEF AddressUtxos
<1> HIDE DEF r, main
<1>5. DOMAIN part.utxos = O /\ \A o \in O : part.utxos[o] = set.utxos[o]
  <2> HIDE DEF set
  <2> QED  BY <1>2, AnswerIsOfAddress
<1>6. IntoSet(part) = {<<o, part.utxos[o].txout, part.utxos[o].height>> : o \in DOMAIN part.utxos}
  BY DEF IntoSet
<1> HIDE DEF part, O
<1>7. IntoSet(part) = {E(o) : o \in O}
  <2>1. \A o \in O : <<o, part.utxos[o].txout, part.utxos[o].height>> = E(o)
    BY <1>5
  <2> HIDE DEF E
  <2> QED  BY <1>5, <1>6, <2>1
<1>8. \A o \in O : E(o)[3] = set.utxos[o].height
  OBVIOUS
<1> HIDE DEF E
<1>9. {u \in IntoSet(part) : main - u[3] + 1 >= m} = {E(o) : o \in O}
  BY <1>3, <1>7, <1>8
<1> QED  BY <1>4, <1>9 DEF EntryOf, O, E, set, r

\* An output as the ledger has it.
OutputOf(set, o) == <<o, set.utxos[o].txout>>

LEMMA QueryExpected ==
    ASSUME QueryInv, NEW a \in Address, NEW m \in Nat
    PROVE  LET set == AppliedTo(state, a, m).set
               O == OutpointsOf(set.utxos, a)
           IN  /\ OfAddress(Replay(QueryChain(m)), a) = {OutputOf(set, o) : o \in O}
               /\ IsFiniteSet(O)
               /\ \A o \in O : set.utxos[o].txout.value \in Nat
<1> DEFINE r == AppliedTo(state, a, m)
           set == r.set
           O == OutpointsOf(set.utxos, a)
           D == DOMAIN set.utxos
           chain == QueryChain(m)
           all == Replay(chain)
<1>1. SetOK(set) /\ PartOf(Pairs(set), all, a)
  BY QueryBuilds DEF RunOK
<1>2. chain \in Seq(Block)
  <2>1. StateOK(state) /\ stable \in Seq(Block)
    BY DEF QueryInv, StoreInv
  <2>2. PICK k \in 0 .. Len(Chain(state)) : Confirmed(state, m) = SubSeq(Chain(state), 1, k)
    BY <2>1, ConfirmedOK
  <2>3. Chain(state) \in Seq(Block)
    BY <2>1, CurrentChainOK DEF ChainFrom, LinkedChain
  <2>4. Confirmed(state, m) \in Seq(Block)
    BY <2>2, <2>3
  <2> QED  BY <2>1, <2>4 DEF QueryChain
<1> HIDE DEF chain, r
<1>3. IsFiniteSet(all)
  BY <1>2, ReplayFinite
<1> HIDE DEF set, all
<1>4. Pairs(set) = {<<o, set.utxos[o].txout>> : o \in DOMAIN set.utxos}
  BY PairsFacts
<1>5. ASSUME NEW u \in OfAddress(all, a) PROVE u \in {OutputOf(set, o) : o \in O}
  <2>1. u \in Pairs(set) /\ u[2].address = a
    BY <1>1 DEF PartOf, OfAddress
  <2>2. PICK o \in DOMAIN set.utxos : u = <<o, set.utxos[o].txout>>
    BY <1>4, <2>1
  <2>3. o \in O
    BY <2>1, <2>2 DEF OutpointsOf
  <2> QED  BY <2>2, <2>3 DEF OutputOf
<1>6. ASSUME NEW o \in O PROVE OutputOf(set, o) \in OfAddress(all, a)
  <2>1. o \in DOMAIN set.utxos /\ set.utxos[o].txout.address = a
    BY DEF OutpointsOf
  <2>2. OutputOf(set, o) \in Pairs(set) /\ OutputOf(set, o)[2] = set.utxos[o].txout
    BY <1>4, <2>1 DEF OutputOf
  <2> QED  BY <1>1, <2>1, <2>2 DEF PartOf, OfAddress
<1>7. OfAddress(all, a) = {OutputOf(set, o) : o \in O}
  <2> HIDE DEF O
  <2> QED  BY <1>5, <1>6
<1>8. IsFiniteSet(O)
  <2> DEFINE some == Pairs(set)
             f == [u \in some |-> u[1]]
  <2>1. some \in SUBSET all
    BY <1>1 DEF PartOf
  <2> HIDE DEF some
  <2>2. IsFiniteSet(some)
    BY <1>3, <2>1, FS_Subset
  <2>3. IsFiniteSet({f[u] : u \in some})
    <3> HIDE DEF f
    <3> QED  BY <2>2, ImageFinite
  <2>4. {f[u] : u \in some} = {u[1] : u \in some}
    OBVIOUS
  <2>5. {u[1] : u \in some} = D
    BY PairsKeys DEF some
  <2>6. O \in SUBSET D
    BY DEF OutpointsOf
  <2> HIDE DEF O, D, f
  <2>7. IsFiniteSet(D)
    BY <2>3, <2>4, <2>5
  <2> QED  BY <2>6, <2>7, FS_Subset
<1>9. ASSUME NEW o \in O PROVE set.utxos[o].txout.value \in Nat
  <2>1. /\ o \in DOMAIN set.utxos /\ o \in OutPoint
        /\ o.vout + 1 \in DOMAIN Tx[o.txid].outputs
        /\ set.utxos[o].txout = Tx[o.txid].outputs[o.vout + 1]
    BY <1>1 DEF SetOK, Authentic, OutpointsOf
  <2>2. o.txid \in TxId
    BY <2>1 DEF OutPoint
  <2>3. Tx[o.txid].outputs \in Seq(TxOut)
    BY <2>2, TxAssumption
  <2>4. Tx[o.txid].outputs[o.vout + 1] \in TxOut
    BY <2>1, <2>3
  <2> QED  BY <2>1, <2>4 DEF TxOut
<1> QED  BY <1>7, <1>8, <1>9 DEF all, set, O, r, chain

LEMMA AnswersMatch ==
    ASSUME QueryInv, NEW a \in Address, NEW m \in 0 .. Len(Chain(state)) + 1
    PROVE  LET expected == OfAddress(Replay(QueryChain(m)), a)
               response == GetUtxosResponse(state, a, m)
           IN  /\ {<<r.outpoint, r.value>> : r \in response}
                     = {<<u[1], u[2].value>> : u \in expected}
               /\ \A r \in response :
                     r.confirmations - ConfirmationsOf(r.outpoint.txid) \in {0, 1}
               /\ Balance(state, a, m) = MapThenSumSet(LAMBDA u : u[2].value, expected)
<1> DEFINE set == AppliedTo(state, a, m).set
           O == OutpointsOf(set.utxos, a)
           main == MainChainHeight(state)
           found == AddressUtxos(state, a, m)
           expected == OfAddress(Replay(QueryChain(m)), a)
           response == GetUtxosResponse(state, a, m)
           Answer(u) == [outpoint |-> u[1], value |-> u[2].value, height |-> u[3],
                         confirmations |-> main - u[3] + 1]
<1>1. m \in Nat
  <2>1. StateOK(state)
    BY DEF QueryInv, StoreInv
  <2>2. Chain(state) \in Seq(Block)
    BY <2>1, CurrentChainOK DEF ChainFrom, LinkedChain
  <2>3. Len(Chain(state)) + 1 \in Nat
    BY <2>2
  <2> QED  BY <2>3
<1>2. found = {EntryOf(set, o) : o \in O}
  BY QueryReturns
<1>3. /\ expected = {OutputOf(set, o) : o \in O}
      /\ IsFiniteSet(O)
      /\ \A o \in O : set.utxos[o].txout.value \in Nat
  BY <1>1, QueryExpected
<1> DEFINE C(t) == ConfirmationsOf(t)
           Excess(o) == (main - set.utxos[o].height + 1) - C(o.txid)
<1>4. \A o \in O : Excess(o) \in {0, 1}
  BY EntryPlace
<1>5. response = {Answer(u) : u \in found}
  BY DEF GetUtxosResponse
<1> HIDE DEF set, O, main, found, expected, response, Excess, C
<1> DEFINE E == [o \in O |-> EntryOf(set, o)]
           F == [o \in O |-> OutputOf(set, o)]
           A == [o \in O |-> Answer(EntryOf(set, o))]
<1>6. \A o \in O : /\ E[o][1] = o /\ E[o][2] = set.utxos[o].txout
                   /\ E[o][3] = set.utxos[o].height
                   /\ F[o][1] = o /\ F[o][2] = set.utxos[o].txout
  BY DEF EntryOf, OutputOf
<1>7. \A o \in O : /\ A[o].outpoint = o /\ A[o].value = set.utxos[o].txout.value
                   /\ A[o].confirmations = main - set.utxos[o].height + 1
  <2> SUFFICES ASSUME NEW o \in O
               PROVE /\ A[o].outpoint = o /\ A[o].value = set.utxos[o].txout.value
                     /\ A[o].confirmations = main - set.utxos[o].height + 1
    OBVIOUS
  <2> DEFINE u == EntryOf(set, o)
  <2>1. u[1] = o /\ u[2] = set.utxos[o].txout /\ u[3] = set.utxos[o].height
    BY DEF EntryOf
  <2>2. A[o] = [outpoint |-> u[1], value |-> u[2].value, height |-> u[3],
                confirmations |-> main - u[3] + 1]
    OBVIOUS
  <2> HIDE DEF u, A
  <2>3. /\ A[o].outpoint = u[1] /\ A[o].value = u[2].value
        /\ A[o].confirmations = main - u[3] + 1
    BY <2>2
  <2> QED  BY <2>1, <2>3
<1>8. found = {E[o] : o \in O} /\ expected = {F[o] : o \in O}
  BY <1>2, <1>3
<1>9. response = {A[o] : o \in O}
  BY <1>2, <1>5
<1> HIDE DEF E, F, A
<1>10. {<<r.outpoint, r.value>> : r \in response} = {<<u[1], u[2].value>> : u \in expected}
  <2> DEFINE V(o) == <<o, set.utxos[o].txout.value>>
  <2>1. \A o \in O : <<A[o].outpoint, A[o].value>> = V(o)
    BY <1>7
  <2>2. \A o \in O : <<F[o][1], F[o][2].value>> = V(o)
    BY <1>6
  <2> HIDE DEF V
  <2>3. {<<r.outpoint, r.value>> : r \in response} = {V(o) : o \in O}
    BY <1>9, <2>1
  <2>4. {<<u[1], u[2].value>> : u \in expected} = {V(o) : o \in O}
    BY <1>8, <2>2
  <2> QED  BY <2>3, <2>4
<1>11. ASSUME NEW r \in response
       PROVE  r.confirmations - ConfirmationsOf(r.outpoint.txid) \in {0, 1}
  <2>1. PICK o \in O : r = A[o]
    BY <1>9
  <2>2. r.outpoint = o /\ r.confirmations = main - set.utxos[o].height + 1
    BY <1>7, <2>1
  <2>3. Excess(o) \in {0, 1}
    BY <1>4, <2>1
  <2> DEFINE h == main - set.utxos[o].height + 1
             t == o.txid
  <2>4. Excess(o) = h - C(t)
    BY DEF Excess
  <2>5. r.confirmations = h
    BY <2>2
  <2>6. r.outpoint.txid = t
    BY <2>2
  <2> HIDE DEF h, t
  <2>7. r.confirmations - C(r.outpoint.txid) \in {0, 1}
    BY <2>3, <2>4, <2>5, <2>6
  <2> QED  BY <2>7 DEF C
<1>12. Balance(state, a, m) = MapThenSumSet(LAMBDA u : u[2].value, expected)
  <2>1. ValueSum({E[o] : o \in O}) = ValueSum({F[o] : o \in O})
    <3>1. \A o \in O : E[o][2].value \in Nat /\ E[o][2].value = F[o][2].value
      BY <1>3, <1>6
    <3>2. \A o, w \in O : E[o] = E[w] => o = w
      BY <1>6
    <3>3. \A o, w \in O : F[o] = F[w] => o = w
      BY <1>6
    <3>4. IsFiniteSet(O)
      BY <1>3
    <3> HIDE DEF Answer
    <3> QED  BY ONLY <3>1, <3>2, <3>3, <3>4, SameSum
  <2>2. ValueSum(found) = ValueSum(expected)
    BY <1>8, <2>1
  <2>3. Balance(state, a, m) = ValueSum(found)
    BY DEF Balance, ValueSum, found
  <2>4. MapThenSumSet(LAMBDA u : u[2].value, expected) = ValueSum(expected)
    BY DEF ValueSum
  <2> QED  BY <2>2, <2>3, <2>4
<1> QED  BY <1>10, <1>11, <1>12 DEF response, expected

\* Whatever blocks come, in whatever order and however often, get_utxos and
\* get_balance answer what replaying the chain from genesis gives, for every
\* address and every number of confirmations, and the confirmations told of
\* an output are right or one too many.
THEOREM QueriesAlwaysMatch == SpecAnyOrder => []QueriesMatchReplay
<1>1. ASSUME QueryInv PROVE QueriesMatchReplay
  BY <1>1, AnswersMatch DEF QueriesMatchReplay, QueryChain
<1> QED  BY <1>1, SpecQuery, PTL

-----------------------------------------------------------------------------
(* What chains have in common.                                             *)

\* A sequence is where another one begins.
Begins(p, c) == Len(p) <= Len(c) /\ \A i \in 1 .. Len(p) : p[i] = c[i]

LEMMA BeginsIsPrefix ==
    ASSUME NEW S, NEW p \in Seq(S), NEW c \in Seq(S)
    PROVE  /\ IsPrefix(p, c) <=> Begins(p, c)
           /\ Begins(p, c) <=> \E l \in 0 .. Len(c) : p = SubSeq(c, 1, l)
<1> DEFINE n == Len(p)
           m == Len(c)
<1>1. n \in Nat /\ m \in Nat /\ SubSeq(p, 1, n) = p
  OBVIOUS
<1>2. ASSUME NEW l \in 0 .. m
      PROVE  /\ SubSeq(c, 1, l) \in Seq(S) /\ Len(SubSeq(c, 1, l)) = l
             /\ \A i \in 1 .. l : SubSeq(c, 1, l)[i] = c[i]
  BY <1>1
<1>3. ASSUME Begins(p, c) PROVE n \in 0 .. m /\ p = SubSeq(c, 1, n)
  <2> DEFINE d == SubSeq(c, 1, n)
  <2>1. n \in 0 .. m
    BY <1>1, <1>3 DEF Begins
  <2>2. d \in Seq(S) /\ Len(d) = n /\ \A i \in 1 .. n : d[i] = c[i]
    BY <1>2, <2>1
  <2> HIDE DEF d
  <2>3. p = d
    BY <1>3, <2>2, SeqEqual DEF Begins
  <2> QED  BY <2>1, <2>3 DEF d
<1>4. ASSUME NEW l \in 0 .. m, p = SubSeq(c, 1, l) PROVE Begins(p, c)
  <2>1. n = l /\ \A i \in 1 .. l : p[i] = c[i]
    BY <1>2, <1>4
  <2> QED  BY <2>1 DEF Begins
<1>5. ASSUME IsPrefix(p, c) PROVE n \in 0 .. m /\ p = SubSeq(c, 1, n)
  BY <1>1, <1>5 DEF IsPrefix
<1>6. ASSUME n \in 0 .. m, p = SubSeq(c, 1, n) PROVE IsPrefix(p, c)
  BY <1>1, <1>6 DEF IsPrefix
<1>7. IsPrefix(p, c) <=> Begins(p, c)
  BY <1>3, <1>4, <1>5, <1>6
<1>8. Begins(p, c) <=> \E l \in 0 .. m : p = SubSeq(c, 1, l)
  BY <1>3, <1>4
<1> QED  BY <1>7, <1>8

LEMMA CommonIsBegun ==
    ASSUME NEW S, NEW C \in SUBSET Seq(S), C # {}
    PROVE  CommonPrefixes(C) = {p \in Seq(S) : \A c \in C : Begins(p, c)}
<1>1. ASSUME NEW p \in CommonPrefixes(C)
      PROVE  p \in Seq(S) /\ \A c \in C : Begins(p, c)
  <2>1. PICK c \in C : \E l \in 0 .. Len(c) : p = SubSeq(c, 1, l)
    BY <1>1 DEF CommonPrefixes, Prefixes
  <2>2. PICK l \in 0 .. Len(c) : p = SubSeq(c, 1, l)
    BY <2>1
  <2>3. c \in Seq(S)
    OBVIOUS
  <2>4. p \in Seq(S)
    BY <2>2, <2>3
  <2>5. \A d \in C : IsPrefix(p, d)
    BY <1>1 DEF CommonPrefixes
  <2> QED  BY <2>4, <2>5, BeginsIsPrefix
<1>2. ASSUME NEW p \in Seq(S), \A c \in C : Begins(p, c)
      PROVE  p \in CommonPrefixes(C)
  <2>1. PICK c0 \in C : TRUE
    OBVIOUS
  <2>2. \E l \in 0 .. Len(c0) : p = SubSeq(c0, 1, l)
    BY <1>2, BeginsIsPrefix
  <2>3. p \in Prefixes(c0)
    BY <2>2 DEF Prefixes
  <2>4. \A d \in C : IsPrefix(p, d)
    BY <1>2, BeginsIsPrefix
  <2> QED  BY <2>3, <2>4 DEF CommonPrefixes
<1> QED  BY <1>1, <1>2

\* There is only one longest common prefix.
LEMMA OneCommonPart ==
    ASSUME NEW S, NEW C \in SUBSET Seq(S), C # {}, NEW p \in Seq(S),
           \A c \in C : Begins(p, c),
           \A q \in Seq(S) : (\A c \in C : Begins(q, c)) => Len(q) <= Len(p)
    PROVE  LongestCommonPrefix(C) = p
<1> DEFINE l == LongestCommonPrefix(C)
<1>1. CommonPrefixes(C) = {q \in Seq(S) : \A c \in C : Begins(q, c)}
  BY CommonIsBegun
<1>2. l \in CommonPrefixes(C) /\ \A q \in CommonPrefixes(C) : Len(q) <= Len(l)
  BY CommonPart
<1> HIDE DEF l
<1>3. l \in Seq(S) /\ (\A c \in C : Begins(l, c)) /\ Len(p) <= Len(l) /\ Len(l) <= Len(p)
  BY <1>1, <1>2
<1>4. PICK c \in C : TRUE
  OBVIOUS
<1>5. Len(l) \in Nat /\ Len(p) \in Nat
  BY <1>3
<1>6. Len(l) = Len(p) /\ \A i \in 1 .. Len(p) : l[i] = p[i]
  BY <1>3, <1>4, <1>5 DEF Begins
<1>7. l = p
  BY <1>3, <1>6, SeqEqual
<1> QED  BY <1>7 DEF l

Prepend(b, d) == <<b>> \o d

LEMMA PrependFacts ==
    ASSUME NEW S, NEW b \in S, NEW d \in Seq(S)
    PROVE  /\ Prepend(b, d) \in Seq(S) /\ Len(Prepend(b, d)) = Len(d) + 1 /\ Len(d) \in Nat
           /\ Prepend(b, d)[1] = b
           /\ \A i \in 1 .. Len(d) : Prepend(b, d)[i + 1] = d[i]
<1>1. <<b>> \in Seq(S) /\ Len(<<b>>) = 1 /\ <<b>>[1] = b
  OBVIOUS
<1> QED  BY <1>1 DEF Prepend

LEMMA PrependBegins ==
    ASSUME NEW S, NEW b \in S, NEW p \in Seq(S), NEW d \in Seq(S)
    PROVE  Begins(Prepend(b, p), Prepend(b, d)) <=> Begins(p, d)
<1> DEFINE P == Prepend(b, p)
           D == Prepend(b, d)
           n == Len(p)
           m == Len(d)
<1>1. /\ Len(P) = n + 1 /\ Len(D) = m + 1 /\ n \in Nat /\ m \in Nat
      /\ P[1] = b /\ D[1] = b
      /\ \A i \in 1 .. n : P[i + 1] = p[i]
      /\ \A i \in 1 .. m : D[i + 1] = d[i]
  <2>1. /\ Len(P) = n + 1 /\ n \in Nat /\ P[1] = b
        /\ \A i \in 1 .. n : P[i + 1] = p[i]
    BY PrependFacts
  <2>2. /\ Len(D) = m + 1 /\ m \in Nat /\ D[1] = b
        /\ \A i \in 1 .. m : D[i + 1] = d[i]
    BY PrependFacts
  <2> QED  BY <2>1, <2>2
<1> HIDE DEF P, D, n, m
<1>2. ASSUME n <= m, \A i \in 1 .. n : p[i] = d[i], NEW i \in 1 .. n + 1
      PROVE  P[i] = D[i]
  <2>1. CASE i = 1
    BY <1>1, <2>1
  <2>2. CASE i # 1
    <3>1. i - 1 \in 1 .. n /\ i - 1 \in 1 .. m /\ (i - 1) + 1 = i
      BY <1>1, <1>2, <2>2
    <3> QED  BY <1>1, <1>2, <3>1
  <2> QED  BY <2>1, <2>2
<1>3. ASSUME n <= m, \A i \in 1 .. n + 1 : P[i] = D[i], NEW i \in 1 .. n
      PROVE  p[i] = d[i]
  <2>1. i + 1 \in 1 .. n + 1 /\ i \in 1 .. m
    BY <1>1, <1>3
  <2> QED  BY <1>1, <1>3, <2>1
<1>4. Begins(P, D) <=> (n + 1 <= m + 1 /\ \A i \in 1 .. n + 1 : P[i] = D[i])
  BY <1>1 DEF Begins
<1>5. Begins(p, d) <=> (n <= m /\ \A i \in 1 .. n : p[i] = d[i])
  BY DEF Begins, n, m
<1> QED  BY <1>1, <1>2, <1>3, <1>4, <1>5 DEF P, D

\* A block put before chains is put before what they have in common.
LEMMA CommonPrepended ==
    ASSUME NEW S, NEW C \in SUBSET Seq(S), C # {}, NEW b \in S
    PROVE  LongestCommonPrefix({Prepend(b, d) : d \in C}) = Prepend(b, LongestCommonPrefix(C))
<1> DEFINE l == LongestCommonPrefix(C)
           bC == {Prepend(b, d) : d \in C}
           p == Prepend(b, l)
<1>1. CommonPrefixes(C) = {q \in Seq(S) : \A c \in C : Begins(q, c)}
  BY CommonIsBegun
<1>2. l \in CommonPrefixes(C) /\ \A q \in CommonPrefixes(C) : Len(q) <= Len(l)
  BY CommonPart
<1> HIDE DEF l
<1>3. l \in Seq(S) /\ \A c \in C : Begins(l, c)
  BY <1>1, <1>2
<1>4. \A d \in C : Prepend(b, d) \in Seq(S)
  BY PrependFacts
<1>5. bC \in SUBSET Seq(S) /\ bC # {}
  BY <1>4
<1>6. p \in Seq(S) /\ Len(p) = Len(l) + 1 /\ Len(l) \in Nat
  BY <1>3, PrependFacts
<1>7. ASSUME NEW d \in C PROVE Begins(p, Prepend(b, d))
  BY <1>3, PrependBegins
<1>8. \A c \in bC : Begins(p, c)
  BY <1>7
<1>9. ASSUME NEW q \in Seq(S), \A c \in bC : Begins(q, c) PROVE Len(q) <= Len(p)
  <2>1. CASE q = << >>
    BY <1>6, <2>1
  <2>2. CASE q # << >>
    <3> DEFINE t == Tail(q)
    <3>1. t \in Seq(S) /\ Len(q) \in Nat /\ Len(q) >= 1 /\ Len(q) = Len(t) + 1
          /\ \A i \in 1 .. Len(t) : t[i] = q[i + 1]
      BY <2>2
    <3>2. PICK d0 \in C : TRUE
      OBVIOUS
    <3>3. Begins(q, Prepend(b, d0)) /\ Prepend(b, d0)[1] = b
      BY <1>9, <3>2, PrependFacts
    <3>4. q[1] = b
      BY <3>1, <3>3 DEF Begins
    <3> HIDE DEF t
    <3>5. q = Prepend(b, t)
      <4>1. /\ Prepend(b, t) \in Seq(S) /\ Len(Prepend(b, t)) = Len(q) /\ Len(t) \in Nat
            /\ Prepend(b, t)[1] = b
            /\ \A i \in 1 .. Len(t) : Prepend(b, t)[i + 1] = t[i]
        BY <3>1, PrependFacts
      <4>2. ASSUME NEW i \in 1 .. Len(q) PROVE q[i] = Prepend(b, t)[i]
        <5>1. CASE i = 1
          BY <3>4, <4>1, <5>1
        <5>2. CASE i # 1
          <6>1. i - 1 \in 1 .. Len(t) /\ (i - 1) + 1 = i
            BY <3>1, <4>1, <5>2
          <6> QED  BY <3>1, <4>1, <6>1
        <5> QED  BY <5>1, <5>2
      <4> QED  BY <4>1, <4>2, SeqEqual
    <3>6. \A d \in C : Begins(t, d)
      BY <1>9, <3>1, <3>5, PrependBegins
    <3>7. Len(t) <= Len(l)
      BY <1>1, <1>2, <3>1, <3>6
    <3>8. Len(t) \in Nat
      BY <3>1
    <3> QED  BY <1>6, <3>1, <3>7, <3>8
  <2> QED  BY <2>1, <2>2
<1> HIDE DEF bC, p
<1>10. LongestCommonPrefix(bC) = p
  BY <1>5, <1>6, <1>8, <1>9, OneCommonPart
<1> QED  BY <1>10 DEF bC, p, l

LEMMA CommonOfOne ==
    ASSUME NEW S, NEW c \in Seq(S)
    PROVE  LongestCommonPrefix({c}) = c
<1>1. {c} \in SUBSET Seq(S) /\ {c} # {} /\ Begins(c, c)
  BY DEF Begins
<1>2. \A d \in {c} : Begins(c, d)
  BY <1>1
<1>3. \A q \in Seq(S) : (\A d \in {c} : Begins(q, d)) => Len(q) <= Len(c)
  BY DEF Begins
<1> QED  BY <1>1, <1>2, <1>3, OneCommonPart

-----------------------------------------------------------------------------
(* The chains of a tree and those of its subtrees.                         *)

LEMMA TipIs ==
    ASSUME NEW tree, TreeOK(tree), NEW p
    PROVE  p \in Tips(tree) <=>
             p \in DOMAIN tree /\ \A k \in Nat \ {0} : Child(p, k) \notin DOMAIN tree
<1> DEFINE D == DOMAIN tree
<1>1. D \subseteq Path
  BY DEF TreeOK, Shape
<1>2. ASSUME NEW q \in Children(tree, p) PROVE \E k \in Nat \ {0} : Child(p, k) \in D
  <2>1. q \in Path /\ q \in D /\ q # << >> /\ Front(q) = p
    BY <1>1 DEF Children
  <2>2. PICK r \in Path, k \in Nat \ {0} : q = Child(r, k)
    BY <2>1, IsChild
  <2>3. r = p
    BY <2>1, <2>2, ChildFacts
  <2> QED  BY <2>1, <2>2, <2>3
<1>3. ASSUME p \in D, NEW k \in Nat \ {0}, Child(p, k) \in D
      PROVE  Child(p, k) \in Children(tree, p)
  <2>1. Child(p, k) # << >> /\ Front(Child(p, k)) = p
    BY <1>1, <1>3, ChildFacts
  <2> QED  BY <1>3, <2>1 DEF Children
<1> QED  BY <1>2, <1>3 DEF Tips

LEMMA SubtreeTips ==
    ASSUME NEW tree, TreeOK(tree), NEW k \in Nat \ {0}, <<k>> \in DOMAIN tree, NEW q \in Path
    PROVE  Join(<<k>>, q) \in Tips(tree) <=> q \in Tips(Subtree(tree, k))
<1> DEFINE t == Subtree(tree, k)
           j == Join(<<k>>, q)
<1>1. TreeOK(t) /\ DOMAIN t = {p \in Path : Join(<<k>>, p) \in DOMAIN tree}
  BY SubtreeOK
<1> HIDE DEF t
<1>2. <<k>> \in Path
  BY DEF Path
<1>3. \A i \in Nat \ {0} : Child(q, i) \in Path /\ Child(j, i) = Join(<<k>>, Child(q, i))
  BY <1>2, ChildFacts, ChildOfJoin
<1>4. \A i \in Nat \ {0} : Child(j, i) \in DOMAIN tree <=> Child(q, i) \in DOMAIN t
  BY <1>1, <1>3
<1>5. j \in DOMAIN tree <=> q \in DOMAIN t
  BY <1>1
<1> HIDE DEF j
<1>6. j \in Tips(tree) <=>
        j \in DOMAIN tree /\ \A i \in Nat \ {0} : Child(j, i) \notin DOMAIN tree
  BY TipIs
<1>7. q \in Tips(t) <=> q \in DOMAIN t /\ \A i \in Nat \ {0} : Child(q, i) \notin DOMAIN t
  BY <1>1, TipIs
<1>8. j \in Tips(tree) <=> q \in Tips(t)
  BY <1>4, <1>5, <1>6, <1>7
<1> QED  BY <1>8 DEF j, t

\* The blocks on the way to a path.
TreeChain(tree, tip) == [i \in 1 .. Len(tip) + 1 |-> tree[SubSeq(tip, 1, i - 1)]]

LEMMA ChainsOfTips ==
    ASSUME NEW tree
    PROVE  Blockchains(tree) = {TreeChain(tree, tip) : tip \in Tips(tree)}
BY DEF Blockchains, TreeChain

\* What a path begins with.
LEMMA PathParts ==
    ASSUME NEW D, Shape(D), NEW q \in D, NEW i \in 0 .. Len(q)
    PROVE  SubSeq(q, 1, i) \in D /\ SubSeq(q, 1, i) \in Path /\ Len(SubSeq(q, 1, i)) = i
<1> DEFINE n == Len(q)
           a == SubSeq(q, 1, i)
           b == SubSeq(q, i + 1, n)
<1>1. q \in Path /\ n \in Nat /\ q \in Seq(Nat \ {0})
  BY PathFacts DEF Shape, Path
<1>2. a \in Path /\ b \in Path /\ Len(a) = i
  <2>1. a \in Seq(Nat \ {0}) /\ Len(a) = i
    BY <1>1
  <2>2. b \in Seq(Nat \ {0})
    BY <1>1
  <2> QED  BY <2>1, <2>2 DEF Path
<1>3. a \o b = q
  <2>1. /\ Len(b) = n - i
        /\ \A j \in 1 .. n - i : b[j] = q[i + j]
        /\ \A j \in 1 .. i : a[j] = q[j]
    <3>1. \A j \in 1 .. i : a[j] = q[j]
      BY <1>1
    <3>2. Len(b) = n - i
      BY <1>1
    <3>3. \A j \in 1 .. n - i : b[j] = q[i + j]
      BY <1>1
    <3> QED  BY <3>1, <3>2, <3>3
  <2> HIDE DEF a, b
  <2> DEFINE c == a \o b
  <2>2. /\ c \in Seq(Nat \ {0}) /\ Len(c) = Len(a) + Len(b)
        /\ \A j \in 1 .. Len(a) + Len(b) : c[j] = IF j <= Len(a) THEN a[j] ELSE b[j - Len(a)]
    BY <1>2, ConcatProperties DEF Path
  <2> HIDE DEF c
  <2>3. Len(c) = n /\ \A j \in 1 .. n : c[j] = q[j]
    <3>1. Len(a) = i /\ Len(b) = n - i /\ n \in Nat /\ i \in 0 .. n
      BY <1>1, <1>2, <2>1
    <3>2. ASSUME NEW j \in 1 .. n PROVE c[j] = q[j]
      <4>1. CASE j <= i
        BY <2>1, <2>2, <3>1, <4>1
      <4>2. CASE j > i
        <5>1. j - i \in 1 .. n - i /\ i + (j - i) = j
          BY <3>1, <4>2
        <5> QED  BY <2>1, <2>2, <3>1, <4>2, <5>1
      <4> QED  BY <3>1, <4>1, <4>2
    <3> QED  BY <2>2, <3>1, <3>2
  <2>4. c = q
    BY <1>1, <2>2, <2>3, SeqEqual
  <2> QED  BY <2>4 DEF c
<1>4. Join(a, b) = q
  BY <1>3 DEF Join
<1> HIDE DEF a, b
<1>5. a \in D
  BY <1>2, <1>4 DEF Shape
<1> QED  BY <1>2, <1>5 DEF a

LEMMA SubtreeChain ==
    ASSUME NEW tree, TreeOK(tree), NEW k \in Nat \ {0}, <<k>> \in DOMAIN tree,
           NEW q \in DOMAIN Subtree(tree, k)
    PROVE  TreeChain(tree, Join(<<k>>, q)) = Prepend(Root(tree), TreeChain(Subtree(tree, k), q))
<1> DEFINE t == Subtree(tree, k)
           j == Join(<<k>>, q)
           n == Len(q)
           c == TreeChain(t, q)
           d == TreeChain(tree, j)
<1>1. /\ TreeOK(t) /\ DOMAIN t = {p \in Path : Join(<<k>>, p) \in DOMAIN tree}
      /\ \A p \in DOMAIN t : t[p] = tree[Join(<<k>>, p)]
  BY SubtreeOK
<1>2. Shape(DOMAIN t) /\ Shape(DOMAIN tree)
  BY <1>1 DEF TreeOK
<1>3. q \in Path /\ n \in Nat /\ <<k>> \in Path /\ q \in DOMAIN t /\ q \in Seq(Nat \ {0})
  BY <1>1, PathFacts DEF Path
<1> HIDE DEF t
<1>4. \A i \in 0 .. n : /\ SubSeq(q, 1, i) \in DOMAIN t /\ SubSeq(q, 1, i) \in Path
                        /\ Len(SubSeq(q, 1, i)) = i
  BY <1>2, <1>3, PathParts
<1>5. /\ j \in Path /\ Len(j) = n + 1 /\ j[1] = k
      /\ \A i \in 1 .. n : j[i + 1] = q[i]
  <2>1. <<k>> \in Seq(Nat \ {0}) /\ Len(<<k>>) = 1 /\ <<k>>[1] = k
    OBVIOUS
  <2>2. (<<k>> \o q) \in Seq(Nat \ {0}) /\ Len(<<k>> \o q) = n + 1 /\ (<<k>> \o q)[1] = k
    BY <1>3, <2>1
  <2>3. \A i \in 1 .. n : (<<k>> \o q)[i + 1] = q[i]
    BY <1>3, <2>1
  <2> QED  BY <2>2, <2>3 DEF Join, Path
<1>6. ASSUME NEW i \in 0 .. n
      PROVE  SubSeq(j, 1, i + 1) = Join(<<k>>, SubSeq(q, 1, i))
  <2> DEFINE a == SubSeq(j, 1, i + 1)
             s == SubSeq(q, 1, i)
             b == <<k>> \o s
  <2>1. /\ s \in Seq(Nat \ {0}) /\ Len(s) = i /\ \A l \in 1 .. i : s[l] = q[l]
    BY <1>3
  <2>2. /\ a \in Seq(Nat \ {0}) /\ Len(a) = i + 1
        /\ \A l \in 1 .. i + 1 : a[l] = j[l]
    <3>1. j \in Seq(Nat \ {0}) /\ Len(j) = n + 1
      BY <1>5 DEF Path
    <3> HIDE DEF j
    <3>2. a \in Seq(Nat \ {0}) /\ Len(a) = i + 1
      BY <1>3, <3>1
    <3>3. \A l \in 1 .. i + 1 : a[l] = j[l]
      BY <1>3, <3>1
    <3> QED  BY <3>2, <3>3
  <2> HIDE DEF s, a, j
  <2>3. /\ b \in Seq(Nat \ {0}) /\ Len(b) = i + 1 /\ b[1] = k
        /\ \A l \in 1 .. i : b[l + 1] = s[l]
    <3>1. <<k>> \in Seq(Nat \ {0}) /\ Len(<<k>>) = 1 /\ <<k>>[1] = k
      OBVIOUS
    <3> QED  BY <2>1, <3>1
  <2> HIDE DEF b
  <2>4. ASSUME NEW l \in 1 .. i + 1 PROVE a[l] = b[l]
    <3>1. CASE l = 1
      BY <1>5, <2>2, <2>3, <3>1
    <3>2. CASE l # 1
      <4>1. l - 1 \in 1 .. i /\ l - 1 \in 1 .. n /\ (l - 1) + 1 = l
        BY <1>3, <3>2
      <4>2. b[(l - 1) + 1] = s[l - 1] /\ s[l - 1] = q[l - 1]
        BY <2>1, <2>3, <4>1
      <4>3. j[(l - 1) + 1] = q[l - 1] /\ a[l] = j[l]
        BY <1>5, <2>2, <4>1
      <4> QED  BY <4>1, <4>2, <4>3
    <3> QED  BY <3>1, <3>2
  <2>5. a = b
    BY <2>2, <2>3, <2>4, SeqEqual
  <2> QED  BY <2>5 DEF a, b, s, Join
<1>7. SubSeq(j, 1, 0) = << >>
  BY <1>5 DEF Path
<1>8. c = [i \in 1 .. n + 1 |-> t[SubSeq(q, 1, i - 1)]]
  BY DEF TreeChain
<1>9. d = [i \in 1 .. (n + 1) + 1 |-> tree[SubSeq(j, 1, i - 1)]]
  BY <1>5 DEF TreeChain
<1> DEFINE S == Range(tree)
<1>10. Root(tree) \in S /\ d[1] = Root(tree)
  <2>1. << >> \in DOMAIN tree
    BY <1>2 DEF Shape
  <2>2. 1 \in 1 .. (n + 1) + 1 /\ 1 - 1 = 0
    BY <1>3
  <2>3. d[1] = tree[<< >>]
    BY <1>7, <1>9, <2>2
  <2> QED  BY <2>1, <2>3 DEF Root, Range
<1> HIDE DEF c, d, j
<1>11. ASSUME NEW i \in 1 .. n + 1
       PROVE  /\ c[i] \in S /\ d[i + 1] = c[i]
  <2>1. i - 1 \in 0 .. n /\ (i - 1) + 1 = i /\ i + 1 \in 1 .. (n + 1) + 1 /\ (i + 1) - 1 = i
    BY <1>3
  <2> DEFINE s == SubSeq(q, 1, i - 1)
  <2>2. s \in DOMAIN t
    BY <1>4, <2>1
  <2>3. c[i] = t[s] /\ d[i + 1] = tree[SubSeq(j, 1, i)]
    BY <1>8, <1>9, <2>1
  <2>4. SubSeq(j, 1, i) = Join(<<k>>, s)
    BY <1>6, <2>1
  <2>5. t[s] = tree[Join(<<k>>, s)] /\ Join(<<k>>, s) \in DOMAIN tree
    BY <1>1, <2>2
  <2> QED  BY <2>3, <2>4, <2>5 DEF Range
<1> HIDE DEF S
<1>12. c \in Seq(S) /\ Len(c) = n + 1
  <2>1. n + 1 \in Nat
    BY <1>3
  <2> QED  BY <1>8, <1>11, <2>1
<1>13. d \in Seq(S) /\ Len(d) = (n + 1) + 1
  <2>1. ASSUME NEW i \in 1 .. (n + 1) + 1 PROVE d[i] \in S
    <3>1. CASE i = 1
      BY <1>10, <3>1
    <3>2. CASE i # 1
      <4>1. i - 1 \in 1 .. n + 1 /\ (i - 1) + 1 = i
        BY <1>3, <3>2
      <4>2. d[(i - 1) + 1] \in S
        BY <1>11, <4>1
      <4> QED  BY <4>1, <4>2
    <3> QED  BY <3>1, <3>2
  <2>2. (n + 1) + 1 \in Nat
    BY <1>3
  <2> QED  BY <1>9, <2>1, <2>2
<1> DEFINE e == Prepend(Root(tree), c)
<1>14. /\ e \in Seq(S) /\ Len(e) = (n + 1) + 1 /\ e[1] = Root(tree)
       /\ \A i \in 1 .. n + 1 : e[i + 1] = c[i]
  <2> DEFINE r == Root(tree)
  <2>1. r \in S /\ c \in Seq(S)
    BY <1>10, <1>12
  <2> HIDE DEF r
  <2>2. /\ Prepend(r, c) \in Seq(S) /\ Len(Prepend(r, c)) = Len(c) + 1
        /\ Prepend(r, c)[1] = r
        /\ \A i \in 1 .. Len(c) : Prepend(r, c)[i + 1] = c[i]
    BY ONLY <2>1, PrependFacts
  <2> QED  BY <1>12, <2>2 DEF r
<1> HIDE DEF e
<1>15. ASSUME NEW i \in 1 .. (n + 1) + 1 PROVE d[i] = e[i]
  <2>1. CASE i = 1
    BY <1>10, <1>14, <2>1
  <2>2. CASE i # 1
    <3>1. i - 1 \in 1 .. n + 1 /\ (i - 1) + 1 = i
      BY <1>3, <2>2
    <3>2. d[(i - 1) + 1] = c[i - 1] /\ e[(i - 1) + 1] = c[i - 1]
      BY <1>11, <1>14, <3>1
    <3> QED  BY <3>1, <3>2
  <2> QED  BY <2>1, <2>2
<1>16. d = e
  BY <1>13, <1>14, <1>15, SeqEqual
<1> QED  BY <1>16 DEF d, e, c, j, t

\* The subtrees of a tree, and the steps from its root.
LEMMA SubtreesAre ==
    ASSUME NEW tree, TreeOK(tree)
    PROVE  \E n \in Nat :
             /\ DOMAIN Subtrees(tree) = 1 .. n
             /\ \A k \in 1 .. n : Subtrees(tree)[k] = Subtree(tree, k)
             /\ \A k \in Nat \ {0} : <<k>> \in DOMAIN tree <=> k \in 1 .. n
             /\ n = 0 => Subtrees(tree) = << >>
<1> DEFINE f == Subtrees(tree)
           D == DOMAIN tree
<1>0. Shape(D) /\ << >> \in D
  BY DEF TreeOK, Shape
<1>1. PICK n \in Nat : \A k \in Nat \ {0} : Child(<< >>, k) \in D <=> k <= n
  BY <1>0 DEF Shape
<1>2. Cardinality(Children(tree, << >>)) = n
  BY <1>0, <1>1, ChildrenCounted
<1>3. \A k \in Nat \ {0} : <<k>> \in D <=> k \in 1 .. n
  <2>1. ASSUME NEW k \in Nat \ {0} PROVE <<k>> \in D <=> k \in 1 .. n
    <3>1. Child(<< >>, k) = <<k>>
      BY <1>0, ChildFacts DEF Shape
    <3> QED  BY <1>1, <3>1
  <2> QED  BY <2>1
<1>4. f = [k \in 1 .. n |-> Subtree(tree, k)]
  BY <1>2 DEF Subtrees
<1>5. ASSUME n = 0 PROVE f = << >>
  <2>1. f = [k \in 1 .. 0 |-> Subtree(tree, k)]
    BY <1>4, <1>5
  <2> HIDE DEF f
  <2>2. f \in Seq({})
    <3>1. f \in [1 .. 0 -> {}]
      BY <2>1
    <3> QED  BY <3>1, SeqDef
  <2> QED  BY <2>2, EmptySeq
<1> HIDE DEF f
<1>6. DOMAIN f = 1 .. n /\ \A k \in 1 .. n : f[k] = Subtree(tree, k)
  BY <1>4
<1> QED  BY <1>3, <1>5, <1>6 DEF f

\* The chains of all the trees of a forest.
AllChains(trees) == UNION {Blockchains(trees[k]) : k \in DOMAIN trees}

\* A tree that is only a root has one chain; the chains of another one are
\* those of its subtrees with the root before them.
LEMMA TreeChains ==
    ASSUME NEW tree, TreeOK(tree)
    PROVE  /\ Subtrees(tree) = << >> => Blockchains(tree) = {<<Root(tree)>>}
           /\ Subtrees(tree) # << >> =>
                Blockchains(tree) = {Prepend(Root(tree), c) : c \in AllChains(Subtrees(tree))}
<1> DEFINE f == Subtrees(tree)
           D == DOMAIN tree
           b == Root(tree)
<1>1. PICK n \in Nat :
        /\ DOMAIN f = 1 .. n
        /\ \A k \in 1 .. n : f[k] = Subtree(tree, k)
        /\ \A k \in Nat \ {0} : <<k>> \in D <=> k \in 1 .. n
        /\ n = 0 => f = << >>
  BY SubtreesAre
<1>2. Shape(D) /\ << >> \in D /\ << >> \in Path /\ D \subseteq Path
  BY DEF TreeOK, Shape
<1>3. \A k \in Nat \ {0} : Child(<< >>, k) = <<k>> /\ <<k>> \in Path
  BY <1>2, ChildFacts
<1>4. << >> \in Tips(tree) <=> n = 0
  <2>1. << >> \in Tips(tree) <=> \A k \in Nat \ {0} : <<k>> \notin D
    <3> DEFINE e == << >>
    <3> HIDE DEF e
    <3>1. e \in Tips(tree) <=> e \in D /\ \A k \in Nat \ {0} : Child(e, k) \notin D
      BY TipIs
    <3>2. e \in D /\ \A k \in Nat \ {0} : Child(e, k) = <<k>>
      BY <1>2, <1>3 DEF e
    <3>3. e \in Tips(tree) <=> \A k \in Nat \ {0} : <<k>> \notin D
      <4> HIDE DEF D
      <4> QED  BY <3>1, <3>2
    <3> QED  BY <3>3 DEF e
  <2>2. (\A k \in Nat \ {0} : k \notin 1 .. n) <=> n = 0
    <3>1. ASSUME n # 0 PROVE 1 \in Nat \ {0} /\ 1 \in 1 .. n
      BY <3>1
    <3> QED  BY <3>1
  <2> QED  BY <1>1, <2>1, <2>2
<1>5. ASSUME NEW p \in D, p # << >>
      PROVE  \E k \in 1 .. n, q \in Path :
               p = Join(<<k>>, q) /\ <<k>> \in D /\ k \in Nat \ {0} /\ q \in DOMAIN f[k]
  <2>1. PICK k \in Nat \ {0}, q \in Path : p = Join(<<k>>, q)
    BY <1>2, <1>5, FirstStep
  <2>2. <<k>> \in D
    BY <1>2, <1>3, <2>1 DEF Shape
  <2>3. k \in 1 .. n
    BY <1>1, <2>2
  <2>4. q \in DOMAIN Subtree(tree, k)
    BY <2>1, <2>2, SubtreeOK
  <2> QED  BY <1>1, <2>1, <2>2, <2>3, <2>4
<1>6. Blockchains(tree) = {TreeChain(tree, tip) : tip \in Tips(tree)}
  BY ChainsOfTips
<1>7. ASSUME NEW k \in 1 .. n
      PROVE  /\ k \in Nat \ {0} /\ <<k>> \in D /\ f[k] = Subtree(tree, k)
             /\ TreeOK(f[k]) /\ DOMAIN f[k] \subseteq Path
             /\ Blockchains(f[k]) = {TreeChain(f[k], q) : q \in Tips(f[k])}
  <2>1. k \in Nat \ {0} /\ <<k>> \in D /\ f[k] = Subtree(tree, k)
    BY <1>1
  <2>2. TreeOK(f[k])
    BY <2>1, SubtreeOK
  <2> QED  BY <2>1, <2>2, ChainsOfTips DEF TreeOK, Shape
<1> HIDE DEF f, D, b
<1>8. ASSUME n # 0, NEW c \in Blockchains(tree)
      PROVE  \E d \in AllChains(f) : c = Prepend(b, d)
  <2>1. PICK tip \in Tips(tree) : c = TreeChain(tree, tip)
    BY <1>6, <1>8
  <2>2. tip \in D /\ tip # << >>
    BY <1>4, <1>8, <2>1 DEF Tips, D
  <2>3. PICK k \in 1 .. n, q \in Path :
          tip = Join(<<k>>, q) /\ <<k>> \in D /\ k \in Nat \ {0} /\ q \in DOMAIN f[k]
    BY <1>5, <2>2
  <2>4. q \in Tips(Subtree(tree, k))
    BY <2>1, <2>3, SubtreeTips DEF D
  <2>5. c = Prepend(Root(tree), TreeChain(Subtree(tree, k), q))
    BY <1>7, <2>1, <2>3, SubtreeChain DEF D
  <2>6. TreeChain(f[k], q) \in Blockchains(f[k])
    BY <1>7, <2>4
  <2>7. TreeChain(f[k], q) \in AllChains(f)
    BY <1>1, <2>6 DEF AllChains
  <2> QED  BY <1>7, <2>5, <2>7 DEF b
<1>9. ASSUME NEW d \in AllChains(f)
      PROVE  Prepend(b, d) \in Blockchains(tree)
  <2>1. PICK k \in 1 .. n : d \in Blockchains(f[k])
    BY <1>1, <1>9 DEF AllChains
  <2>2. PICK q \in Tips(f[k]) : d = TreeChain(f[k], q)
    BY <1>7, <2>1
  <2>3. q \in DOMAIN f[k] /\ q \in Path
    BY <1>7, <2>2 DEF Tips
  <2>4. Join(<<k>>, q) \in Tips(tree)
    BY <1>7, <2>2, <2>3, SubtreeTips DEF D
  <2>5. TreeChain(tree, Join(<<k>>, q)) = Prepend(Root(tree), TreeChain(Subtree(tree, k), q))
    BY <1>7, <2>3, SubtreeChain DEF D
  <2> QED  BY <1>6, <1>7, <2>2, <2>4, <2>5 DEF b
<1>10. ASSUME f # << >>
       PROVE  Blockchains(tree) = {Prepend(b, c) : c \in AllChains(f)}
  <2>1. n # 0
    BY <1>1, <1>10
  <2> QED  BY <1>8, <1>9, <2>1
<1>11. ASSUME f = << >> PROVE Blockchains(tree) = {<<b>>}
  <2>1. n = 0
    <3>1. 1 .. n = {}
      BY <1>1, <1>11
    <3>2. ASSUME n # 0 PROVE FALSE
      <4>1. 1 \in 1 .. n
        BY <3>2
      <4> QED  BY <3>1, <4>1
    <3> QED  BY <3>2
  <2>2. D = {<< >>}
    BY <1>2, <1>5, <2>1
  <2>3. Tips(tree) = {<< >>}
    BY <1>4, <2>1, <2>2 DEF Tips, D
  <2>4. TreeChain(tree, << >>) = <<b>>
    <3>1. Len(<< >>) + 1 = 1
      OBVIOUS
    <3>2. \A i \in 1 .. 1 : SubSeq(<< >>, 1, i - 1) = << >>
      <4>1. SubSeq(<< >>, 1, 0) = << >>
        OBVIOUS
      <4>2. \A i \in 1 .. 1 : i - 1 = 0
        OBVIOUS
      <4> QED  BY <4>1, <4>2
    <3>3. TreeChain(tree, << >>) = [i \in 1 .. 1 |-> b]
      BY <3>1, <3>2 DEF TreeChain, b, Root
    <3> DEFINE c == [i \in 1 .. 1 |-> b]
               e == <<b>>
    <3>4. c \in Seq({b}) /\ Len(c) = 1 /\ c[1] = b
      OBVIOUS
    <3>5. e \in Seq({b}) /\ Len(e) = 1 /\ e[1] = b
      OBVIOUS
    <3> HIDE DEF c, e
    <3>6. \A i \in 1 .. 1 : c[i] = e[i]
      BY <3>4, <3>5
    <3>7. c = e
      BY <3>4, <3>5, <3>6, SeqEqual
    <3> QED  BY <3>3, <3>7 DEF c, e
  <2> QED  BY <1>6, <2>3, <2>4
<1> QED  BY <1>10, <1>11 DEF f, b

\* A tree has a chain as long as it is deep.
LEMMA DeepestChain ==
    ASSUME NEW tree, TreeOK(tree)
    PROVE  \E c \in Blockchains(tree) : Len(c) = Depth(tree) + 1
<1> DEFINE D == DOMAIN tree
           lengths == {Len(p) : p \in D}
<1>1. D \subseteq Path /\ << >> \in D /\ \A p \in D : Len(p) \in Nat
  BY PathFacts DEF TreeOK, Shape
<1>2. Depth(tree) \in Nat /\ (\A p \in D : Len(p) <= Depth(tree))
  BY DepthIsNat
<1>3. \E p \in D : Len(p) = Depth(tree)
  <2>1. lengths \in SUBSET Nat /\ lengths # {}
    BY <1>1
  <2>2. \A n \in lengths : n <= Depth(tree)
    BY <1>2
  <2> HIDE DEF lengths
  <2>3. IsFiniteSet(lengths)
    BY <1>2, <2>1, <2>2, FS_BoundedSetOfNaturals
  <2>4. Max(lengths) \in lengths
    BY <2>1, <2>3, MaxExists
  <2> QED  BY <2>4 DEF lengths, Depth
<1>4. PICK p \in D : Len(p) = Depth(tree)
  BY <1>3
<1>5. p \in Tips(tree)
  <2>1. ASSUME NEW k \in Nat \ {0}, Child(p, k) \in D PROVE FALSE
    <3>1. Len(Child(p, k)) = Len(p) + 1
      <4>1. p \in Seq(Nat \ {0})
        BY <1>1 DEF Path
      <4> QED  BY <4>1 DEF Child
    <3> QED  BY <1>2, <1>4, <2>1, <3>1
  <2> QED  BY <2>1, TipIs
<1>6. TreeChain(tree, p) \in Blockchains(tree)
  BY <1>5, ChainsOfTips
<1>7. Len(TreeChain(tree, p)) = Len(p) + 1
  <2>1. Len(p) + 1 \in Nat
    BY <1>1
  <2> QED  BY <2>1 DEF TreeChain
<1> QED  BY <1>4, <1>6, <1>7

-----------------------------------------------------------------------------
(* The chain the queries see, before and after a block becomes stable.      *)

Longest(A) == {c \in A : \A d \in A : Len(d) <= Len(c)}

LEMMA LongestPrepended ==
    ASSUME NEW S, NEW A \in SUBSET Seq(S), NEW b \in S
    PROVE  Longest({Prepend(b, d) : d \in A}) = {Prepend(b, d) : d \in Longest(A)}
<1> DEFINE bA == {Prepend(b, d) : d \in A}
<1>1. \A d \in A : Len(Prepend(b, d)) = Len(d) + 1 /\ Len(d) \in Nat
  BY PrependFacts
<1>2. ASSUME NEW c \in Longest(bA) PROVE \E d \in Longest(A) : c = Prepend(b, d)
  <2>1. PICK d \in A : c = Prepend(b, d)
    BY <1>2 DEF Longest
  <2>2. ASSUME NEW e \in A PROVE Len(e) <= Len(d)
    <3>1. Len(Prepend(b, e)) <= Len(Prepend(b, d))
      BY <1>2, <2>1 DEF Longest
    <3> QED  BY <1>1, <3>1
  <2> QED  BY <2>1, <2>2 DEF Longest
<1>3. ASSUME NEW d \in Longest(A) PROVE Prepend(b, d) \in Longest(bA)
  <2>1. d \in A /\ \A e \in A : Len(e) <= Len(d)
    BY <1>3 DEF Longest
  <2>2. \A e \in A : Len(Prepend(b, e)) <= Len(Prepend(b, d))
    BY <1>1, <2>1
  <2> QED  BY <2>1, <2>2 DEF Longest
<1> HIDE DEF bA
<1>4. Longest(bA) = {Prepend(b, d) : d \in Longest(A)}
  BY <1>2, <1>3
<1> QED  BY <1>4 DEF bA

\* When one tree on the anchor is deeper than the others, it has all the
\* longest chains.
LEMMA OneDeepest ==
    ASSUME NEW trees, ForestOK(trees), NEW anchor, NEW i \in Attached(trees, anchor),
           \A j \in Attached(trees, anchor) \ {i} : Depth(trees[j]) < Depth(trees[i])
    PROVE  /\ LongestChainsOn(trees, anchor) = Longest(Blockchains(trees[i]))
           /\ Longest(Blockchains(trees[i])) # {}
           /\ ChainsOn(trees, anchor) # {}
<1> DEFINE I == Attached(trees, anchor)
           t == trees[i]
           all == ChainsOn(trees, anchor)
<1>1. \A j \in I : TreeOK(trees[j]) /\ Depth(trees[j]) \in Nat
  BY DepthIsNat DEF ForestOK, Attached
<1>2. \A j \in I : \A c \in Blockchains(trees[j]) : Len(c) \in 1 .. Depth(trees[j]) + 1
  BY <1>1, BlockchainOK
<1>3. PICK c0 \in Blockchains(t) : Len(c0) = Depth(t) + 1
  BY <1>1, DeepestChain
<1>4. \A c : c \in all <=> \E j \in I : c \in Blockchains(trees[j])
  BY DEF ChainsOn
<1> HIDE DEF I, t, all
<1>5. i \in I /\ t = trees[i] /\ c0 \in all
  BY <1>3, <1>4 DEF I, t
<1>6. ASSUME NEW c \in all, Len(c0) <= Len(c) PROVE c \in Blockchains(t)
  <2>1. PICK j \in I : c \in Blockchains(trees[j])
    BY <1>4, <1>6
  <2>2. Len(c) \in 1 .. Depth(trees[j]) + 1 /\ Depth(trees[j]) \in Nat /\ Depth(t) \in Nat
    BY <1>1, <1>2, <1>5, <2>1
  <2>3. ~ (Depth(trees[j]) < Depth(t))
    BY <1>3, <1>6, <2>2
  <2>4. j = i
    BY <2>3 DEF I, t
  <2> QED  BY <1>5, <2>1, <2>4
<1>7. ASSUME NEW d \in all PROVE Len(d) <= Depth(t) + 1 /\ Len(d) \in Nat
  <2>1. PICK j \in I : d \in Blockchains(trees[j])
    BY <1>4, <1>7
  <2>2. Len(d) \in 1 .. Depth(trees[j]) + 1 /\ Depth(trees[j]) \in Nat /\ Depth(t) \in Nat
    BY <1>1, <1>2, <1>5, <2>1
  <2>3. Depth(trees[j]) <= Depth(t)
    <3>1. CASE j = i
      BY <1>5, <2>2, <3>1
    <3>2. CASE j # i
      <4>1. Depth(trees[j]) < Depth(t)
        BY <3>2 DEF I, t
      <4> QED  BY <2>2, <4>1
    <3> QED  BY <3>1, <3>2
  <2> QED  BY <2>2, <2>3
<1>8. ASSUME NEW c, c \in all, \A d \in all : Len(d) <= Len(c)
      PROVE  c \in Longest(Blockchains(t))
  <2>1. c \in Blockchains(t)
    BY <1>5, <1>6, <1>8
  <2>2. \A d \in Blockchains(t) : d \in all
    BY <1>4, <1>5
  <2> QED  BY <1>8, <2>1, <2>2 DEF Longest
<1>9. ASSUME NEW c \in Longest(Blockchains(t))
      PROVE  c \in all /\ \A d \in all : Len(d) <= Len(c)
  <2>1. c \in Blockchains(t) /\ Len(c0) <= Len(c)
    BY <1>3, <1>9 DEF Longest
  <2>2. c \in all
    BY <1>4, <1>5, <2>1
  <2>3. Len(c) \in Nat /\ Depth(t) \in Nat
    BY <1>1, <1>5, <1>7, <2>2
  <2> QED  BY <1>3, <1>7, <2>1, <2>2, <2>3
<1>10. LongestChainsOn(trees, anchor) = {c \in all : \A d \in all : Len(d) <= Len(c)}
  BY DEF LongestChainsOn, all
<1>11. c0 \in Longest(Blockchains(t))
  <2>1. \A d \in Blockchains(t) : d \in all
    BY <1>4, <1>5
  <2> QED  BY <1>3, <1>7, <2>1 DEF Longest
<1>12. LongestChainsOn(trees, anchor) = Longest(Blockchains(t))
  BY <1>8, <1>9, <1>10
<1> QED  BY <1>5, <1>11, <1>12 DEF t, all

\* What the chains of a tree have in common is its root, and what those of the
\* subtrees have in common.
LEMMA RootThenRest ==
    ASSUME NEW t, TreeOK(t), Range(t) \subseteq Block
    PROVE  LongestCommonPrefix(Longest(Blockchains(t)))
             = Prepend(Root(t), CurrentChain(Subtrees(t), Root(t)))
<1> DEFINE f == Subtrees(t)
           b == Root(t)
           A == AllChains(f)
<1>1. /\ ForestOK(f) /\ \A k \in DOMAIN f : IsAttached(f[k], b)
      /\ Range(t) = {b} \cup GetBlocks(f)
  BY SubtreesOK DEF IsAttached
<1>2. b \in Block
  BY <1>1
<1>3. /\ f = << >> => Blockchains(t) = {<<b>>}
      /\ f # << >> => Blockchains(t) = {Prepend(b, c) : c \in A}
  BY TreeChains
<1>4. PICK c0 \in Blockchains(t) : Len(c0) = Depth(t) + 1
  BY DeepestChain
<1> HIDE DEF f, b
<1>5. Attached(f, b) = DOMAIN f
  BY <1>1 DEF Attached
<1>6. ChainsOn(f, b) = A
  BY <1>5 DEF ChainsOn, AllChains
<1>7. A \in SUBSET Seq(Block)
  <2>1. ASSUME NEW k \in DOMAIN f, NEW c \in Blockchains(f[k]) PROVE c \in Seq(Block)
    <3>1. TreeOK(f[k]) /\ Range(f[k]) \subseteq Block
      BY <1>1, <2>1 DEF ForestOK, GetBlocks
    <3>2. c \in Seq(Range(f[k]))
      BY <3>1, <2>1, BlockchainOK
    <3> QED  BY <3>1, <3>2
  <2> QED  BY <2>1 DEF AllChains
<1>8. CASE f = << >>
  <2>1. Blockchains(t) = {<<b>>} /\ <<b>> \in Seq(Block)
    BY <1>2, <1>3, <1>8
  <2>2. Longest({<<b>>}) = {<<b>>}
    BY DEF Longest
  <2>3. LongestCommonPrefix({<<b>>}) = <<b>>
    <3> DEFINE c == <<b>>
    <3>1. c \in Seq(Block)
      BY <2>1
    <3> HIDE DEF c
    <3>2. LongestCommonPrefix({c}) = c
      BY <3>1, CommonOfOne
    <3> QED  BY <3>2 DEF c
  <2>4. A = {}
    BY <1>8 DEF AllChains
  <2>5. CurrentChain(f, b) = << >>
    BY <1>6, <2>4 DEF CurrentChain
  <2>6. Prepend(b, << >>) = <<b>>
    BY <2>1 DEF Prepend
  <2> QED  BY <2>1, <2>2, <2>3, <2>5, <2>6 DEF f, b
<1>9. CASE f # << >>
  <2>1. Blockchains(t) = {Prepend(b, c) : c \in A}
    BY <1>3, <1>9
  <2> HIDE DEF A
  <2>2. Longest(Blockchains(t)) = {Prepend(b, c) : c \in Longest(A)}
    BY <1>2, <1>7, <2>1, LongestPrepended
  <2>3. Longest(Blockchains(t)) # {}
    <3>1. \A d \in Blockchains(t) : Len(d) <= Len(c0)
      <4>1. \A d \in Blockchains(t) : Len(d) \in 1 .. Depth(t) + 1
        BY BlockchainOK
      <4>2. Depth(t) \in Nat
        BY DepthIsNat
      <4> QED  BY <1>4, <4>1, <4>2
    <3> QED  BY <1>4, <3>1 DEF Longest
  <2>4. Longest(A) # {} /\ Longest(A) \in SUBSET Seq(Block) /\ A # {}
    BY <1>7, <2>2, <2>3 DEF Longest
  <2>5. CurrentChain(f, b) = LongestCommonPrefix(Longest(A))
    BY <1>6, <2>4 DEF CurrentChain, LongestChainsOn, Longest
  <2> DEFINE C == Longest(A)
  <2> HIDE DEF C
  <2>6. C # {} /\ C \in SUBSET Seq(Block)
    BY <2>4 DEF C
  <2>7. LongestCommonPrefix({Prepend(b, c) : c \in C}) = Prepend(b, LongestCommonPrefix(C))
    BY <1>2, <2>6, CommonPrepended
  <2> QED  BY <2>2, <2>5, <2>7 DEF C, f, b
<1> QED  BY <1>8, <1>9

\* pop, when all trees are on the anchor and one block becomes stable.
LEMMA PopAttached ==
    ASSUME NEW trees, ForestOK(trees), NEW anchor, HasStable(trees, anchor),
           \A i \in DOMAIN trees : IsAttached(trees[i], anchor)
    PROVE  PopTrees(trees, anchor) = Subtrees(Last(Ranked(trees, anchor)))
<1> DEFINE t == Last(Ranked(trees, anchor))
           f == Subtrees(t)
           det == Detached(trees, anchor)
<1>1. PICK i \in Attached(trees, anchor) : t = trees[i]
  BY StableTree
<1>2. PopTrees(trees, anchor) = det \o f
  BY DEF PopTrees
<1>3. TreeOK(t)
  BY <1>1 DEF Attached, ForestOK
<1> HIDE DEF t, det
<1>4. \E S : f \in Seq(S)
  BY <1>3, SubtreesOK DEF ForestOK
<1>5. det = << >>
  <2>1. Attached(trees, anchor) = DOMAIN trees
    BY DEF Attached
  <2>2. ForestOK(det) /\ Range(det) = {}
    BY <2>1, DetachedFacts DEF det
  <2>3. DOMAIN det = 1 .. Len(det) /\ Len(det) \in Nat /\ \E S : det \in Seq(S)
    BY <2>2, ForestIndices DEF ForestOK
  <2>4. Len(det) = 0
    <3>1. ASSUME Len(det) # 0 PROVE FALSE
      <4>1. 1 \in DOMAIN det
        BY <2>3, <3>1
      <4> QED  BY <2>2, <4>1 DEF Range
    <3> QED  BY <3>1
  <2> QED  BY <2>3, <2>4, EmptySeq
<1> HIDE DEF f
<1>6. << >> \o f = f
  BY <1>4
<1> QED  BY <1>2, <1>5, <1>6 DEF f, t

\* push on an empty forest.
LEMMA PushOnNothing ==
    ASSUME NEW block
    PROVE  Push(<< >>, block) = <<Leaf(block)>>
<1> DEFINE e == << >>
           leaf == Leaf(block)
<1>1. DOMAIN e = {}
  OBVIOUS
<1>2. Append(e, leaf) = <<leaf>>
  OBVIOUS
<1> HIDE DEF e, leaf
<1>3. {i \in DOMAIN e : Prev[Root(e[i])] = block} = {}
  BY <1>1
<1>4. {i \in DOMAIN e : CanExtend(e[i], block)} = {}
  BY <1>1
<1>5. Push(e, block) = Append(e, leaf)
  BY <1>3, <1>4 DEF Push, leaf
<1> QED  BY <1>2, <1>5 DEF e, leaf

\* A single leaf on the anchor is stable when Delta is 0, and leaves nothing.
LEMMA PopLeaf ==
    ASSUME NEW block, NEW anchor, Prev[block] = anchor, Delta = 0
    PROVE  LET trees == <<Leaf(block)>>
           IN  /\ HasStable(trees, anchor)
               /\ Attached(trees, anchor) = DOMAIN trees /\ DOMAIN trees = {1}
               /\ PopTrees(trees, anchor) = << >>
<1> DEFINE leaf == Leaf(block)
           trees == <<leaf>>
           ranked == Ranked(trees, anchor)
<1>1. TreeOK(leaf) /\ Root(leaf) = block /\ DOMAIN leaf = {<< >>}
  BY LeafOK DEF Leaf
<1> HIDE DEF leaf
<1>2. DOMAIN trees = {1} /\ trees[1] = leaf /\ trees \in Seq({leaf})
  OBVIOUS
<1> HIDE DEF trees
<1>3. ForestOK(trees)
  BY <1>1, <1>2 DEF ForestOK
<1>4. Attached(trees, anchor) = {1}
  BY <1>1, <1>2 DEF Attached, IsAttached
<1>5. ForestOK(ranked) /\ Len(ranked) = 1 /\ DOMAIN ranked = 1 .. 1
  <2>1. Cardinality({1}) = 1
    BY FS_Singleton
  <2>2. ForestOK(ranked) /\ Len(ranked) = 1
    BY <1>3, <1>4, <2>1, RankedFacts
  <2> HIDE DEF ranked
  <2> QED  BY <2>2, ForestIndices
<1>6. HasStable(trees, anchor)
  <2>1. TreeOK(ranked[1])
    BY <1>5 DEF ForestOK
  <2>2. Depth(ranked[1]) \in Nat
    <3> HIDE DEF ranked
    <3> QED  BY <2>1, DepthIsNat
  <2>3. Depth(ranked[1]) >= Delta
    BY <2>2
  <2> QED  BY <1>5, <2>3 DEF HasStable
<1>7. Last(ranked) = leaf
  <2>1. PICK i \in Attached(trees, anchor) : Last(ranked) = trees[i]
    BY <1>3, <1>6, StableTree
  <2> QED  BY <1>2, <1>4, <2>1
<1>8. Subtrees(leaf) = << >>
  <2>1. PICK n \in Nat : /\ \A k \in Nat \ {0} : <<k>> \in DOMAIN leaf <=> k \in 1 .. n
                         /\ n = 0 => Subtrees(leaf) = << >>
    BY <1>1, SubtreesAre
  <2>2. <<1>> # << >>
    OBVIOUS
  <2>3. ~ (1 \in 1 .. n)
    BY <1>1, <2>1, <2>2
  <2> QED  BY <2>1, <2>3
<1>9. PopTrees(trees, anchor) = Subtrees(Last(ranked))
  <2>1. \A i \in DOMAIN trees : IsAttached(trees[i], anchor)
    BY <1>1, <1>2 DEF IsAttached
  <2> QED  BY <1>3, <1>6, <2>1, PopAttached
<1> QED  BY <1>2, <1>4, <1>6, <1>7, <1>8, <1>9 DEF trees, leaf

\* When Delta is 0 every block is stable at once and the forest stays empty.
KeepInv == OrderInv /\ (Delta = 0 => Trees = << >>)

LEMMA InsertAtOnce ==
    ASSUME KeepInv, NEW block \in Block, Prev[block] \in Known(state),
           KeepUnstable(block) \/ Stabilise(block), Delta = 0
    PROVE  Trees' = << >> /\ DOMAIN Pushed(state, block) = {1}
<1>1. Trees = << >> /\ StateOK(state)
  BY DEF KeepInv, OrderInv, StoreInv
<1>2. Pushed(state, block) = <<Leaf(block)>>
  BY <1>1, PushOnNothing DEF Pushed, Trees
<1>3. Prev[block] = Anchor
  <2>1. GetBlocks(Trees) = {}
    BY <1>1 DEF GetBlocks
  <2> QED  BY <2>1 DEF Known, Trees, Anchor
<1>4. /\ PopTrees(Pushed(state, block), Anchor) = << >>
      /\ DOMAIN Pushed(state, block) = {1}
  BY <1>2, <1>3, PopLeaf
<1>5. ~ InsertPanics(state, block) /\ state' = InsertBlock(state, block)
  BY DEF KeepUnstable, Stabilise, InsertPanics
<1>6. Trees' = PopTrees(Pushed(state, block), Anchor)
  BY <1>1, <1>5, InsertState DEF Trees, Anchor
<1> QED  BY <1>4, <1>6

LEMMA InitKeep == Init => KeepInv
<1> SUFFICES ASSUME Init PROVE KeepInv
  OBVIOUS
<1>1. Trees = << >>
  BY DEF Init, NewState, Trees
<1> QED  BY <1>1, InitOrder DEF KeepInv

LEMMA NextKeep == KeepInv /\ [NextInOrder]_vars => KeepInv'
<1> SUFFICES ASSUME KeepInv, [NextInOrder]_vars PROVE KeepInv'
  OBVIOUS
<1>1. OrderInv /\ OrderInv'
  BY NextOrder DEF KeepInv
<1>2. ASSUME NEW block \in Block \ {Genesis}, InsertSuccessor(block), Delta = 0
      PROVE  Trees' = << >>
  <2>1. CASE KeepUnstable(block) \/ Stabilise(block)
    BY <1>2, <2>1, InsertAtOnce DEF InsertSuccessor
  <2>2. CASE Trap(block)
    BY <1>2, <2>2 DEF KeepInv, Trap, Trees
  <2> QED  BY <1>2, <2>1, <2>2 DEF InsertSuccessor, Insert
<1>3. CASE UNCHANGED vars
  BY <1>1, <1>3 DEF vars, KeepInv, Trees
<1>4. CASE SaveAndLoad
  BY <1>1, <1>3, <1>4, SaveAndLoadSame DEF OrderInv
<1> QED  BY <1>1, <1>2, <1>3, <1>4 DEF NextInOrder, KeepInv

LEMMA SpecKeep == SpecInOrder => []KeepInv
BY InitKeep, NextKeep, PTL DEF SpecInOrder

LEMMA StabiliseKeepsChain ==
    ASSUME KeepInv, NEW block \in Block, Prev[block] \in Known(state), Stabilise(block)
    PROVE  stable \o CurrentChain(Pushed(state, block), Anchor) = stable' \o Chain(state')
<1> DEFINE pushed == Pushed(state, block)
           b == Popped(state, block)
           d == Chain(state')
<1>1. /\ OrderInv' /\ ForestOK(pushed) /\ Spans(pushed, Anchor, delivered')
  BY InsertOrder DEF KeepInv
<1>2. /\ StateOK(state) /\ StateOK(state') /\ ~ InsertPanics(state, block)
      /\ Stabilises(state, block) /\ state' = InsertBlock(state, block)
  BY <1>1 DEF KeepInv, OrderInv, StoreInv, Stabilise
<1>3. /\ HasStable(pushed, Anchor) /\ b = StableBlock(pushed, Anchor)
      /\ stable' = Append(stable, b) /\ stable \in Seq(Block)
  BY DEF KeepInv, OrderInv, StoreInv, Stabilise, Stabilises, Popped, Anchor
<1>4. Trees' = PopTrees(pushed, Anchor) /\ Anchor' = b
  BY <1>2, InsertState DEF Trees, Anchor
<1>5. GetBlocks(pushed) \subseteq Block /\ b \in Block
  BY <1>2, PoppedOK
<1>6. d \in Seq(Block)
  BY <1>2, CurrentChainOK DEF ChainFrom, LinkedChain
<1>7. d = CurrentChain(Trees', Anchor')
  BY DEF Chain, Trees, Anchor
<1>8. Delta = 0 => DOMAIN pushed = {1}
  BY InsertAtOnce
<1> HIDE DEF pushed, b, d
<1>9. PICK i \in Attached(pushed, Anchor) :
        /\ b = Root(pushed[i])
        /\ Last(Ranked(pushed, Anchor)) = pushed[i]
        /\ \A j \in Attached(pushed, Anchor) \ {i} :
             Depth(pushed[i]) - Depth(pushed[j]) >= Delta
  BY <1>1, <1>3, StableTree
<1> DEFINE t == pushed[i]
<1>10. i \in DOMAIN pushed /\ TreeOK(t) /\ Range(t) \subseteq Block
  BY <1>1, <1>5, <1>9 DEF Attached, ForestOK, GetBlocks
<1>11. \A j \in Attached(pushed, Anchor) : Depth(pushed[j]) \in Nat
  BY <1>1, DepthIsNat DEF ForestOK, Attached
<1>12. \A j \in Attached(pushed, Anchor) \ {i} : Depth(pushed[j]) < Depth(pushed[i])
  <2>1. CASE Delta = 0
    BY <1>8, <1>10, <2>1 DEF Attached
  <2>2. CASE Delta # 0
    BY <1>9, <1>11, <2>2, DeltaAssumption
  <2> QED  BY <2>1, <2>2
<1>13. /\ LongestChainsOn(pushed, Anchor) = Longest(Blockchains(t))
       /\ ChainsOn(pushed, Anchor) # {}
  BY <1>1, <1>12, OneDeepest
<1>14. CurrentChain(pushed, Anchor) = LongestCommonPrefix(Longest(Blockchains(t)))
  BY <1>13 DEF CurrentChain
<1>15. PopTrees(pushed, Anchor) = Subtrees(t)
  <2>1. \A k \in DOMAIN pushed : IsAttached(pushed[k], Anchor)
    BY <1>1 DEF Spans
  <2>2. PopTrees(pushed, Anchor) = Subtrees(Last(Ranked(pushed, Anchor)))
    BY <1>1, <1>3, <2>1, PopAttached
  <2> QED  BY <1>9, <2>2
<1> HIDE DEF t
<1>16. LongestCommonPrefix(Longest(Blockchains(t)))
         = Prepend(Root(t), CurrentChain(Subtrees(t), Root(t)))
  BY <1>10, RootThenRest
<1>17. Root(t) = b /\ CurrentChain(Subtrees(t), b) = d
  BY <1>4, <1>7, <1>9, <1>15 DEF t
<1>18. CurrentChain(pushed, Anchor) = <<b>> \o d
  BY <1>14, <1>16, <1>17 DEF Prepend
<1>19. stable \o (<<b>> \o d) = Append(stable, b) \o d
  BY <1>3, <1>5, <1>6
<1> QED  BY <1>3, <1>18, <1>19 DEF pushed, d

\* When a block becomes stable it leaves the forest and enters the stable
\* chain, and the chain the queries see stays what it was with the new block
\* in it: what the longest chains have in common begins with the stable block,
\* since its tree is deeper than all others, and goes on with what those of
\* its subtrees have in common.
THEOREM QueriesSeeTheSameChain == SpecInOrder => StabilisingKeepsChain
<1> DEFINE Keeps ==
             stable' # stable =>
               \E b \in Block :
                 stable \o CurrentChain(Pushed(state, b), Anchor) = stable' \o Chain(state')
<1>1. ASSUME KeepInv, [NextInOrder]_vars PROVE [Keeps]_vars
  <2>1. ASSUME NEW block \in Block \ {Genesis}, InsertSuccessor(block) PROVE Keeps
    <3>1. CASE Stabilise(block)
      BY <1>1, <2>1, <3>1, StabiliseKeepsChain DEF InsertSuccessor
    <3>2. CASE KeepUnstable(block) \/ Trap(block)
      BY <3>2 DEF KeepUnstable, Trap
    <3> QED  BY <2>1, <3>1, <3>2 DEF InsertSuccessor, Insert
  <2>2. CASE SaveAndLoad
    BY <2>2 DEF SaveAndLoad
  <2>3. CASE UNCHANGED vars
    BY <2>3
  <2> HIDE DEF Keeps
  <2> QED  BY <1>1, <2>1, <2>2, <2>3 DEF NextInOrder
<1> QED  BY <1>1, SpecKeep, PTL DEF SpecInOrder, StabilisingKeepsChain
=============================================================================
