------------------------------ MODULE StoreOps ------------------------------
(***************************************************************************)
(* State of the Bitcoin canister as a data type (canister/src/store.rs):   *)
(* the stable part of the block chain as a height, the hash of its last    *)
(* block and a UTXO set, and the unstable blocks on top of it.             *)
(***************************************************************************)
EXTENDS BlockForest, UtxoSetOps

CONSTANTS
    Genesis,     \* the block the state is created with
    TxData       \* the transactions of each block, in order

ASSUME GenesisAssumption == Genesis \in Block /\ Prev[Genesis] = NoBlock
ASSUME TxDataAssumption == TxData \in [Block -> Seq(TxId)]

-----------------------------------------------------------------------------
(* insert_tx for every transaction of a block; the first failure ends it.  *)

ApplyTx(run, t, height) ==
    LET failure == InsertFailure(run.set, t)
    IN  IF run.failure # "none" THEN run
        ELSE IF failure # "none" THEN [run EXCEPT !.failure = failure]
        ELSE [set |-> InsertTx(run.set, t, height), failure |-> "none"]

ApplyTxs(run, txs, height) ==
    LET after[n \in 0 .. Len(txs)] ==
            IF n = 0 THEN run ELSE ApplyTx(after[n - 1], txs[n], height)
    IN  after[Len(txs)]

ApplyBlock(run, block, height) == ApplyTxs(run, TxData[block], height)

Start(set) == [set |-> set, failure |-> "none"]

-----------------------------------------------------------------------------
\* State::new: the transactions of the genesis block are at height 1.
NewState ==
    [height                   |-> 1,
     latest_stable_block_hash |-> Genesis,
     utxos                    |-> ApplyBlock(Start(New(TRUE)), Genesis, 1).set,
     unstable_blocks          |-> << >>]

\* There is no State if State::new panics.
ASSUME NewAssumption == ApplyBlock(Start(New(TRUE)), Genesis, 1).failure = "none"

\* The forest once the block is pushed, whether that makes a block stable,
\* and which one.
Pushed(s, block) == Push(s.unstable_blocks, block)
Stabilises(s, block) == HasStable(Pushed(s, block), s.latest_stable_block_hash)
Popped(s, block) == StableBlock(Pushed(s, block), s.latest_stable_block_hash)

\* The UTXO set once the popped block is processed.  Its transactions are
\* inserted at the height of the block before it.
Processed(s, block) == ApplyBlock(Start(s.utxos), Popped(s, block), s.height)

\* The assertion on the popped block fails, or the UTXO set refuses one of
\* its transactions.
InsertPanics(s, block) ==
    /\ Stabilises(s, block)
    /\ \/ Prev[Popped(s, block)] # s.latest_stable_block_hash
       \/ Processed(s, block).failure # "none"

\* Faults: the height, or the hash, is not brought up to date.
InsertBlockSameHeight(s, block) ==
    [height                   |-> s.height,
     latest_stable_block_hash |-> IF Stabilises(s, block)
                                  THEN Popped(s, block) ELSE s.latest_stable_block_hash,
     utxos                    |-> IF Stabilises(s, block)
                                  THEN Processed(s, block).set ELSE s.utxos,
     unstable_blocks          |-> PopTrees(Pushed(s, block), s.latest_stable_block_hash)]
InsertBlockSameAnchor(s, block) ==
    [height                   |-> IF Stabilises(s, block) THEN s.height + 1 ELSE s.height,
     latest_stable_block_hash |-> s.latest_stable_block_hash,
     utxos                    |-> IF Stabilises(s, block)
                                  THEN Processed(s, block).set ELSE s.utxos,
     unstable_blocks          |-> PopTrees(Pushed(s, block), s.latest_stable_block_hash)]

\* State::insert_block when nothing fails; one block at most is popped.
InsertBlock(s, block) ==
    LET trees == PopTrees(Pushed(s, block), s.latest_stable_block_hash)
    IN  IF Stabilises(s, block)
        THEN [height                   |-> s.height + 1,
              latest_stable_block_hash |-> Popped(s, block),
              utxos                    |-> Processed(s, block).set,
              unstable_blocks          |-> trees]
        ELSE [s EXCEPT !.unstable_blocks = trees]

\* State::to_proto and from_proto: the forest comes back as it was, the UTXO
\* set with its index built anew.
SaveState(s) == [s EXCEPT !.utxos = ToProto(@)]
LoadState(p) == [p EXCEPT !.utxos = FromProto(@)]

\* Faults: the unstable blocks are left out; the block before the last stable
\* one is named.
KnownStable(s) == {s.latest_stable_block_hash}
KnownPrevious(s) == GetBlocks(s.unstable_blocks) \cup {Prev[s.latest_stable_block_hash]}

\* The blocks a get_successors request names.
Known(s) == GetBlocks(s.unstable_blocks) \cup {s.latest_stable_block_hash}

-----------------------------------------------------------------------------
(* The queries.                                                            *)

Chain(s) == CurrentChain(s.unstable_blocks, s.latest_stable_block_hash)

\* State::main_chain_height
MainChainHeight(s) == Len(Chain(s)) + s.height

\* The unstable blocks get_utxos applies: those with enough confirmations.
Confirmed(s, min_confirmations) ==
    LET Confirmations(i) == MainChainHeight(s) - (s.height + i) + 1
    IN  SubSeq(Chain(s), 1, Cardinality({i \in DOMAIN Chain(s) :
                                           Confirmations(i) >= min_confirmations}))

\* The blocks applied to a set, one at a time, each at its own height.
ApplyBlocks(set, blocks, height) ==
    LET after[n \in 0 .. Len(blocks)] ==
            IF n = 0 THEN Start(set) ELSE ApplyBlock(after[n - 1], blocks[n], height + n)
    IN  after[Len(blocks)]

\* Fault: the stable part is left out.
AppliedToNothing(s, address, min_confirmations) ==
    ApplyBlocks(New(FALSE), Confirmed(s, min_confirmations), s.height)

\* The set get_utxos builds: the stable part of the address, on which the
\* confirmed blocks are applied.
AppliedTo(s, address, min_confirmations) ==
    ApplyBlocks(GetUtxos(s.utxos, address), Confirmed(s, min_confirmations), s.height)

QueryPanics(s, address, min_confirmations) ==
    \/ GetUtxosFails(s.utxos, address)
    \/ AppliedTo(s, address, min_confirmations).failure # "none"
    \/ GetUtxosFails(AppliedTo(s, address, min_confirmations).set, address)

\* Fault: one confirmation too many is asked for.
AddressUtxosOffByOne(s, address, min_confirmations) ==
    {u \in IntoSet(GetUtxos(AppliedTo(s, address, min_confirmations).set, address)) :
        MainChainHeight(s) - u[3] >= min_confirmations}

\* State::get_utxos
AddressUtxos(s, address, min_confirmations) ==
    {u \in IntoSet(GetUtxos(AppliedTo(s, address, min_confirmations).set, address)) :
        MainChainHeight(s) - u[3] + 1 >= min_confirmations}

\* get_utxos of the canister adds the confirmations of each output.
GetUtxosResponse(s, address, min_confirmations) ==
    {[outpoint      |-> u[1],
      value         |-> u[2].value,
      height        |-> u[3],
      confirmations |-> MainChainHeight(s) - u[3] + 1] :
        u \in AddressUtxos(s, address, min_confirmations)}

\* State::get_balance, and get_balance of the canister.
Balance(s, address, min_confirmations) ==
    MapThenSumSet(LAMBDA u : u[2].value, AddressUtxos(s, address, min_confirmations))
=============================================================================
