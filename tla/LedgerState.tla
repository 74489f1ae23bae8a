----------------------------- MODULE LedgerState -----------------------------
(***************************************************************************)
(* When a State is the ledger of a chain: the yardstick for states that    *)
(* were interrupted, saved, loaded or fed twice.                           *)
(***************************************************************************)
EXTENDS HeaderTree

\* The operators of the abstract ledger; its variables play no part here.
L == INSTANCE Ledger WITH chain <- << >>, unspent <- {}

\* The outputs a chain of blocks leaves unspent.
Replay(chain) ==
    LET after[n \in 0 .. Len(chain)] ==
            IF n = 0 THEN {} ELSE L!After(after[n - 1], TxData[chain[n]])
    IN  after[Len(chain)]

UnspentAfter(block) == Replay(ChainTo(block))

\* The height and the UTXOs are those of the chain of the last stable block,
\* and the index lists these UTXOs.
IsLedger(s) ==
    /\ s.height = Cardinality(Past[s.latest_stable_block_hash])
    /\ {<<u[1], u[2]>> : u \in IntoSet(s.utxos)} = UnspentAfter(s.latest_stable_block_hash)
    /\ s.utxos.address_to_outpoints = IndexOf(s.utxos.utxos)
=============================================================================
