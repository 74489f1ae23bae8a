----------------------- MODULE BitcoinSyncProperties -----------------------
(***************************************************************************)
(* What the canister and its shim should achieve together.                 *)
(***************************************************************************)
EXTENDS BitcoinSync, LedgerState

Anchor == state.latest_stable_block_hash
Trees == state.unstable_blocks

-----------------------------------------------------------------------------
TypeOK ==
    /\ state.height \in Nat
    /\ Anchor \in Block
    /\ GetBlocks(Trees) \subseteq Block
    /\ outgoing \in Seq(Payment)
    /\ pc \in Awaits
    /\ request \subseteq Block
    /\ call.method \in {"none", "get_successors_response", "get_outgoing_transaction"}
    /\ call.blocks \in Seq(Block)
    /\ raw_tx \in Seq(Payment)
    /\ \A i \in DOMAIN orphans : orphans[i].blocks \in Seq(Block)
    /\ network \subseteq Block
    /\ sent \in Seq(Payment)
    /\ accepted \in Seq(Payment)
    /\ crashes \in 0 .. MaxCrashes

\* The request was read several awaits before the answer to it is executed.
\* Still each block of the answer is new to the canister, and each builds on
\* a block it holds or on an earlier one of the answer.
AnswerStillFresh ==
    \A i \in DOMAIN call.blocks :
        /\ call.blocks[i] \notin GetBlocks(Trees) \cup Past[Anchor]
        /\ Prev[call.blocks[i]] \in GetBlocks(Trees) \cup {Anchor}
                                      \cup {call.blocks[j] : j \in 1 .. i - 1}

\* The unstable blocks are blocks that are not stable yet.
UnstableNotStable == GetBlocks(Trees) \cap Past[Anchor] = {}

\* The height and the UTXOs are those of the chain of the last stable block,
\* whatever was delivered twice, trapped or lost.
StateIsLedger == IsLedger(state)

\* No block the canister holds as stable spends an output twice.
StableIsSpendable ==
    \A i \in 2 .. state.height :
        LET chain == ChainTo(Anchor)
        IN  L!Spendable(UnspentAfter(chain[i - 1]), TxData[chain[i]])

\* The elements of part are elements of whole, and come in its order.
InOrder(part, whole) ==
    /\ Range(part) \subseteq Range(whole)
    /\ \A i, j \in DOMAIN part, k, l \in DOMAIN whole :
          i < j /\ part[i] = whole[k] /\ part[j] = whole[l] => k < l

\* Transactions reach the adapter in the order clients sent them, none twice,
\* and one that is queued is neither on its way nor sent.
OutgoingInOrder == InOrder(sent \o raw_tx \o outgoing, accepted)

\* As long as the shim is not killed and the adapter does not fail, nothing
\* is lost between the queue and the adapter.
NoneLostButByError ==
    [][ \/ Range(sent' \o raw_tx' \o outgoing') = Range(accepted')
        \/ Range(sent \o raw_tx \o outgoing) # Range(accepted)
        \/ SendError \/ Crash
        \/ \E i \in DOMAIN orphans : ExecuteOrphan(i) ]_vars

-----------------------------------------------------------------------------
\* The canister catches up: in the end every block the adapter has that
\* builds on the last stable block is in a tree on it.
CatchesUp ==
    <>[](\A b \in network : Anchor \in Past[b] => b \in BlocksOn(Trees, Anchor) \cup {Anchor})

\* Every transaction that is queued leaves the queue.
QueueDrains == \A tx \in Payment : (tx \in Range(outgoing)) ~> (tx \notin Range(outgoing))
=============================================================================
