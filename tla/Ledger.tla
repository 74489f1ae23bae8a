------------------------------- MODULE Ledger -------------------------------
(***************************************************************************)
(* What the stable part of the store promises: a block chain that only     *)
(* grows at its end, and the outputs no transaction of it has spent.       *)
(***************************************************************************)
EXTENDS Integers, Sequences

CONSTANTS Block, Prev, Genesis, TxId, Tx, TxData

VARIABLES chain, unspent

\* The outputs transaction t creates, as pairs of outpoint and output.
Outputs(t) ==
    {<<[txid |-> t, vout |-> i - 1], Tx[t].outputs[i]>> : i \in DOMAIN Tx[t].outputs}

\* The unspent outputs once transaction t is applied.  An output replaces an
\* older one of the same outpoint.
AfterTx(outputs, t) ==
    LET gone == Tx[t].inputs \cup {u[1] : u \in Outputs(t)}
    IN  {u \in outputs : u[1] \notin gone} \cup Outputs(t)

\* The same for the transactions txs, in order.
After(outputs, txs) ==
    LET after[n \in 0 .. Len(txs)] ==
            IF n = 0 THEN outputs ELSE AfterTx(after[n - 1], txs[n])
    IN  after[Len(txs)]

\* Every input a transaction of the block spends is there to be spent.
Spendable(outputs, txs) ==
    \A n \in DOMAIN txs :
        Tx[txs[n]].inputs \subseteq {u[1] : u \in After(outputs, SubSeq(txs, 1, n - 1))}

Init ==
    /\ chain = <<Genesis>>
    /\ unspent = After({}, TxData[Genesis])

Extend(block) ==
    /\ Prev[block] = chain[Len(chain)]
    /\ Spendable(unspent, TxData[block])
    /\ chain' = Append(chain, block)
    /\ unspent' = After(unspent, TxData[block])

Next == \E block \in Block : Extend(block)

Spec == Init /\ [][Next]_<<chain, unspent>>
=============================================================================
