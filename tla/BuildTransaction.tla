-------------------------- MODULE BuildTransaction --------------------------
(***************************************************************************)
(* How the wallets build a transaction (examples/common/src): spend the    *)
(* first UTXOs that cover the amount and the fees, pay the destination and *)
(* return the rest to the source unless it is dust.                        *)
(*                                                                         *)
(* Amounts are u64.  The canisters are release builds, in which arithmetic *)
(* wraps.                                                                  *)
(***************************************************************************)
EXTENDS Integers, Sequences, FiniteSets, SequencesExt

CONSTANTS
    Word,             \* 2^64
    DustThreshold     \* DUST_THRESHOLD

ASSUME WordAssumption == Word \in Nat \ {0} /\ DustThreshold \in 0 .. Word - 1

Total(utxos) == FoldLeft(LAMBDA sum, u : (sum + u.value) % Word, 0, utxos)

\* The positions the loop gets to: those before which the sum has not reached
\* the amount with the fees.
Reached(utxos, amount, fees) ==
    {i \in DOMAIN utxos :
        \A n \in 1 .. i - 1 : Total(SubSeq(utxos, 1, n)) < (amount + fees) % Word}

TotalSpent(utxos, amount, fees) ==
    Total(SubSeq(utxos, 1, Cardinality(Reached(utxos, amount, fees))))

\* "Insufficient balance"
BuildFails(utxos, amount, fees) == TotalSpent(utxos, amount, fees) < amount

\* Fault: the fees are paid back to the source.
RemainingGross(utxos, amount, fees) == (TotalSpent(utxos, amount, fees) - amount) % Word

\* remaining_amount
Remaining(utxos, amount, fees) == (TotalSpent(utxos, amount, fees) - amount - fees) % Word

\* build_transaction when it does not fail.  An input carries the value of
\* the output it spends.
Build(utxos, source, destination, amount, fees) ==
    LET remaining == Remaining(utxos, amount, fees)
    IN  [inputs  |-> {utxos[i] : i \in Reached(utxos, amount, fees)},
         outputs |-> <<[to |-> destination, value |-> amount]>>
                       \o IF remaining >= DustThreshold
                          THEN <<[to |-> source, value |-> remaining]>>
                          ELSE << >>]

\* Fault: the canister that builds for others names all the UTXOs.
AllIndices(utxos, inputs) == DOMAIN utxos

\* build_transaction of the canister that builds for others
\* (examples/common/src/main.rs) also tells which UTXOs became inputs; it
\* looks them up by their outpoints, which differ.
UsedIndices(utxos, inputs) ==
    {i \in DOMAIN utxos : \E u \in inputs : u.outpoint = utxos[i].outpoint}
=============================================================================
