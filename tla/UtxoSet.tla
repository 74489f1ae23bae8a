------------------------------- MODULE UtxoSet -------------------------------
(***************************************************************************)
(* The strict UTXO set of State, one transaction at a time.  Any known     *)
(* transaction may be inserted at any moment, so the set also meets        *)
(* transactions that spend what is not there or that it has already seen.  *)
(* A panic! inside a canister message is a trap: the call has no effect.   *)
(***************************************************************************)
EXTENDS UtxoSetOps

CONSTANT Height      \* the heights at which transactions are inserted
ASSUME HeightAssumption == Height \subseteq Nat

VARIABLES
    utxo_set,        \* State.utxos
    failure          \* how the last insert_tx ended

vars == <<utxo_set, failure>>

Failure == {"none", "index", "input", "duplicate"}
Entry == [txout : TxOut, height : Nat]

Init ==
    /\ utxo_set = New(TRUE)
    /\ failure = "none"

\* A transaction the set accepts.
Insert(t, height) ==
    /\ InsertFailure(utxo_set, t) = "none"
    /\ utxo_set' = InsertTx(utxo_set, t, height)
    /\ failure' = "none"

\* A transaction that makes insert_tx panic.
Trap(t) ==
    /\ InsertFailure(utxo_set, t) # "none"
    /\ failure' = InsertFailure(utxo_set, t)
    /\ UNCHANGED utxo_set

\* The state is written out and read back.
SaveAndLoad ==
    /\ utxo_set' = FromProto(ToProto(utxo_set))
    /\ UNCHANGED failure

Next ==
    \/ \E t \in TxId, height \in Height : Insert(t, height)
    \/ \E t \in TxId : Trap(t)
    \/ SaveAndLoad

Spec == Init /\ [][Next]_vars

-----------------------------------------------------------------------------
TypeOK ==
    /\ utxo_set = [utxos |-> utxo_set.utxos,
                   address_to_outpoints |-> utxo_set.address_to_outpoints,
                   strict |-> TRUE]
    /\ DOMAIN utxo_set.utxos \subseteq OutPoint
    /\ \A o \in DOMAIN utxo_set.utxos : utxo_set.utxos[o] \in Entry
    /\ DOMAIN utxo_set.address_to_outpoints = Address
    /\ failure \in Failure

\* The index lists exactly the entries of the map, each once, under the
\* address its output pays to: the two structures remove_spent_txs and
\* insert_outpoint update side by side never drift apart.
IndexConsistent == utxo_set.address_to_outpoints = IndexOf(utxo_set.utxos)

\* Every entry carries the output its transaction has at that position.
EntriesAuthentic ==
    \A o \in DOMAIN utxo_set.utxos :
        /\ o.vout + 1 \in DOMAIN Tx[o.txid].outputs
        /\ utxo_set.utxos[o].txout = Tx[o.txid].outputs[o.vout + 1]

\* insert_tx panics only for what the transaction asks for, never for the
\* state of the index ("Outpoint not found in index", unwrap of the list).
NoIndexFailure == failure # "index"

\* get_utxos answers for every address: no outpoint of the index lacks its
\* entry ("outpoint must exist") or is listed twice.
GetUtxosAnswers == \A a \in Address : ~ GetUtxosFails(utxo_set, a)

\* What get_utxos returns for all the addresses together is all the addressed
\* part of the set, and the answers for two addresses never share an outpoint.
AnswersPartition ==
    /\ UNION {IntoSet(GetUtxos(utxo_set, a)) : a \in Address}
         = {e \in IntoSet(utxo_set) : e[2].address # NoAddress}
    /\ \A a, b \in Address : a # b =>
         DOMAIN GetUtxos(utxo_set, a).utxos \cap DOMAIN GetUtxos(utxo_set, b).utxos = {}

\* Saving and loading gives back the same set, rebuilt index included.
RoundTrip == FromProto(ToProto(utxo_set)) = utxo_set
=============================================================================
