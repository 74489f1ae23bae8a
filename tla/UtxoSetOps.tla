----------------------------- MODULE UtxoSetOps -----------------------------
(***************************************************************************)
(* The UTXO set of the Bitcoin canister as a data type                     *)
(* (canister/src/utxoset.rs): the map from outpoints to outputs, and the   *)
(* index from addresses to outpoints kept beside it.                       *)
(*                                                                         *)
(* A transaction is known by its id, which fixes its inputs and outputs    *)
(* (a txid is a hash of the transaction).  A coinbase transaction has one  *)
(* input that spends nothing, modelled as no input at all.  The Vec of     *)
(* outpoints the index keeps per address is a bag: its order is never      *)
(* observed, its multiplicities are.  An address with no key in the index  *)
(* has the empty bag, since the code drops a key when its Vec empties.     *)
(*                                                                         *)
(* A panic! of the code is a failure, named for the place it comes from.   *)
(***************************************************************************)
EXTENDS Integers, Sequences, Bags

CONSTANTS
    TxId,            \* ids of the transactions that may be inserted
    Tx,              \* the transaction of each id
    Address,         \* addresses a script can be parsed to
    NoAddress,       \* what Address::from_script returns for any other script
    DuplicateTxIds   \* the two ids that occur twice in the block chain

OutPoint == [txid : TxId, vout : Nat]
TxOut == [value : Nat, address : Address \cup {NoAddress}]

ASSUME TxAssumption ==
    /\ Tx \in [TxId -> [inputs : SUBSET OutPoint, outputs : Seq(TxOut)]]
    /\ NoAddress \notin Address

\* Both duplicated transactions are coinbases of 2010 that pay to a public
\* key, a script that has no address.
ASSUME DuplicateAssumption ==
    /\ DuplicateTxIds \subseteq TxId
    /\ \A t \in DuplicateTxIds : \A i \in DOMAIN Tx[t].outputs :
           Tx[t].outputs[i].address = NoAddress

-----------------------------------------------------------------------------
\* The outpoints among the keys of utxos whose output pays to address a.
OutpointsOf(utxos, a) == {o \in DOMAIN utxos : utxos[o].txout.address = a}

\* The index insert_outpoint builds when the entries of utxos, which are
\* distinct, are inserted into an empty set one by one.
IndexOf(utxos) == [a \in Address |-> SetToBag(OutpointsOf(utxos, a))]

SetOf(utxos, strict) ==
    [utxos                |-> utxos,
     address_to_outpoints |-> IndexOf(utxos),
     strict               |-> strict]

\* Fault: the set does not keep the flag.
NewLoose(strict) ==
    [utxos                |-> << >>,
     address_to_outpoints |-> [a \in Address |-> EmptyBag],
     strict               |-> FALSE]

\* UtxoSet::new
New(strict) ==
    [utxos                |-> << >>,
     address_to_outpoints |-> [a \in Address |-> EmptyBag],
     strict               |-> strict]

-----------------------------------------------------------------------------
\* The outpoints transaction t takes out of s, and those it puts into it.
Spent(s, t) == Tx[t].inputs \cap DOMAIN s.utxos
Created(t) == {[txid |-> t, vout |-> i - 1] : i \in DOMAIN Tx[t].outputs}

\* Faults: outpoints stay in the index when they are spent; only the first
\* output of a transaction is indexed; all are indexed under the address of
\* the first.
SpentOfNone(s, t, a) == {}
CreatedOfFirst(t, a) ==
    {o \in Created(t) : o.vout = 0 /\ Tx[t].outputs[1].address = a}
CreatedOfShared(t, a) == {o \in Created(t) : Tx[t].outputs[1].address = a}

SpentOf(s, t, a) == {o \in Spent(s, t) : s.utxos[o].txout.address = a}
CreatedOf(t, a) == {o \in Created(t) : Tx[t].outputs[o.vout + 1].address = a}

\* Fault: a strict set lets missing inputs pass.
InputMissingNever(s, t) == FALSE

\* A strict set must hold every outpoint the transaction spends.
InputMissing(s, t) == s.strict /\ ~ (Tx[t].inputs \subseteq DOMAIN s.utxos)

\* An outpoint to be removed has an address but is not in its list: the list
\* is gone (unwrap), or a strict set does not find it there.  A set that is
\* not strict lets the second case pass; it counts as a failure here as well,
\* which makes the absence of this failure the stronger claim.
IndexBroken(s, t) ==
    \E a \in Address : \E o \in SpentOf(s, t, a) :
        ~ BagIn(o, s.address_to_outpoints[a])

\* An outpoint is inserted that is still there, and is not one of the two
\* duplicates, which overwrite.
AlreadyInserted(s, t) ==
    /\ t \notin DuplicateTxIds
    /\ Created(t) \cap (DOMAIN s.utxos \ Spent(s, t)) # {}

InsertFailure(s, t) ==
    CASE IndexBroken(s, t)     -> "index"
      [] InputMissing(s, t)    -> "input"
      [] AlreadyInserted(s, t) -> "duplicate"
      [] OTHER                 -> "none"

\* UtxoSet::insert_tx when nothing fails: remove_spent_txs, then
\* insert_unspent_txs.
InsertTx(s, t, height) ==
    [utxos |->
        [o \in (DOMAIN s.utxos \ Spent(s, t)) \cup Created(t) |->
            IF o \in Created(t)
            THEN [txout |-> Tx[t].outputs[o.vout + 1], height |-> height]
            ELSE s.utxos[o]],
     address_to_outpoints |->
        [a \in Address |->
            (s.address_to_outpoints[a] (-) SetToBag(SpentOf(s, t, a)))
                (+) SetToBag(CreatedOf(t, a))],
     strict |-> s.strict]

-----------------------------------------------------------------------------
\* get_utxos meets an outpoint of the index that has no entry, or meets one
\* a second time.
GetUtxosFails(s, a) ==
    \E o \in BagToSet(s.address_to_outpoints[a]) :
        \/ o \notin DOMAIN s.utxos
        \/ /\ s.address_to_outpoints[a][o] > 1
           /\ o.txid \notin DuplicateTxIds

\* Fault: the answer is strict.
GetUtxosStrict(s, a) ==
    SetOf([o \in BagToSet(s.address_to_outpoints[a]) |-> s.utxos[o]], TRUE)

\* UtxoSet::get_utxos when nothing fails: the entries of one address, in a
\* set that is not strict.
GetUtxos(s, a) ==
    SetOf([o \in BagToSet(s.address_to_outpoints[a]) |-> s.utxos[o]], FALSE)

\* Faults: what is read back is not strict, has no index, has no scripts.
FromProtoLoose(p) == SetOf(p.utxos, FALSE)
FromProtoUnindexed(p) == [New(p.strict) EXCEPT !.utxos = p.utxos]
FromProtoNoScript(p) ==
    SetOf([o \in DOMAIN p.utxos |-> [p.utxos[o] EXCEPT !.txout.address = NoAddress]],
          p.strict)

\* UtxoSet::to_proto saves the entries and the flag, from_proto inserts the
\* entries into an empty set: the index is built anew.
ToProto(s) == [utxos |-> s.utxos, strict |-> s.strict]
FromProto(p) == SetOf(p.utxos, p.strict)

\* UtxoSet::into_set
IntoSet(s) == {<<o, s.utxos[o].txout, s.utxos[o].height>> : o \in DOMAIN s.utxos}
=============================================================================
