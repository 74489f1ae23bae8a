------------------------------- MODULE Wallet -------------------------------
(***************************************************************************)
(* What the two example wallets share: calls that send bitcoin and wait at *)
(* each await, a set of spent outpoints, and the Bitcoin canister as they  *)
(* see it.                                                                 *)
(*                                                                         *)
(* A canister works on other messages while a call waits.  A call of the   *)
(* Bitcoin canister is executed in one step and its answer arrives in a    *)
(* later one, so what it says may be out of date by then.  The Bitcoin     *)
(* canister returns UTXOs in the order of a hash set, which is any order;  *)
(* the UTXOs a call holds are a set until it takes the first of them.      *)
(***************************************************************************)
EXTENDS BuildTransaction, FiniteSets

CONSTANTS
    Call,            \* the calls of send clients make
    Amount,          \* the amounts they ask for
    Deposit,         \* transactions of others that pay to the wallet
    Value,           \* what each deposit pays
    Fees,            \* fees
    Source,          \* the wallet's address
    Destination      \* the address clients send to

ASSUME WalletAssumption ==
    /\ Amount \subseteq 0 .. Word - 1
    /\ Value \in [Deposit -> 0 .. Word - 1]
    /\ Fees \in 0 .. Word - 1
    /\ Call \cap Deposit = {}

VARIABLES
    spent,           \* SPENT_TXOS, spent_outpoints
    calls,           \* where each call is, and its local variables
    sent,            \* transactions the Bitcoin canister was given
    deposited,       \* deposits in the block chain
    confirmed        \* the wallet's transactions in the block chain

wallet == <<spent, calls>>
world == <<sent, deposited, confirmed>>
vars == <<wallet, world>>

Init ==
    /\ spent = {}
    /\ calls = [c \in Call |-> [pc |-> "idle", amount |-> 0, utxos |-> {}, tx |-> {}]]
    /\ sent = {}
    /\ deposited = {}
    /\ confirmed = {}

-----------------------------------------------------------------------------
(* The block chain, as the Bitcoin canister presents it.                   *)

DepositUtxo(d) == [outpoint |-> [txid |-> d, vout |-> 0], value |-> Value[d]]

\* The change of a transaction of the wallet.
Change(tx) ==
    {[outpoint |-> [txid |-> tx.id, vout |-> i - 1], value |-> tx.outputs[i].value] :
        i \in {j \in DOMAIN tx.outputs : tx.outputs[j].to = Source}}

Outpoints(tx) == {u.outpoint : u \in tx.inputs}
SpentBy(txs) == UNION {tx.inputs : tx \in txs}

\* get_utxos of the Bitcoin canister for the wallet's address.
View ==
    ({DepositUtxo(d) : d \in deposited} \cup UNION {Change(tx) : tx \in confirmed})
        \ SpentBy(confirmed)

InputValue(tx) == MapThenSumSet(LAMBDA u : u.value, tx.inputs)
OutputValue(tx) == FoldLeft(LAMBDA sum, o : sum + o.value, 0, tx.outputs)

Receive(d) ==
    /\ d \notin deposited
    /\ deposited' = deposited \cup {d}
    /\ UNCHANGED <<wallet, sent, confirmed>>

\* A valid transaction gets into a block.
Confirm(tx) ==
    /\ tx \notin confirmed
    /\ tx.inputs \subseteq View
    /\ OutputValue(tx) <= InputValue(tx)
    /\ confirmed' = confirmed \cup {tx}
    /\ UNCHANGED <<wallet, sent, deposited>>

\* The current chain loses the block again: a fork makes its tip contested.
Reorganise(tx) ==
    /\ tx \in confirmed
    /\ Change(tx) \cap SpentBy(confirmed) = {}
    /\ confirmed' = confirmed \ {tx}
    /\ UNCHANGED <<wallet, sent, deposited>>

World ==
    \/ \E d \in Deposit : Receive(d)
    \/ \E tx \in sent : Confirm(tx) \/ Reorganise(tx)

-----------------------------------------------------------------------------
(* The steps of a call that both wallets have.                             *)

Begin(c, amount) ==
    /\ calls[c].pc = "idle"
    /\ calls' = [calls EXCEPT ![c].pc = "get_utxos", ![c].amount = amount]
    /\ UNCHANGED <<spent, world>>

\* The Bitcoin canister executes get_utxos.
GetUtxos(c) ==
    /\ calls[c].pc = "get_utxos"
    /\ calls' = [calls EXCEPT ![c].pc = "utxos", ![c].utxos = View]
    /\ UNCHANGED <<spent, world>>

\* The call ends without having sent anything; what it did before its last
\* await stays.
Abandon(c) ==
    /\ calls' = [calls EXCEPT ![c].pc = "done"]
    /\ UNCHANGED <<spent, world>>

\* The transaction a call builds from a list of UTXOs.
Transaction(c, list) ==
    LET built == Build(list, Source, Destination, calls[c].amount, Fees)
    IN  [id |-> c, inputs |-> built.inputs, outputs |-> built.outputs]

\* It is built, and some outpoints are marked as spent.
SpendMarking(c, list, next, marked) ==
    /\ ~ BuildFails(list, calls[c].amount, Fees)
    /\ spent' = spent \cup marked
    /\ calls' = [calls EXCEPT ![c].pc = next, ![c].tx = {Transaction(c, list)}]
    /\ UNCHANGED world

\* Fault: the inputs are not marked.
SpendUnmarked(c, utxos, next) ==
    \E list \in SetToSeqs(utxos) : SpendMarking(c, list, next, {})

\* A transaction is built from UTXOs and its inputs are marked as spent.
Spend(c, utxos, next) ==
    \E list \in SetToSeqs(utxos) :
        SpendMarking(c, list, next, Outpoints(Transaction(c, list)))

Insufficient(c, utxos) ==
    \E list \in SetToSeqs(utxos) : BuildFails(list, calls[c].amount, Fees)

\* The Bitcoin canister executes send_transaction.
SendTransaction(c) ==
    /\ calls[c].pc = "send"
    /\ sent' = sent \cup calls[c].tx
    /\ calls' = [calls EXCEPT ![c].pc = "done"]
    /\ UNCHANGED <<spent, deposited, confirmed>>

\* Fault: the filter is forgotten.
UnmarkedAll(utxos) == utxos

\* The UTXOs no earlier call has spent.
Unmarked(utxos) == {u \in utxos : u.outpoint \notin spent}

-----------------------------------------------------------------------------
\* The transactions that were built, sent or on their way.
Issued == UNION {calls[c].tx : c \in Call}

\* No output is spent by two transactions: what an earlier call spends is
\* never spent again, although the Bitcoin canister goes on returning it until
\* the transaction is in a block, and may do so again later.
NoDoubleSpend ==
    \A s, t \in Issued : s # t => Outpoints(s) \cap Outpoints(t) = {}

\* The marks are exactly the inputs of the transactions that were built:
\* whatever the order in which calls proceed and fail, no input is left
\* unmarked and no outpoint is locked for nothing.
MarksExact == spent = UNION {Outpoints(tx) : tx \in Issued}

\* A transaction pays the fees, and less than the dust threshold on top of
\* them, whenever its inputs cover the fees at all.
FeesPaid ==
    \A tx \in Issued :
        LET amount == tx.outputs[1].value
        IN  InputValue(tx) >= amount + Fees =>
              InputValue(tx) - OutputValue(tx) - Fees \in 0 .. DustThreshold - 1
=============================================================================
