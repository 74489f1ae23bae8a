--------------------------- MODULE MotokoAccount ---------------------------
(***************************************************************************)
(* The Motoko actor class Account (examples/motoko/src/Account.mo): the    *)
(* UTXOs are filtered in one message, the transaction is built by another  *)
(* canister, and the outpoints are marked when it has answered.            *)
(* Actions the Rust wallet has too have names of their own here: the       *)
(* theorems about both wallets are in one module.                          *)
(***************************************************************************)
EXTENDS Wallet

CONSTANT MaxConcurrent     \* bound: calls open at once
ASSUME ConcurrentAssumption == MaxConcurrent \in Nat \ {0}

Open == {c \in Call : calls[c].pc \notin {"idle", "done"}}

\* send, up to the await of get_utxos.
AccountSend(c, amount) == Cardinality(Open) < MaxConcurrent /\ Begin(c, amount)

\* The answer arrives, what is marked is left out, and Common is asked to
\* build a transaction from the rest.
Filter(c) ==
    /\ calls[c].pc = "utxos"
    /\ Unmarked(calls[c].utxos) # {}
    /\ calls' = [calls EXCEPT ![c].pc = "build", ![c].utxos = Unmarked(@)]
    /\ UNCHANGED <<spent, world>>

NothingLeft(c) ==
    /\ calls[c].pc = "utxos"
    /\ Unmarked(calls[c].utxos) = {}
    /\ Abandon(c)

\* The transaction arrives with the indices of the UTXOs it uses: their
\* outpoints are marked, and Common is asked to sign it.
Built(c) ==
    /\ calls[c].pc = "build"
    /\ \E list \in SetToSeqs(calls[c].utxos) :
          SpendMarking(c, list, "sign",
              {list[i].outpoint : i \in UsedIndices(list, Transaction(c, list).inputs)})

AccountBuildError(c) ==
    /\ calls[c].pc = "build"
    /\ Insufficient(c, calls[c].utxos)
    /\ Abandon(c)

\* The signed transaction arrives and is sent off.
Signed(c) ==
    /\ calls[c].pc = "sign"
    /\ calls' = [calls EXCEPT ![c].pc = "send"]
    /\ UNCHANGED <<spent, world>>

\* The await throws, or the answer is an error.
Rejected(c) == calls[c].pc \in {"get_utxos", "build", "sign", "send"} /\ Abandon(c)

AccountNext ==
    \/ World
    \/ \E c \in Call :
        \/ \E amount \in Amount : AccountSend(c, amount)
        \/ GetUtxos(c)
        \/ Filter(c) \/ NothingLeft(c)
        \/ Built(c) \/ AccountBuildError(c)
        \/ Signed(c) \/ SendTransaction(c) \/ Rejected(c)

AccountSpec == Init /\ [][AccountNext]_vars

-----------------------------------------------------------------------------
\* Where a call is before its UTXOs are filtered.
Unfiltered == {"idle", "get_utxos", "utxos"}

\* Two calls spend no output in common.
SpendApart(c, d) ==
    \A s \in calls[c].tx, t \in calls[d].tx : Outpoints(s) \cap Outpoints(t) = {}

\* Once a call has built its transaction and marked its inputs, none of them is
\* ever spent by a call that had not filtered its UTXOs by then, however the
\* calls go on, whichever fail, and whatever the Bitcoin canister returns.  So
\* two calls spend the same output only when one builds while the other waits
\* for what it asked Common to build.
NoLateDoubleSpend ==
    \A c, d \in Call :
        [](calls[c].pc \in Unfiltered /\ calls[d].tx # {} => []SpendApart(c, d))
=============================================================================
