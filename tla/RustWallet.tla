----------------------------- MODULE RustWallet -----------------------------
(***************************************************************************)
(* The Rust example wallet (examples/rust/src/main.rs): the UTXOs are      *)
(* filtered, spent and marked in one message.                              *)
(***************************************************************************)
EXTENDS Wallet

\* send, up to its first await; an amount the fees would eat up traps.
Send(c, amount) == amount > Fees /\ Begin(c, amount)

\* get_utxos is rejected, which traps.
GetUtxosRejected(c) == calls[c].pc = "get_utxos" /\ Abandon(c)

\* The answer arrives: the transaction is built, marked, signed and sent off,
\* with no await in between.
BuildAndSend(c) ==
    /\ calls[c].pc = "utxos"
    /\ Spend(c, Unmarked(calls[c].utxos), "send")

\* build_transaction returns an error, which traps.
BuildError(c) ==
    /\ calls[c].pc = "utxos"
    /\ Insufficient(c, Unmarked(calls[c].utxos))
    /\ Abandon(c)

\* send_transaction is rejected; the result is not looked at.
SendRejected(c) == calls[c].pc = "send" /\ Abandon(c)

Next ==
    \/ World
    \/ \E c \in Call :
        \/ \E amount \in Amount : Send(c, amount)
        \/ GetUtxos(c) \/ GetUtxosRejected(c)
        \/ BuildAndSend(c) \/ BuildError(c)
        \/ SendTransaction(c) \/ SendRejected(c)

Spec == Init /\ [][Next]_vars
=============================================================================
