----------------------------- MODULE MCUtxoSet -----------------------------
(* A small chain of transactions for UtxoSet: two coinbases, a payment      *)
(* between two addresses with change, a transaction that joins both outputs *)
(* again, a script without an address, and a duplicated coinbase.           *)
EXTENDS UtxoSet

CONSTANTS cb1, cb2, pay, join, dup, alice, bob

MCTxId == {cb1, cb2, pay, join, dup}
MCAddress == {alice, bob}
Out(t, i) == [txid |-> t, vout |-> i]
Pays(v, a) == [value |-> v, address |-> a]

MCTx ==
    [t \in MCTxId |->
        CASE t = cb1  -> [inputs |-> {}, outputs |-> <<Pays(5, alice)>>]
          [] t = cb2  -> [inputs |-> {}, outputs |-> <<Pays(5, alice), Pays(1, NoAddress)>>]
          [] t = pay  -> [inputs |-> {Out(cb1, 0), Out(cb2, 0)},
                          outputs |-> <<Pays(7, bob), Pays(3, alice)>>]
          [] t = join -> [inputs |-> {Out(pay, 0), Out(pay, 1), Out(cb2, 1)},
                          outputs |-> <<Pays(11, bob)>>]
          [] t = dup  -> [inputs |-> {}, outputs |-> <<Pays(5, NoAddress)>>]]

MCDuplicateTxIds == {dup}
MCHeight == 1 .. 3
=============================================================================
