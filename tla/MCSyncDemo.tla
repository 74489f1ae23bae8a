----------------------------- MODULE MCSyncDemo -----------------------------
(* A chain a1-a2-a3 and a rival b1-b2 from genesis, where b1 spends an       *)
(* output that never existed; two state files.                               *)
EXTENDS SyncDemoProperties

CONSTANTS g, a1, a2, a3, b1, b2, mint, pay, back, alice, bob, f, h

MCBlock == {g, a1, a2, a3, b1, b2}
MCFile == {f, h}

MCPrev ==
    [x \in Block |->
        CASE x = g  -> NoBlock
          [] x = a1 -> g [] x = a2 -> a1 [] x = a3 -> a2
          [] x = b1 -> g [] x = b2 -> b1]

MCTxId == {mint, pay, back}
MCAddress == {alice, bob}
MCDuplicateTxIds == {}
Out(t, i) == [txid |-> t, vout |-> i]
Pays(v, a) == [value |-> v, address |-> a]

MCTx ==
    [t \in MCTxId |->
        CASE t = mint -> [inputs |-> {}, outputs |-> <<Pays(5, alice)>>]
          [] t = pay  -> [inputs |-> {Out(mint, 0)}, outputs |-> <<Pays(5, bob)>>]
          [] t = back -> [inputs |-> {Out(pay, 0)}, outputs |-> <<Pays(5, alice)>>]]

MCTxData ==
    [x \in Block |->
        CASE x = g  -> <<mint>>
          [] x = a1 -> <<pay>>
          [] x = a2 -> <<back>>
          [] x = b1 -> <<back>>
          [] OTHER  -> << >>]
=============================================================================
