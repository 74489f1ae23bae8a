------------------------------ MODULE MCStore ------------------------------
(* Blocks on genesis g: a chain a1-a2-..., a rival b1-b2-... from genesis,   *)
(* and a rival c2-c3-... from a1.  The payment of alice to bob is on both    *)
(* sides of the fork; c2 spends her change differently than a3; a3 spends    *)
(* outputs an unstable block created, and `coin' is in a2, b1 and c2 alike.  *)
EXTENDS StoreProperties

CONSTANTS g, a1, a2, a3, a4, a5, b1, b2, b3, b4, c2, c3, c4,
          mint, pay, back, other, coin, alice, bob

FewBlocks == {g, a1, a2, a3, b1, b2, c2}
ForkBlocks == {g, a1, a2, b1, b2, b3, c2, c3}
ManyBlocks == {g, a1, a2, a3, a4, a5, b1, b2, b3, b4, c2, c3, c4}

MCPrev ==
    [x \in Block |->
        CASE x = g  -> NoBlock
          [] x = a1 -> g  [] x = a2 -> a1 [] x = a3 -> a2 [] x = a4 -> a3 [] x = a5 -> a4
          [] x = b1 -> g  [] x = b2 -> b1 [] x = b3 -> b2 [] x = b4 -> b3
          [] x = c2 -> a1 [] x = c3 -> c2 [] x = c4 -> c3]

MCTxId == {mint, pay, back, other, coin}
MCAddress == {alice, bob}
MCDuplicateTxIds == {}
Out(t, i) == [txid |-> t, vout |-> i]
Pays(v, a) == [value |-> v, address |-> a]

MCTx ==
    [t \in MCTxId |->
        CASE t = mint  -> [inputs |-> {}, outputs |-> <<Pays(5, alice)>>]
          [] t = coin  -> [inputs |-> {}, outputs |-> <<Pays(3, NoAddress), Pays(1, bob)>>]
          [] t = pay   -> [inputs |-> {Out(mint, 0)},
                           outputs |-> <<Pays(3, bob), Pays(2, alice)>>]
          [] t = back  -> [inputs |-> {Out(pay, 0), Out(pay, 1)},
                           outputs |-> <<Pays(5, alice)>>]
          [] t = other -> [inputs |-> {Out(pay, 1)},
                           outputs |-> <<Pays(2, bob)>>]]

MCTxData ==
    [x \in Block |->
        CASE x = g  -> <<mint>>
          [] x = a1 -> <<pay>>
          [] x = a2 -> <<coin>>
          [] x = a3 -> <<back>>
          [] x = b1 -> <<coin>>
          [] x = b2 -> <<pay, other>>
          [] x = c2 -> <<other, coin>>
          [] OTHER  -> << >>]

\* Block c2 spends an output twice.
InvalidTxData == [MCTxData EXCEPT ![c2] = <<back, other>>]
=============================================================================
