---------------------------- MODULE MCRustWallet ----------------------------
(* A unit is 5000 satoshis: the fees and the dust threshold are 2 of them.  *)
EXTENDS RustWallet
CONSTANTS x, y, z, d1, d2, d3

MCCall == {x, y, z}
MCDeposit == {d1, d2, d3}
MCValue == d1 :> 3 @@ d2 :> 7 @@ d3 :> 5
MCAmount == {2, 3, 6}
=============================================================================
