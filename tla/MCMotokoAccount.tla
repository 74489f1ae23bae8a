-------------------------- MODULE MCMotokoAccount --------------------------
(* A unit is 5000 satoshis: the fees and the dust threshold are 2 of them.  *)
EXTENDS MotokoAccount
CONSTANTS x, y, z, d1, d2, d3

MCCall == {x, y, z}
Calls2 == {x, y}
MCDeposit == {d1, d2, d3}
MCValue == d1 :> 3 @@ d2 :> 7 @@ d3 :> 5
Deposits2 == {d1, d2}
Value2 == d1 :> 3 @@ d2 :> 7
MCAmount == {3, 6}
=============================================================================
