-------------------------- MODULE MCWrappedBitcoin --------------------------
(* A unit is 5000 satoshis; the fee is 2 of them.                           *)
EXTENDS WrappedBitcoinProperties
CONSTANTS p, q, x, y

MCClient == {p, q}
MCCall == {x, y}
MCValue == {2, 3}
MCAmount == {2, 3, 5}
Symmetry == Permutations(MCClient) \cup Permutations(MCCall)
=============================================================================
