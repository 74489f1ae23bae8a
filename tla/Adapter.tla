------------------------------- MODULE Adapter -------------------------------
(***************************************************************************)
(* The Bitcoin adapter, as the programs that ask it for blocks use it.     *)
(***************************************************************************)
EXTENDS StoreOps

\* What an adapter that has the blocks network may answer to a request that
\* names hashes: some blocks the request does not name, max at most, each
\* after the block it builds on.  It answers nothing only if there is none.
Successors(network, hashes, max) ==
    LET answers == {r \in SeqOf(network \ hashes, max) :
                      \A i \in DOMAIN r :
                        /\ Prev[r[i]] \in hashes \cup {r[j] : j \in 1 .. i - 1}
                        /\ \A j \in 1 .. i - 1 : r[j] # r[i]}
    IN  IF answers = {<< >>} THEN answers ELSE answers \ {<< >>}
=============================================================================
