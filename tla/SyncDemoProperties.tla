------------------------- MODULE SyncDemoProperties -------------------------
(***************************************************************************)
(* What the lock, the file and the two threads of the demo should achieve. *)
(***************************************************************************)
EXTENDS SyncDemo, LedgerState

\* The hashes of the request were read under the lock, which was free while
\* the adapter was asked.  Still, when the task waits for the lock to insert
\* the answer, whatever commands the main thread has served and wherever the
\* State came from, each block is one the State does not have and builds on
\* one it has or on an earlier one of the answer.
AnswerStillFresh ==
    fetch = "lock" =>
        \A i \in DOMAIN blocks :
            /\ blocks[i] \notin Known(state)
            /\ Prev[blocks[i]] \in Known(state) \cup {blocks[j] : j \in 1 .. i - 1}

\* Nobody sees a block half inserted: insert_block panics in the middle of its
\* work and leaves the State broken behind the lock, but each State that is
\* read under it, and each State that can be loaded from a file, even one that
\* was being overwritten when the process was killed, is the ledger of the
\* chain of its last stable block.
NoHalfInsertSeen ==
    /\ main \in Reads => fetch # "insert" /\ IsLedger(state)
    /\ \A f \in File : disk[f] # Unloadable => IsLedger(LoadState(disk[f]))

\* The demo catches up: as long as the process runs and its task lives, in the
\* end every block the adapter has that builds on the last stable block is in
\* a tree on it, from whichever file the process was started.
CatchesUp ==
    LET anchor == state.latest_stable_block_hash
    IN  <>[](main = "down" \/ fetch = "dead" \/
             \A b \in network :
                anchor \in Past[b] =>
                    b \in BlocksOn(state.unstable_blocks, anchor) \cup {anchor})
=============================================================================
