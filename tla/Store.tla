------------------------------- MODULE Store -------------------------------
(***************************************************************************)
(* The store under a stream of blocks.  Every insert_block runs to its end *)
(* or panics; in a canister message a panic is a trap, which leaves the    *)
(* state as it was.                                                        *)
(***************************************************************************)
EXTENDS StoreOps

VARIABLES
    state,       \* State
    trapped,     \* history: an insert_block has panicked
    stable,      \* history: the stable blocks, genesis first
    delivered,   \* history: the blocks inserted so far
    repeated     \* history: one of them was inserted again

vars == <<state, trapped, stable, delivered, repeated>>

Init ==
    /\ state = NewState
    /\ trapped = FALSE
    /\ stable = <<Genesis>>
    /\ delivered = {}
    /\ repeated = FALSE

Delivers(block) ==
    /\ delivered' = delivered \cup {block}
    /\ repeated' = (repeated \/ block \in delivered)

\* insert_block when no block becomes stable.
KeepUnstable(block) ==
    /\ ~ Stabilises(state, block)
    /\ state' = InsertBlock(state, block)
    /\ Delivers(block)
    /\ UNCHANGED <<trapped, stable>>

\* insert_block when one does.
Stabilise(block) ==
    /\ Stabilises(state, block)
    /\ ~ InsertPanics(state, block)
    /\ state' = InsertBlock(state, block)
    /\ stable' = Append(stable, Popped(state, block))
    /\ Delivers(block)
    /\ UNCHANGED trapped

\* Fault: the panic leaves the forest as it was when it happened.
TrapHalfway(block) ==
    /\ InsertPanics(state, block)
    /\ trapped' = TRUE
    /\ state' = [state EXCEPT !.unstable_blocks =
                    PopTrees(Pushed(state, block), state.latest_stable_block_hash)]
    /\ UNCHANGED <<stable, delivered, repeated>>

\* insert_block when it panics.
Trap(block) ==
    /\ InsertPanics(state, block)
    /\ trapped' = TRUE
    /\ UNCHANGED <<state, stable, delivered, repeated>>

Insert(block) == KeepUnstable(block) \/ Stabilise(block) \/ Trap(block)

SaveAndLoad ==
    /\ state' = LoadState(SaveState(state))
    /\ UNCHANGED <<trapped, stable, delivered, repeated>>

\* Blocks as the adapter answers a get_successors request: successors of
\* known blocks.  The same block may come again while it is in the forest.
InsertSuccessor(block) == Prev[block] \in Known(state) /\ Insert(block)

\* Blocks in any order and any number of times.
NextAnyOrder == (\E block \in Block \ {Genesis} : Insert(block)) \/ SaveAndLoad
NextInOrder == (\E block \in Block \ {Genesis} : InsertSuccessor(block)) \/ SaveAndLoad

SpecAnyOrder == Init /\ [][NextAnyOrder]_vars
SpecInOrder == Init /\ [][NextInOrder]_vars
=============================================================================
