---------------------------- MODULE BitcoinSync ----------------------------
(***************************************************************************)
(* The Bitcoin canister (canister/src/main.rs), the shim that drives it    *)
(* (canister/src/adapter-shim.rs) and, as the shim uses them, the adapter  *)
(* with the Bitcoin network behind it and the replica that runs the        *)
(* canister.                                                               *)
(*                                                                         *)
(* The shim is a loop of awaits.  A query of the canister and the answer to*)
(* it are one step; an update call is submitted in one step and executed   *)
(* in a later one, which also resumes the shim if it still waits.  The shim*)
(* may be killed at any await: a call it has submitted is executed all the *)
(* same.  A trap discards all a message did and rejects the call, and the  *)
(* shim, which unwraps the result, ends.                                   *)
(***************************************************************************)
EXTENDS Adapter

CONSTANTS
    Payment,       \* transactions clients send through the canister
    MaxBatch,      \* blocks in one answer of the adapter, at most
    MaxCrashes     \* how often the shim is killed, at most

ASSUME BoundsAssumption == MaxBatch \in Nat \ {0} /\ MaxCrashes \in Nat

VARIABLES
    state,         \* STATE of the canister
    outgoing,      \* OUTGOING_TRANSACTIONS of the canister
    pc,            \* the await at which the shim is
    request,       \* the block hashes of its get_successors request
    call,          \* the update call it waits for
    raw_tx,        \* the transaction it is about to send
    orphans,       \* calls of killed shims that are not executed yet
    network,       \* the blocks the adapter has
    sent,          \* the transactions the adapter was given, in order
    accepted,      \* history: what send_transaction accepted, in order
    crashes        \* history: how often the shim was killed

canister == <<state, outgoing>>
shim == <<pc, request, call, raw_tx>>
outside == <<network, sent, accepted, crashes>>
vars == <<canister, shim, orphans, outside>>

NoCall == [method |-> "none", blocks |-> << >>]
SuccessorsResponse(blocks) == [method |-> "get_successors_response", blocks |-> blocks]
OutgoingTransaction == [method |-> "get_outgoing_transaction", blocks |-> << >>]
NoTx == << >>

Init ==
    /\ state = NewState
    /\ outgoing = << >>
    /\ pc = "request"
    /\ request = {}
    /\ call = NoCall
    /\ raw_tx = NoTx
    /\ orphans = << >>
    /\ network = {Genesis}
    /\ sent = << >>
    /\ accepted = << >>
    /\ crashes = 0

-----------------------------------------------------------------------------
(* The clients and the Bitcoin network.                                    *)

\* send_transaction of a well-formed transaction.  Each is sent once.
SendTransaction(tx) ==
    /\ tx \notin Range(accepted)
    /\ outgoing' = Append(outgoing, tx)
    /\ accepted' = Append(accepted, tx)
    /\ UNCHANGED <<state, shim, orphans, network, sent, crashes>>

NewBlock(block) ==
    /\ block \notin network
    /\ Prev[block] \in network
    /\ network' = network \cup {block}
    /\ UNCHANGED <<canister, shim, orphans, sent, accepted, crashes>>

-----------------------------------------------------------------------------
(* The canister.                                                           *)

\* get_successors_response inserts all the blocks in one message.
InsertNext(run, block) ==
    IF run.panicked \/ InsertPanics(run.state, block)
    THEN [state |-> run.state, panicked |-> TRUE]
    ELSE [state |-> InsertBlock(run.state, block), panicked |-> FALSE]

InsertBlocks(blocks) ==
    LET after[n \in 0 .. Len(blocks)] ==
            IF n = 0 THEN [state |-> state, panicked |-> FALSE]
            ELSE InsertNext(after[n - 1], blocks[n])
    IN  after[Len(blocks)]

\* The effect of executing a call on the canister.
Execute(c) ==
    \/ /\ c.method = "get_successors_response"
       /\ state' = IF InsertBlocks(c.blocks).panicked THEN state
                                                      ELSE InsertBlocks(c.blocks).state
       /\ UNCHANGED outgoing
    \/ /\ c.method = "get_outgoing_transaction"
       /\ outgoing' = IF outgoing = << >> THEN outgoing ELSE Tail(outgoing)
       /\ UNCHANGED state

\* A call of a killed shim is executed; nobody waits for the answer.
ExecuteOrphan(i) ==
    /\ Execute(orphans[i])
    /\ orphans' = RemoveAt(orphans, i)
    /\ UNCHANGED <<shim, outside>>

-----------------------------------------------------------------------------
(* The loop of the shim.                                                   *)

\* get_successors_request is queried.
QueryRequest ==
    /\ pc = "request"
    /\ request' = Known(state)
    /\ pc' = "adapter"
    /\ UNCHANGED <<canister, call, raw_tx, orphans, outside>>

\* The adapter answers, and the answer is submitted to the canister.
GetSuccessors ==
    /\ pc = "adapter"
    /\ \E blocks \in Successors(network, request, MaxBatch) :
           call' = SuccessorsResponse(blocks)
    /\ pc' = "response"
    /\ request' = {}
    /\ UNCHANGED <<canister, raw_tx, orphans, outside>>

\* The adapter does not answer; the loop goes on with the transactions.
GetSuccessorsError ==
    /\ pc = "adapter"
    /\ pc' = "outgoing"
    /\ request' = {}
    /\ UNCHANGED <<canister, call, raw_tx, orphans, outside>>

\* The canister executes get_successors_response and the shim resumes.
ResponseExecuted ==
    /\ pc = "response"
    /\ ~ InsertBlocks(call.blocks).panicked
    /\ Execute(call)
    /\ pc' = "outgoing"
    /\ call' = NoCall
    /\ UNCHANGED <<request, raw_tx, orphans, outside>>

\* It traps, and the shim ends.
ResponseTrapped ==
    /\ pc = "response"
    /\ InsertBlocks(call.blocks).panicked
    /\ Execute(call)
    /\ pc' = "down"
    /\ call' = NoCall
    /\ UNCHANGED <<request, raw_tx, orphans, outside>>

\* Fault: the last transaction of the queue is overlooked.
QueryOutgoingLate ==
    /\ pc = "outgoing"
    /\ IF Len(outgoing) <= 1
       THEN pc' = "request" /\ UNCHANGED call
       ELSE pc' = "pop" /\ call' = OutgoingTransaction
    /\ UNCHANGED <<canister, request, raw_tx, orphans, outside>>

\* has_outgoing_transaction is queried, and get_outgoing_transaction called
\* when there is one.
QueryOutgoing ==
    /\ pc = "outgoing"
    /\ IF outgoing = << >>
       THEN pc' = "request" /\ UNCHANGED call
       ELSE pc' = "pop" /\ call' = OutgoingTransaction
    /\ UNCHANGED <<canister, request, raw_tx, orphans, outside>>

\* Fault: the transaction is removed and not returned.
PopNoneExecuted ==
    /\ pc = "pop"
    /\ Execute(call)
    /\ pc' = "request"
    /\ call' = NoCall
    /\ UNCHANGED <<request, raw_tx, orphans, outside>>

\* The canister executes get_outgoing_transaction and the shim resumes with
\* the transaction, if the queue still had one.
PopExecuted ==
    /\ pc = "pop"
    /\ Execute(call)
    /\ IF outgoing = << >>
       THEN pc' = "request" /\ UNCHANGED raw_tx
       ELSE pc' = "send" /\ raw_tx' = <<Head(outgoing)>>
    /\ call' = NoCall
    /\ UNCHANGED <<request, orphans, outside>>

\* The transaction is given to the adapter.
SendToAdapter ==
    /\ pc = "send"
    /\ sent' = sent \o raw_tx
    /\ pc' = "request"
    /\ raw_tx' = NoTx
    /\ UNCHANGED <<canister, request, call, orphans, network, accepted, crashes>>

\* Fault: the transaction goes back to the queue, behind later ones.
SendErrorRequeues ==
    /\ pc = "send"
    /\ pc' = "request"
    /\ raw_tx' = NoTx
    /\ outgoing' = outgoing \o raw_tx
    /\ UNCHANGED <<state, request, call, orphans, outside>>

\* The adapter does not answer, and the transaction is dropped.
SendError ==
    /\ pc = "send"
    /\ pc' = "request"
    /\ raw_tx' = NoTx
    /\ UNCHANGED <<canister, request, call, orphans, outside>>

\* The shim is killed.  What it had in memory is gone, what it had submitted
\* is not.
Crash ==
    /\ pc # "down"
    /\ crashes < MaxCrashes
    /\ crashes' = crashes + 1
    /\ pc' = "down"
    /\ orphans' = IF call = NoCall THEN orphans ELSE Append(orphans, call)
    /\ request' = {}
    /\ call' = NoCall
    /\ raw_tx' = NoTx
    /\ UNCHANGED <<canister, network, sent, accepted>>

\* It is started again.
Restart ==
    /\ pc = "down"
    /\ pc' = "request"
    /\ UNCHANGED <<canister, request, call, raw_tx, orphans, outside>>

-----------------------------------------------------------------------------
Shim ==
    \/ QueryRequest \/ GetSuccessors \/ GetSuccessorsError
    \/ ResponseExecuted \/ ResponseTrapped
    \/ QueryOutgoing \/ PopExecuted \/ SendToAdapter \/ SendError

Next ==
    \/ Shim
    \/ \E tx \in Payment : SendTransaction(tx)
    \/ \E block \in Block \ {Genesis} : NewBlock(block)
    \/ \E i \in DOMAIN orphans : ExecuteOrphan(i)
    \/ Crash
    \/ Restart

\* The loop as the awaits it passes: only a step of the shim goes from one
\* await to the next, and only GetSuccessors from "adapter" to "response".
Awaits == {"request", "adapter", "response", "outgoing", "pop", "send", "down"}
MovesOn == pc # "down" /\ pc' \in Awaits \ {pc}
Answered == pc = "adapter" /\ pc' = "response"

\* The shim keeps running while it is up, the replica executes what it was
\* sent, and an adapter that is asked again and again answers sometimes.
Fairness == WF_pc(MovesOn) /\ SF_pc(Answered)

Spec == Init /\ [][Next]_vars
FairSpec == Spec /\ Fairness
=============================================================================
