------------------------------ MODULE SyncDemo ------------------------------
(***************************************************************************)
(* The synchronisation demo (canister/src/sync_demo.rs): a State behind a  *)
(* read-write lock, a task that fetches blocks and inserts them, and the   *)
(* main thread, which answers the user and saves the State to a file.      *)
(*                                                                         *)
(* The lock is the control points of the two: the task holds it for        *)
(* writing at "insert", the main thread for reading at its Reads.  Reading *)
(* the hashes of a request holds it for reading and is one step, since     *)
(* only the task itself writes.  A panic under the write lock poisons the  *)
(* lock, and whoever wants it next panics too.  The process may end at any *)
(* moment and be started again, from genesis or from a file.               *)
(***************************************************************************)
EXTENDS Adapter

CONSTANTS
    File,        \* names of state files
    Unloadable,  \* what a file holds from which no State can be loaded
    MaxBatch,    \* blocks in one answer of the adapter, at most
    MaxStarts    \* how often the process is started, at most

ASSUME DemoAssumption == MaxBatch \in Nat \ {0} /\ MaxStarts \in Nat

VARIABLES
    state,       \* the State behind the lock
    poisoned,    \* the lock is poisoned
    fetch,       \* where the task is
    request,     \* the block hashes of its get_successors request
    blocks,      \* the blocks of the answer that are still to be inserted
    main,        \* where the main thread is
    file_name,   \* the file it is saving to
    disk,        \* the contents of the files
    network,     \* the blocks the adapter has
    starts       \* history: how often the process was started

task == <<fetch, request, blocks>>
thread == <<main, file_name>>
vars == <<state, poisoned, task, thread, disk, network, starts>>

Reads == {"query", "save", "write"}

Init ==
    /\ state = NewState
    /\ poisoned = FALSE
    /\ fetch = "dead" /\ request = {} /\ blocks = << >>
    /\ main = "down" /\ file_name \in File
    /\ disk = [f \in File |-> Unloadable]
    /\ network = {Genesis}
    /\ starts = 0

-----------------------------------------------------------------------------
(* The process.                                                            *)

\* It starts, and spawns the task.  A file that is not complete is not loaded:
\* its last field, the forest, is missing or cut off, and main panics.
Launch(loaded) ==
    /\ main = "down"
    /\ starts < MaxStarts
    /\ starts' = starts + 1
    /\ state' = loaded
    /\ main' = "prompt"
    /\ fetch' = "connect"
    /\ UNCHANGED <<poisoned, request, blocks, file_name, disk, network>>

StartNew == Launch(NewState)
StartFrom(f) == disk[f] # Unloadable /\ Launch(LoadState(disk[f]))

\* It ends, and with it all that is not in a file.
End ==
    /\ state' = NewState
    /\ poisoned' = FALSE
    /\ fetch' = "dead" /\ request' = {} /\ blocks' = << >>
    /\ main' = "down"
    /\ UNCHANGED <<file_name, disk, network, starts>>

\* It is killed, or main panics on input it cannot use.
Killed == main # "down" /\ End

-----------------------------------------------------------------------------
(* The fetching task.                                                      *)

\* A step of the task, which leaves the main thread alone.
TaskGoes(from, to) ==
    /\ fetch = from /\ fetch' = to
    /\ UNCHANGED <<thread, disk, network, starts>>

Connect == TaskGoes("connect", "read") /\ UNCHANGED <<state, poisoned, request, blocks>>

\* There is no adapter: the task ends, and the main thread does not notice.
ConnectFails == TaskGoes("connect", "dead") /\ UNCHANGED <<state, poisoned, request, blocks>>

ReadHashes ==
    /\ TaskGoes("read", "ask")
    /\ request' = Known(state)
    /\ UNCHANGED <<state, poisoned, blocks>>

\* The adapter answers, and the task wants the lock for writing.
Answer ==
    /\ TaskGoes("ask", "lock")
    /\ blocks' \in Successors(network, request, MaxBatch)
    /\ UNCHANGED <<state, poisoned, request>>

AnswerError ==
    /\ TaskGoes("ask", "read")
    /\ request' = {}
    /\ UNCHANGED <<state, poisoned, blocks>>

Acquire ==
    /\ TaskGoes("lock", "insert")
    /\ main \notin Reads
    /\ UNCHANGED <<state, poisoned, request, blocks>>

InsertNext ==
    /\ TaskGoes("insert", "insert")
    /\ blocks # << >>
    /\ ~ InsertPanics(state, Head(blocks))
    /\ state' = InsertBlock(state, Head(blocks))
    /\ blocks' = Tail(blocks)
    /\ UNCHANGED <<poisoned, request>>

\* Fault: the hashes are not read again.
ReleaseAndAsk ==
    /\ TaskGoes("insert", "ask")
    /\ blocks = << >>
    /\ UNCHANGED <<state, poisoned, request, blocks>>

\* All blocks are inserted: the lock is released and the loop goes on.
Release ==
    /\ TaskGoes("insert", "read")
    /\ blocks = << >>
    /\ request' = {}
    /\ UNCHANGED <<state, poisoned, blocks>>

\* What insert_block leaves behind when it panics: the forest is popped, and
\* the assertion fails, or the anchor is moved and some transactions of the
\* block are in the set.  (What the one that fails has taken out of it before
\* is left out.)
HalfInserted(s, block) ==
    LET forest == PopTrees(Pushed(s, block), s.latest_stable_block_hash)
    IN  IF Prev[Popped(s, block)] # s.latest_stable_block_hash
        THEN [s EXCEPT !.unstable_blocks = forest]
        ELSE [height                   |-> s.height,
              latest_stable_block_hash |-> Popped(s, block),
              utxos                    |-> Processed(s, block).set,
              unstable_blocks          |-> forest]

\* insert_block panics: the task ends and the lock is poisoned.
InsertPanicked ==
    /\ TaskGoes("insert", "dead")
    /\ blocks # << >>
    /\ InsertPanics(state, Head(blocks))
    /\ state' = HalfInserted(state, Head(blocks))
    /\ poisoned' = TRUE
    /\ request' = {}
    /\ blocks' = << >>

-----------------------------------------------------------------------------
(* The main thread.                                                        *)

\* A step of a command, which leaves the task and what it works on alone.
MainGoes(from, to) ==
    /\ main = from /\ main' = to
    /\ UNCHANGED <<state, poisoned, task, network, starts>>

\* Fault: a poisoned lock is taken all the same.
BeginReadAnyway(at) == MainGoes("prompt", at) /\ fetch # "insert" /\ UNCHANGED disk

\* A command waits for the lock and gets it.
BeginRead(at) ==
    /\ MainGoes("prompt", at)
    /\ fetch # "insert"
    /\ ~ poisoned
    /\ UNCHANGED disk

\* The commands "utxos" and "balance", and "save".
Query == BeginRead("query") /\ UNCHANGED file_name
Save(f) == BeginRead("save") /\ file_name' = f

\* A command finds the lock poisoned.
ReadPoisoned == main = "prompt" /\ poisoned /\ End

\* The answer is printed.
QueryDone == MainGoes("query", "prompt") /\ UNCHANGED <<file_name, disk>>

\* File::create empties the file, write_all fills it.
CreateFile ==
    /\ MainGoes("save", "write")
    /\ disk' = [disk EXCEPT ![file_name] = Unloadable]
    /\ UNCHANGED file_name

WriteFile ==
    /\ MainGoes("write", "prompt")
    /\ disk' = [disk EXCEPT ![file_name] = SaveState(state)]
    /\ UNCHANGED file_name

-----------------------------------------------------------------------------
NewBlock(block) ==
    /\ block \notin network
    /\ Prev[block] \in network
    /\ network' = network \cup {block}
    /\ UNCHANGED <<state, poisoned, task, thread, disk, starts>>

Fetching ==
    \/ Connect \/ ConnectFails \/ ReadHashes \/ Answer \/ AnswerError
    \/ Acquire \/ InsertNext \/ Release \/ InsertPanicked
Reading == QueryDone \/ CreateFile \/ WriteFile

Next ==
    \/ Fetching
    \/ Reading
    \/ Query \/ (\E f \in File : Save(f)) \/ ReadPoisoned
    \/ StartNew \/ (\E f \in File : StartFrom(f)) \/ Killed
    \/ \E block \in Block \ {Genesis} : NewBlock(block)

Spec == Init /\ [][Next]_vars

\* The steps of the two threads as the control points they pass: only the task
\* leaves one of its points, but for the end of the process.
Points == {"connect", "read", "ask", "lock", "insert", "dead"}
MovesOn == fetch \in {"connect", "read", "ask"} /\ fetch' \in Points \ {fetch}
Answered == fetch = "ask" /\ fetch' = "lock"
Acquired == fetch = "lock" /\ main \notin Reads /\ fetch' = "insert"
Inserts ==
    /\ fetch = "insert"
    /\ \/ blocks # << >> /\ blocks' = Tail(blocks) /\ fetch' = fetch
       \/ blocks' = << >> /\ fetch' \in {"read", "dead"}
EndsRead == main \in Reads /\ main' \in {"prompt", "write", "down"} \ {main}

\* The task runs and the main thread ends a command it has begun; neither does
\* an adapter that is asked again and again fail for ever, nor the task wait
\* for ever for a lock that is free again and again.
Fairness ==
    /\ WF_fetch(MovesOn) /\ WF_<<fetch, blocks>>(Inserts) /\ WF_main(EndsRead)
    /\ SF_fetch(Answered) /\ SF_fetch(Acquired)

FairSpec == Spec /\ Fairness
=============================================================================
