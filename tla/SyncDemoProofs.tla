--------------------------- MODULE SyncDemoProofs ---------------------------
(***************************************************************************)
(* What the task reads before it asks the adapter still holds when it has  *)
(* the answer, nobody reads the State in the middle of an insert, and each *)
(* State that is read or loaded is a ledger: for all blocks, transactions, *)
(* files and bounds.                                                       *)
(***************************************************************************)
EXTENDS SyncDemoProperties, StoreOpsProofs

\* The blocks of an answer to a request, each new and each linked.
Fresh(answer, hashes) ==
    \A i \in DOMAIN answer :
        /\ answer[i] \notin hashes
        /\ Prev[answer[i]] \in hashes \cup {answer[j] : j \in 1 .. i - 1}

RequestInv ==
    /\ fetch \in {"ask", "lock"} => request = Known(state)
    /\ fetch = "lock" => Fresh(blocks, request)

\* While a command reads, the task is not inserting and the lock is whole.
Exclusion == main \in Reads => fetch # "insert" /\ ~ poisoned

IInv == RequestInv /\ Exclusion

-----------------------------------------------------------------------------
LEMMA SuccessorsFresh ==
    ASSUME NEW known, NEW hashes, NEW max,
           NEW answer \in Successors(known, hashes, max)
    PROVE  Fresh(answer, hashes)
<1>1. /\ answer \in SeqOf(known \ hashes, max)
      /\ \A i \in DOMAIN answer :
            Prev[answer[i]] \in hashes \cup {answer[j] : j \in 1 .. i - 1}
  BY DEF Successors
<1>2. PICK n \in 0 .. max : answer \in [1 .. n -> known \ hashes]
  BY <1>1 DEF SeqOf
<1>3. \A i \in DOMAIN answer : answer[i] \notin hashes
  BY <1>2
<1> QED  BY <1>1, <1>3 DEF Fresh

LEMMA InitInv == Init => IInv
<1> QED  BY DEF Init, IInv, RequestInv, Exclusion, Reads

\* Steps that set the task on a new way, or leave the State, the request and
\* the answer alone.
LEMMA FetchingInv ==
    ASSUME IInv, Fetching
    PROVE  IInv'
<1>1. CASE Connect \/ ConnectFails
  BY <1>1 DEF Connect, ConnectFails, TaskGoes, IInv, RequestInv, Exclusion, thread
<1>2. CASE ReadHashes
  <2>1. request' = Known(state') /\ fetch' = "ask"
    BY <1>2 DEF ReadHashes, TaskGoes
  <2> QED  BY <1>2, <2>1 DEF ReadHashes, TaskGoes, IInv, RequestInv, Exclusion, thread
<1>3. CASE Answer
  <2>1. Fresh(blocks', request)
    BY <1>3, SuccessorsFresh DEF Answer, TaskGoes
  <2>2. /\ request' = request /\ state' = state
        /\ request = Known(state)
        /\ fetch' = "lock" /\ UNCHANGED <<main, poisoned>>
    BY <1>3 DEF Answer, TaskGoes, IInv, RequestInv, thread
  <2>3. Fresh(blocks, request)'
    BY <2>1, <2>2
  <2>4. (request = Known(state))'
    BY <2>2
  <2> QED  BY <2>2, <2>3, <2>4 DEF IInv, RequestInv, Exclusion
<1>4. CASE AnswerError \/ Release
  BY <1>4 DEF AnswerError, Release, TaskGoes, IInv, RequestInv, Exclusion, thread
<1>5. CASE Acquire
  BY <1>5 DEF Acquire, TaskGoes, IInv, RequestInv, Exclusion, thread
<1>6. CASE InsertNext
  BY <1>6 DEF InsertNext, TaskGoes, IInv, RequestInv, Exclusion, thread
<1>7. CASE InsertPanicked
  BY <1>7 DEF InsertPanicked, TaskGoes, IInv, RequestInv, Exclusion, thread
<1> QED  BY <1>1, <1>2, <1>3, <1>4, <1>5, <1>6, <1>7 DEF Fetching

\* The main thread, the network and a stuttering step leave the task and the
\* State as they are.
LEMMA OthersInv ==
    ASSUME IInv, state' = state, poisoned' = poisoned,
           fetch' = fetch, request' = request, blocks' = blocks,
           main' \in Reads => main \in Reads \/ (fetch # "insert" /\ ~ poisoned)
    PROVE  IInv'
<1>1. RequestInv'
  BY DEF IInv, RequestInv, Fresh, Known
<1>2. Exclusion'
  BY DEF IInv, Exclusion
<1> QED  BY <1>1, <1>2 DEF IInv

LEMMA NextInv == IInv /\ [Next]_vars => IInv'
<1> SUFFICES ASSUME IInv, [Next]_vars PROVE IInv'
  OBVIOUS
<1>1. CASE Fetching
  BY <1>1, FetchingInv
<1>2. CASE Reading
  BY <1>2, OthersInv DEF Reading, QueryDone, CreateFile, WriteFile, MainGoes, Reads, task
<1>3. ASSUME NEW at, BeginRead(at) PROVE IInv'
  BY <1>3, OthersInv DEF BeginRead, MainGoes, task
<1>4. CASE Query \/ \E f \in File : Save(f)
  BY <1>3, <1>4 DEF Query, Save
<1>5. ASSUME End PROVE IInv'
  BY <1>5 DEF End, IInv, RequestInv, Exclusion, Reads
<1>6. CASE ReadPoisoned \/ Killed
  BY <1>5, <1>6 DEF ReadPoisoned, Killed
<1>7. ASSUME NEW loaded, Launch(loaded) PROVE IInv'
  BY <1>7 DEF Launch, IInv, RequestInv, Exclusion, Reads
<1>8. CASE StartNew \/ \E f \in File : StartFrom(f)
  BY <1>7, <1>8 DEF StartNew, StartFrom
<1>9. CASE \E block \in Block \ {Genesis} : NewBlock(block)
  BY <1>9, OthersInv DEF NewBlock, task, thread
<1>10. CASE UNCHANGED vars
  BY <1>10, OthersInv DEF vars, task, thread
<1> QED  BY <1>1, <1>2, <1>4, <1>6, <1>8, <1>9, <1>10 DEF Next

LEMMA SpecInv == Spec => []IInv
<1> QED  BY InitInv, NextInv, PTL DEF Spec

-----------------------------------------------------------------------------
\* The task asks the adapter and waits for the lock without holding it, and
\* inserts an answer to a request that is as true as when it was read: only
\* the task writes the State, and a State that is loaded from a file comes
\* with a new task.
THEOREM AnswersStayFresh == Spec => []AnswerStillFresh
<1>1. IInv => AnswerStillFresh
  BY DEF IInv, RequestInv, Fresh, AnswerStillFresh
<1> QED  BY <1>1, SpecInv, PTL

\* A command of the main thread never reads the State while the task is in
\* the middle of an answer, nor one that a panicking insert_block has left.
THEOREM ReadsExclude == Spec => []Exclusion
<1>1. IInv => Exclusion
  BY DEF IInv
<1> QED  BY <1>1, SpecInv, PTL
-----------------------------------------------------------------------------
(* What is read and what is loaded.                                        *)

\* A State no insert_block has left half done is in order and a ledger, and so
\* is each that can be loaded; a broken State is behind a poisoned lock, which
\* the task does not survive.
Whole ==
    /\ ~ poisoned => Anchored(state)
    /\ poisoned => fetch = "dead"
    /\ main = "down" => fetch = "dead" /\ ~ poisoned
    /\ \A f \in File : disk[f] # Unloadable => Anchored(LoadState(disk[f]))

DemoTypes ==
    /\ network \subseteq Block
    /\ blocks \in Seq(Block)
    /\ file_name \in File
    /\ DOMAIN disk = File

DemoInv == DemoTypes /\ Whole

LEMMA AnswerTyped ==
    ASSUME NEW known \in SUBSET Block, NEW hashes, NEW max \in Nat,
           NEW answer \in Successors(known, hashes, max)
    PROVE  answer \in Seq(Block)
<1>1. answer \in SeqOf(known \ hashes, max)
  BY DEF Successors
<1>2. PICK n \in 0 .. max : answer \in [1 .. n -> known \ hashes]
  BY <1>1 DEF SeqOf
<1>3. n \in Nat /\ answer \in [1 .. n -> Block]
  BY <1>2
<1> QED  BY <1>3, SeqDef

LEMMA InitDemo == Init => DemoInv
<1> SUFFICES ASSUME Init PROVE DemoInv
  OBVIOUS
<1>1. DemoTypes
  BY GenesisAssumption DEF Init, DemoTypes
<1>2. Whole
  BY NewAnchored DEF Init, Whole
<1> QED  BY <1>1, <1>2 DEF DemoInv

LEMMA FetchingDemo ==
    ASSUME DemoInv, Fetching
    PROVE  DemoInv'
<1>1. CASE Connect \/ ConnectFails \/ ReadHashes \/ AnswerError \/ Acquire \/ Release
  <2>1. /\ UNCHANGED <<state, poisoned, blocks, thread, disk, network>>
        /\ fetch # "dead"
    BY <1>1 DEF Connect, ConnectFails, ReadHashes, AnswerError, Acquire, Release, TaskGoes
  <2> QED  BY <2>1 DEF DemoInv, DemoTypes, Whole, thread
<1>2. CASE Answer
  <2>1. blocks' \in Seq(Block)
    BY <1>2, AnswerTyped, DemoAssumption DEF Answer, DemoInv, DemoTypes
  <2>2. /\ UNCHANGED <<state, poisoned, thread, disk, network>>
        /\ fetch # "dead"
    BY <1>2 DEF Answer, TaskGoes
  <2> QED  BY <2>1, <2>2 DEF DemoInv, DemoTypes, Whole, thread
<1>3. CASE InsertNext
  <2>1. /\ UNCHANGED <<poisoned, thread, disk, network, fetch>>
        /\ fetch = "insert" /\ blocks # << >>
        /\ ~ InsertPanics(state, Head(blocks))
        /\ state' = InsertBlock(state, Head(blocks))
        /\ blocks' = Tail(blocks)
    BY <1>3 DEF InsertNext, TaskGoes
  <2>2. ~ poisoned /\ Anchored(state) /\ blocks \in Seq(Block)
    BY <2>1 DEF DemoInv, DemoTypes, Whole
  <2>3. Head(blocks) \in Block /\ Tail(blocks) \in Seq(Block)
    BY <2>1, <2>2, HeadTailProperties
  <2>4. Anchored(state')
    BY <2>1, <2>2, <2>3, InsertAnchored
  <2> QED  BY <2>1, <2>2, <2>3, <2>4 DEF DemoInv, DemoTypes, Whole, thread
<1>4. CASE InsertPanicked
  <2>1. /\ UNCHANGED <<thread, disk, network>>
        /\ fetch = "insert" /\ fetch' = "dead" /\ poisoned' = TRUE
        /\ blocks' = << >>
    BY <1>4 DEF InsertPanicked, TaskGoes
  <2>2. main' # "down"
    BY <2>1 DEF DemoInv, Whole, thread
  <2>3. blocks' \in Seq(Block)
    BY <2>1
  <2> QED  BY <2>1, <2>2, <2>3 DEF DemoInv, DemoTypes, Whole, thread
<1> QED  BY <1>1, <1>2, <1>3, <1>4 DEF Fetching

\* Steps of the main thread that do not end the process write a file, or none.
LEMMA ReadingDemo ==
    ASSUME DemoInv, Exclusion, Reading
    PROVE  DemoInv'
<1>1. CASE QueryDone
  BY <1>1 DEF QueryDone, MainGoes, task, DemoInv, DemoTypes, Whole
<1>2. CASE CreateFile
  <2>1. /\ UNCHANGED <<state, poisoned, task, network, file_name>>
        /\ main' # "down"
        /\ disk' = [disk EXCEPT ![file_name] = Unloadable]
    BY <1>2 DEF CreateFile, MainGoes
  <2> QED  BY <2>1 DEF task, DemoInv, DemoTypes, Whole
<1>3. CASE WriteFile
  <2>1. /\ UNCHANGED <<state, poisoned, task, network, file_name>>
        /\ main = "write" /\ main' # "down"
        /\ disk' = [disk EXCEPT ![file_name] = SaveState(state)]
    BY <1>3 DEF WriteFile, MainGoes
  <2>2. Anchored(state)
    BY <2>1 DEF Exclusion, Reads, DemoInv, Whole
  <2>3. Anchored(LoadState(SaveState(state)))
    BY <2>2, ReloadState DEF Anchored
  <2>4. /\ DOMAIN disk' = File
        /\ \A f \in File : disk'[f] # Unloadable => Anchored(LoadState(disk'[f]))
    BY <2>1, <2>3 DEF DemoInv, DemoTypes, Whole
  <2> QED  BY <2>1, <2>4 DEF task, DemoInv, DemoTypes, Whole
<1> QED  BY <1>1, <1>2, <1>3 DEF Reading

LEMMA NextDemo == DemoInv /\ Exclusion /\ [Next]_vars => DemoInv'
<1> SUFFICES ASSUME DemoInv, Exclusion, [Next]_vars PROVE DemoInv'
  OBVIOUS
<1>1. CASE Fetching
  BY <1>1, FetchingDemo
<1>2. CASE Reading
  BY <1>2, ReadingDemo
<1>3. CASE Query \/ \E f \in File : Save(f)
  BY <1>3 DEF Query, Save, BeginRead, MainGoes, task, DemoInv, DemoTypes, Whole
<1>4. ASSUME End PROVE DemoInv'
  <2>1. Anchored(state') /\ blocks' \in Seq(Block)
    BY <1>4, NewAnchored DEF End
  <2> QED  BY <1>4, <2>1 DEF End, DemoInv, DemoTypes, Whole
<1>5. CASE ReadPoisoned \/ Killed
  BY <1>4, <1>5 DEF ReadPoisoned, Killed
<1>6. ASSUME NEW loaded, Launch(loaded), Anchored(loaded) PROVE DemoInv'
  BY <1>6 DEF Launch, DemoInv, DemoTypes, Whole
<1>7. CASE StartNew \/ \E f \in File : StartFrom(f)
  BY <1>6, <1>7, NewAnchored DEF StartNew, StartFrom, DemoInv, Whole
<1>8. CASE \E block \in Block \ {Genesis} : NewBlock(block)
  BY <1>8 DEF NewBlock, task, thread, DemoInv, DemoTypes, Whole
<1>9. CASE UNCHANGED vars
  BY <1>9 DEF vars, task, thread, DemoInv, DemoTypes, Whole
<1> QED  BY <1>1, <1>2, <1>3, <1>5, <1>7, <1>8, <1>9 DEF Next

LEMMA SpecDemo == Spec => []DemoInv
<1>1. IInv => Exclusion
  BY DEF IInv
<1> QED  BY <1>1, InitDemo, NextDemo, SpecInv, PTL DEF Spec

\* insert_block panics in the middle of its work, and the process may be killed
\* in the middle of writing a file.  Still each State a command reads, and
\* each that can be loaded, is the ledger of the chain of its last stable
\* block.
THEOREM NoHalfInsertEverSeen == Spec => []NoHalfInsertSeen
<1>1. IInv /\ DemoInv => NoHalfInsertSeen
  BY DEF IInv, Exclusion, DemoInv, Whole, Anchored, NoHalfInsertSeen
<1> QED  BY <1>1, SpecInv, SpecDemo, PTL
=============================================================================
