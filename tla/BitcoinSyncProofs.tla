-------------------------- MODULE BitcoinSyncProofs --------------------------
(***************************************************************************)
(* For all transactions, blocks and bounds: no transaction is lost between *)
(* the queue of the canister and the adapter but by an error of the        *)
(* adapter or the end of a shim, and none overtakes another; the canister  *)
(* is the ledger of its chain, whatever calls killed shims leave behind;   *)
(* and without those each answer meets the state it was asked for.         *)
(***************************************************************************)
EXTENDS BitcoinSyncProperties, StoreOpsProofs

\* The queues are lists of transactions.
Queues ==
    /\ outgoing \in Seq(Payment)
    /\ raw_tx \in Seq(Payment)
    /\ sent \in Seq(Payment)
    /\ accepted \in Seq(Payment)

\* What the shim holds at each await: a transaction only while it sends it,
\* and the call that belongs to the await.
ShimHolds ==
    /\ pc # "send" => raw_tx = << >>
    /\ pc = "pop" => call = OutgoingTransaction
    /\ pc = "response" => call.method = "get_successors_response"

IInv == Queues /\ ShimHolds

\* The transactions that are queued, on their way or sent.
Moving == Range(sent) \cup Range(raw_tx) \cup Range(outgoing)

-----------------------------------------------------------------------------
(* Lists.                                                                  *)

LEMMA EmptyRange == Range(<< >>) = {}
<1> QED  BY DEF Range

LEMMA SingleMember ==
    ASSUME NEW S, NEW e \in S
    PROVE  <<e>> \in Seq(S) /\ Range(<<e>>) = {e}
<1> QED  BY DEF Range

LEMMA AppendMembers ==
    ASSUME NEW S, NEW list \in Seq(S), NEW e \in S
    PROVE  Append(list, e) \in Seq(S) /\ Range(Append(list, e)) = Range(list) \cup {e}
<1> DEFINE one == <<e>>
<1>1. one \in Seq(S) /\ Range(one) = {e}
  BY SingleMember
<1>2. Append(list, e) = list \o one
  BY AppendIsConcat
<1> HIDE DEF one
<1> QED  BY <1>1, <1>2, ConcatProperties, RangeConcatenation

LEMMA HeadAndTail ==
    ASSUME NEW S, NEW list \in Seq(S), list # << >>
    PROVE  /\ Head(list) \in S /\ Tail(list) \in Seq(S)
           /\ Range(list) = {Head(list)} \cup Range(Tail(list))
<1> DEFINE one == <<Head(list)>>
<1> DEFINE rest == Tail(list)
<1>1. Head(list) \in S /\ rest \in Seq(S)
  BY HeadTailProperties
<1>2. one \in Seq(S) /\ Range(one) = {Head(list)}
  BY <1>1, SingleMember
<1>3. list = one \o rest
  BY HeadTailProperties, LenProperties
<1> HIDE DEF one, rest
<1>4. Range(one \o rest) = Range(one) \cup Range(rest)
  BY <1>1, <1>2, RangeConcatenation
<1>5. Range(list) = {Head(list)} \cup Range(rest)
  BY <1>2, <1>3, <1>4
<1> QED  BY <1>1, <1>5 DEF rest

LEMMA RangeOfThree ==
    ASSUME NEW S, NEW a \in Seq(S), NEW b \in Seq(S), NEW c \in Seq(S)
    PROVE  Range(a \o b \o c) = Range(a) \cup Range(b) \cup Range(c)
<1> DEFINE ab == a \o b
<1>1. ab \in Seq(S) /\ Range(ab) = Range(a) \cup Range(b)
  BY ConcatProperties, RangeConcatenation
<1> HIDE DEF ab
<1>2. Range(ab \o c) = Range(ab) \cup Range(c)
  BY <1>1, RangeConcatenation
<1> QED  BY <1>1, <1>2 DEF ab

-----------------------------------------------------------------------------
(* The order of the transactions.                                          *)

\* The places of a list of three parts.
LEMMA PlacesOfThree ==
    ASSUME NEW S, NEW a \in Seq(S), NEW b \in Seq(S), NEW c \in Seq(S)
    PROVE  /\ a \o b \o c \in Seq(S) /\ Len(a \o b \o c) = Len(a) + Len(b) + Len(c)
           /\ \A i \in 1 .. Len(a) : (a \o b \o c)[i] = a[i]
           /\ \A i \in 1 .. Len(c) : (a \o b \o c)[Len(a) + Len(b) + i] = c[i]
<1> DEFINE ab == a \o b
<1>1. /\ ab \in Seq(S) /\ Len(ab) = Len(a) + Len(b)
      /\ \A i \in 1 .. Len(a) : ab[i] = a[i]
  BY ConcatProperties
<1>2. Len(a) \in Nat /\ Len(b) \in Nat /\ Len(c) \in Nat
  OBVIOUS
<1> HIDE DEF ab
<1>3. /\ ab \o c \in Seq(S) /\ Len(ab \o c) = Len(ab) + Len(c)
      /\ \A i \in 1 .. Len(ab) + Len(c) :
            (ab \o c)[i] = IF i <= Len(ab) THEN ab[i] ELSE c[i - Len(ab)]
  <2>1. ab \in Seq(S) /\ c \in Seq(S)
    BY <1>1
  <2> QED  BY ONLY <2>1, ConcatProperties
<1>4. ASSUME NEW i \in 1 .. Len(a) PROVE (ab \o c)[i] = a[i]
  <2>1. i \in 1 .. Len(ab) + Len(c) /\ i <= Len(ab)
    BY <1>1, <1>2
  <2> QED  BY <1>1, <1>3, <2>1
<1>5. ASSUME NEW i \in 1 .. Len(c) PROVE (ab \o c)[Len(a) + Len(b) + i] = c[i]
  <2> DEFINE k == Len(ab) + i
  <2>1. /\ k \in 1 .. Len(ab) + Len(c) /\ ~ (k <= Len(ab)) /\ k - Len(ab) = i
        /\ k = Len(a) + Len(b) + i
    BY <1>1, <1>2
  <2> HIDE DEF k
  <2> QED  BY <1>3, <2>1
<1> QED  BY <1>1, <1>2, <1>3, <1>4, <1>5 DEF ab

\* What is left of a list in order when a part of it is taken out.
LEMMA InOrderWithout ==
    ASSUME NEW S, NEW a \in Seq(S), NEW b \in Seq(S), NEW c \in Seq(S),
           NEW whole, InOrder(a \o b \o c, whole)
    PROVE  InOrder(a \o c, whole)
<1> DEFINE abc == a \o b \o c
           ac == a \o c
           place(i) == IF i <= Len(a) THEN i ELSE i + Len(b)
<1>1. Len(a) \in Nat /\ Len(b) \in Nat /\ Len(c) \in Nat
  OBVIOUS
<1>2. /\ Len(abc) = Len(a) + Len(b) + Len(c) /\ DOMAIN abc = 1 .. Len(abc)
      /\ \A i \in 1 .. Len(a) : abc[i] = a[i]
      /\ \A i \in 1 .. Len(c) : abc[Len(a) + Len(b) + i] = c[i]
  BY PlacesOfThree, LenProperties
<1>3. /\ Len(ac) = Len(a) + Len(c) /\ DOMAIN ac = 1 .. Len(ac)
      /\ \A i \in 1 .. Len(ac) : ac[i] = IF i <= Len(a) THEN a[i] ELSE c[i - Len(a)]
  BY ConcatProperties, LenProperties
<1>4. InOrder(abc, whole)
  OBVIOUS
<1> HIDE DEF abc, ac
<1>5. ASSUME NEW i \in DOMAIN ac
      PROVE  place(i) \in DOMAIN abc /\ ac[i] = abc[place(i)]
  <2>1. CASE i <= Len(a)
    BY <1>1, <1>2, <1>3, <2>1
  <2>2. CASE ~ (i <= Len(a))
    <3>1. i - Len(a) \in 1 .. Len(c) /\ place(i) = Len(a) + Len(b) + (i - Len(a))
      BY <1>1, <1>3, <2>2
    <3> HIDE DEF place
    <3> QED  BY <1>1, <1>2, <1>3, <2>2, <3>1
  <2> QED  BY <2>1, <2>2
<1>6. \A i, j \in DOMAIN ac : i < j => place(i) < place(j)
  BY <1>1, <1>3
<1> HIDE DEF place
<1>7. Range(ac) \subseteq Range(abc)
  BY <1>5 DEF Range
<1> QED  BY <1>4, <1>5, <1>6, <1>7 DEF InOrder, ac

\* An element that is new comes last in both.
LEMMA InOrderAppend ==
    ASSUME NEW S, NEW part \in Seq(S), NEW whole \in Seq(S), InOrder(part, whole),
           NEW e \in S, e \notin Range(whole)
    PROVE  InOrder(Append(part, e), Append(whole, e))
<1> DEFINE p == Append(part, e)
           w == Append(whole, e)
<1>1. /\ DOMAIN part = 1 .. Len(part) /\ Len(part) \in Nat
      /\ DOMAIN whole = 1 .. Len(whole) /\ Len(whole) \in Nat
  BY LenProperties
<1>2. /\ DOMAIN p = 1 .. Len(part) + 1 /\ p[Len(part) + 1] = e
      /\ \A i \in 1 .. Len(part) : p[i] = part[i]
  BY AppendProperties, LenProperties
<1>3. /\ DOMAIN w = 1 .. Len(whole) + 1 /\ w[Len(whole) + 1] = e
      /\ \A i \in 1 .. Len(whole) : w[i] = whole[i]
  BY AppendProperties, LenProperties
<1>4. Range(p) = Range(part) \cup {e} /\ Range(w) = Range(whole) \cup {e}
  BY AppendMembers
<1> HIDE DEF p, w
<1>5. \A i \in 1 .. Len(part) : p[i] # e
  BY <1>1, <1>2 DEF InOrder, Range
<1>6. \A k \in 1 .. Len(whole) : w[k] # e
  BY <1>1, <1>3 DEF Range
<1>7. ASSUME NEW i \in DOMAIN p, NEW j \in DOMAIN p, NEW k \in DOMAIN w, NEW l \in DOMAIN w,
             i < j, p[i] = w[k], p[j] = w[l]
      PROVE  k < l
  <2>1. i \in 1 .. Len(part) /\ k \in 1 .. Len(whole)
    BY <1>1, <1>2, <1>3, <1>5, <1>7
  <2>2. CASE j = Len(part) + 1
    BY <1>1, <1>2, <1>3, <1>6, <1>7, <2>1, <2>2
  <2>3. CASE j # Len(part) + 1
    <3>1. j \in 1 .. Len(part) /\ l \in 1 .. Len(whole)
      BY <1>1, <1>2, <1>3, <1>5, <1>7, <2>3
    <3> QED  BY <1>1, <1>2, <1>3, <1>7, <2>1, <3>1 DEF InOrder
  <2> QED  BY <2>2, <2>3
<1> QED  BY <1>4, <1>7 DEF InOrder, p, w

-----------------------------------------------------------------------------
(* The steps.                                                              *)

\* Executing a call takes the first transaction off the queue, or none.
LEMMA ExecuteQueue ==
    ASSUME IInv, NEW c, Execute(c)
    PROVE  /\ outgoing' \in Seq(Payment)
           /\ c.method = "get_successors_response" => outgoing' = outgoing
<1>1. outgoing # << >> => Tail(outgoing) \in Seq(Payment)
  BY HeadAndTail DEF IInv, Queues
<1> QED  BY <1>1 DEF Execute, IInv, Queues

\* A step that leaves the queues alone and moves the shim to another await.
LEMMA QueuesStay ==
    ASSUME IInv, UNCHANGED <<outgoing, raw_tx, sent, accepted>>
    PROVE  Queues' /\ Moving' = Moving /\ accepted' = accepted
<1> QED  BY DEF IInv, Queues, Moving

LEMMA ResponseStep ==
    ASSUME IInv, ResponseExecuted \/ ResponseTrapped
    PROVE  IInv' /\ Moving' = Moving /\ accepted' = accepted
<1>1. /\ pc = "response" /\ Execute(call) /\ pc' \in {"outgoing", "down"}
      /\ call' = NoCall /\ UNCHANGED <<raw_tx, outside>>
  BY DEF ResponseExecuted, ResponseTrapped
<1>2. UNCHANGED outgoing
  BY <1>1, ExecuteQueue DEF IInv, ShimHolds
<1>3. Queues' /\ Moving' = Moving /\ accepted' = accepted
  BY <1>1, <1>2, QueuesStay DEF outside
<1>4. ShimHolds'
  BY <1>1 DEF IInv, ShimHolds
<1> QED  BY <1>3, <1>4 DEF IInv

\* The transaction that leaves the queue is in the hands of the shim.
LEMMA PopStep ==
    ASSUME IInv, PopExecuted
    PROVE  IInv' /\ Moving' = Moving /\ accepted' = accepted
<1>1. /\ pc = "pop" /\ raw_tx = << >>
      /\ outgoing' = IF outgoing = << >> THEN outgoing ELSE Tail(outgoing)
      /\ call' = NoCall /\ UNCHANGED <<sent, accepted>>
  BY DEF PopExecuted, Execute, IInv, ShimHolds, OutgoingTransaction, outside
<1>2. CASE outgoing = << >>
  <2>1. pc' = "request" /\ UNCHANGED <<outgoing, raw_tx>>
    BY <1>1, <1>2 DEF PopExecuted
  <2>2. ShimHolds'
    BY <1>1, <2>1 DEF ShimHolds
  <2> QED  BY <1>1, <2>1, <2>2, QueuesStay DEF IInv
<1>3. CASE outgoing # << >>
  <2> DEFINE first == Head(outgoing)
  <2>1. pc' = "send" /\ raw_tx' = <<first>> /\ outgoing' = Tail(outgoing)
    BY <1>1, <1>3 DEF PopExecuted
  <2>2. /\ first \in Payment /\ Tail(outgoing) \in Seq(Payment)
        /\ Range(outgoing) = {first} \cup Range(Tail(outgoing))
    BY <1>3, HeadAndTail DEF IInv, Queues
  <2> HIDE DEF first
  <2>3. raw_tx' \in Seq(Payment) /\ Range(raw_tx') = {first} /\ Range(raw_tx) = {}
    BY <1>1, <2>1, <2>2, SingleMember, EmptyRange
  <2>4. Moving' = Moving
    BY <1>1, <2>1, <2>2, <2>3 DEF Moving
  <2>5. Queues' /\ ShimHolds'
    BY <1>1, <2>1, <2>2, <2>3 DEF IInv, Queues, ShimHolds
  <2> QED  BY <1>1, <2>4, <2>5 DEF IInv
<1> QED  BY <1>2, <1>3

\* It then is with the adapter.
LEMMA SendStep ==
    ASSUME IInv, SendToAdapter
    PROVE  IInv' /\ Moving' = Moving /\ accepted' = accepted
<1>1. /\ sent' = sent \o raw_tx /\ raw_tx' = << >> /\ pc' = "request"
      /\ UNCHANGED <<outgoing, accepted>>
  BY DEF SendToAdapter, NoTx, canister
<1>2. sent' \in Seq(Payment) /\ Range(sent') = Range(sent) \cup Range(raw_tx)
  BY <1>1, ConcatProperties, RangeConcatenation DEF IInv, Queues
<1>3. raw_tx' \in Seq(Payment) /\ Range(raw_tx') = {}
  BY <1>1, EmptyRange
<1>4. Moving' = Moving
  BY <1>1, <1>2, <1>3 DEF Moving
<1>5. Queues' /\ ShimHolds'
  BY <1>1, <1>2, <1>3 DEF IInv, Queues, ShimHolds
<1> QED  BY <1>1, <1>4, <1>5 DEF IInv

LEMMA SendTransactionStep ==
    ASSUME IInv, NEW tx \in Payment, SendTransaction(tx)
    PROVE  IInv' /\ Moving' = Moving \cup {tx}
           /\ Range(accepted') = Range(accepted) \cup {tx}
<1>1. /\ outgoing' = Append(outgoing, tx) /\ accepted' = Append(accepted, tx)
      /\ UNCHANGED <<pc, call, raw_tx, sent>>
  BY DEF SendTransaction, shim
<1>2. /\ outgoing' \in Seq(Payment) /\ Range(outgoing') = Range(outgoing) \cup {tx}
      /\ accepted' \in Seq(Payment) /\ Range(accepted') = Range(accepted) \cup {tx}
  BY <1>1, AppendMembers DEF IInv, Queues
<1>3. Moving' = Moving \cup {tx}
  BY <1>1, <1>2 DEF Moving
<1>4. Queues' /\ ShimHolds'
  BY <1>1, <1>2 DEF IInv, Queues, ShimHolds
<1> QED  BY <1>2, <1>3, <1>4 DEF IInv

\* The other steps of shim and network.
LEMMA QuietStep ==
    ASSUME IInv,
           \/ QueryRequest \/ GetSuccessors \/ GetSuccessorsError \/ QueryOutgoing
           \/ Restart \/ UNCHANGED vars
           \/ \E block \in Block \ {Genesis} : NewBlock(block)
    PROVE  IInv' /\ Moving' = Moving /\ accepted' = accepted
<1>1. UNCHANGED <<outgoing, raw_tx, sent, accepted>>
  BY DEF QueryRequest, GetSuccessors, GetSuccessorsError, QueryOutgoing, Restart,
         NewBlock, vars, canister, shim, outside
<1>2. ShimHolds'
  <2>1. CASE GetSuccessors
    BY <2>1 DEF GetSuccessors, SuccessorsResponse, IInv, ShimHolds
  <2>2. CASE QueryRequest \/ GetSuccessorsError \/ QueryOutgoing \/ Restart
    BY <2>2 DEF QueryRequest, GetSuccessorsError, QueryOutgoing, Restart, IInv, ShimHolds
  <2>3. CASE UNCHANGED vars \/ \E block \in Block \ {Genesis} : NewBlock(block)
    BY <2>3 DEF vars, NewBlock, shim, IInv, ShimHolds
  <2> QED  BY <2>1, <2>2, <2>3
<1> QED  BY <1>1, <1>2, QueuesStay DEF IInv

\* The steps that may lose a transaction keep the invariant all the same.
LEMMA LossyStep ==
    ASSUME IInv, SendError \/ Crash \/ \E i \in DOMAIN orphans : ExecuteOrphan(i)
    PROVE  IInv'
<1>1. CASE SendError
  <2>1. raw_tx' = << >> /\ pc' = "request" /\ UNCHANGED <<outgoing, sent, accepted>>
    BY <1>1 DEF SendError, NoTx, canister, outside
  <2> QED  BY <2>1 DEF IInv, Queues, ShimHolds
<1>2. CASE Crash
  <2>1. raw_tx' = << >> /\ pc' = "down" /\ UNCHANGED <<outgoing, sent, accepted>>
    BY <1>2 DEF Crash, NoTx, canister
  <2> QED  BY <2>1 DEF IInv, Queues, ShimHolds
<1>3. ASSUME NEW i \in DOMAIN orphans, ExecuteOrphan(i) PROVE IInv'
  <2>1. UNCHANGED <<pc, call, raw_tx, sent, accepted>> /\ Execute(orphans[i])
    BY <1>3 DEF ExecuteOrphan, shim, outside
  <2>2. outgoing' \in Seq(Payment)
    BY <2>1, ExecuteQueue
  <2> QED  BY <2>1, <2>2 DEF IInv, Queues, ShimHolds
<1> QED  BY <1>1, <1>2, <1>3

-----------------------------------------------------------------------------
LEMMA InitIInv == Init => IInv
<1> QED  BY DEF Init, IInv, Queues, ShimHolds, NoTx

\* What a step of the system does to the transactions on their way.
Loses == SendError \/ Crash \/ \E i \in DOMAIN orphans : ExecuteOrphan(i)
KeepsMoving == Moving = Range(accepted) => Moving' = Range(accepted')

LEMMA NextIInv == IInv /\ [Next]_vars => IInv' /\ (KeepsMoving \/ Loses)
<1> SUFFICES ASSUME IInv, [Next]_vars PROVE IInv' /\ (KeepsMoving \/ Loses)
  OBVIOUS
<1>1. CASE ResponseExecuted \/ ResponseTrapped
  BY <1>1, ResponseStep DEF KeepsMoving
<1>2. CASE PopExecuted
  BY <1>2, PopStep DEF KeepsMoving
<1>3. CASE SendToAdapter
  BY <1>3, SendStep DEF KeepsMoving
<1>4. CASE \E tx \in Payment : SendTransaction(tx)
  BY <1>4, SendTransactionStep DEF KeepsMoving
<1>5. CASE Loses
  BY <1>5, LossyStep DEF Loses
<1>6. CASE \/ QueryRequest \/ GetSuccessors \/ GetSuccessorsError \/ QueryOutgoing
           \/ Restart \/ UNCHANGED vars
           \/ \E block \in Block \ {Genesis} : NewBlock(block)
  BY <1>6, QuietStep DEF KeepsMoving
<1> QED  BY <1>1, <1>2, <1>3, <1>4, <1>5, <1>6 DEF Next, Shim, Loses

\* Every transaction the canister has accepted is in its queue, in the hands of
\* the shim or with the adapter, and no step changes that but an answer the
\* adapter does not give, the end of a shim, or a call that a shim which has
\* ended left behind.
THEOREM LostOnlyByError == Spec => NoneLostButByError
<1>1. IInv /\ IInv' /\ (KeepsMoving \/ Loses) =>
         \/ Range(sent' \o raw_tx' \o outgoing') = Range(accepted')
         \/ Range(sent \o raw_tx \o outgoing) # Range(accepted)
         \/ SendError \/ Crash
         \/ \E i \in DOMAIN orphans : ExecuteOrphan(i)
  <2>1. IInv => Range(sent \o raw_tx \o outgoing) = Moving
    BY RangeOfThree DEF IInv, Queues, Moving
  <2>2. IInv' => Range(sent' \o raw_tx' \o outgoing') = Moving'
    BY RangeOfThree DEF IInv, Queues, Moving
  <2> QED  BY <2>1, <2>2 DEF KeepsMoving, Loses
<1> QED  BY <1>1, InitIInv, NextIInv, PTL DEF Spec, NoneLostButByError

-----------------------------------------------------------------------------
(* The steps and the order.                                                *)

Line == sent \o raw_tx \o outgoing

\* The first transaction of the queue moves to the end of what comes before.
LEMMA HeadMoves ==
    ASSUME NEW S, NEW a \in Seq(S), NEW c \in Seq(S), c # << >>
    PROVE  a \o <<Head(c)>> \o Tail(c) = a \o c
<1> DEFINE one == <<Head(c)>>
           rest == Tail(c)
<1>1. one \in Seq(S) /\ rest \in Seq(S)
  BY HeadAndTail, SingleMember
<1>2. c = one \o rest
  BY HeadTailProperties, LenProperties
<1> HIDE DEF one, rest
<1>3. (a \o one) \o rest = a \o (one \o rest)
  BY <1>1, ConcatAssociative
<1> QED  BY <1>2, <1>3 DEF one, rest

\* Steps that leave the line as it is, or take a transaction out of it.
LEMMA PopOrder ==
    ASSUME IInv, PopExecuted
    PROVE  Line' = Line /\ accepted' = accepted
<1>1. /\ pc = "pop" /\ raw_tx = << >>
      /\ outgoing' = IF outgoing = << >> THEN outgoing ELSE Tail(outgoing)
      /\ UNCHANGED <<sent, accepted>>
  BY DEF PopExecuted, Execute, IInv, ShimHolds, OutgoingTransaction, outside
<1>2. CASE outgoing = << >>
  BY <1>1, <1>2 DEF PopExecuted, Line
<1>3. CASE outgoing # << >>
  <2>1. raw_tx' = <<Head(outgoing)>> /\ outgoing' = Tail(outgoing) /\ sent' = sent
    BY <1>1, <1>3 DEF PopExecuted
  <2>2. sent \o <<Head(outgoing)>> \o Tail(outgoing) = sent \o outgoing
    BY <1>3, HeadMoves DEF IInv, Queues
  <2>3. sent \o raw_tx = sent
    BY <1>1, ConcatEmptySeq DEF IInv, Queues
  <2> QED  BY <1>1, <2>1, <2>2, <2>3 DEF Line
<1> QED  BY <1>2, <1>3

LEMMA SendOrder ==
    ASSUME IInv, SendToAdapter
    PROVE  Line' = Line /\ accepted' = accepted
<1>1. /\ sent' = sent \o raw_tx /\ raw_tx' = << >>
      /\ UNCHANGED <<outgoing, accepted>>
  BY DEF SendToAdapter, NoTx, canister
<1>2. sent \o raw_tx \in Seq(Payment)
  BY ConcatProperties DEF IInv, Queues
<1>3. sent' \o raw_tx' = sent \o raw_tx
  BY <1>1, <1>2, ConcatEmptySeq
<1> QED  BY <1>1, <1>3 DEF Line

LEMMA SendTransactionOrder ==
    ASSUME IInv, OutgoingInOrder, NEW tx \in Payment, SendTransaction(tx)
    PROVE  OutgoingInOrder'
<1>1. /\ outgoing' = Append(outgoing, tx) /\ accepted' = Append(accepted, tx)
      /\ UNCHANGED <<raw_tx, sent>> /\ tx \notin Range(accepted)
  BY DEF SendTransaction, shim
<1> DEFINE before == sent \o raw_tx
           one == <<tx>>
<1>2. before \in Seq(Payment) /\ outgoing \in Seq(Payment)
      /\ before \o outgoing \in Seq(Payment) /\ accepted \in Seq(Payment)
  BY ConcatProperties DEF IInv, Queues
<1>3. one \in Seq(Payment)
  BY SingleMember
<1> HIDE DEF before
<1>4. Append(outgoing, tx) = outgoing \o one
  BY <1>2, AppendIsConcat
<1>5. Append(before \o outgoing, tx) = (before \o outgoing) \o one
  BY <1>2, AppendIsConcat
<1> HIDE DEF one
<1>6. before \o (outgoing \o one) = (before \o outgoing) \o one
  <2>1. before \in Seq(Payment) /\ outgoing \in Seq(Payment) /\ one \in Seq(Payment)
    BY <1>2, <1>3
  <2> QED  BY ONLY <2>1, ConcatAssociative
<1>7. InOrder(Append(before \o outgoing, tx), Append(accepted, tx))
  <2>1. InOrder(before \o outgoing, accepted)
    BY DEF OutgoingInOrder, before
  <2> QED  BY <1>1, <1>2, <2>1, InOrderAppend
<1>8. sent' \o raw_tx' \o outgoing' = before \o Append(outgoing, tx)
  BY <1>1 DEF before
<1> QED  BY <1>1, <1>4, <1>5, <1>6, <1>7, <1>8 DEF OutgoingInOrder

LEMMA LossyOrder ==
    ASSUME IInv, OutgoingInOrder,
           SendError \/ Crash \/ \E i \in DOMAIN orphans : ExecuteOrphan(i)
    PROVE  OutgoingInOrder'
<1> USE DEF IInv, Queues
<1>1. CASE SendError \/ Crash
  <2>1. raw_tx' = << >> /\ UNCHANGED <<outgoing, sent, accepted>>
    BY <1>1 DEF SendError, Crash, NoTx, canister, outside
  <2>2. sent' \o raw_tx' \o outgoing' = sent \o outgoing
    BY <2>1, ConcatEmptySeq
  <2>3. InOrder(sent \o outgoing, accepted)
    BY InOrderWithout DEF OutgoingInOrder
  <2> QED  BY <2>1, <2>2, <2>3 DEF OutgoingInOrder
<1>2. ASSUME NEW i \in DOMAIN orphans, ExecuteOrphan(i) PROVE OutgoingInOrder'
  <2>1. UNCHANGED <<raw_tx, sent, accepted>> /\ Execute(orphans[i])
    BY <1>2 DEF ExecuteOrphan, shim, outside
  <2>2. CASE outgoing' = outgoing
    BY <2>1, <2>2 DEF OutgoingInOrder
  <2>3. CASE outgoing # << >> /\ outgoing' = Tail(outgoing)
    <3> DEFINE before == sent \o raw_tx
               one == <<Head(outgoing)>>
               rest == Tail(outgoing)
    <3>1. before \in Seq(Payment) /\ one \in Seq(Payment) /\ rest \in Seq(Payment)
      BY <2>3, ConcatProperties, HeadAndTail, SingleMember
    <3>2. before \o one \o rest = before \o outgoing
      BY <2>3, <3>1, HeadMoves
    <3>3. InOrder(before \o outgoing, accepted) /\ before' \o outgoing' = before \o rest
      BY <2>1, <2>3 DEF OutgoingInOrder
    <3> HIDE DEF one, rest
    <3>4. InOrder(before \o rest, accepted)
      <4> HIDE DEF before
      <4>1. InOrder(before \o one \o rest, accepted)
        BY <3>2, <3>3
      <4> QED  BY <3>1, <4>1, InOrderWithout
    <3> QED  BY <2>1, <3>3, <3>4 DEF OutgoingInOrder
  <2> QED  BY <2>1, <2>2, <2>3 DEF Execute
<1> QED  BY <1>1, <1>2

LEMMA NextInOrder == IInv /\ OutgoingInOrder /\ [Next]_vars => OutgoingInOrder'
<1> SUFFICES ASSUME IInv, OutgoingInOrder, [Next]_vars PROVE OutgoingInOrder'
  OBVIOUS
<1>1. Line' = Line /\ accepted' = accepted => OutgoingInOrder'
  BY DEF OutgoingInOrder, Line
<1>2. CASE ResponseExecuted \/ ResponseTrapped
  <2>1. Execute(call) /\ call.method = "get_successors_response"
        /\ UNCHANGED <<raw_tx, sent, accepted>>
    BY <1>2 DEF ResponseExecuted, ResponseTrapped, IInv, ShimHolds, outside
  <2>2. outgoing' = outgoing
    BY <2>1, ExecuteQueue
  <2> QED  BY <1>1, <2>1, <2>2 DEF Line
<1>3. CASE PopExecuted
  BY <1>1, <1>3, PopOrder
<1>4. CASE SendToAdapter
  BY <1>1, <1>4, SendOrder
<1>5. CASE \E tx \in Payment : SendTransaction(tx)
  BY <1>5, SendTransactionOrder
<1>6. CASE Loses
  BY <1>6, LossyOrder DEF Loses
<1>7. CASE \/ QueryRequest \/ GetSuccessors \/ GetSuccessorsError \/ QueryOutgoing
           \/ Restart \/ UNCHANGED vars
           \/ \E block \in Block \ {Genesis} : NewBlock(block)
  <2>1. UNCHANGED <<outgoing, raw_tx, sent, accepted>>
    BY <1>7 DEF QueryRequest, GetSuccessors, GetSuccessorsError, QueryOutgoing, Restart,
                NewBlock, vars, canister, shim, outside
  <2> QED  BY <1>1, <2>1 DEF Line
<1> QED  BY <1>2, <1>3, <1>4, <1>5, <1>6, <1>7 DEF Next, Shim, Loses

\* Transactions reach the adapter in the order in which clients have sent them,
\* and none twice, whatever shims end with a transaction in their hands and
\* whatever calls they leave behind to take others off the queue.
THEOREM AlwaysInOrder == Spec => []OutgoingInOrder
<1>1. Init => OutgoingInOrder
  <2> SUFFICES ASSUME Init PROVE OutgoingInOrder
    OBVIOUS
  <2>1. sent = << >> /\ raw_tx = << >> /\ outgoing = << >>
    BY DEF Init, NoTx
  <2>2. << >> \in Seq(Payment) /\ Range(<< >>) = {} /\ DOMAIN << >> = {}
    BY EmptyRange
  <2>3. sent \o raw_tx \o outgoing = << >>
    BY <2>1, <2>2, ConcatEmptySeq
  <2> QED  BY <2>2, <2>3 DEF OutgoingInOrder, InOrder
<1> QED  BY <1>1, InitIInv, NextIInv, NextInOrder, PTL DEF Spec

-----------------------------------------------------------------------------
(* What the canister holds.                                                *)

Calls ==
    [method : {"none", "get_successors_response", "get_outgoing_transaction"},
     blocks : Seq(Block)]

SyncTypes ==
    /\ pc \in Awaits
    /\ request \subseteq Block
    /\ call \in Calls
    /\ orphans \in Seq(Calls)
    /\ network \subseteq Block
    /\ crashes \in 0 .. MaxCrashes

SyncInv == Anchored(state) /\ SyncTypes

\* The run of get_successors_response, one block at a time.
IsInsertRun(f, blocks) ==
    /\ f[0] = [state |-> state, panicked |-> FALSE]
    /\ \A n \in 1 .. Len(blocks) : f[n] = InsertNext(f[n - 1], blocks[n])

LEMMA InsertBlocksRun ==
    ASSUME NEW blocks \in Seq(Block)
    PROVE  \E f : IsInsertRun(f, blocks) /\ InsertBlocks(blocks) = f[Len(blocks)]
<1> DEFINE N == Len(blocks)
           start == [state |-> state, panicked |-> FALSE]
           Is(f, m) == f = [n \in 0 .. m |->
                              IF n = 0 THEN start ELSE InsertNext(f[n - 1], blocks[n])]
           T == {m \in Nat : \E f : Is(f, m)}
<1>1. 0 \in T
  <2> DEFINE f == [n \in 0 .. 0 |-> start]
  <2>1. Is(f, 0)
    OBVIOUS
  <2> QED  BY <2>1
<1>2. ASSUME NEW m \in Nat, m \in T PROVE m + 1 \in T
  <2>1. PICK f : Is(f, m)
    BY <1>2
  <2> DEFINE g == [n \in 0 .. m + 1 |-> IF n <= m THEN f[n]
                                        ELSE InsertNext(f[m], blocks[m + 1])]
  <2> HIDE DEF start
  <2>2. \A n \in 0 .. m + 1 : n # 0 => n - 1 \in 0 .. m /\ g[n - 1] = f[n - 1]
    OBVIOUS
  <2>3. \A n \in 0 .. m : f[n] = IF n = 0 THEN start ELSE InsertNext(f[n - 1], blocks[n])
    BY <2>1
  <2> HIDE DEF Is
  <2>4. ASSUME NEW n \in 0 .. m + 1
        PROVE  g[n] = IF n = 0 THEN start ELSE InsertNext(g[n - 1], blocks[n])
    <3>1. CASE n = 0
      BY <2>3, <3>1
    <3>2. CASE n # 0 /\ n <= m
      <4>1. n \in 0 .. m /\ g[n] = f[n] /\ g[n - 1] = f[n - 1]
        BY <2>2, <3>2
      <4> HIDE DEF g
      <4> QED  BY <2>3, <3>2, <4>1
    <3>3. CASE n = m + 1
      <4>1. n # 0 /\ n - 1 = m /\ g[n] = InsertNext(f[m], blocks[m + 1]) /\ g[n - 1] = f[m]
        BY <2>2, <3>3
      <4> HIDE DEF g
      <4> QED  BY <3>3, <4>1
    <3> QED  BY <3>1, <3>2, <3>3
  <2>5. DOMAIN g = 0 .. m + 1 /\ g = [n \in 0 .. m + 1 |-> g[n]]
    OBVIOUS
  <2> HIDE DEF g
  <2>6. g = [n \in 0 .. m + 1 |-> IF n = 0 THEN start ELSE InsertNext(g[n - 1], blocks[n])]
    BY <2>4, <2>5
  <2>7. Is(g, m + 1)
    BY <2>6 DEF Is
  <2> QED  BY <2>7
<1>3. N \in Nat
  OBVIOUS
<1> HIDE DEF T
<1>4. N \in T
  BY <1>1, <1>2, <1>3, NatSetInduction
<1> DEFINE f == CHOOSE f : Is(f, N)
<1>5. Is(f, N)
  BY <1>4 DEF T
<1>6. InsertBlocks(blocks) = f[N]
  BY DEF InsertBlocks
<1> HIDE DEF f
<1>7. f[0] = start
  BY <1>3, <1>5
<1>8. ASSUME NEW n \in 1 .. N PROVE f[n] = InsertNext(f[n - 1], blocks[n])
  <2>1. n \in 0 .. N /\ n # 0
    BY <1>3
  <2> HIDE DEF start
  <2> QED  BY <1>5, <2>1
<1> QED  BY <1>6, <1>7, <1>8 DEF IsInsertRun

LEMMA InsertNextCases ==
    ASSUME NEW run, NEW block
    PROVE  LET r == InsertNext(run, block)
           IN  \/ r.state = run.state
               \/ ~ InsertPanics(run.state, block) /\ r.state = InsertBlock(run.state, block)
BY DEF InsertNext

\* However many blocks of the message are inserted, the state is the ledger of
\* its chain.
LEMMA InsertBlocksAnchored ==
    ASSUME Anchored(state), NEW blocks \in Seq(Block)
    PROVE  Anchored(InsertBlocks(blocks).state)
<1> DEFINE N == Len(blocks)
<1>0. N \in Nat /\ \A n \in 1 .. N : blocks[n] \in Block
  OBVIOUS
<1>1. PICK f : IsInsertRun(f, blocks) /\ InsertBlocks(blocks) = f[N]
  BY InsertBlocksRun
<1> DEFINE T == {n \in Nat : n <= N => Anchored(f[n].state)}
<1>2. 0 \in T
  BY <1>1 DEF IsInsertRun
<1>3. ASSUME NEW n \in Nat, n \in T PROVE n + 1 \in T
  <2> SUFFICES ASSUME n + 1 <= N PROVE Anchored(f[n + 1].state)
    OBVIOUS
  <2>1. n + 1 \in 1 .. N /\ n <= N /\ (n + 1) - 1 = n
    BY <1>0
  <2>2. f[n + 1] = InsertNext(f[n], blocks[n + 1]) /\ blocks[n + 1] \in Block
    BY <1>0, <1>1, <2>1 DEF IsInsertRun
  <2>3. Anchored(f[n].state)
    BY <1>3, <2>1
  <2> QED  BY <2>2, <2>3, InsertNextCases, InsertAnchored
<1> HIDE DEF T
<1>4. N \in T
  BY <1>0, <1>2, <1>3, NatSetInduction
<1> QED  BY <1>0, <1>1, <1>4 DEF T

LEMMA ExecuteAnchored ==
    ASSUME Anchored(state), NEW c \in Calls, Execute(c)
    PROVE  Anchored(state')
<1>1. c.blocks \in Seq(Block)
  BY DEF Calls
<1>2. Anchored(InsertBlocks(c.blocks).state)
  BY <1>1, InsertBlocksAnchored
<1> QED  BY <1>2 DEF Execute

LEMMA AnswerTypes ==
    ASSUME network \subseteq Block, NEW blocks \in Successors(network, request, MaxBatch)
    PROVE  /\ blocks \in Seq(Block)
           /\ \A i \in DOMAIN blocks :
                /\ blocks[i] \in Block /\ blocks[i] \notin request
                /\ Prev[blocks[i]] \in request \cup {blocks[j] : j \in 1 .. i - 1}
                /\ \A j \in 1 .. i - 1 : blocks[j] # blocks[i]
<1>1. blocks \in SeqOf(network \ request, MaxBatch)
  BY DEF Successors
<1>2. PICK m \in 0 .. MaxBatch : blocks \in [1 .. m -> network \ request]
  BY <1>1 DEF SeqOf
<1>3. m \in Nat
  BY <1>2, BoundsAssumption
<1>4. blocks \in [1 .. m -> Block]
  BY <1>2
<1>5. blocks \in Seq(Block)
  BY <1>3, <1>4
<1>6. \A i \in DOMAIN blocks : /\ Prev[blocks[i]] \in request \cup {blocks[j] : j \in 1 .. i - 1}
                              /\ \A j \in 1 .. i - 1 : blocks[j] # blocks[i]
  BY DEF Successors
<1> QED  BY <1>2, <1>4, <1>5, <1>6

LEMMA CallsMade ==
    /\ NoCall \in Calls /\ OutgoingTransaction \in Calls
    /\ \A blocks \in Seq(Block) : SuccessorsResponse(blocks) \in Calls
<1>1. << >> \in Seq(Block)
  BY EmptySeq
<1> QED  BY <1>1 DEF Calls, NoCall, OutgoingTransaction, SuccessorsResponse

LEMMA InitSync == Init => SyncInv
<1> SUFFICES ASSUME Init PROVE SyncInv
  OBVIOUS
<1>1. Anchored(state)
  BY NewAnchored DEF Init
<1>2. << >> \in Seq(Calls) /\ Genesis \in Block
  BY EmptySeq, GenesisAssumption
<1>3. 0 \in 0 .. MaxCrashes
  BY BoundsAssumption
<1> QED  BY <1>1, <1>2, <1>3, CallsMade DEF Init, SyncInv, SyncTypes, Awaits

LEMMA CrashSync ==
    ASSUME SyncInv, Crash
    PROVE  SyncInv'
<1>1. UNCHANGED <<state, network>> /\ pc' = "down" /\ request' = {} /\ call' = NoCall
  BY DEF Crash, canister
<1>2. crashes' \in 0 .. MaxCrashes
  BY BoundsAssumption DEF Crash, SyncInv, SyncTypes
<1>3. orphans' \in Seq(Calls)
  BY AppendProperties DEF Crash, SyncInv, SyncTypes
<1> QED  BY <1>1, <1>2, <1>3, CallsMade DEF SyncInv, SyncTypes, Awaits

LEMMA OrphanSync ==
    ASSUME SyncInv, NEW i \in DOMAIN orphans, ExecuteOrphan(i)
    PROVE  SyncInv'
<1>1. /\ Execute(orphans[i]) /\ orphans' = RemoveAt(orphans, i)
      /\ UNCHANGED <<pc, request, call, network, crashes>>
  BY DEF ExecuteOrphan, shim, outside
<1>2. orphans \in Seq(Calls) /\ i \in 1 .. Len(orphans) /\ orphans[i] \in Calls
  BY DEF SyncInv, SyncTypes
<1>3. orphans' \in Seq(Calls)
  BY <1>1, <1>2, RemoveAtFacts
<1>4. Anchored(state')
  BY <1>1, <1>2, ExecuteAnchored DEF SyncInv
<1> QED  BY <1>1, <1>3, <1>4 DEF SyncInv, SyncTypes

LEMMA NextSync == SyncInv /\ [Next]_vars => SyncInv'
<1> SUFFICES ASSUME SyncInv, [Next]_vars PROVE SyncInv'
  OBVIOUS
<1>1. CASE GetSuccessors
  <2>1. PICK blocks \in Successors(network, request, MaxBatch) : call' = SuccessorsResponse(blocks)
    BY <1>1 DEF GetSuccessors
  <2>2. call' \in Calls
    BY <2>1, AnswerTypes, CallsMade DEF SyncInv, SyncTypes
  <2>3. pc' = "response" /\ request' = {} /\ UNCHANGED <<state, orphans, network, crashes>>
    BY <1>1 DEF GetSuccessors, canister, outside
  <2> QED  BY <2>2, <2>3 DEF SyncInv, SyncTypes, Awaits
<1>2. CASE ResponseExecuted \/ ResponseTrapped \/ PopExecuted
  <2>1. /\ Execute(call) /\ call' = NoCall /\ UNCHANGED <<request, orphans, network, crashes>>
        /\ pc' \in Awaits
    BY <1>2 DEF ResponseExecuted, ResponseTrapped, PopExecuted, outside, Awaits
  <2>2. Anchored(state')
    BY <2>1, ExecuteAnchored DEF SyncInv, SyncTypes
  <2> QED  BY <2>1, <2>2, CallsMade DEF SyncInv, SyncTypes
<1>3. CASE QueryRequest
  <2>1. /\ request' = Known(state) /\ pc' = "adapter"
        /\ UNCHANGED <<state, call, orphans, network, crashes>>
    BY <1>3 DEF QueryRequest, canister, outside
  <2>2. Known(state) \subseteq Block
    BY DEF SyncInv, Anchored, StateOK, Known
  <2> QED  BY <2>1, <2>2 DEF SyncInv, SyncTypes, Awaits
<1>4. CASE QueryOutgoing
  <2>1. /\ pc' \in Awaits /\ call' \in {call, OutgoingTransaction}
        /\ UNCHANGED <<state, request, orphans, network, crashes>>
    BY <1>4 DEF QueryOutgoing, canister, outside, Awaits
  <2> QED  BY <2>1, CallsMade DEF SyncInv, SyncTypes
<1>5. CASE GetSuccessorsError \/ SendToAdapter \/ SendError \/ Restart
  <2>1. /\ pc' \in Awaits /\ request' \in {request, {}}
        /\ UNCHANGED <<state, call, orphans, network, crashes>>
    BY <1>5 DEF GetSuccessorsError, SendToAdapter, SendError, Restart, canister, outside, Awaits
  <2> QED  BY <2>1 DEF SyncInv, SyncTypes
<1>6. CASE Crash
  BY <1>6, CrashSync
<1>7. CASE \E i \in DOMAIN orphans : ExecuteOrphan(i)
  BY <1>7, OrphanSync
<1>8. CASE \/ UNCHANGED vars
           \/ \E tx \in Payment : SendTransaction(tx)
           \/ \E block \in Block \ {Genesis} : NewBlock(block)
  <2>1. /\ UNCHANGED <<state, pc, request, call, orphans, crashes>>
        /\ network' \subseteq Block
    BY <1>8 DEF vars, SendTransaction, NewBlock, canister, shim, outside, SyncInv, SyncTypes
  <2> QED  BY <2>1 DEF SyncInv, SyncTypes
<1> QED  BY <1>1, <1>2, <1>3, <1>4, <1>5, <1>6, <1>7, <1>8 DEF Next, Shim

LEMMA SpecSync == Spec => []SyncInv
BY InitSync, NextSync, PTL DEF Spec

\* State, queues, calls and orphans keep their types, whatever shims end and
\* whatever is executed late.
THEOREM SyncTypeOK == Spec => []TypeOK
<1>1. ASSUME IInv, SyncInv PROVE TypeOK
  <2>1. /\ state.height \in Nat /\ Anchor \in Block
        /\ GetBlocks(Trees) \subseteq Block
    BY <1>1 DEF SyncInv, Anchored, StateOK, Anchor, Trees
  <2>2. /\ call.method \in {"none", "get_successors_response", "get_outgoing_transaction"}
        /\ call.blocks \in Seq(Block)
    BY <1>1 DEF SyncInv, SyncTypes, Calls
  <2>3. \A i \in DOMAIN orphans : orphans[i].blocks \in Seq(Block)
    <3>1. orphans \in Seq(Calls)
      BY <1>1 DEF SyncInv, SyncTypes
    <3>2. \A i \in DOMAIN orphans : orphans[i] \in Calls
      BY <3>1
    <3>3. \A c \in Calls : c.blocks \in Seq(Block)
      BY DEF Calls
    <3> QED  BY <3>2, <3>3
  <2> QED  BY <1>1, <2>1, <2>2, <2>3 DEF TypeOK, IInv, Queues, SyncInv, SyncTypes
<1>2. IInv /\ [Next]_vars => IInv'
  BY NextIInv
<1> QED  BY <1>1, <1>2, InitIInv, SpecSync, PTL DEF Spec

\* The height and the UTXOs of the canister are always those of the chain of
\* its last stable block, whatever shims end and leave behind, whatever is
\* delivered twice and whatever traps.
THEOREM StateAlwaysLedger == Spec => []StateIsLedger
<1>1. SyncInv => StateIsLedger
  BY DEF SyncInv, Anchored, StateIsLedger
<1> QED  BY <1>1, SpecSync, PTL

\* Every stable block the canister has ever taken spends outputs that the
\* chain before it leaves unspent, each once.
THEOREM StableAlwaysSpendable == Spec => []StableIsSpendable
<1>1. ASSUME SyncInv, NEW i \in 2 .. state.height
      PROVE  LET chain == ChainTo(Anchor)
             IN  L!Spendable(UnspentAfter(chain[i - 1]), TxData[chain[i]])
  <2> DEFINE chain == ChainTo(Anchor)
             N == Cardinality(Past[Anchor])
             b == chain[i]
             a == chain[i - 1]
  <2>1. Anchor \in Block /\ state.height = N /\ SpendableChain(Anchor)
    BY <1>1 DEF SyncInv, Anchored, StateOK, IsLedger, Anchor
  <2>2. N \in Nat /\ \A n \in 1 .. N : chain[n] \in Past[Anchor] /\ Cardinality(Past[chain[n]]) = n
    BY <2>1, ChainToFacts, PastGrows
  <2> HIDE DEF chain, N
  <2>3. i \in 1 .. N /\ i - 1 \in 1 .. N /\ i # 1
    BY <1>1, <2>1, <2>2
  <2>4. /\ b \in Past[Anchor] /\ Cardinality(Past[b]) = i
        /\ a \in Past[Anchor] /\ Cardinality(Past[a]) = i - 1
    BY <2>2, <2>3
  <2> HIDE DEF a, b
  <2>5. Past[Anchor] \subseteq Block
    BY <2>1, PastFacts
  <2>6. b # Genesis
    <3>1. Genesis \in Block /\ Prev[Genesis] \notin Block
      BY GenesisAssumption, PrevAssumption
    <3> QED  BY <2>3, <2>4, <3>1, PastGrows
  <2>7. Prev[b] \in Block /\ L!Spendable(UnspentAfter(Prev[b]), TxData[b])
    BY <2>1, <2>4, <2>6 DEF SpendableChain
  <2>8. Prev[b] = a
    <3>1. b \in Block /\ Past[b] \subseteq Past[Anchor]
      BY <2>1, <2>4, <2>5, PastFacts
    <3>2. Prev[b] \in Past[b]
      BY <2>7, <3>1, PastDef, PastFacts
    <3>3. Cardinality(Past[Prev[b]]) = i - 1
      <4>1. Cardinality(Past[b]) = Cardinality(Past[Prev[b]]) + 1 /\ Cardinality(Past[Prev[b]]) \in Nat
        BY <2>7, <3>1, PastGrows
      <4> QED  BY <2>4, <4>1
    <3> QED  BY <2>1, <2>4, <3>1, <3>2, <3>3, PastSizes
  <2> QED  BY <2>7, <2>8 DEF a, b, chain
<1>2. SyncInv => StableIsSpendable
  BY <1>1 DEF StableIsSpendable
<1> QED  BY <1>2, SpecSync, PTL

-----------------------------------------------------------------------------
(* Answers and the state they meet.                                        *)

FreshFor(s, blocks) ==
    \A i \in DOMAIN blocks :
        /\ blocks[i] \notin Unstable(s) \cup Stable(s)
        /\ Prev[blocks[i]] \in Known(s) \cup {blocks[j] : j \in 1 .. i - 1}
        /\ \A j \in 1 .. i - 1 : blocks[j] # blocks[i]

\* As long as no shim was killed: nothing is left behind that could change the
\* state between a request and the answer to it.
FreshInv ==
    crashes = 0 =>
        /\ orphans = << >>
        /\ UnstableNotStable
        /\ pc = "adapter" => request = Known(state)
        /\ pc = "response" => FreshFor(state, call.blocks)
        /\ pc # "response" => call.blocks = << >>

\* No block of an answer is stable: the one that comes first on the chain would
\* build on the last stable block or on an unstable one.
LEMMA AnswerNotStable ==
    ASSUME NEW s, StateOK(s), Unstable(s) \cap Stable(s) = {},
           NEW blocks \in Seq(Block),
           \A i \in DOMAIN blocks :
               /\ blocks[i] \notin Known(s)
               /\ Prev[blocks[i]] \in Known(s) \cup {blocks[j] : j \in 1 .. i - 1}
    PROVE  \A i \in DOMAIN blocks : blocks[i] \notin Stable(s)
<1> DEFINE anchor == s.latest_stable_block_hash
           R == {blocks[i] : i \in DOMAIN blocks}
           B == R \cap Past[anchor]
<1>1. anchor \in Block /\ Unstable(s) \subseteq Block /\ R \subseteq Block
  <2>1. \A i \in DOMAIN blocks : blocks[i] \in Block
    OBVIOUS
  <2> QED  BY <2>1 DEF StateOK, Unstable
<1>2. \A b \in R : b \notin Known(s) /\ Prev[b] \in Known(s) \cup R
  <2>1. \A i \in DOMAIN blocks : \A j \in 1 .. i - 1 : j \in DOMAIN blocks
    OBVIOUS
  <2> QED  BY <2>1
<1>3. ASSUME B # {} PROVE FALSE
  <2>1. PICK b \in B : Prev[b] \notin B
    BY <1>1, <1>3, FirstBlock
  <2>2. b \in Block /\ b \in Past[anchor] /\ b # anchor
    BY <1>1, <1>2 DEF Known
  <2>3. Prev[b] \in Block
    BY <1>1, <1>2 DEF Known, Unstable
  <2>4. Prev[b] \in Past[b] /\ Past[b] \subseteq Past[anchor]
    BY <1>1, <2>2, <2>3, PastDef, PastFacts
  <2>5. CASE Prev[b] \in R
    BY <2>1, <2>4, <2>5
  <2>6. CASE Prev[b] \in Unstable(s)
    BY <2>4, <2>6 DEF Stable
  <2>7. CASE Prev[b] = anchor
    BY <1>1, <2>2, <2>4, <2>7, PastAntisymmetric
  <2> QED  BY <1>2, <2>5, <2>6, <2>7 DEF Known, Unstable
<1> QED  BY <1>3 DEF Stable

\* The blocks of an answer that is fresh are inserted one by one, and none of
\* them ends among the stable and the unstable blocks at once.
LEMMA InsertFresh ==
    ASSUME StateOK(state), UnstableNotStable, NEW blocks \in Seq(Block),
           FreshFor(state, blocks)
    PROVE  LET s == InsertBlocks(blocks).state
           IN  Unstable(s) \cap Stable(s) = {}
<1> DEFINE N == Len(blocks)
           Old == Unstable(state) \cup Stable(state)
           Done(n) == {blocks[j] : j \in 1 .. n}
           Good(s, n) == /\ StateOK(s) /\ Unstable(s) \cap Stable(s) = {}
                         /\ Unstable(s) \cup Stable(s) \subseteq Old \cup Done(n)
<1>0. N \in Nat /\ DOMAIN blocks = 1 .. N /\ \A n \in 1 .. N : blocks[n] \in Block
  OBVIOUS
<1>1. PICK f : IsInsertRun(f, blocks) /\ InsertBlocks(blocks) = f[N]
  BY InsertBlocksRun
<1> DEFINE T == {n \in Nat : n <= N => Good(f[n].state, n)}
<1>2. 0 \in T
  <2>1. f[0].state = state
    BY <1>1 DEF IsInsertRun
  <2>2. Unstable(state) \cap Stable(state) = {}
    BY DEF UnstableNotStable, Unstable, Stable, Trees, Anchor
  <2> QED  BY <2>1, <2>2
<1>3. ASSUME NEW n \in Nat, n \in T PROVE n + 1 \in T
  <2> SUFFICES ASSUME n + 1 <= N PROVE Good(f[n + 1].state, n + 1)
    OBVIOUS
  <2> DEFINE s == f[n].state
             b == blocks[n + 1]
             r == f[n + 1].state
  <2>1. n + 1 \in 1 .. N /\ n <= N /\ (n + 1) - 1 = n
    BY <1>0
  <2>2. f[n + 1] = InsertNext(f[n], b) /\ b \in Block
    BY <1>0, <1>1, <2>1 DEF IsInsertRun
  <2>3. Good(s, n)
    BY <1>3, <2>1
  <2>4. b \notin Old \cup Done(n)
    BY <1>0, <2>1 DEF FreshFor
  <2>5. Done(n + 1) = Done(n) \cup {b}
    <3>1. \A j : j \in 1 .. n + 1 <=> j \in 1 .. n \/ j = n + 1
      BY <2>1
    <3> QED  BY <3>1
  <2>6. r = s \/ (~ InsertPanics(s, b) /\ r = InsertBlock(s, b))
    BY <2>2, InsertNextCases
  <2> HIDE DEF Old, Done, s, b, r
  <2>7. CASE r = s
    BY <2>3, <2>5, <2>7 DEF r
  <2>8. CASE ~ InsertPanics(s, b) /\ r = InsertBlock(s, b)
    <3>1. StateOK(r)
      BY <2>2, <2>3, <2>8, InsertState
    <3>2. /\ Unstable(r) \cap Stable(r) = {}
          /\ Unstable(r) \subseteq Unstable(s) \cup {b}
          /\ Stable(r) \subseteq Stable(s) \cup Unstable(s) \cup {b}
      BY <2>2, <2>3, <2>4, <2>8, InsertUnstable
    <3> QED  BY <2>3, <2>5, <3>1, <3>2 DEF r
  <2> QED  BY <2>6, <2>7, <2>8
<1> HIDE DEF T
<1>4. N \in T
  BY <1>0, <1>2, <1>3, NatSetInduction
<1> QED  BY <1>0, <1>1, <1>4 DEF T

LEMMA InitFresh == Init => FreshInv
<1> SUFFICES ASSUME Init PROVE FreshInv
  OBVIOUS
<1>1. GetBlocks(Trees) = {}
  BY NewStateOK DEF Init, Trees
<1> QED  BY <1>1 DEF Init, FreshInv, UnstableNotStable, NoCall

\* A step that leaves the state alone and comes to another await than these.
LEMMA StateStays ==
    ASSUME FreshInv, UNCHANGED <<state, orphans, crashes>>,
           pc' \notin {"adapter", "response"}, call'.blocks = << >>
    PROVE  FreshInv'
BY DEF FreshInv, UnstableNotStable, Trees, Anchor

LEMMA NextFresh == SyncInv /\ IInv /\ FreshInv /\ [Next]_vars => FreshInv'
<1> SUFFICES ASSUME SyncInv, IInv, FreshInv, [Next]_vars, crashes' = 0 PROVE FreshInv'
  BY DEF FreshInv
<1>0. StateOK(state) /\ crashes \in Nat
  BY BoundsAssumption DEF SyncInv, Anchored, SyncTypes
<1>1. CASE crashes # 0
  <2>1. crashes' # 0
    BY <1>0, <1>1 DEF Next, Shim, Crash, QueryRequest, GetSuccessors, GetSuccessorsError,
       ResponseExecuted, ResponseTrapped, QueryOutgoing, PopExecuted, SendToAdapter,
       SendError, SendTransaction, NewBlock, ExecuteOrphan, Restart, vars, outside
  <2> QED  BY <2>1
<1>2. CASE crashes = 0
  <2>0. /\ orphans = << >> /\ UnstableNotStable
        /\ pc = "adapter" => request = Known(state)
        /\ pc = "response" => FreshFor(state, call.blocks)
        /\ pc # "response" => call.blocks = << >>
    BY <1>2 DEF FreshInv
  <2>1. CASE GetSuccessors
    <3>1. /\ pc' = "response" /\ UNCHANGED <<state, orphans, crashes>> /\ request = Known(state)
      BY <2>0, <2>1 DEF GetSuccessors, canister, outside
    <3>2. PICK blocks \in Successors(network, request, MaxBatch) : call' = SuccessorsResponse(blocks)
      BY <2>1 DEF GetSuccessors
    <3>3. /\ blocks \in Seq(Block)
          /\ \A i \in DOMAIN blocks :
               /\ blocks[i] \notin Known(state)
               /\ Prev[blocks[i]] \in Known(state) \cup {blocks[j] : j \in 1 .. i - 1}
               /\ \A j \in 1 .. i - 1 : blocks[j] # blocks[i]
      BY <3>1, AnswerTypes DEF SyncInv, SyncTypes
    <3>4. \A i \in DOMAIN blocks : blocks[i] \notin Stable(state)
      <4>1. Unstable(state) \cap Stable(state) = {}
        BY <2>0 DEF UnstableNotStable, Unstable, Stable, Trees, Anchor
      <4> QED  BY <1>0, <3>3, <4>1, AnswerNotStable
    <3>5. FreshFor(state, blocks)
      BY <3>3, <3>4 DEF FreshFor, Known, Unstable
    <3>6. call'.blocks = blocks
      BY <3>2 DEF SuccessorsResponse
    <3> QED  BY <2>0, <3>1, <3>5, <3>6 DEF FreshInv, UnstableNotStable, Trees, Anchor
  <2>2. CASE ResponseExecuted
    <3>1. /\ pc = "response" /\ Execute(call) /\ call' = NoCall /\ pc' = "outgoing"
          /\ UNCHANGED <<orphans, crashes>>
      BY <2>2 DEF ResponseExecuted, outside
    <3> DEFINE s == InsertBlocks(call.blocks).state
    <3>2. call.blocks \in Seq(Block) /\ FreshFor(state, call.blocks)
      BY <2>0, <3>1 DEF SyncInv, SyncTypes, Calls
    <3>3. Unstable(s) \cap Stable(s) = {}
      BY <1>0, <2>0, <3>2, InsertFresh
    <3>4. state' = s
      BY <2>2, <3>1 DEF Execute, ResponseExecuted, IInv, ShimHolds
    <3> HIDE DEF s
    <3>5. UnstableNotStable'
      BY <3>3, <3>4 DEF UnstableNotStable, Unstable, Stable, Trees, Anchor
    <3> QED  BY <2>0, <3>1, <3>5 DEF FreshInv, NoCall
  <2>3. CASE ResponseTrapped \/ PopExecuted
    <3>1. /\ UNCHANGED <<orphans, crashes>> /\ call' = NoCall
          /\ pc' \notin {"adapter", "response"}
      BY <2>3 DEF ResponseTrapped, PopExecuted, outside
    <3>2. UNCHANGED state
      BY <2>3 DEF ResponseTrapped, PopExecuted, Execute, IInv, ShimHolds, OutgoingTransaction
    <3> QED  BY <3>1, <3>2, StateStays DEF NoCall
  <2>4. CASE QueryRequest
    <3>1. /\ pc = "request" /\ pc' = "adapter" /\ request' = Known(state)
          /\ UNCHANGED <<state, call, orphans, crashes>>
      BY <2>4 DEF QueryRequest, canister, outside
    <3> QED  BY <2>0, <3>1 DEF FreshInv, UnstableNotStable, Trees, Anchor
  <2>5. CASE QueryOutgoing
    <3>1. /\ pc = "outgoing" /\ pc' \in {"request", "pop"} /\ call' \in {call, OutgoingTransaction}
          /\ UNCHANGED <<state, orphans, crashes>>
      BY <2>5 DEF QueryOutgoing, canister, outside
    <3>2. call'.blocks = << >>
      BY <2>0, <3>1 DEF OutgoingTransaction
    <3> QED  BY <3>1, <3>2, StateStays
  <2>6. CASE GetSuccessorsError \/ SendToAdapter \/ SendError \/ Restart
    <3>1. /\ pc # "response" /\ pc' \in {"outgoing", "request"}
          /\ UNCHANGED <<state, call, orphans, crashes>>
      BY <2>6 DEF GetSuccessorsError, SendToAdapter, SendError, Restart, canister, outside
    <3> QED  BY <2>0, <3>1, StateStays
  <2>7. CASE Crash
    BY <1>0, <2>7 DEF Crash
  <2>8. CASE \E i \in DOMAIN orphans : ExecuteOrphan(i)
    <3>1. DOMAIN orphans = {}
      BY <2>0
    <3> QED  BY <2>8, <3>1
  <2>9. CASE \/ UNCHANGED vars
             \/ \E tx \in Payment : SendTransaction(tx)
             \/ \E block \in Block \ {Genesis} : NewBlock(block)
    <3>1. UNCHANGED <<state, pc, request, call, orphans, crashes>>
      BY <2>9 DEF vars, SendTransaction, NewBlock, canister, shim, outside
    <3> QED  BY <2>0, <3>1 DEF FreshInv, UnstableNotStable, Trees, Anchor
  <2> QED  BY <2>1, <2>2, <2>3, <2>4, <2>5, <2>6, <2>7, <2>8, <2>9 DEF Next, Shim
<1> QED  BY <1>1, <1>2

LEMMA SpecFresh == Spec => []FreshInv
<1>1. IInv /\ [Next]_vars => IInv'
  BY NextIInv
<1> QED  BY <1>1, InitIInv, InitSync, InitFresh, NextSync, NextFresh, PTL DEF Spec

\* As long as no shim is killed, no unstable block is stable as well.
THEOREM UnstableStaysUnstable == Spec => [](crashes = 0 => UnstableNotStable)
<1>1. FreshInv => (crashes = 0 => UnstableNotStable)
  BY DEF FreshInv
<1> QED  BY <1>1, SpecFresh, PTL

\* As long as no shim is killed, an answer of the adapter meets the state it was
\* asked for: each of its blocks is new to the canister and builds on a block
\* the canister holds or on an earlier one of the answer.
THEOREM AnswersStayFresh == Spec => [](crashes = 0 => AnswerStillFresh)
<1>1. FreshInv => (crashes = 0 => AnswerStillFresh)
  <2> SUFFICES ASSUME FreshInv, crashes = 0 PROVE AnswerStillFresh
    OBVIOUS
  <2>1. CASE pc = "response"
    BY <2>1 DEF FreshInv, FreshFor, AnswerStillFresh, Unstable, Stable, Known, Trees, Anchor
  <2>2. CASE pc # "response"
    <3>1. DOMAIN call.blocks = {}
      BY <2>2 DEF FreshInv
    <3> QED  BY <3>1 DEF AnswerStillFresh
  <2> QED  BY <2>1, <2>2
<1> QED  BY <1>1, SpecFresh, PTL
=============================================================================
